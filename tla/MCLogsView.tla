----------------------------- MODULE MCLogsView -----------------------------
(* An instance of LogsView for TLC: three runs of the user and their team, *)
(* two of them of the same time.                                           *)
EXTENDS LogsView, TLC

CONSTANTS ctl, facet, word

MCLabels == (1 :> {"mine", "team", word} @@ 2 :> {"mine", "team", ctl} @@ 3 :> {"mine", "team", ctl, facet})
MCColumn == ("when" :> (1 :> 7 @@ 2 :> 5 @@ 3 :> 7))
=============================================================================
