---------------------------- MODULE MCPathCanvas ----------------------------
(* An instance of PathCanvas for TLC: the main view, a role that is drawn  *)
(* as large as it, and two iterations of a loop, which look alike.         *)
EXTENDS PathCanvas, TLC

CONSTANTS main, role, once, twice, a, b, item

MCCardsIn == (main :> {a, b} @@ role :> {b} @@ once :> {item} @@ twice :> {item})
MCFirst   == (main :> a @@ role :> b @@ once :> item @@ twice :> item)
MCSize    == (main :> 2 @@ role :> 2 @@ once :> 1 @@ twice :> 1)
=============================================================================
