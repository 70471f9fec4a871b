--------------------------- MODULE MCPathExplorer ---------------------------
(* Instances of PathExplorer for TLC: a run whose main view lists a loop   *)
(* and a role, and whose role lists another loop and a ghost.              *)
EXTENDS PathExplorer, TLC

CONSTANTS r, outer, inner, g

MCWithin  == [n \in {r, outer, inner, g} |-> IF n \in {inner, g} THEN r ELSE Main]
\* Both loops in the main view.
MCFlat    == [n \in {r, outer, inner, g} |-> IF n = g THEN r ELSE Main]
MCCounter == (outer :> 1 @@ r :> 2 @@ inner :> 3 @@ g :> 4)

\* One host: a row per item; the last item failed (statuses by rank).
OneHost(items) == [n \in 1..items |-> [item |-> n - 1, status |-> IF n = items THEN 2 ELSE 1]]
\* Two hosts: a row per item and host.
TwoHosts(items) ==
  [n \in 1..2 * items |-> [item |-> (n - 1) \div 2, status |-> IF n > 2 * items - 2 THEN 2 ELSE 1]]

MCRows      == (outer :> OneHost(2) @@ inner :> OneHost(1))
MCRowsHosts == (outer :> TwoHosts(2) @@ inner :> OneHost(1))
=============================================================================
