------------------------------- MODULE MCPath -------------------------------
(* One run for the two components of the Path Explorer's page.  They share *)
(* no state: the canvas takes any layout at any time, whatever tree the    *)
(* navigation shows.  So TLC follows the one or the other, and the product *)
(* of their states, which says no more, is left out.                       *)
EXTENDS MCPathExplorer, MCPathCanvas

VARIABLE side  \* the component that steps: "tree" or "canvas"

pathVars == <<vars, canvasVars, side>>

(* Before its first tree the page is a spinner; a canvas may start with a  *)
(* layout whose tree is cached.                                            *)
PathInit ==
  /\ Init /\ CanvasInit
  /\ side \in {"tree", "canvas"}
  /\ side = "tree" => page = Spinner

TreeStep ==
  /\ side = "tree" /\ Next
  /\ UNCHANGED <<canvasVars, side>>

CanvasStep ==
  /\ side = "canvas" /\ CanvasNext
  /\ UNCHANGED <<vars, side>>

(* The fairness is PathExplorer's: the request for the open view ends.     *)
PathFairSpec ==
  /\ PathInit /\ [][TreeStep \/ CanvasStep]_pathVars
  /\ WF_pathVars(/\ side = "tree"
                 /\ \E q \in flight : /\ q.key = TreeKey(view, iter, neverRun)
                                      /\ Answer(q) \/ RequestFails(q)
                 /\ UNCHANGED <<canvasVars, side>>)

(* ViewLoads, where the navigation is what steps: a view that stays open   *)
(* is loaded, or said to have failed, whatever else is under way.          *)
OpenViewLoads == side = "tree" => ViewLoads
=============================================================================
