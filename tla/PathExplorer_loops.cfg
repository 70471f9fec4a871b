\* Two loops in one view.
SPECIFICATION Spec
CONSTANTS
  r = r
  outer = outer
  inner = inner
  g = g
  Roles = {r}
  Loops = {outer, inner}
  Tasks = {}
  Ghosts = {g}
  Within <- MCFlat
  Counter <- MCCounter
  Rows <- MCRows
  Main = main
  None = none
  Failed = failed
  MaxInFlight = 1
  MaxCached = 1
INVARIANTS
  IterationExists
