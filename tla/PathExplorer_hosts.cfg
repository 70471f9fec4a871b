\* A loop that two hosts ran.
SPECIFICATION Spec
CONSTANTS
  r = r
  outer = outer
  inner = inner
  g = g
  Roles = {r}
  Loops = {outer, inner}
  Tasks = {}
  Ghosts = {g}
  Within <- MCWithin
  Counter <- MCCounter
  Rows <- MCRowsHosts
  Main = main
  None = none
  Failed = failed
  MaxInFlight = 1
  MaxCached = 1
INVARIANTS
  DrawerMatchesIteration
