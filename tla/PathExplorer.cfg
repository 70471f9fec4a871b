\* Loops of two items and of one, in different views; four layouts of three nodes.
SPECIFICATION PathFairSpec
CONSTANTS
  r = r
  outer = outer
  inner = inner
  g = g
  Roles = {r}
  Loops = {outer, inner}
  Tasks = {}
  Ghosts = {g}
  Within <- MCWithin
  Counter <- MCCounter
  Rows <- MCRows
  Main = main
  None = none
  Failed = failed
  MaxInFlight = 1
  MaxCached = 1
  main = main
  role = role
  once = once
  twice = twice
  a = a
  b = b
  item = item
  Layouts = {main, role, once, twice}
  Cards = {a, b, item}
  CardsIn <- MCCardsIn
  First <- MCFirst
  Size <- MCSize
  HasSource = {a, b}
  Nothing = none
  Spinner = spinner
  Error = error
INVARIANTS
  ShownIsAsked
  IterationExists
  PictureIsPlaced
  WheelWorks
PROPERTIES
  OpenViewLoads
  GestureStays
