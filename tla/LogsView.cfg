\* Two pages of two runs, one controller, one condition and one search.
SPECIFICATION Spec
CONSTANTS
  Tabs = {"mine", "team"}
  SortKeys = {"when"}
  Sources = {ctl}
  Facets = {facet}
  Words = {word}
  Runs = {1, 2, 3}
  Labels <- MCLabels
  Column <- MCColumn
  Size = 2
  Starts = {{1, 2, 3}, {}}
  ctl = ctl
  facet = facet
  word = word
  Blank = blank
  None = none
  MaxEvents = 4
INVARIANTS
  ListIsOfTheView
PROPERTIES
  ViewReturns
