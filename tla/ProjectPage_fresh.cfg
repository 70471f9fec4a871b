\* The tree at HEAD that is younger than its stale time is not fetched again when its
\* query is enabled by the end of a clone.
SPECIFICATION Spec
CONSTANTS
  None = none
  Undefined = undefined
  Refused = refused
  MaxEvents = 2
PROPERTIES
  EnabledIsFresh
CHECK_DEADLOCK FALSE
