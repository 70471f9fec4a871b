\* One account, one browser, other devices. The users may stop: no deadlock check.
SPECIFICATION FairSpec
CONSTANTS
  None = none
  Undefined = undefined
  MaxEvents = 4
INVARIANTS
  MeIsFresh
PROPERTIES
  CodesAreSeen
  GetsIn
CHECK_DEADLOCK FALSE
