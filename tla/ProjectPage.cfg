\* One administrator's page. The users may stop: no deadlock check.
SPECIFICATION FairSpec
CONSTANTS
  None = none
  Undefined = undefined
  Refused = refused
  MaxEvents = 2
INVARIANTS
  UploadsAreShown
PROPERTIES
  EndIsSeen
  SourceAppears
CHECK_DEADLOCK FALSE
