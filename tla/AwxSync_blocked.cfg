\* A job whose events cannot be fetched, before another one.
SPECIFICATION FairSpec
CONSTANTS
  Workers = {"auto"}
  ManualWorkers = {}
  NoWorker = "nobody"
  MaxJob = 2
  PageSize = 2
  OddJobs = {}
  SelfConflicting = {}
  Unfetchable = {1}
  InOrder = TRUE
  Retention = FALSE
  Deletable = FALSE
  MaxPurges = 0
  MaxFaults = 0
  MaxCrashes = 0
  MaxLockLosses = 0
PROPERTIES FetchableIsImported
CHECK_DEADLOCK FALSE
