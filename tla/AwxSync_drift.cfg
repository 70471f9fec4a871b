\* AWX's clean-up removes a job between two pages of one listing.
SPECIFICATION Spec
CONSTANTS
  Workers = {"auto"}
  ManualWorkers = {}
  NoWorker = "nobody"
  MaxJob = 3
  PageSize = 1
  OddJobs = {}
  SelfConflicting = {}
  Unfetchable = {}
  InOrder = TRUE
  Retention = FALSE
  Deletable = FALSE
  MaxPurges = 1
  MaxFaults = 0
  MaxCrashes = 0
  MaxLockLosses = 0
INVARIANTS NothingLost
CHECK_DEADLOCK FALSE
