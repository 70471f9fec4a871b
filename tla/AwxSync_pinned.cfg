\* A manual-mode controller: the process dies during a sync.
SPECIFICATION FairSpec
CONSTANTS
  Workers = {"hand", "hand2"}
  ManualWorkers = {"hand", "hand2"}
  NoWorker = "nobody"
  MaxJob = 2
  PageSize = 2
  OddJobs = {}
  SelfConflicting = {}
  Unfetchable = {}
  InOrder = TRUE
  Retention = FALSE
  Deletable = FALSE
  MaxPurges = 0
  MaxFaults = 0
  MaxCrashes = 1
  MaxLockLosses = 0
PROPERTIES NeverPinned
CHECK_DEADLOCK FALSE
