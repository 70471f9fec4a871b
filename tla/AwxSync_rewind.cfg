\* A second task loaded the controller before the first one's sync.
SPECIFICATION Spec
CONSTANTS
  Workers = {"auto", "hand"}
  ManualWorkers = {"hand"}
  NoWorker = "nobody"
  MaxJob = 2
  PageSize = 2
  OddJobs = {}
  SelfConflicting = {}
  Unfetchable = {}
  InOrder = TRUE
  Retention = TRUE
  Deletable = FALSE
  MaxPurges = 0
  MaxFaults = 0
  MaxCrashes = 0
  MaxLockLosses = 0
PROPERTIES ForwardOnly
