\* Jobs end out of order over several pages, and the last of them is listed open.
SPECIFICATION Spec
CONSTANTS
  Workers = {"auto"}
  ManualWorkers = {}
  NoWorker = "nobody"
  MaxJob = 6
  PageSize = 1
  OddJobs = {4}
  SelfConflicting = {}
  Unfetchable = {}
  InOrder = FALSE
  Retention = FALSE
  Deletable = FALSE
  MaxPurges = 1
  MaxFaults = 0
  MaxCrashes = 0
  MaxLockLosses = 0
PROPERTIES ForwardOnly
CHECK_DEADLOCK FALSE
