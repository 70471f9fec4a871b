\* Jobs end out of order, and AWX lists the finished ones only.
SPECIFICATION Spec
CONSTANTS
  Workers = {"auto"}
  ManualWorkers = {}
  NoWorker = "nobody"
  MaxJob = 2
  PageSize = 2
  OddJobs = {}
  SelfConflicting = {}
  Unfetchable = {}
  InOrder = FALSE
  Retention = FALSE
  Deletable = FALSE
  MaxPurges = 0
  MaxFaults = 0
  MaxCrashes = 0
  MaxLockLosses = 0
INVARIANTS NotLeapfrogged
