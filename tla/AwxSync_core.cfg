\* Two tasks, an odd job, one purge, one error, one crash, one lost lock
\* connection.
SPECIFICATION Spec
CONSTANTS
  Workers = {"auto", "hand"}
  ManualWorkers = {"hand"}
  NoWorker = "nobody"
  MaxJob = 2
  PageSize = 2
  OddJobs = {1}
  SelfConflicting = {}
  Unfetchable = {}
  InOrder = TRUE
  Retention = FALSE
  Deletable = FALSE
  MaxPurges = 1
  MaxFaults = 1
  MaxCrashes = 1
  MaxLockLosses = 1
INVARIANTS
  TypeOK
  SyncsNeverOverlap
  LockHasOwner
  NothingLost
  IdleNotRunning
