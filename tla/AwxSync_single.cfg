\* Only the interval job of one scheduler (max_instances = 1), pages of one job,
\* one odd and unfetchable job, one that conflicts with itself, one purge that may
\* fall between two pages, retention and the deletion of the controller in the
\* middle of a sync, one error and one crash that later syncs make up for.
SPECIFICATION FairSpec
CONSTANTS
  Workers = {"auto"}
  ManualWorkers = {}
  NoWorker = "nobody"
  MaxJob = 4
  PageSize = 1
  OddJobs = {2}
  SelfConflicting = {4}
  Unfetchable = {2}
  InOrder = TRUE
  Retention = TRUE
  Deletable = TRUE
  MaxPurges = 1
  MaxFaults = 1
  MaxCrashes = 1
  MaxLockLosses = 0
INVARIANTS
  RunningIsVisible
  NoOrphanRuns
  OnlyUnseenAreMissed
PROPERTIES
  LedgerSpec
  NeverPinned
  FinishedIsImported
CHECK_DEADLOCK FALSE
