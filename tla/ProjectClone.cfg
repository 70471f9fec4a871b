\* A requested clone and the re-fetch job, two sources and one that git cannot
\* clone, one change of the surroundings and one mishap.  A deleted project
\* may leave nothing to do.
SPECIFICATION FairSpec
CONSTANTS
  Urls = {a, b, ssh}
  Clonable = {a, b}
  Mirrored = {a}
  NoUrl = nourl
  Requested = {req}
  Job = job
  Nobody = nobody
  MaxRevision = 2
  MaxMoves = 1
  MaxMishaps = 1
CHECK_DEADLOCK FALSE
INVARIANTS
  OneAtWork
  ClonedHasRepo
PROPERTIES
  GoodCloneStays
  PendingSettles
  LinkIsFollowed
