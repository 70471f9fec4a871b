\* A second revision is fetched, and a later fetch fails.
SPECIFICATION Spec
CONSTANTS
  Urls = {a}
  Clonable = {a}
  Mirrored = {a}
  NoUrl = nourl
  Requested = {req}
  Job = job
  Nobody = nobody
  MaxRevision = 2
  MaxMoves = 1
  MaxMishaps = 0
CHECK_DEADLOCK FALSE
INVARIANTS
  HoldsEveryFetchedRevision
