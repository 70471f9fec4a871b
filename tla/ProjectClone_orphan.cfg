\* The process dies in a first clone; the retry fetches into what it left.
SPECIFICATION Spec
CONSTANTS
  Urls = {a}
  Clonable = {a}
  Mirrored = {a}
  NoUrl = nourl
  Requested = {req}
  Job = job
  Nobody = nobody
  MaxRevision = 1
  MaxMoves = 0
  MaxMishaps = 1
CHECK_DEADLOCK FALSE
INVARIANTS
  ClonedHasHead
