\* One process, and two requests together.
SPECIFICATION Spec
CONSTANTS
  Processes = {p}
  Controllers = {c}
  Intervals = {hour, day}
  NoInterval = none
  NoJob = nojob
  Requests = {q, r}
  Nobody = nobody
  MaxMishaps = 0
INVARIANTS
  JobsFollowRows
