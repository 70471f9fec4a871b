\* Two processes and one request at a time, on one controller that changes
\* hands between "manual" and two intervals; two mishaps.
SPECIFICATION FairSpec
CONSTANTS
  Processes = {p, o}
  Controllers = {c}
  Intervals = {hour, day}
  NoInterval = none
  NoJob = nojob
  Requests = {q}
  Nobody = nobody
  MaxMishaps = 2
INVARIANTS
  OneScheduler
  JobsFollowRows
PROPERTIES
  SchedulingResumes
