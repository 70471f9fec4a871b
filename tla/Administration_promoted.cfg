\* The same with promotions: a role that is read before the lock is taken.
SPECIFICATION Spec
CONSTANTS
  Users = {u1, u2}
  Teams = {general}
  General = general
  Invites = {i1}
  Requests = {r1, r2}
  Nobody = nobody
  Promotions = TRUE
SYMMETRY AnyRequest
INVARIANTS
  AdminRemains
