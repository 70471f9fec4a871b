\* Two addresses, a second team, one invite, two requests at a time; nobody
\* is promoted.
SPECIFICATION Spec
CONSTANTS
  Users = {u1, u2}
  Teams = {general, ops}
  General = general
  Invites = {i1}
  Requests = {r1, r2}
  Nobody = nobody
  Promotions = FALSE
SYMMETRY AnyRequest
INVARIANTS
  TypeOK
  AdminRemains
  EveryoneInTeam
  SetupIsAlone
