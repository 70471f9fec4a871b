--------------------------- MODULE Administration ---------------------------
(***************************************************************************)
(* Accounts, their roles, and teams: the first-run setup (api/setup.py),   *)
(* invites (api/invites.py) and the administration routes (api/admin.py,   *)
(* services/users_teams.py), with the two invariants they guard by         *)
(* transaction-scoped advisory locks: an active administrator remains, and *)
(* every account is in a team.                                             *)
(*                                                                         *)
(* A request is one transaction at READ COMMITTED: a statement sees what   *)
(* others have committed, between two statements they may commit more, and *)
(* its own rows show when it commits.  The ORM instance a request loads is *)
(* not read again, and an attribute that is assigned the value it had when *)
(* loaded is not written.  An advisory lock goes with its transaction.     *)
(*                                                                         *)
(* Abstracted: an account is its e-mail address (unique), a team its name  *)
(* (unique); renaming, audit rows, sessions and rate limits.               *)
(***************************************************************************)
EXTENDS FiniteSets, Integers

CONSTANTS
  Users,       \* e-mail addresses that may get an account
  Teams,       \* names a team may have
  General,     \* the default team
  Invites,     \* invitations that may be sent
  Requests,    \* requests served at once
  Nobody,      \* no request, no user, no team, no invite
  Promotions   \* administrators make other accounts administrators

ASSUME AdministrationAssumption ==
  /\ General \in Teams
  /\ Nobody \notin Requests \cup Users \cup Teams \cup Invites
  /\ Promotions \in BOOLEAN

VARIABLES
  role,       \* users.role ("none": no such account)
  active,     \* accounts with users.is_active
  teams,      \* rows of teams
  member,     \* rows of team_members, by user
  invite,     \* the invites: state, addressee, role and teams
  setupLock, adminLock, teamLock,    \* holders of the advisory locks
  pc,         \* where each request is
  op,         \* what it was asked to do
  user, team, inv,     \* to whom, to which team, by which invite
  seen,       \* users.role as the request loaded it
  sawActive,  \* requests that loaded an active account
  targets     \* accept_invite's target_ids

accounts == <<role, active>>
locks    == <<setupLock, adminLock, teamLock>>
locals   == <<op, user, team, inv, seen, sawActive, targets>>
vars     == <<accounts, teams, member, invite, locks, pc, locals>>

Roles       == {"user", "admin"}
UserOps     == {"promote", "demote", "deactivate", "activate"}
TeamOps     == {"add", "remove", "delete"}
Ops         == UserOps \cup TeamOps \cup {"setup", "accept", "none"}
PcState     == {"idle", "load", "lock", "check", "write"}
InviteState == {"unsent", "open", "accepted", "expired"}

Exists(u)    == role[u] # "none"
ActiveAdmins == {u \in active : role[u] = "admin"}

(* What a flush leaves in a column: an unchanged attribute is not written. *)
Written(db, orm, new) == IF new = orm THEN db ELSE new

(* The transaction of request r ends, and its advisory locks with it.      *)
EndRequest(r) ==
  /\ pc' = [pc EXCEPT ![r] = "idle"]
  /\ op' = [op EXCEPT ![r] = "none"]
  /\ user' = [user EXCEPT ![r] = Nobody]
  /\ team' = [team EXCEPT ![r] = Nobody]
  /\ inv' = [inv EXCEPT ![r] = Nobody]
  /\ seen' = [seen EXCEPT ![r] = "none"]
  /\ sawActive' = sawActive \ {r}
  /\ targets' = [targets EXCEPT ![r] = {}]
  /\ setupLock' = IF setupLock = r THEN Nobody ELSE setupLock
  /\ adminLock' = IF adminLock = r THEN Nobody ELSE adminLock
  /\ teamLock' = IF teamLock = r THEN Nobody ELSE teamLock

Init ==
  /\ role = [u \in Users |-> "none"] /\ active = {}
  /\ teams = {} /\ member = [u \in Users |-> {}]
  /\ invite = [i \in Invites |->
                 [state |-> "unsent", user |-> Nobody, role |-> "user", teams |-> {}]]
  /\ setupLock = Nobody /\ adminLock = Nobody /\ teamLock = Nobody
  /\ pc = [r \in Requests |-> "idle"] /\ op = [r \in Requests |-> "none"]
  /\ user = [r \in Requests |-> Nobody] /\ team = [r \in Requests |-> Nobody]
  /\ inv = [r \in Requests |-> Nobody] /\ seen = [r \in Requests |-> "none"]
  /\ sawActive = {} /\ targets = [r \in Requests |-> {}]

(* Request r goes on with its transaction: only its place changes.         *)
Goto(r, p) == pc' = [pc EXCEPT ![r] = p]

-----------------------------------------------------------------------------
(* POST /setup: the wizard that makes the first administrator.             *)

SetupArrives(r, u) ==
  /\ pc[r] = "idle"
  /\ Goto(r, "lock")
  /\ op' = [op EXCEPT ![r] = "setup"] /\ user' = [user EXCEPT ![r] = u]
  /\ UNCHANGED <<accounts, teams, member, invite, locks, team, inv, seen,
                 sawActive, targets>>

(* Mutants, here and below: plausible bugs of the definition that follows,  *)
(* which show what the properties would catch.  No specification uses them. *)
SetupUnlocked(r) ==
  /\ op[r] = "setup" /\ pc[r] = "lock"
  /\ Goto(r, "check")
  /\ UNCHANGED <<accounts, teams, member, invite, locks, locals>>

SetupLock(r) ==
  /\ op[r] = "setup" /\ pc[r] = "lock" /\ setupLock = Nobody
  /\ setupLock' = r
  /\ Goto(r, "check")
  /\ UNCHANGED <<accounts, teams, member, invite, adminLock, teamLock, locals>>

SetupCheck(r) ==
  /\ op[r] = "setup" /\ pc[r] = "check"
  /\ \A u \in Users : ~Exists(u)
  /\ Goto(r, "write")
  /\ UNCHANGED <<accounts, teams, member, invite, locks, locals>>

SetupRefused(r) ==
  /\ op[r] = "setup" /\ pc[r] = "check"
  /\ \E u \in Users : Exists(u)
  /\ EndRequest(r)
  /\ UNCHANGED <<accounts, teams, member, invite>>

(* The slug of General is unique: a second one is an IntegrityError.       *)
SetupCommit(r) ==
  /\ op[r] = "setup" /\ pc[r] = "write"
  /\ ~Exists(user[r]) /\ General \notin teams
  /\ role' = [role EXCEPT ![user[r]] = "admin"]
  /\ active' = active \cup {user[r]}
  /\ teams' = teams \cup {General}
  /\ member' = [member EXCEPT ![user[r]] = {General}]
  /\ EndRequest(r)
  /\ UNCHANGED invite

-----------------------------------------------------------------------------
(* Roles and activity: change_role, deactivate_user, activate_user.        *)

(* The AdminUser dependency; nobody deactivates himself.                   *)
UserRequest(r, o, u) ==
  /\ pc[r] = "idle" /\ o \in UserOps
  /\ o = "promote" => Promotions
  /\ \E a \in ActiveAdmins : o = "deactivate" => a # u
  /\ Goto(r, "load")
  /\ op' = [op EXCEPT ![r] = o] /\ user' = [user EXCEPT ![r] = u]
  /\ UNCHANGED <<accounts, teams, member, invite, locks, team, inv, seen,
                 sawActive, targets>>

(* Mutant: deactivation does without the lock and the count.               *)
DemotionNeedsLock(o, r) == r = "admin" /\ o = "demote"

(* The role is looked at as the request loads it, before it has the lock.  *)
NeedsAdminLock(o, r) == r = "admin" /\ o \in {"demote", "deactivate"}

LoadUser(r) ==
  /\ op[r] \in UserOps /\ pc[r] = "load" /\ Exists(user[r])
  /\ seen' = [seen EXCEPT ![r] = role[user[r]]]
  /\ sawActive' = IF user[r] \in active THEN sawActive \cup {r} ELSE sawActive
  /\ Goto(r, IF NeedsAdminLock(op[r], role[user[r]]) THEN "lock" ELSE "write")
  /\ UNCHANGED <<accounts, teams, member, invite, locks, op, user, team, inv,
                 targets>>

UserNotFound(r) ==
  /\ op[r] \in UserOps /\ pc[r] = "load" /\ ~Exists(user[r])
  /\ EndRequest(r)
  /\ UNCHANGED <<accounts, teams, member, invite>>

LockAdmin(r) ==
  /\ op[r] \in UserOps /\ pc[r] = "lock" /\ adminLock = Nobody
  /\ adminLock' = r
  /\ Goto(r, "check")
  /\ UNCHANGED <<accounts, teams, member, invite, setupLock, teamLock, locals>>

AnotherAdmin(r) ==
  /\ op[r] \in UserOps /\ pc[r] = "check"
  /\ ActiveAdmins \ {user[r]} # {}
  /\ Goto(r, "write")
  /\ UNCHANGED <<accounts, teams, member, invite, locks, locals>>

LastAdmin(r) ==
  /\ op[r] \in UserOps /\ pc[r] = "check"
  /\ ActiveAdmins \ {user[r]} = {}
  /\ EndRequest(r)
  /\ UNCHANGED <<accounts, teams, member, invite>>

(* Mutant: the requested role is stored unchecked.                         *)
WriteAnyRole(r) ==
  /\ op[r] \in {"promote", "demote"} /\ pc[r] = "write"
  /\ role' = [role EXCEPT ![user[r]] = Written(@, seen[r], op[r])]
  /\ EndRequest(r)
  /\ UNCHANGED <<active, teams, member, invite>>

WriteRole(r) ==
  /\ op[r] \in {"promote", "demote"} /\ pc[r] = "write"
  /\ role' = [role EXCEPT ![user[r]] =
                Written(@, seen[r], IF op[r] = "promote" THEN "admin" ELSE "user")]
  /\ EndRequest(r)
  /\ UNCHANGED <<active, teams, member, invite>>

Deactivate(r) ==
  /\ op[r] = "deactivate" /\ pc[r] = "write"
  /\ active' = IF r \in sawActive THEN active \ {user[r]} ELSE active
  /\ EndRequest(r)
  /\ UNCHANGED <<role, teams, member, invite>>

Activate(r) ==
  /\ op[r] = "activate" /\ pc[r] = "write"
  /\ active' = IF r \in sawActive THEN active ELSE active \cup {user[r]}
  /\ EndRequest(r)
  /\ UNCHANGED <<role, teams, member, invite>>

-----------------------------------------------------------------------------
(* Teams: create_team, add_team_member, remove_team_member and delete_team. *)

(* A name clash is a 409, found by the query or by the unique constraint.  *)
CreateTeam(t) ==
  /\ ActiveAdmins # {} /\ t \notin teams
  /\ teams' = teams \cup {t}
  /\ UNCHANGED <<accounts, member, invite, locks, pc, locals>>

TeamRequest(r, o, t, u) ==
  /\ pc[r] = "idle" /\ o \in TeamOps /\ ActiveAdmins # {}
  /\ (u = Nobody) = (o = "delete")
  /\ Goto(r, IF o = "remove" THEN "lock" ELSE "load")
  /\ op' = [op EXCEPT ![r] = o]
  /\ user' = [user EXCEPT ![r] = u] /\ team' = [team EXCEPT ![r] = t]
  /\ UNCHANGED <<accounts, teams, member, invite, locks, inv, seen, sawActive,
                 targets>>

(* A membership that is there already, or of which a row is missing, ends  *)
(* the request.                                                            *)
CanAdd(r) == team[r] \in teams /\ Exists(user[r]) /\ team[r] \notin member[user[r]]

LoadMembership(r) ==
  /\ op[r] = "add" /\ pc[r] = "load" /\ CanAdd(r)
  /\ Goto(r, "write")
  /\ UNCHANGED <<accounts, teams, member, invite, locks, locals>>

(* A team deleted since, or a concurrent add, is an IntegrityError that    *)
(* the route takes for a membership that is there.                         *)
AddMember(r) ==
  /\ op[r] = "add" /\ pc[r] = "write"
  /\ member' = IF CanAdd(r)
               THEN [member EXCEPT ![user[r]] = @ \cup {team[r]}] ELSE member
  /\ EndRequest(r)
  /\ UNCHANGED <<accounts, teams, invite>>

(* delete_team looks at is_default before it takes the lock.               *)
LoadTeam(r) ==
  /\ op[r] = "delete" /\ pc[r] = "load"
  /\ team[r] \in teams /\ team[r] # General
  /\ Goto(r, "lock")
  /\ UNCHANGED <<accounts, teams, member, invite, locks, locals>>

(* Mutant: the last-team check runs without the lock.                      *)
TeamsUnlocked(r) ==
  /\ op[r] \in {"remove", "delete"} /\ pc[r] = "lock"
  /\ Goto(r, "check")
  /\ UNCHANGED <<accounts, teams, member, invite, locks, locals>>

LockTeams(r) ==
  /\ op[r] \in {"remove", "delete"} /\ pc[r] = "lock" /\ teamLock = Nobody
  /\ teamLock' = r
  /\ Goto(r, "check")
  /\ UNCHANGED <<accounts, teams, member, invite, setupLock, adminLock, locals>>

InAnotherTeam(u, t) == member[u] \ {t} # {}

(* The members are read, and counted one by one: who joins a team later    *)
(* only adds to a count.                                                   *)
CanLeave(r) ==
  IF op[r] = "remove"
  THEN team[r] \in member[user[r]] /\ InAnotherTeam(user[r], team[r])
  ELSE \A u \in Users : team[r] \in member[u] => InAnotherTeam(u, team[r])

NotLastTeam(r) ==
  /\ op[r] \in {"remove", "delete"} /\ pc[r] = "check" /\ CanLeave(r)
  /\ Goto(r, "write")
  /\ UNCHANGED <<accounts, teams, member, invite, locks, locals>>

RemoveMember(r) ==
  /\ op[r] = "remove" /\ pc[r] = "write"
  /\ member' = [member EXCEPT ![user[r]] = @ \ {team[r]}]
  /\ EndRequest(r)
  /\ UNCHANGED <<accounts, teams, invite>>

(* The memberships go with the team (ON DELETE CASCADE).                   *)
DeleteTeam(r) ==
  /\ op[r] = "delete" /\ pc[r] = "write"
  /\ teams' = teams \ {team[r]}
  /\ member' = [u \in Users |-> member[u] \ {team[r]}]
  /\ EndRequest(r)
  /\ UNCHANGED <<accounts, invite>>

(* A 404, a 409, nothing to do.                                            *)
TeamRequestEnds(r) ==
  /\ \/ op[r] = "add" /\ pc[r] = "load" /\ ~CanAdd(r)
     \/ /\ op[r] = "delete" /\ pc[r] = "load"
        /\ team[r] \notin teams \/ team[r] = General
     \/ op[r] \in {"remove", "delete"} /\ pc[r] = "check" /\ ~CanLeave(r)
  /\ EndRequest(r)
  /\ UNCHANGED <<accounts, teams, member, invite>>

-----------------------------------------------------------------------------
(* Invites.                                                                *)

CreateInvite(i, u, k, T) ==
  /\ invite[i].state = "unsent" /\ ActiveAdmins # {} /\ T \subseteq teams
  /\ invite' = [invite EXCEPT ![i] =
                  [state |-> "open", user |-> u, role |-> k, teams |-> T]]
  /\ UNCHANGED <<accounts, teams, member, locks, pc, locals>>

ExpireInvite(i) ==
  /\ invite[i].state = "open"
  /\ invite' = [invite EXCEPT ![i].state = "expired"]
  /\ UNCHANGED <<accounts, teams, member, locks, pc, locals>>

(* SELECT ... FOR UPDATE: one request at a time has the invite.            *)
AcceptInvite(r, i) ==
  /\ pc[r] = "idle" /\ invite[i].state = "open"
  /\ \A q \in Requests : inv[q] # i
  /\ ~Exists(invite[i].user)
  /\ Goto(r, "check")
  /\ op' = [op EXCEPT ![r] = "accept"] /\ inv' = [inv EXCEPT ![r] = i]
  /\ user' = [user EXCEPT ![r] = invite[i].user]
  /\ UNCHANGED <<accounts, teams, member, invite, locks, team, seen, sawActive,
                 targets>>

(* The invited teams that are still there, and General.                    *)
FindTeams(r) ==
  /\ op[r] = "accept" /\ pc[r] = "check"
  /\ targets' = [targets EXCEPT ![r] = (invite[inv[r]].teams \cup {General}) \cap teams]
  /\ Goto(r, "write")
  /\ UNCHANGED <<accounts, teams, member, invite, locks, op, user, team, inv,
                 seen, sawActive>>

(* A second account for the address, or a team deleted since, breaks a     *)
(* constraint and rolls everything back (see Abort).                       *)
AcceptCommit(r) ==
  /\ op[r] = "accept" /\ pc[r] = "write"
  /\ ~Exists(user[r]) /\ targets[r] \subseteq teams
  /\ role' = [role EXCEPT ![user[r]] = invite[inv[r]].role]
  /\ active' = active \cup {user[r]}
  /\ member' = [member EXCEPT ![user[r]] = targets[r]]
  /\ invite' = [invite EXCEPT ![inv[r]].state = "accepted"]
  /\ EndRequest(r)
  /\ UNCHANGED teams

-----------------------------------------------------------------------------
(* An error, a cancelled request or a dead process: a rollback.            *)
Abort(r) ==
  /\ pc[r] # "idle"
  /\ EndRequest(r)
  /\ UNCHANGED <<accounts, teams, member, invite>>

Arrive(r) ==
  \/ \E u \in Users : \/ SetupArrives(r, u)
                      \/ \E o \in UserOps : UserRequest(r, o, u)
  \/ \E o \in TeamOps, t \in Teams, u \in Users \cup {Nobody} :
       TeamRequest(r, o, t, u)
  \/ \E i \in Invites : AcceptInvite(r, i)

Serve(r) ==
  \/ SetupLock(r) \/ SetupCheck(r) \/ SetupRefused(r) \/ SetupCommit(r)
  \/ LoadUser(r) \/ UserNotFound(r) \/ LockAdmin(r) \/ AnotherAdmin(r)
  \/ LastAdmin(r) \/ WriteRole(r) \/ Deactivate(r) \/ Activate(r)
  \/ LoadMembership(r) \/ AddMember(r) \/ LoadTeam(r) \/ LockTeams(r)
  \/ NotLastTeam(r) \/ RemoveMember(r) \/ DeleteTeam(r) \/ TeamRequestEnds(r)
  \/ FindTeams(r) \/ AcceptCommit(r)

Next ==
  \/ \E r \in Requests : Arrive(r) \/ Serve(r) \/ Abort(r)
  \/ \E t \in Teams : CreateTeam(t)
  \/ \E i \in Invites :
       \/ ExpireInvite(i)
       \/ \E u \in Users, k \in Roles, T \in SUBSET Teams : CreateInvite(i, u, k, T)

Spec == Init /\ [][Next]_vars

-----------------------------------------------------------------------------
(* Properties.                                                             *)

(* Every variable stays in its range.                                      *)
TypeOK ==
  /\ role \in [Users -> Roles \cup {"none"}] /\ active \subseteq Users
  /\ teams \subseteq Teams /\ member \in [Users -> SUBSET Teams]
  /\ invite \in [Invites -> [state : InviteState, user : Users \cup {Nobody},
                             role : Roles, teams : SUBSET Teams]]
  /\ {setupLock, adminLock, teamLock} \subseteq Requests \cup {Nobody}
  /\ pc \in [Requests -> PcState] /\ op \in [Requests -> Ops]
  /\ user \in [Requests -> Users \cup {Nobody}]
  /\ team \in [Requests -> Teams \cup {Nobody}]
  /\ inv \in [Requests -> Invites \cup {Nobody}]
  /\ seen \in [Requests -> Roles \cup {"none"}] /\ sawActive \subseteq Requests
  /\ targets \in [Requests -> SUBSET Teams]
  /\ \A i \in Invites : invite[i].state = "open" => invite[i].user \in Users
  /\ \A r \in Requests :
       /\ op[r] \notin {"none", "delete"} => user[r] \in Users
       /\ op[r] \in TeamOps => team[r] \in Teams
       /\ op[r] = "accept" => inv[r] \in Invites

(* "Must keep >= 1 active admin" (the comment of _ADMIN_INVARIANT_LOCK):   *)
(* once there are accounts, an active administrator remains, whatever      *)
(* demotions and deactivations run at once.  The lock is taken only where  *)
(* the role that was loaded before it says so.                             *)
AdminRemains == (\E u \in Users : Exists(u)) => ActiveAdmins # {}

(* "Every user in >= 1 team" (the comment of _TEAM_INVARIANT_LOCK), across *)
(* removals from two teams at once, a removal racing the deletion of the   *)
(* other team, and members that join while their team is deleted.          *)
EveryoneInTeam == \A u \in Users : Exists(u) => member[u] # {}

(* Setup locks itself (_SETUP_LOCK_KEY): of any number of wizards submitted *)
(* at once, and of those submitted when the instance is in use, none that  *)
(* has passed the check finds an account, and none runs into a constraint. *)
SetupIsAlone ==
  \A r \in Requests : op[r] = "setup" /\ pc[r] = "write"
                      => \A u \in Users : ~Exists(u)
=============================================================================
