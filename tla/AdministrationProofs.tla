------------------------ MODULE AdministrationProofs ------------------------
(***************************************************************************)
(* Proofs about what administrators do: Administration, for any users,     *)
(* teams, invites and number of concurrent requests, and ControllersPage,  *)
(* for any controllers, servers, tokens and events.                        *)
(***************************************************************************)
EXTENDS Administration, ControllersPage, TLAPS

(* The places and roles that the actions name.                             *)
LEMMA Names ==
  /\ {"idle", "load", "lock", "check", "write"} \subseteq PcState
  /\ Roles = {"user", "admin"}
  /\ UserOps \cup TeamOps \cup {"setup", "accept", "none"} \subseteq Ops
  /\ {"setup", "accept", "none"} \cap (UserOps \cup TeamOps) = {}
  /\ {"add", "remove", "delete"} = TeamOps
  /\ {"promote", "demote", "deactivate", "activate"} = UserOps
  /\ {"unsent", "open", "accepted", "expired"} \subseteq InviteState
BY DEF PcState, Roles, Ops, UserOps, TeamOps, InviteState

(* The end of a request keeps its variables in their ranges.               *)
LEMMA EndTyped ==
  ASSUME TypeOK, NEW r \in Requests, EndRequest(r)
  PROVE  /\ {setupLock', adminLock', teamLock'} \subseteq Requests \cup {Nobody}
         /\ pc' \in [Requests -> PcState] /\ op' \in [Requests -> Ops]
         /\ user' \in [Requests -> Users \cup {Nobody}]
         /\ team' \in [Requests -> Teams \cup {Nobody}]
         /\ inv' \in [Requests -> Invites \cup {Nobody}]
         /\ seen' \in [Requests -> Roles \cup {"none"}]
         /\ sawActive' \subseteq Requests
         /\ targets' \in [Requests -> SUBSET Teams]
         /\ \A q \in Requests :
              /\ op'[q] \notin {"none", "delete"} => user'[q] \in Users
              /\ op'[q] \in TeamOps => team'[q] \in Teams
              /\ op'[q] = "accept" => inv'[q] \in Invites
BY Names DEF TypeOK, EndRequest

(* Every variable stays in its range.                                      *)
THEOREM TypeCorrect == Spec => []TypeOK
<1>1. Init => TypeOK
  BY Names, AdministrationAssumption DEF Init, TypeOK
<1>2. ASSUME TypeOK, [Next]_vars PROVE TypeOK'
  <2> USE TypeOK, Names DEF TypeOK, accounts, locks, locals, Goto
  <2>1. ASSUME NEW r \in Requests, EndRequest(r),
               role' \in [Users -> Roles \cup {"none"}], active' \subseteq Users,
               teams' \subseteq Teams, member' \in [Users -> SUBSET Teams],
               UNCHANGED invite
        PROVE  TypeOK'
    BY <2>1, EndTyped
  <2>2. ASSUME NEW r \in Requests, NEW p \in PcState,
               pc' = [pc EXCEPT ![r] = p],
               UNCHANGED <<accounts, teams, member, invite, locals>>,
               {setupLock', adminLock', teamLock'} \subseteq Requests \cup {Nobody}
        PROVE  TypeOK'
    BY <2>2
  <2>3. ASSUME NEW r \in Requests, Arrive(r) PROVE TypeOK'
    <3>1. ASSUME NEW u \in Users, SetupArrives(r, u) PROVE TypeOK'
      BY <3>1 DEF SetupArrives
    <3>2. ASSUME NEW u \in Users, NEW o \in UserOps, UserRequest(r, o, u)
          PROVE  TypeOK'
      BY <3>2 DEF UserRequest
    <3>3. ASSUME NEW o \in TeamOps, NEW t \in Teams, NEW u \in Users \cup {Nobody},
                 TeamRequest(r, o, t, u)
          PROVE  TypeOK'
      BY <3>3 DEF TeamRequest
    <3>4. ASSUME NEW i \in Invites, AcceptInvite(r, i) PROVE TypeOK'
      <4>1. invite[i].user \in Users \cup {Nobody}
        OBVIOUS
      <4>2. QED
        BY <3>4, <4>1 DEF AcceptInvite
    <3>5. QED
      BY <2>3, <3>1, <3>2, <3>3, <3>4 DEF Arrive
  <2>4. ASSUME NEW r \in Requests,
               SetupCheck(r) \/ AnotherAdmin(r) \/ LoadMembership(r)
                 \/ LoadTeam(r) \/ NotLastTeam(r)
        PROVE  TypeOK'
    <3>1. PICK p \in PcState : pc' = [pc EXCEPT ![r] = p]
      BY <2>4 DEF SetupCheck, AnotherAdmin, LoadMembership, LoadTeam, NotLastTeam
    <3>2. UNCHANGED <<accounts, teams, member, invite, locks, locals>>
      BY <2>4 DEF SetupCheck, AnotherAdmin, LoadMembership, LoadTeam, NotLastTeam
    <3>3. QED
      BY <2>2, <3>1, <3>2
  <2>5. ASSUME NEW r \in Requests, SetupLock(r) \/ LockAdmin(r) \/ LockTeams(r)
        PROVE  TypeOK'
    BY <2>2, <2>5 DEF SetupLock, LockAdmin, LockTeams
  <2>6. ASSUME NEW r \in Requests,
               SetupRefused(r) \/ UserNotFound(r) \/ LastAdmin(r)
                 \/ TeamRequestEnds(r) \/ Abort(r)
        PROVE  TypeOK'
    BY <2>1, <2>6
    DEF SetupRefused, UserNotFound, LastAdmin, TeamRequestEnds, Abort
  <2>7. ASSUME NEW r \in Requests, SetupCommit(r) PROVE TypeOK'
    <3>1. user[r] \in Users
      BY <2>7 DEF SetupCommit
    <3>2. QED
      BY <2>1, <2>7, <3>1, AdministrationAssumption DEF SetupCommit
  <2>8. ASSUME NEW r \in Requests, LoadUser(r) PROVE TypeOK'
    BY <2>8 DEF LoadUser
  <2>9. ASSUME NEW r \in Requests, WriteRole(r) PROVE TypeOK'
    BY <2>1, <2>9 DEF WriteRole, Written
  <2>10. ASSUME NEW r \in Requests, Deactivate(r) \/ Activate(r) PROVE TypeOK'
    BY <2>1, <2>10 DEF Deactivate, Activate
  <2>11. ASSUME NEW r \in Requests,
                AddMember(r) \/ RemoveMember(r) \/ DeleteTeam(r)
         PROVE  TypeOK'
    BY <2>1, <2>11 DEF AddMember, RemoveMember, DeleteTeam
  <2>12. ASSUME NEW r \in Requests, FindTeams(r) PROVE TypeOK'
    BY <2>12 DEF FindTeams
  <2>13. ASSUME NEW r \in Requests, AcceptCommit(r) PROVE TypeOK'
    <3>1. inv[r] \in Invites /\ user[r] \in Users
      BY <2>13 DEF AcceptCommit
    <3>2. invite[inv[r]].role \in Roles
      BY <3>1
    <3>3. invite' \in [Invites -> [state : InviteState, user : Users \cup {Nobody},
                                   role : Roles, teams : SUBSET Teams]]
      BY <2>13, <3>1 DEF AcceptCommit
    <3>4. \A k \in Invites : invite'[k].user = invite[k].user
                             /\ (invite'[k].state = "open" => invite[k].state = "open")
      BY <2>13, <3>1 DEF AcceptCommit
    <3>5. QED
      BY <2>13, <3>1, <3>2, <3>3, <3>4, EndTyped DEF AcceptCommit
  <2>14. ASSUME NEW t \in Teams, CreateTeam(t) PROVE TypeOK'
    BY <2>14 DEF CreateTeam
  <2>15. ASSUME NEW i \in Invites, ExpireInvite(i) PROVE TypeOK'
    <3>1. invite' \in [Invites -> [state : InviteState, user : Users \cup {Nobody},
                                   role : Roles, teams : SUBSET Teams]]
      BY <2>15 DEF ExpireInvite
    <3>2. \A k \in Invites : invite'[k].user = invite[k].user
                             /\ (invite'[k].state = "open" => invite[k].state = "open")
      BY <2>15 DEF ExpireInvite
    <3>3. QED
      BY <2>15, <3>1, <3>2 DEF ExpireInvite
  <2>16. ASSUME NEW i \in Invites, NEW u \in Users, NEW k \in Roles,
                NEW T \in SUBSET Teams, CreateInvite(i, u, k, T)
         PROVE  TypeOK'
    <3> DEFINE new == [state |-> "open", user |-> u, role |-> k, teams |-> T]
    <3>1. new \in [state : InviteState, user : Users \cup {Nobody},
                    role : Roles, teams : SUBSET Teams]
      OBVIOUS
    <3>2. new.user \in Users
      OBVIOUS
    <3>3. invite' = [invite EXCEPT ![i] = new]
      BY <2>16 DEF CreateInvite
    <3> HIDE DEF new
    <3>4. QED
      BY <2>16, <3>1, <3>2, <3>3 DEF CreateInvite
  <2>17. CASE UNCHANGED vars
    BY <2>17 DEF vars
  <2>18. QED
    BY <1>2, <2>3, <2>4, <2>5, <2>6, <2>7, <2>8, <2>9, <2>10, <2>11, <2>12,
       <2>13, <2>14, <2>15, <2>16, <2>17
    DEF Next, Serve
<1>3. QED
  BY <1>1, <1>2, PTL DEF Spec

-----------------------------------------------------------------------------
(* Setup.  Who passed the check holds the lock and finds no account; an    *)
(* invite that was sent has an administrator behind it.                    *)
SetupInv ==
  /\ \A r \in Requests :
       /\ op[r] = "setup" /\ pc[r] \in {"check", "write"} => setupLock = r
       /\ op[r] = "accept" => invite[inv[r]].state # "unsent"
  /\ \A i \in Invites : invite[i].state # "unsent" => \E u \in Users : Exists(u)
  /\ SetupIsAlone

(* An account is never removed.                                            *)
LEMMA AccountsStay ==
  ASSUME TypeOK, [Next]_vars, NEW u \in Users, Exists(u)
  PROVE  Exists(u)'
<1> USE TypeOK DEF TypeOK, Exists
<1>1. ASSUME NEW r \in Requests, SetupCommit(r) \/ AcceptCommit(r) PROVE Exists(u)'
  BY <1>1, Names DEF SetupCommit, AcceptCommit
<1>2. ASSUME NEW r \in Requests, WriteRole(r) PROVE Exists(u)'
  BY <1>2 DEF WriteRole, Written
<1>3. ASSUME UNCHANGED role PROVE Exists(u)'
  BY <1>3
<1>4. ASSUME NEW r \in Requests, Arrive(r) \/ Abort(r) PROVE UNCHANGED role
  BY <1>4 DEF Arrive, SetupArrives, UserRequest, TeamRequest, AcceptInvite,
              Abort, accounts
<1>5. ASSUME NEW r \in Requests, Serve(r) PROVE Exists(u)'
  BY <1>1, <1>2, <1>5
  DEF Serve, SetupLock, SetupCheck, SetupRefused, LoadUser, UserNotFound,
      LockAdmin, AnotherAdmin, LastAdmin, Deactivate, Activate, LoadMembership,
      AddMember, LoadTeam, LockTeams, NotLastTeam, RemoveMember, DeleteTeam,
      TeamRequestEnds, FindTeams, accounts
<1>6. ASSUME NEW t \in Teams, CreateTeam(t) PROVE UNCHANGED role
  BY <1>6 DEF CreateTeam, accounts
<1>7. ASSUME NEW i \in Invites,
             \/ ExpireInvite(i)
             \/ \E v \in Users, k \in Roles, T \in SUBSET Teams : CreateInvite(i, v, k, T)
      PROVE  UNCHANGED role
  BY <1>7 DEF ExpireInvite, CreateInvite, accounts
<1>8. CASE UNCHANGED vars
  BY <1>8 DEF vars, accounts
<1>9. QED
  BY <1>3, <1>4, <1>5, <1>6, <1>7, <1>8 DEF Next

(* Past its load, a role or activity request has found its account.        *)
Loaded ==
  \A r \in Requests :
    op[r] \in UserOps /\ pc[r] \in {"lock", "check", "write"} => Exists(user[r])

LEMMA LoadedInductive == Spec => []Loaded
<1>1. Init => Loaded
  BY DEF Init, Loaded
<1>2. ASSUME TypeOK, Loaded, [Next]_vars PROVE Loaded'
  <2> USE DEF accounts, locks, locals, Goto
  <2>1. \A u \in Users : Exists(u) => Exists(u)'
    BY <1>2, AccountsStay
  <2>2. ASSUME NEW r \in Requests,
               \A q \in Requests \ {r} :
                 pc'[q] = pc[q] /\ op'[q] = op[q] /\ user'[q] = user[q],
               op'[r] \in UserOps /\ pc'[r] \in {"lock", "check", "write"}
                 => Exists(user[r])'
        PROVE  Loaded'
    <3>1. ASSUME NEW q \in Requests \ {r},
                 op[q] \in UserOps, pc[q] \in {"lock", "check", "write"}
          PROVE  Exists(user[q])'
      <4>1. user[q] \in Users /\ Exists(user[q])
        BY <1>2, <3>1, Names DEF TypeOK, Loaded
      <4>2. user'[q] = user[q]
        BY <2>2, <3>1
      <4>3. QED
        BY <2>1, <4>1, <4>2 DEF Exists
    <3>2. QED
      BY <2>2, <3>1 DEF Loaded, Exists
  <2>3. ASSUME NEW r \in Requests, EndRequest(r) PROVE Loaded'
    BY <1>2, <2>2, <2>3, Names DEF TypeOK, EndRequest
  <2>4. ASSUME NEW r \in Requests, Arrive(r) PROVE Loaded'
    <3>1. /\ op'[r] \in UserOps => pc'[r] = "load"
          /\ \A q \in Requests \ {r} :
               pc'[q] = pc[q] /\ op'[q] = op[q] /\ user'[q] = user[q]
      BY <1>2, <2>4, Names
      DEF TypeOK, Arrive, SetupArrives, UserRequest, TeamRequest, AcceptInvite
    <3>2. QED
      BY <2>2, <3>1
  <2>5. ASSUME NEW r \in Requests, LoadUser(r) PROVE Loaded'
    BY <1>2, <2>2, <2>5 DEF TypeOK, LoadUser, Exists
  <2>6. ASSUME NEW r \in Requests, LockAdmin(r) \/ AnotherAdmin(r) PROVE Loaded'
    BY <1>2, <2>2, <2>6 DEF TypeOK, Loaded, LockAdmin, AnotherAdmin, Exists
  <2>7. ASSUME NEW r \in Requests,
               SetupLock(r) \/ SetupCheck(r) \/ LoadMembership(r) \/ LoadTeam(r)
                 \/ LockTeams(r) \/ NotLastTeam(r) \/ FindTeams(r)
        PROVE  Loaded'
    <3>1. /\ op[r] \notin UserOps
          /\ \A q \in Requests \ {r} : pc'[q] = pc[q]
          /\ UNCHANGED <<op, user>>
      BY <1>2, <2>7, Names
      DEF TypeOK, SetupLock, SetupCheck, LoadMembership, LoadTeam, LockTeams,
          NotLastTeam, FindTeams
    <3>2. QED
      BY <2>2, <3>1
  <2>8. ASSUME UNCHANGED <<op, pc, user>> PROVE Loaded'
    BY <1>2, <2>1, <2>8, Names DEF TypeOK, Loaded
  <2>9. ASSUME NEW r \in Requests, Abort(r) \/ Serve(r) PROVE Loaded'
    BY <2>3, <2>5, <2>6, <2>7, <2>9
    DEF Abort, Serve, SetupRefused, SetupCommit, UserNotFound, LastAdmin,
        WriteRole, Deactivate, Activate, AddMember, RemoveMember, DeleteTeam,
        TeamRequestEnds, AcceptCommit
  <2>10. QED
    BY <1>2, <2>4, <2>8, <2>9 DEF Next, CreateTeam, ExpireInvite, CreateInvite, vars
<1>3. QED
  BY <1>1, <1>2, TypeCorrect, PTL DEF Spec

(* The steps of a request other than the two that make accounts.           *)
LEMMA SetupUndisturbed ==
  ASSUME TypeOK, SetupInv, NEW r \in Requests, UNCHANGED invite,
         \/ EndRequest(r)
         \/ /\ op[r] # "setup" /\ op'[r] \notin {"setup", "accept"}
            /\ \A q \in Requests \ {r} : pc'[q] = pc[q] /\ op'[q] = op[q] /\ inv'[q] = inv[q]
            /\ UNCHANGED setupLock,
         \A u \in Users : Exists(u)' <=> Exists(u)
  PROVE  SetupInv'
BY AdministrationAssumption DEF TypeOK, SetupInv, SetupIsAlone, EndRequest

LEMMA SetupInductive == Spec => []SetupInv
<1>1. Init => SetupInv
  BY DEF Init, SetupInv, SetupIsAlone
<1>2. ASSUME TypeOK, Loaded, SetupInv, [Next]_vars PROVE SetupInv'
  <2> USE AdministrationAssumption DEF accounts, locks, locals, Goto
  <2>1. \A u \in Users : Exists(u) => Exists(u)'
    BY <1>2, AccountsStay
  <2>2. ASSUME NEW r \in Requests, Arrive(r) PROVE SetupInv'
    <3> USE <1>2 DEF TypeOK, SetupInv, SetupIsAlone, Exists
    <3>1. ASSUME NEW u \in Users, SetupArrives(r, u) PROVE SetupInv'
      BY <3>1 DEF SetupArrives
    <3>2. ASSUME NEW u \in Users, NEW o \in UserOps, UserRequest(r, o, u)
          PROVE  SetupInv'
      BY <3>2, Names DEF UserRequest
    <3>3. ASSUME NEW o \in TeamOps, NEW t \in Teams, NEW u \in Users \cup {Nobody},
                 TeamRequest(r, o, t, u)
          PROVE  SetupInv'
      BY <3>3, Names DEF TeamRequest
    <3>4. ASSUME NEW i \in Invites, AcceptInvite(r, i) PROVE SetupInv'
      BY <3>4 DEF AcceptInvite
    <3>5. QED
      BY <2>2, <3>1, <3>2, <3>3, <3>4 DEF Arrive
  <2>3. ASSUME NEW r \in Requests, SetupLock(r) \/ SetupCheck(r) PROVE SetupInv'
    BY <1>2, <2>3
    DEF TypeOK, SetupInv, SetupIsAlone, Exists, SetupLock, SetupCheck
  <2>4. ASSUME NEW r \in Requests,
               SetupRefused(r) \/ UserNotFound(r) \/ LastAdmin(r) \/ Deactivate(r)
                 \/ Activate(r) \/ AddMember(r) \/ RemoveMember(r)
                 \/ DeleteTeam(r) \/ TeamRequestEnds(r) \/ Abort(r)
        PROVE  SetupInv'
    <3>1. EndRequest(r) /\ UNCHANGED <<role, invite>>
      BY <2>4 DEF SetupRefused, UserNotFound, LastAdmin, Deactivate, Activate,
                  AddMember, RemoveMember, DeleteTeam, TeamRequestEnds, Abort
    <3>2. QED
      BY <1>2, <3>1, SetupUndisturbed DEF Exists
  <2>5. ASSUME NEW r \in Requests, WriteRole(r) PROVE SetupInv'
    <3>1. \A u \in Users : u # user[r] => role'[u] = role[u]
      BY <1>2, <2>5 DEF WriteRole, TypeOK
    <3>2. user[r] \in Users
      BY <1>2, <2>5 DEF WriteRole, TypeOK
    <3>3. Exists(user[r])
      BY <1>2, <2>5, Names DEF Loaded, WriteRole
    <3>4. QED
      BY <1>2, <2>1, <2>5, <3>1, <3>2, <3>3, SetupUndisturbed DEF Exists, WriteRole
  <2>6. ASSUME NEW r \in Requests, SetupCommit(r) PROVE SetupInv'
    <3>1. \A q \in Requests \ {r} : ~(op[q] = "setup" /\ pc[q] \in {"check", "write"})
      BY <1>2, <2>6 DEF SetupInv, SetupCommit
    <3>2. QED
      BY <1>2, <2>1, <2>6, <3>1
      DEF TypeOK, SetupInv, SetupIsAlone, SetupCommit, EndRequest
  <2>7. ASSUME NEW r \in Requests, AcceptCommit(r) PROVE SetupInv'
    <3>1. inv[r] \in Invites /\ invite[inv[r]].state # "unsent"
      BY <1>2, <2>7 DEF TypeOK, SetupInv, AcceptCommit
    <3>2. \E u \in Users : Exists(u)
      BY <1>2, <3>1 DEF SetupInv
    <3>3. \A q \in Requests : ~(op[q] = "setup" /\ pc[q] = "write")
      BY <1>2, <3>2 DEF SetupInv, SetupIsAlone
    <3>4. \A i \in Invites : invite[i].state # "unsent" => invite'[i].state # "unsent"
      BY <1>2, <2>7, <3>1 DEF TypeOK, AcceptCommit
    <3>5. \E u \in Users : Exists(u)'
      BY <2>1, <3>2
    <3>6. QED
      BY <1>2, <2>7, <3>3, <3>4, <3>5
      DEF TypeOK, SetupInv, SetupIsAlone, AcceptCommit, EndRequest
  <2>8. ASSUME NEW r \in Requests,
               LoadUser(r) \/ LockAdmin(r) \/ AnotherAdmin(r) \/ LoadMembership(r)
                 \/ LoadTeam(r) \/ LockTeams(r) \/ NotLastTeam(r)
        PROVE  SetupInv'
    <3>1. /\ op[r] \in UserOps \cup TeamOps
          /\ \A q \in Requests \ {r} : pc'[q] = pc[q]
          /\ UNCHANGED <<role, op, inv, invite, setupLock>>
      BY <1>2, <2>8, Names
      DEF LoadUser, LockAdmin, AnotherAdmin, LoadMembership, LoadTeam,
          LockTeams, NotLastTeam, TypeOK
    <3>2. QED
      BY <1>2, <3>1, SetupUndisturbed, Names DEF Exists
  <2>9. ASSUME NEW r \in Requests, FindTeams(r) PROVE SetupInv'
    BY <1>2, <2>9 DEF TypeOK, SetupInv, SetupIsAlone, Exists, FindTeams
  <2>10. ASSUME NEW t \in Teams, CreateTeam(t) PROVE SetupInv'
    BY <1>2, <2>10 DEF SetupInv, SetupIsAlone, Exists, CreateTeam
  <2>11. ASSUME NEW i \in Invites, ExpireInvite(i) PROVE SetupInv'
    <3>1. \A k \in Invites : (invite[k].state = "unsent") = (invite'[k].state = "unsent")
      BY <1>2, <2>11 DEF TypeOK, ExpireInvite
    <3>2. UNCHANGED <<role, op, pc, inv, setupLock>>
      BY <2>11 DEF ExpireInvite
    <3>3. QED
      BY <1>2, <3>1, <3>2 DEF TypeOK, SetupInv, SetupIsAlone, Exists
  <2>12. ASSUME NEW i \in Invites, NEW u \in Users, NEW k \in Roles,
                NEW T \in SUBSET Teams, CreateInvite(i, u, k, T)
         PROVE  SetupInv'
    <3>1. \E v \in Users : Exists(v)
      BY <1>2, <2>12 DEF TypeOK, CreateInvite, ActiveAdmins, Exists
    <3>2. UNCHANGED <<role, op, pc, inv, setupLock>>
      BY <2>12 DEF CreateInvite
    <3>3. \A j \in Invites : invite[j].state # "unsent" => invite'[j].state # "unsent"
      BY <1>2, <2>12 DEF TypeOK, CreateInvite
    <3>4. QED
      BY <1>2, <3>1, <3>2, <3>3 DEF TypeOK, SetupInv, SetupIsAlone, Exists
  <2>13. CASE UNCHANGED vars
    BY <1>2, <2>13 DEF SetupInv, SetupIsAlone, Exists, vars
  <2>14. QED
    BY <1>2, <2>2, <2>3, <2>4, <2>5, <2>6, <2>7, <2>8, <2>9, <2>10, <2>11,
       <2>12, <2>13
    DEF Next, Serve
<1>3. QED
  BY <1>1, <1>2, TypeCorrect, LoadedInductive, PTL DEF Spec

(* However many wizards are submitted, none that passed the check of       *)
(* run_setup finds an account.                                             *)
THEOREM SetupOnce == Spec => []SetupIsAlone
<1>1. SetupInv => SetupIsAlone
  BY DEF SetupInv
<1>2. QED
  BY <1>1, SetupInductive, PTL

-----------------------------------------------------------------------------
(* The last administrator.  Without promotions, a role that was loaded as  *)
(* "user" is never "admin" when it is used; so whoever takes an active     *)
(* administrator away holds the lock since before its count.               *)
Demoting(r) ==
  /\ op[r] # "promote"
  /\ op[r] \in UserOps /\ pc[r] \in {"lock", "check"}
     => op[r] \in {"demote", "deactivate"} /\ seen[r] = "admin"
  /\ op[r] \in UserOps /\ pc[r] = "check" => adminLock = r
  /\ op[r] \in {"demote", "deactivate"} /\ pc[r] = "write"
     => IF seen[r] = "admin"
        THEN adminLock = r /\ ActiveAdmins \ {user[r]} # {}
        ELSE role[user[r]] = "user"

AdminInv == AdminRemains /\ \A r \in Requests : Demoting(r)

(* A step of request r that leaves the others theirs.                      *)
LEMMA DemotingFrame ==
  ASSUME TypeOK, AdminInv, NEW r \in Requests,
         \A q \in Requests \ {r} :
           pc'[q] = pc[q] /\ op'[q] = op[q] /\ user'[q] = user[q] /\ seen'[q] = seen[q],
         adminLock' = adminLock \/ adminLock \in {r, Nobody},
         ActiveAdmins \subseteq ActiveAdmins' \/ adminLock = r,
         \A u \in Users : role[u] = "user" => role'[u] = "user",
         Demoting(r)', AdminRemains'
  PROVE  AdminInv'
<1>1. ASSUME NEW q \in Requests \ {r} PROVE Demoting(q)'
  <2>1. Demoting(q) /\ q # Nobody /\ q # r
    BY AdministrationAssumption DEF AdminInv
  <2>2. adminLock = q => adminLock' = q /\ ActiveAdmins \subseteq ActiveAdmins'
    BY <2>1
  <2>3. op[q] \in UserOps => user[q] \in Users
    BY Names DEF TypeOK
  <2>4. op'[q] \in UserOps => (role[user[q]] = "user" => role'[user'[q]] = "user")
    BY <2>3
  <2>5. op[q] \in {"demote", "deactivate"} => op[q] \in UserOps
    BY Names
  <2>6. /\ op'[q] # "promote"
        /\ op'[q] \in UserOps /\ pc'[q] \in {"lock", "check"}
           => op'[q] \in {"demote", "deactivate"} /\ seen'[q] = "admin"
        /\ op'[q] \in UserOps /\ pc'[q] = "check" => adminLock' = q
    BY <2>1, <2>2 DEF Demoting
  <2>7. op'[q] \in {"demote", "deactivate"} /\ pc'[q] = "write"
        => IF seen'[q] = "admin"
           THEN adminLock' = q /\ ActiveAdmins' \ {user'[q]} # {}
           ELSE role'[user'[q]] = "user"
    BY <2>1, <2>2, <2>4, <2>5 DEF Demoting
  <2>8. QED
    BY <2>6, <2>7 DEF Demoting
<1>2. QED
  BY <1>1 DEF AdminInv

LEMMA AdminInductive == ~Promotions => (Spec => []AdminInv)
<1> SUFFICES ASSUME ~Promotions PROVE Spec => []AdminInv
  OBVIOUS
<1>1. Init => AdminInv
  BY Names DEF Init, AdminInv, AdminRemains, Demoting, Exists
<1>2. ASSUME TypeOK, Loaded, SetupInv, AdminInv, [Next]_vars PROVE AdminInv'
  <2> USE DEF accounts, locks, locals, Goto
  <2>1. \A q \in Requests : Demoting(q)
    BY <1>2 DEF AdminInv
  <2>2. ASSUME UNCHANGED <<role, active>>
        PROVE  /\ AdminRemains' /\ ActiveAdmins' = ActiveAdmins
               /\ \A u \in Users : role[u] = "user" => role'[u] = "user"
    BY <1>2, <2>2 DEF AdminInv, AdminRemains, ActiveAdmins, Exists
  <2>3. ASSUME NEW r \in Requests, EndRequest(r)
        PROVE  /\ \A q \in Requests \ {r} :
                    pc'[q] = pc[q] /\ op'[q] = op[q] /\ user'[q] = user[q] /\ seen'[q] = seen[q]
               /\ adminLock' = adminLock \/ adminLock \in {r, Nobody}
               /\ Demoting(r)'
    BY <1>2, <2>3, Names DEF TypeOK, EndRequest, Demoting
  <2>4. ASSUME NEW r \in Requests, EndRequest(r), UNCHANGED <<role, active>>
        PROVE  AdminInv'
    BY <1>2, <2>2, <2>3, <2>4, DemotingFrame
  <2>5. ASSUME NEW r \in Requests, Arrive(r) PROVE AdminInv'
    <3>1. /\ UNCHANGED <<role, active, adminLock>>
          /\ op'[r] # "promote"
          /\ op'[r] \in UserOps => pc'[r] = "load"
          /\ \A q \in Requests \ {r} :
               pc'[q] = pc[q] /\ op'[q] = op[q] /\ user'[q] = user[q] /\ seen'[q] = seen[q]
      <4> USE <1>2, Names DEF TypeOK
      <4>1. CASE \E u \in Users : SetupArrives(r, u)
        BY <4>1 DEF SetupArrives
      <4>2. CASE \E o \in UserOps, u \in Users : UserRequest(r, o, u)
        BY <4>2 DEF UserRequest
      <4>3. CASE \E o \in TeamOps, t \in Teams, u \in Users \cup {Nobody} :
                   TeamRequest(r, o, t, u)
        BY <4>3 DEF TeamRequest
      <4>4. CASE \E i \in Invites : AcceptInvite(r, i)
        BY <4>4 DEF AcceptInvite
      <4>5. QED
        BY <2>5, <4>1, <4>2, <4>3, <4>4 DEF Arrive
    <3>2. Demoting(r)'
      BY <3>1, Names DEF Demoting
    <3>3. QED
      BY <1>2, <2>2, <3>1, <3>2, DemotingFrame
  <2>6. ASSUME NEW r \in Requests, LoadUser(r) PROVE AdminInv'
    <3>1. /\ UNCHANGED <<role, active, adminLock, op, user>>
          /\ \A q \in Requests \ {r} : pc'[q] = pc[q] /\ seen'[q] = seen[q]
          /\ op[r] \in UserOps /\ user[r] \in Users /\ Exists(user[r])
          /\ seen'[r] = role[user[r]]
          /\ pc'[r] = IF NeedsAdminLock(op[r], role[user[r]]) THEN "lock" ELSE "write"
      BY <1>2, <2>6, Names DEF TypeOK, LoadUser
    <3>2. op[r] # "promote" /\ role[user[r]] \in {"user", "admin"}
      BY <1>2, <2>1, <3>1, Names DEF TypeOK, Demoting, Exists
    <3>3. Demoting(r)'
      BY <3>1, <3>2 DEF Demoting, NeedsAdminLock
    <3>4. QED
      BY <1>2, <2>2, <3>1, <3>3, DemotingFrame
  <2>7. ASSUME NEW r \in Requests, LockAdmin(r) PROVE AdminInv'
    <3>1. /\ UNCHANGED <<role, active, op, user, seen>>
          /\ \A q \in Requests \ {r} : pc'[q] = pc[q]
          /\ adminLock = Nobody /\ adminLock' = r /\ pc'[r] = "check"
          /\ op[r] \in UserOps /\ pc[r] = "lock"
      BY <1>2, <2>7 DEF TypeOK, LockAdmin
    <3>2. Demoting(r)'
      BY <2>1, <3>1 DEF Demoting
    <3>3. QED
      BY <1>2, <2>2, <3>1, <3>2, DemotingFrame
  <2>8. ASSUME NEW r \in Requests, AnotherAdmin(r) PROVE AdminInv'
    <3>1. /\ UNCHANGED <<role, active, op, user, seen, adminLock>>
          /\ \A q \in Requests \ {r} : pc'[q] = pc[q]
          /\ op[r] \in UserOps /\ pc[r] = "check" /\ pc'[r] = "write"
          /\ ActiveAdmins \ {user[r]} # {}
      BY <1>2, <2>8 DEF TypeOK, AnotherAdmin
    <3>2. Demoting(r)'
      BY <2>1, <2>2, <3>1 DEF Demoting
    <3>3. QED
      BY <1>2, <2>2, <3>1, <3>2, DemotingFrame
  <2>9. ASSUME NEW r \in Requests, WriteRole(r) PROVE AdminInv'
    <3>1. op[r] = "demote" /\ pc[r] = "write" /\ user[r] \in Users
      BY <1>2, <2>1, <2>9 DEF TypeOK, WriteRole, Demoting
    <3>2. /\ role' = [role EXCEPT ![user[r]] = IF seen[r] = "user" THEN @ ELSE "user"]
          /\ UNCHANGED active /\ EndRequest(r)
      BY <2>9, <3>1 DEF WriteRole, Written
    <3>3. \A u \in Users : role[u] = "user" => role'[u] = "user"
      BY <1>2, <3>1, <3>2 DEF TypeOK
    <3>4. \A u \in Users : u # user[r] => role'[u] = role[u]
      BY <1>2, <3>1, <3>2 DEF TypeOK
    <3>5. ActiveAdmins \ {user[r]} \subseteq ActiveAdmins'
      BY <1>2, <3>2, <3>4 DEF ActiveAdmins, TypeOK
    <3>6. CASE seen[r] = "admin"
      <4>1. adminLock = r /\ ActiveAdmins \ {user[r]} # {}
        BY <2>1, <3>1, <3>6 DEF Demoting
      <4>2. AdminRemains'
        BY <3>5, <4>1 DEF AdminRemains
      <4>3. QED
        BY <1>2, <2>3, <3>2, <3>3, <4>1, <4>2, DemotingFrame
    <3>7. CASE seen[r] # "admin"
      <4>1. role[user[r]] = "user"
        BY <2>1, <3>1, <3>7 DEF Demoting
      <4>2. role' = role
        BY <1>2, <3>1, <3>2, <4>1 DEF TypeOK
      <4>3. QED
        BY <2>4, <3>2, <4>2
    <3>8. QED
      BY <3>6, <3>7
  <2>10. ASSUME NEW r \in Requests, Deactivate(r) PROVE AdminInv'
    <3>1. op[r] = "deactivate" /\ pc[r] = "write" /\ user[r] \in Users
      BY <1>2, <2>10 DEF TypeOK, Deactivate
    <3>2. /\ UNCHANGED role /\ EndRequest(r)
          /\ active \ {user[r]} \subseteq active'
      BY <2>10 DEF Deactivate
    <3>3. ActiveAdmins \ {user[r]} \subseteq ActiveAdmins'
      BY <3>2 DEF ActiveAdmins
    <3>4. CASE seen[r] = "admin"
      <4>1. adminLock = r /\ ActiveAdmins \ {user[r]} # {}
        BY <2>1, <3>1, <3>4 DEF Demoting
      <4>2. AdminRemains'
        BY <3>3, <4>1 DEF AdminRemains
      <4>3. QED
        BY <1>2, <2>3, <3>2, <4>1, <4>2, DemotingFrame
    <3>5. CASE seen[r] # "admin"
      <4>1. role[user[r]] = "user"
        BY <2>1, <3>1, <3>5 DEF Demoting
      <4>2. ActiveAdmins \subseteq ActiveAdmins'
        BY <3>3, <4>1 DEF ActiveAdmins
      <4>3. AdminRemains'
        BY <1>2, <3>2, <4>2 DEF AdminInv, AdminRemains, Exists
      <4>4. QED
        BY <1>2, <2>3, <3>2, <4>2, <4>3, DemotingFrame
    <3>6. QED
      BY <3>4, <3>5
  <2>11. ASSUME NEW r \in Requests, Activate(r) PROVE AdminInv'
    <3>1. UNCHANGED role /\ EndRequest(r) /\ active \subseteq active'
      BY <2>11 DEF Activate
    <3>2. ActiveAdmins \subseteq ActiveAdmins'
      BY <3>1 DEF ActiveAdmins
    <3>3. AdminRemains'
      BY <1>2, <3>1, <3>2 DEF AdminInv, AdminRemains, Exists
    <3>4. QED
      BY <1>2, <2>3, <3>1, <3>2, <3>3, DemotingFrame
  <2>12. ASSUME NEW r \in Requests, SetupCommit(r) \/ AcceptCommit(r)
         PROVE  AdminInv'
    <3>1. /\ EndRequest(r) /\ user[r] \in Users /\ role[user[r]] = "none"
          /\ active' = active \cup {user[r]}
          /\ \E k \in Roles \cup {"none"} : role' = [role EXCEPT ![user[r]] = k]
      <4>1. CASE SetupCommit(r)
        BY <1>2, <4>1, Names DEF TypeOK, SetupCommit, Exists
      <4>2. CASE AcceptCommit(r)
        <5>1. inv[r] \in Invites
          BY <1>2, <4>2 DEF TypeOK, AcceptCommit
        <5>2. invite[inv[r]].role \in Roles
          BY <1>2, <5>1 DEF TypeOK
        <5>3. QED
          BY <1>2, <4>2, <5>2, Names DEF TypeOK, AcceptCommit, Exists
      <4>3. QED
        BY <2>12, <4>1, <4>2
    <3>2. \A u \in Users : u # user[r] => role'[u] = role[u]
      BY <1>2, <3>1 DEF TypeOK
    <3>3. \A u \in Users : role[u] = "user" => role'[u] = "user"
      BY <3>1, <3>2
    <3>4. ActiveAdmins \subseteq ActiveAdmins'
      BY <1>2, <3>1, <3>2 DEF TypeOK, ActiveAdmins
    <3>5. ActiveAdmins' # {}
      <4>1. CASE SetupCommit(r)
        <5>1. user[r] \in active' /\ role'[user[r]] = "admin"
          BY <1>2, <3>1, <4>1 DEF TypeOK, SetupCommit
        <5>2. QED
          BY <5>1 DEF ActiveAdmins
      <4>2. CASE AcceptCommit(r)
        <5>1. inv[r] \in Invites /\ invite[inv[r]].state # "unsent"
          BY <1>2, <4>2 DEF TypeOK, SetupInv, AcceptCommit
        <5>2. \E u \in Users : Exists(u)
          BY <1>2, <5>1 DEF SetupInv
        <5>3. QED
          BY <1>2, <3>4, <5>2 DEF AdminInv, AdminRemains
      <4>3. QED
        BY <2>12, <4>1, <4>2
    <3>6. QED
      BY <1>2, <2>3, <3>1, <3>3, <3>4, <3>5, DemotingFrame DEF AdminRemains
  <2>13. ASSUME NEW r \in Requests,
                SetupLock(r) \/ SetupCheck(r) \/ LoadMembership(r) \/ LoadTeam(r)
                  \/ LockTeams(r) \/ NotLastTeam(r) \/ FindTeams(r)
         PROVE  AdminInv'
    <3>1. /\ UNCHANGED <<role, active, op, user, seen, adminLock>>
          /\ op[r] \notin UserOps
          /\ \A q \in Requests \ {r} : pc'[q] = pc[q]
      BY <1>2, <2>13, Names
      DEF TypeOK, SetupLock, SetupCheck, LoadMembership, LoadTeam, LockTeams,
          NotLastTeam, FindTeams
    <3>2. Demoting(r)'
      BY <3>1, Names DEF Demoting
    <3>3. QED
      BY <1>2, <2>2, <3>1, <3>2, DemotingFrame
  <2>14. ASSUME NEW r \in Requests,
                SetupRefused(r) \/ UserNotFound(r) \/ LastAdmin(r) \/ AddMember(r)
                  \/ RemoveMember(r) \/ DeleteTeam(r) \/ TeamRequestEnds(r) \/ Abort(r)
         PROVE  AdminInv'
    BY <2>4, <2>14
    DEF SetupRefused, UserNotFound, LastAdmin, AddMember, RemoveMember,
        DeleteTeam, TeamRequestEnds, Abort
  <2>15. ASSUME UNCHANGED <<role, active, op, pc, user, seen, adminLock>>
         PROVE  AdminInv'
    BY <1>2, <2>2, <2>15 DEF AdminInv, Demoting
  <2>16. QED
    BY <1>2, <2>5, <2>6, <2>7, <2>8, <2>9, <2>10, <2>11, <2>12, <2>13, <2>14, <2>15
    DEF Next, Serve, CreateTeam, ExpireInvite, CreateInvite, vars
<1>3. QED
  BY <1>1, <1>2, TypeCorrect, LoadedInductive, SetupInductive, PTL DEF Spec

(* As long as nobody is promoted, an active administrator remains, however *)
(* demotions and deactivations interleave (change_role, deactivate_user).  *)
(* With promotions it is not so: see the run of Administration_promoted.   *)
THEOREM AdminStays == ~Promotions => (Spec => []AdminRemains)
<1>1. AdminInv => AdminRemains
  BY DEF AdminInv
<1>2. QED
  BY <1>1, AdminInductive, PTL

-----------------------------------------------------------------------------
(* Teams.  Who takes memberships away holds the lock since before the      *)
(* check, and the memberships that others gain meanwhile leave it true;    *)
(* who accepts an invite gets General at least, which nobody deletes.      *)
Leaving(r) ==
  /\ op[r] = "delete" /\ pc[r] \in {"lock", "check", "write"} => team[r] # General
  /\ op[r] \in {"remove", "delete"} /\ pc[r] \in {"check", "write"} => teamLock = r
  /\ op[r] \in {"remove", "delete"} /\ pc[r] = "write" => CanLeave(r)
  /\ op[r] = "accept" /\ pc[r] = "write" => General \in targets[r]

Membership ==
  /\ \A u \in Users : Exists(u) <=> member[u] # {}
  /\ (\E u \in Users : Exists(u)) => General \in teams

TeamInv == Membership /\ \A r \in Requests : Leaving(r)

(* Memberships that are only added, the first of an account being General. *)
OnlyJoins ==
  \A u \in Users : /\ member[u] \subseteq member'[u]
                   /\ member[u] = {} => member'[u] = {} \/ General \in member'[u]

(* A step of request r that leaves the others theirs.                      *)
LEMMA LeavingFrame ==
  ASSUME TypeOK, TeamInv, NEW r \in Requests,
         \A q \in Requests \ {r} :
           /\ pc'[q] = pc[q] /\ op'[q] = op[q] /\ user'[q] = user[q]
           /\ team'[q] = team[q] /\ targets'[q] = targets[q],
         teamLock' = teamLock \/ teamLock \in {r, Nobody},
         OnlyJoins \/ teamLock = r,
         Leaving(r)', Membership'
  PROVE  TeamInv'
<1>1. ASSUME NEW q \in Requests \ {r} PROVE Leaving(q)'
  <2>1. Leaving(q) /\ q # Nobody /\ q # r
    BY AdministrationAssumption DEF TeamInv
  <2>2. teamLock = q => teamLock' = q /\ OnlyJoins
    BY <2>1
  <2>3. ASSUME op[q] \in {"remove", "delete"}, pc[q] = "write" PROVE CanLeave(q)'
    <3>1. OnlyJoins /\ CanLeave(q)
      BY <2>1, <2>2, <2>3 DEF Leaving
    <3>2. CASE op[q] = "remove"
      <4>1. user[q] \in Users
        BY <3>2, Names DEF TypeOK
      <4>2. /\ team[q] \in member[user[q]]
            /\ \E t \in member[user[q]] : t # team[q]
        BY <3>1, <3>2 DEF CanLeave, InAnotherTeam
      <4>3. member[user[q]] \subseteq member'[user[q]]
        BY <3>1, <4>1 DEF OnlyJoins
      <4>4. QED
        BY <3>2, <4>2, <4>3 DEF CanLeave, InAnotherTeam
    <3>3. CASE op[q] = "delete"
      <4>1. team[q] # General
        BY <2>1, <2>3, <3>3 DEF Leaving
      <4>2. ASSUME NEW u \in Users, team[q] \in member'[u]
            PROVE  \E t \in member'[u] : t # team[q]
        <5>1. CASE member[u] = {}
          BY <3>1, <4>1, <4>2, <5>1 DEF OnlyJoins
        <5>2. CASE member[u] # {}
          <6>1. \E t \in member[u] : t # team[q]
            BY <3>1, <3>3, <5>2 DEF CanLeave, InAnotherTeam
          <6>2. QED
            BY <3>1, <6>1 DEF OnlyJoins
        <5>3. QED
          BY <5>1, <5>2
      <4>3. \A u \in Users : team[q] \in member'[u] => member'[u] \ {team[q]} # {}
        BY <4>2
      <4>4. QED
        BY <3>3, <4>3 DEF CanLeave, InAnotherTeam
    <3>4. QED
      BY <2>3, <3>2, <3>3
  <2>4. /\ op'[q] = "delete" /\ pc'[q] \in {"lock", "check", "write"} => team'[q] # General
        /\ op'[q] = "accept" /\ pc'[q] = "write" => General \in targets'[q]
    BY <2>1 DEF Leaving
  <2>5. op'[q] \in {"remove", "delete"} /\ pc'[q] \in {"check", "write"} => teamLock' = q
    BY <2>1, <2>2 DEF Leaving
  <2>6. op'[q] \in {"remove", "delete"} /\ pc'[q] = "write" => CanLeave(q)'
    BY <2>3
  <2>7. QED
    BY <2>4, <2>5, <2>6 DEF Leaving
<1>2. QED
  BY <1>1 DEF TeamInv

LEMMA TeamInductive == Spec => []TeamInv
<1>1. Init => TeamInv
  BY Names DEF Init, TeamInv, Membership, Leaving, Exists
<1>2. ASSUME TypeOK, Loaded, SetupInv, TeamInv, [Next]_vars PROVE TeamInv'
  <2> USE DEF accounts, locks, locals, Goto
  <2>1. Membership /\ \A q \in Requests : Leaving(q)
    BY <1>2 DEF TeamInv
  <2>2. ASSUME UNCHANGED <<role, member>>, teams \subseteq teams' PROVE Membership'
    BY <2>1, <2>2 DEF Membership, Exists
  <2>3. ASSUME UNCHANGED member PROVE OnlyJoins
    BY <2>3 DEF OnlyJoins
  <2>4. ASSUME NEW r \in Requests, EndRequest(r)
        PROVE  /\ \A q \in Requests \ {r} :
                    /\ pc'[q] = pc[q] /\ op'[q] = op[q] /\ user'[q] = user[q]
                    /\ team'[q] = team[q] /\ targets'[q] = targets[q]
               /\ teamLock' = teamLock \/ teamLock \in {r, Nobody}
               /\ Leaving(r)'
    BY <1>2, <2>4, Names DEF TypeOK, EndRequest, Leaving
  <2>5. ASSUME NEW r \in Requests, EndRequest(r), UNCHANGED <<role, teams, member>>
        PROVE  TeamInv'
    BY <1>2, <2>2, <2>3, <2>4, <2>5, LeavingFrame
  <2>6. ASSUME NEW r \in Requests, Arrive(r) PROVE TeamInv'
    <3>1. /\ UNCHANGED <<role, member, teams, teamLock>>
          /\ op'[r] = "delete" => pc'[r] = "load"
          /\ op'[r] = "remove" => pc'[r] = "lock"
          /\ op'[r] = "accept" => pc'[r] = "check"
          /\ \A q \in Requests \ {r} :
               /\ pc'[q] = pc[q] /\ op'[q] = op[q] /\ user'[q] = user[q]
               /\ team'[q] = team[q] /\ targets'[q] = targets[q]
      <4> USE <1>2, Names DEF TypeOK
      <4>1. CASE \E u \in Users : SetupArrives(r, u)
        BY <4>1 DEF SetupArrives
      <4>2. CASE \E o \in UserOps, u \in Users : UserRequest(r, o, u)
        BY <4>2 DEF UserRequest
      <4>3. CASE \E o \in TeamOps, t \in Teams, u \in Users \cup {Nobody} :
                   TeamRequest(r, o, t, u)
        BY <4>3 DEF TeamRequest
      <4>4. CASE \E i \in Invites : AcceptInvite(r, i)
        BY <4>4 DEF AcceptInvite
      <4>5. QED
        BY <2>6, <4>1, <4>2, <4>3, <4>4 DEF Arrive
    <3>2. Leaving(r)'
      BY <3>1 DEF Leaving
    <3>3. QED
      BY <1>2, <2>2, <2>3, <3>1, <3>2, LeavingFrame
  <2>7. ASSUME NEW r \in Requests, WriteRole(r) PROVE TeamInv'
    <3>1. /\ user[r] \in Users /\ Exists(user[r]) /\ EndRequest(r)
          /\ UNCHANGED <<teams, member>>
      BY <1>2, <2>7, Names DEF TypeOK, Loaded, WriteRole
    <3>2. \A u \in Users : Exists(u)' <=> Exists(u)
      BY <1>2, <2>7, <3>1 DEF TypeOK, WriteRole, Written, Exists
    <3>3. Membership'
      BY <2>1, <3>1, <3>2 DEF Membership
    <3>4. QED
      BY <1>2, <2>3, <2>4, <3>1, <3>3, LeavingFrame
  <2>8. ASSUME NEW r \in Requests, SetupCommit(r) \/ AcceptCommit(r) PROVE TeamInv'
    <3>1. \E T \in SUBSET Teams, k \in Roles :
            /\ EndRequest(r) /\ user[r] \in Users /\ ~Exists(user[r])
            /\ role' = [role EXCEPT ![user[r]] = k]
            /\ member' = [member EXCEPT ![user[r]] = T]
            /\ General \in T /\ General \in teams' /\ teams \subseteq teams'
      <4>1. CASE SetupCommit(r)
        <5>1. user[r] \in Users /\ {General} \in SUBSET Teams /\ "admin" \in Roles
          BY <1>2, <4>1, Names, AdministrationAssumption DEF TypeOK, SetupCommit
        <5>2. QED
          BY <4>1, <5>1 DEF SetupCommit
      <4>2. CASE AcceptCommit(r)
        <5>1. /\ inv[r] \in Invites /\ user[r] \in Users /\ targets[r] \in SUBSET Teams
          BY <1>2, <4>2 DEF TypeOK, AcceptCommit
        <5>2. invite[inv[r]].role \in Roles
          BY <1>2, <5>1 DEF TypeOK
        <5>3. General \in targets[r]
          BY <2>1, <4>2 DEF Leaving, AcceptCommit
        <5>4. QED
          BY <4>2, <5>1, <5>2, <5>3 DEF AcceptCommit
      <4>3. QED
        BY <2>8, <4>1, <4>2
    <3>2. \A u \in Users : u # user[r] => role'[u] = role[u] /\ member'[u] = member[u]
      BY <1>2, <3>1 DEF TypeOK
    <3>3. /\ user[r] \in Users /\ member[user[r]] = {} /\ EndRequest(r)
          /\ General \in member'[user[r]] /\ role'[user[r]] # "none" /\ General \in teams'
      BY <1>2, <2>1, <3>1, Names DEF TypeOK, Membership, Exists
    <3>4. Membership'
      BY <2>1, <3>2, <3>3 DEF Membership, Exists
    <3>5. OnlyJoins
      BY <3>2, <3>3 DEF OnlyJoins
    <3>6. QED
      BY <1>2, <2>4, <3>3, <3>4, <3>5, LeavingFrame
  <2>9. ASSUME NEW r \in Requests, AddMember(r) PROVE TeamInv'
    <3>1. EndRequest(r) /\ UNCHANGED <<role, teams>> /\ user[r] \in Users
      BY <1>2, <2>9 DEF TypeOK, AddMember
    <3>2. CASE ~CanAdd(r)
      BY <2>5, <2>9, <3>1, <3>2 DEF AddMember
    <3>3. CASE CanAdd(r)
      <4>1. /\ \A u \in Users : u # user[r] => member'[u] = member[u]
            /\ member'[user[r]] = member[user[r]] \cup {team[r]}
            /\ Exists(user[r])
        BY <1>2, <2>9, <3>1, <3>3 DEF TypeOK, AddMember, CanAdd
      <4>2. OnlyJoins
        BY <2>1, <3>1, <4>1 DEF OnlyJoins, Membership
      <4>3. Membership'
        BY <2>1, <3>1, <4>1 DEF Membership, Exists
      <4>4. QED
        BY <1>2, <2>4, <3>1, <4>2, <4>3, LeavingFrame
    <3>4. QED
      BY <3>2, <3>3
  <2>10. ASSUME NEW r \in Requests, RemoveMember(r) PROVE TeamInv'
    <3>1. /\ EndRequest(r) /\ UNCHANGED <<role, teams>> /\ user[r] \in Users
          /\ teamLock = r /\ CanLeave(r) /\ op[r] = "remove"
      BY <1>2, <2>1, <2>10 DEF TypeOK, RemoveMember, Leaving
    <3>2. /\ \A u \in Users : u # user[r] => member'[u] = member[u]
          /\ member'[user[r]] = member[user[r]] \ {team[r]}
      BY <1>2, <2>10, <3>1 DEF TypeOK, RemoveMember
    <3>3. member[user[r]] # {} /\ member'[user[r]] # {}
      BY <3>1, <3>2 DEF CanLeave, InAnotherTeam
    <3>4. Membership'
      BY <2>1, <3>1, <3>2, <3>3 DEF Membership, Exists
    <3>5. QED
      BY <1>2, <2>4, <3>1, <3>4, LeavingFrame
  <2>11. ASSUME NEW r \in Requests, DeleteTeam(r) PROVE TeamInv'
    <3>1. /\ EndRequest(r) /\ UNCHANGED role /\ op[r] = "delete"
          /\ teamLock = r /\ CanLeave(r) /\ team[r] # General
      BY <2>1, <2>11 DEF DeleteTeam, Leaving
    <3>2. \A u \in Users : /\ member'[u] = member[u] \ {team[r]}
                           /\ team[r] \in member[u] => member[u] \ {team[r]} # {}
      BY <2>11, <3>1 DEF DeleteTeam, CanLeave, InAnotherTeam
    <3>3. \A u \in Users : member[u] # {} <=> member'[u] # {}
      BY <3>2
    <3>4. Membership'
      BY <2>1, <2>11, <3>1, <3>3 DEF Membership, Exists, DeleteTeam
    <3>5. QED
      BY <1>2, <2>4, <3>1, <3>4, LeavingFrame
  <2>12. ASSUME NEW r \in Requests, LoadTeam(r) \/ LockTeams(r) \/ NotLastTeam(r)
         PROVE  TeamInv'
    <3>1. /\ UNCHANGED <<role, teams, member, op, user, team, targets>>
          /\ \A q \in Requests \ {r} : pc'[q] = pc[q]
          /\ teamLock' = teamLock \/ teamLock \in {r, Nobody}
      BY <1>2, <2>12 DEF TypeOK, LoadTeam, LockTeams, NotLastTeam
    <3>2. Leaving(r)'
      <4> USE <1>2, <2>1 DEF TypeOK, Leaving
      <4>1. CASE LoadTeam(r)
        BY <4>1 DEF LoadTeam
      <4>2. CASE LockTeams(r)
        BY <4>2 DEF LockTeams
      <4>3. CASE NotLastTeam(r)
        BY <4>3 DEF NotLastTeam, CanLeave, InAnotherTeam
      <4>4. QED
        BY <2>12, <4>1, <4>2, <4>3
    <3>3. QED
      BY <1>2, <2>2, <2>3, <3>1, <3>2, LeavingFrame
  <2>13. ASSUME NEW r \in Requests, FindTeams(r) PROVE TeamInv'
    <3>1. /\ UNCHANGED <<role, teams, member, op, user, team, teamLock>>
          /\ \A q \in Requests \ {r} : pc'[q] = pc[q] /\ targets'[q] = targets[q]
          /\ targets'[r] = (invite[inv[r]].teams \cup {General}) \cap teams
          /\ op[r] = "accept"
      BY <1>2, <2>13 DEF TypeOK, FindTeams
    <3>2. inv[r] \in Invites /\ invite[inv[r]].state # "unsent"
      BY <1>2, <3>1 DEF TypeOK, SetupInv
    <3>3. General \in teams
      BY <1>2, <2>1, <3>2 DEF SetupInv, Membership
    <3>4. Leaving(r)'
      BY <3>1, <3>3 DEF Leaving
    <3>5. QED
      BY <1>2, <2>2, <2>3, <3>1, <3>4, LeavingFrame
  <2>14. ASSUME NEW r \in Requests,
                SetupLock(r) \/ SetupCheck(r) \/ LoadUser(r) \/ LockAdmin(r)
                  \/ AnotherAdmin(r) \/ LoadMembership(r)
         PROVE  TeamInv'
    <3>1. /\ UNCHANGED <<role, teams, member, op, user, team, targets, teamLock>>
          /\ \A q \in Requests \ {r} : pc'[q] = pc[q]
          /\ op[r] \notin {"remove", "delete", "accept"}
      BY <1>2, <2>14, Names
      DEF TypeOK, SetupLock, SetupCheck, LoadUser, LockAdmin, AnotherAdmin,
          LoadMembership, UserOps
    <3>2. Leaving(r)'
      BY <3>1 DEF Leaving
    <3>3. QED
      BY <1>2, <2>2, <2>3, <3>1, <3>2, LeavingFrame
  <2>15. ASSUME NEW r \in Requests,
                SetupRefused(r) \/ UserNotFound(r) \/ LastAdmin(r) \/ Deactivate(r)
                  \/ Activate(r) \/ TeamRequestEnds(r) \/ Abort(r)
         PROVE  TeamInv'
    BY <2>5, <2>15
    DEF SetupRefused, UserNotFound, LastAdmin, Deactivate, Activate,
        TeamRequestEnds, Abort
  <2>16. ASSUME UNCHANGED <<role, member, op, pc, user, team, targets, teamLock>>,
                teams \subseteq teams'
         PROVE  TeamInv'
    BY <2>1, <2>2, <2>16
    DEF TeamInv, Leaving, CanLeave, InAnotherTeam
  <2>17. QED
    BY <1>2, <2>6, <2>7, <2>8, <2>9, <2>10, <2>11, <2>12, <2>13, <2>14, <2>15, <2>16
    DEF Next, Serve, CreateTeam, ExpireInvite, CreateInvite, vars
<1>3. QED
  BY <1>1, <1>2, TypeCorrect, LoadedInductive, SetupInductive, PTL DEF Spec

(* Every account is in a team, through removals, deletions, additions and  *)
(* accepted invites at once: for any users, teams and requests.            *)
THEOREM EveryoneStaysInTeam == Spec => []EveryoneInTeam
<1>1. TeamInv => EveryoneInTeam
  BY DEF TeamInv, Membership, EveryoneInTeam
<1>2. QED
  BY <1>1, TeamInductive, PTL

(***************************************************************************)
(* ControllersPage: types                                                  *)
(***************************************************************************)
\* PageTypeOK, by what changes together.
ServerOK ==
  /\ DOMAIN rows \subseteq Controllers /\ \A c \in DOMAIN rows : rows[c] \in Conn
  /\ sync \in [Controllers -> {"idle", "running"}] /\ queue \in [Controllers -> Nat]

FetchOK == fetch \in Fetch /\ (fetch.is = "read" <=> fetch.list # None)

DataOK == list \in Lists \cup {None} /\ news \subseteq Controllers

FormOK ==
  modal = None \/ /\ modal \in Form
                  /\ modal.led = "ok" <=> modal.tested # None
                  /\ modal.led = "testing" <=> modal.asked # None

RestOK ==
  /\ here \in BOOLEAN /\ posts \subseteq [of : Controllers, accepted : BOOLEAN]
  /\ busy \in Controllers \cup {None}
  /\ save \in [of : Of, input : Input, live : BOOLEAN] \cup {None}
  /\ events \in 0..MaxEvents

LEMMA PageTypes == PageTypeOK <=> ServerOK /\ FetchOK /\ DataOK /\ FormOK /\ RestOK
BY DEF PageTypeOK, ServerOK, FetchOK, DataOK, FormOK, RestOK

\* What the server answers, and what the page makes of it.
LEMMA ReadListType == ASSUME ServerOK PROVE ReadList \in Lists
<1>1. ReadList \in [DOMAIN rows -> Seen]
  BY DEF ServerOK, ReadList, Conn, Seen
<1> QED
  BY <1>1 DEF ServerOK, Lists

LEMMA ShownType ==
  ASSUME DataOK
  PROVE  DOMAIN Shown \subseteq Controllers /\ \A c \in DOMAIN Shown : Shown[c] \in Seen
<1>1. CASE list = None
  <2>1. Shown = <<>> /\ DOMAIN << >> = {}
    BY <1>1 DEF Shown
  <2> QED
    BY <2>1
<1>2. CASE list # None
  BY <1>2 DEF DataOK, Shown, Lists
<1> QED
  BY <1>1, <1>2

LEMMA SetDataType ==
  ASSUME DataOK, NEW l \in Lists, SetData(l)
  PROVE  DataOK'
BY DEF DataOK, SetData

\* The status of a controller that is shown is set.
LEMMA SetRunningType ==
  ASSUME DataOK, NEW c \in DOMAIN Shown
  PROVE  [list EXCEPT ![c].running = TRUE] \in Lists
<1>1. list # None
  <2>1. DOMAIN << >> = {}
    OBVIOUS
  <2> QED
    BY <2>1 DEF Shown
<1>2. PICK S \in SUBSET Controllers : list \in [S -> Seen]
  BY <1>1 DEF DataOK, Lists
<1>3. c \in S /\ list[c] \in Seen
  BY <1>1, <1>2 DEF Shown
<1>4. [list[c] EXCEPT !.running = TRUE] \in Seen
  BY <1>3 DEF Seen
<1>5. [list EXCEPT ![c].running = TRUE] \in [S -> Seen]
  BY <1>2, <1>3, <1>4
<1> QED
  BY <1>5 DEF Lists

LEMMA InvalidateType == ASSUME FetchOK, Invalidate PROVE FetchOK'
BY DEF FetchOK, Invalidate, Asked, Fetch

LEMMA EffectiveType ==
  ASSUME ServerOK, NEW c, NEW input \in Input
  PROVE  Effective(c, input) \in Conn \cup {None}
BY DEF ServerOK, Effective, Input, Conn

LEMMA UntestedType ==
  ASSUME NEW c \in Of, NEW input \in Input, modal' = Untested(c, input)
  PROVE  FormOK'
<1>1. Untested(c, input) \in Form
  BY DEF Untested, Form
<1> QED
  BY <1>1 DEF FormOK, Untested

LEMMA TestedType ==
  ASSUME NEW c \in Of, NEW input \in Input, NEW led \in {"idle", "testing", "ok", "err"},
         NEW tested \in Conn \cup {None}, NEW asked \in Input \cup {None}, NEW over \in BOOLEAN,
         led = "ok" <=> tested # None, led = "testing" <=> asked # None,
         modal' = [of |-> c, input |-> input, led |-> led, tested |-> tested,
                   asked |-> asked, overtaken |-> over]
  PROVE  FormOK'
<1>1. modal' \in Form
  BY DEF Form
<1> QED
  BY <1>1 DEF FormOK

\* Every variable of the page and of its server stays in its range (controllers.ts,
\* AwxControllers.tsx): an answer that is there is a list of controllers, a
\* light is green where a connection was tested, and a test under way has its form.
THEOREM PageTypeCorrect == PageSpec => []PageTypeOK
<1>1. ASSUME PageInit PROVE PageTypeOK
  <2>1. PICK S \in Starts : rows = [c \in S |-> CHOOSE x \in Conn : x.ssl]
    BY <1>1 DEF PageInit
  <2>2. PICK u \in Urls, t \in Tokens : TRUE
    BY ControllersPageAssumption
  <2>3. [url |-> u, token |-> t, ssl |-> TRUE] \in Conn
    BY DEF Conn
  <2>4. (CHOOSE x \in Conn : x.ssl) \in Conn
    BY <2>3
  <2>5. S \subseteq Controllers
    BY ControllersPageAssumption
  <2>6. ServerOK
    BY <1>1, <2>1, <2>4, <2>5 DEF ServerOK, PageInit
  <2>7. FetchOK /\ DataOK /\ FormOK
    BY <1>1 DEF PageInit, FetchOK, DataOK, FormOK, Asked, Fetch
  <2>8. RestOK
    BY <1>1, ControllersPageAssumption DEF PageInit, RestOK
  <2> QED
    BY <2>6, <2>7, <2>8, PageTypes
<1>2. ASSUME PageTypeOK, [PageNext]_pageVars PROVE PageTypeOK'
  <2>0. ServerOK /\ FetchOK /\ DataOK /\ FormOK /\ RestOK
    BY <1>2, PageTypes
  <2> USE <2>0
  <2>a. UNCHANGED server => ServerOK'
    BY DEF server, ServerOK
  <2>b. UNCHANGED fetch => FetchOK'
    BY DEF FetchOK
  <2>c. UNCHANGED <<list, news>> => DataOK'
    BY DEF DataOK
  <2>d. UNCHANGED modal => FormOK'
    BY DEF FormOK
  <2>e. UNCHANGED <<here, posts, busy, save>> /\ (Counted \/ UNCHANGED events) => RestOK'
    BY ControllersPageAssumption DEF RestOK, Counted
  <2>f. SUFFICES ServerOK' /\ FetchOK' /\ DataOK' /\ FormOK' /\ RestOK'
    BY PageTypes DEF PageTypeOK, ServerOK, FetchOK, DataOK, FormOK, RestOK
  <2>1. ASSUME NEW c \in Controllers, SyncNow(c)
        PROVE  ServerOK' /\ FetchOK' /\ DataOK' /\ FormOK' /\ RestOK'
    <3>1. [of |-> c, accepted |-> FALSE] \in [of : Controllers, accepted : BOOLEAN]
      OBVIOUS
    <3>2. /\ posts' = posts \cup {[of |-> c, accepted |-> FALSE]} /\ busy' = c
          /\ UNCHANGED <<here, save>> /\ Counted
      BY <2>1 DEF SyncNow, ByClick
    <3>3. events' \in 0..MaxEvents
      BY <3>2, ControllersPageAssumption DEF Counted, RestOK
    <3>4. RestOK'
      BY <3>1, <3>2, <3>3 DEF RestOK
    <3> QED
      BY <2>1, <2>a, <2>b, <2>c, <2>d, <3>4 DEF SyncNow, query
  <2>2. ASSUME NEW c \in Controllers, Delete(c)
        PROVE  ServerOK' /\ FetchOK' /\ DataOK' /\ FormOK' /\ RestOK'
    <3>1. ServerOK'
      BY <2>2 DEF Delete, ServerOK
    <3>2. FetchOK'
      BY <2>2, InvalidateType DEF Delete
    <3>3. DataOK'
      BY <2>2 DEF Delete, DataOK
    <3> QED
      BY <2>2, <2>d, <2>e, <3>1, <3>2, <3>3 DEF Delete, ByClick
  <2>3. ASSUME NEW c \in Of, Open(c)
        PROVE  ServerOK' /\ FetchOK' /\ DataOK' /\ FormOK' /\ RestOK'
    <3>1. InitForm(c) \in Input
      BY <2>3, ShownType DEF Open, InitForm, Input, Seen
    <3>2. FormOK'
      BY <2>3, <3>1, UntestedType DEF Open
    <3> QED
      BY <2>3, <2>a, <2>b, <2>c, <2>e, <3>2 DEF Open, query
  <2>4. ASSUME NEW input \in Input, Edit(input)
        PROVE  ServerOK' /\ FetchOK' /\ DataOK' /\ FormOK' /\ RestOK'
    <3>1. modal # None /\ modal \in Form
      BY <2>4 DEF Edit, Changed, FormOK
    <3>2. CASE modal.led = "testing"
      <4>1. modal' = [modal EXCEPT !.input = input]
        BY <2>4, <3>2 DEF Edit
      <4>2. modal' \in Form
        BY <3>1, <4>1 DEF Form
      <4>3. modal'.led = modal.led /\ modal'.tested = modal.tested /\ modal'.asked = modal.asked
        BY <3>1, <4>1 DEF Form
      <4> QED
        BY <2>4, <2>a, <2>b, <2>c, <2>e, <3>1, <4>2, <4>3 DEF FormOK, Edit, Changed, query
    <3>3. CASE modal.led # "testing"
      <4>1. modal.of \in Of
        BY <3>1 DEF Form
      <4>2. FormOK'
        BY <2>4, <3>3, <4>1, UntestedType DEF Edit
      <4> QED
        BY <2>4, <2>a, <2>b, <2>c, <2>e, <4>2 DEF Edit, Changed, query
    <3> QED
      BY <3>2, <3>3
  <2>5. ASSUME NEW stale \in BOOLEAN, Come(stale)
        PROVE  ServerOK' /\ FetchOK' /\ DataOK' /\ FormOK' /\ RestOK'
    <3>1. FetchOK'
      BY <2>5 DEF Come, FetchOK, Fetch, Asked
    <3>2. RestOK'
      BY <2>5 DEF Come, RestOK
    <3> QED
      BY <2>5, <2>a, <2>c, <2>d, <3>1, <3>2 DEF Come
  <2>6. ASSUME Leave
        PROVE  ServerOK' /\ FetchOK' /\ DataOK' /\ FormOK' /\ RestOK'
    <3>1. save # None => [save EXCEPT !.live = FALSE] \in [of : Of, input : Input, live : BOOLEAN]
      BY DEF RestOK
    <3>2. RestOK'
      BY <2>6, <3>1 DEF Leave, RestOK
    <3> QED
      BY <2>6, <2>a, <2>b, <2>c, <2>d, <3>2 DEF Leave, query
  <2>7. ASSUME Cancel
        PROVE  ServerOK' /\ FetchOK' /\ DataOK' /\ FormOK' /\ RestOK'
    <3>1. FormOK'
      BY <2>7 DEF Cancel, FormOK
    <3> QED
      BY <2>7, <2>a, <2>b, <2>c, <2>e, <3>1 DEF Cancel, query
  <2>8. ASSUME Test
        PROVE  ServerOK' /\ FetchOK' /\ DataOK' /\ FormOK' /\ RestOK'
    <3>1. modal # None /\ modal \in Form
      BY <2>8 DEF Test, FormOK
    <3>2. modal' = [of |-> modal.of, input |-> modal.input, led |-> "testing", tested |-> None,
                    asked |-> modal.input, overtaken |-> FALSE]
      BY <2>8, <3>1 DEF Test, Form
    <3>3. modal.of \in Of /\ modal.input \in Input /\ modal.input # None
      BY <3>1, ControllersPageAssumption DEF Form
    <3>4. FormOK'
      BY <3>2, <3>3, TestedType
    <3> QED
      BY <2>8, <2>a, <2>b, <2>c, <2>e, <3>4 DEF Test, query
  <2>9. ASSUME Submit
        PROVE  ServerOK' /\ FetchOK' /\ DataOK' /\ FormOK' /\ RestOK'
    <3>1. modal.of \in Of /\ modal.input \in Input
      BY <2>9 DEF Submit, FormOK, Form
    <3>2. save' \in [of : Of, input : Input, live : BOOLEAN]
      BY <2>9, <3>1 DEF Submit
    <3>3. RestOK'
      BY <2>9, <3>2, ControllersPageAssumption DEF Submit, Counted, RestOK
    <3> QED
      BY <2>9, <2>a, <2>b, <2>c, <2>d, <3>3 DEF Submit, query
  <2>10. ASSUME Poll \/ Reconnect \/ ServerReads \/ FetchFails
         PROVE  ServerOK' /\ FetchOK' /\ DataOK' /\ FormOK' /\ RestOK'
    <3>1. [is |-> "read", list |-> ReadList] \in Fetch /\ ReadList # None
      BY ReadListType, ControllersPageAssumption DEF Fetch
    <3>2. fetch' \in {Asked, NoFetch, [is |-> "read", list |-> ReadList]}
      BY <2>10 DEF Poll, Reconnect, ServerReads, FetchFails
    <3>3. FetchOK'
      BY <3>1, <3>2 DEF FetchOK, Fetch, Asked, NoFetch
    <3> QED
      BY <2>10, <2>a, <2>c, <2>d, <2>e, <3>3 DEF Poll, Reconnect, ServerReads, FetchFails, page
  <2>11. ASSUME Answer
         PROVE  ServerOK' /\ FetchOK' /\ DataOK' /\ FormOK' /\ RestOK'
    <3>1. fetch.list \in Lists
      BY <2>11 DEF Answer, FetchOK, Fetch
    <3>2. DataOK'
      BY <2>11, <3>1, SetDataType DEF Answer
    <3>3. FetchOK'
      BY <2>11 DEF Answer, FetchOK, Fetch, NoFetch
    <3> QED
      BY <2>11, <2>a, <2>d, <2>e, <3>2, <3>3 DEF Answer, page
  <2>12. ASSUME NEW p \in posts, Accept(p)
         PROVE  ServerOK' /\ FetchOK' /\ DataOK' /\ FormOK' /\ RestOK'
    <3>1. ServerOK'
      BY <2>12 DEF Accept, ServerOK
    <3>2. [p EXCEPT !.accepted = TRUE] \in [of : Controllers, accepted : BOOLEAN]
      BY DEF RestOK
    <3>3. RestOK'
      BY <2>12, <3>2 DEF Accept, RestOK
    <3> QED
      BY <2>12, <2>b, <2>c, <2>d, <3>1, <3>3 DEF Accept, query
  <2>13. ASSUME NEW p \in posts, Accepted(p) \/ Refused(p)
         PROVE  ServerOK' /\ FetchOK' /\ DataOK' /\ FormOK' /\ RestOK'
    <3>1. RestOK'
      BY <2>13 DEF Accepted, Refused, Freed, RestOK
    <3>2. DataOK'
      BY <2>13, <2>c, SetRunningType, SetDataType DEF Accepted, Refused, query
    <3> QED
      BY <2>13, <2>a, <2>b, <2>d, <3>1, <3>2 DEF Accepted, Refused, query
  <2>14. ASSUME NEW ok \in BOOLEAN, Verdict(ok)
         PROVE  ServerOK' /\ FetchOK' /\ DataOK' /\ FormOK' /\ RestOK'
    <3> DEFINE conn == Effective(modal.of, modal.asked)
               led == IF ok THEN "ok" ELSE "err"
               tested == IF ok THEN conn ELSE None
               over == modal.overtaken \/ modal.asked # modal.input
    <3>1. modal # None /\ modal \in Form /\ modal.led = "testing" /\ modal.asked # None
      BY <2>14 DEF Verdict, FormOK
    <3>2. /\ modal' = [modal EXCEPT !.led = led, !.tested = tested, !.overtaken = over, !.asked = None]
          /\ ok => conn # None
      BY <2>14 DEF Verdict
    <3>3. modal.of \in Of /\ modal.input \in Input /\ modal.asked \in Input /\ over \in BOOLEAN
      BY <3>1 DEF Form
    <3>4. conn \in Conn \cup {None}
      BY <3>3, EffectiveType
    <3>5. /\ tested \in Conn \cup {None} /\ led \in {"ok", "err"}
          /\ led = "ok" <=> tested # None
      BY <3>2, <3>4
    <3> HIDE DEF conn, led, tested, over
    <3>6. modal' = [of |-> modal.of, input |-> modal.input, led |-> led, tested |-> tested,
                    asked |-> None, overtaken |-> over]
      BY <3>1, <3>2 DEF Form
    <3>7. FormOK'
      BY <3>3, <3>5, <3>6, TestedType
    <3> QED
      BY <2>14, <2>a, <2>b, <2>c, <2>e, <3>7 DEF Verdict, query
  <2>15. ASSUME Saved
         PROVE  ServerOK' /\ FetchOK' /\ DataOK' /\ FormOK' /\ RestOK'
    <3>1. save \in [of : Of, input : Input, live : BOOLEAN]
      BY <2>15 DEF Saved, RestOK
    <3>2. Effective(save.of, save.input) \in Conn
      BY <2>15, <3>1, EffectiveType DEF Saved
    <3>3. PICK c \in IF save.of = None THEN Controllers \ DOMAIN rows ELSE {save.of} :
            rows' = [d \in DOMAIN rows \cup {c} |->
                       IF d = c THEN Effective(save.of, save.input) ELSE rows[d]]
      BY <2>15 DEF Saved
    <3>4. c \in Controllers
      BY <3>1, <3>3 DEF Of
    <3>5. ServerOK'
      BY <2>15, <3>2, <3>3, <3>4 DEF Saved, ServerOK
    <3>6. FetchOK'
      BY <2>15, InvalidateType DEF Saved
    <3>7. FormOK'
      <4>1. CASE modal' = None
        BY <4>1 DEF FormOK
      <4>2. CASE modal' # None
        <5>1. modal \in Form /\ modal' = [modal EXCEPT !.overtaken = TRUE]
          BY <2>15, <4>2 DEF Saved, FormOK
        <5>2. /\ modal' \in Form /\ modal'.led = modal.led /\ modal'.tested = modal.tested
              /\ modal'.asked = modal.asked
          BY <5>1 DEF Form
        <5> QED
          BY <2>15, <4>2, <5>2 DEF Saved, FormOK
      <4> QED
        BY <4>1, <4>2
    <3>8. RestOK'
      BY <2>15 DEF Saved, RestOK
    <3> QED
      BY <2>15, <2>c, <3>5, <3>6, <3>7, <3>8 DEF Saved
  <2>16. ASSUME SaveRefused
         PROVE  ServerOK' /\ FetchOK' /\ DataOK' /\ FormOK' /\ RestOK'
    <3>1. RestOK'
      BY <2>16 DEF SaveRefused, RestOK
    <3> QED
      BY <2>16, <2>a, <2>b, <2>c, <2>d, <3>1 DEF SaveRefused, query
  <2>17. ASSUME NEW c \in Controllers, SchedulerFires(c) \/ TaskStarts(c) \/ TaskEnds(c)
         PROVE  ServerOK' /\ FetchOK' /\ DataOK' /\ FormOK' /\ RestOK'
    <3>1. ServerOK'
      BY <2>17 DEF SchedulerFires, TaskStarts, TaskEnds, ServerOK
    <3>2. DataOK'
      BY <2>17 DEF SchedulerFires, TaskStarts, TaskEnds, DataOK, query
    <3> QED
      BY <2>17, <2>b, <2>d, <2>e, <3>1, <3>2 DEF SchedulerFires, TaskStarts, TaskEnds, query, page
  <2>18. CASE UNCHANGED pageVars
    BY <2>18, <2>a, <2>b, <2>c, <2>d, <2>e DEF pageVars, query, page
  <2> QED
    BY <1>2, <2>1, <2>2, <2>3, <2>4, <2>5, <2>6, <2>7, <2>8, <2>9, <2>10, <2>11, <2>12, <2>13,
       <2>14, <2>15, <2>16, <2>17, <2>18 DEF PageNext, User, Network, Background
<1> QED
  BY <1>1, <1>2, PTL DEF PageSpec

(***************************************************************************)
(* ControllersPage: the green light of the form of settings/AwxControllers.tsx *)
(* is of what the form would save.                                         *)
(***************************************************************************)
\* While the rows stand still, so does what the server makes of a form.
LEMMA SameEffect ==
  ASSUME UNCHANGED rows, NEW c, NEW input
  PROVE  Effective(c, input)' = Effective(c, input)
BY DEF Effective

\* A form without a verdict promises nothing.
LEMMA UntestedIsFine ==
  ASSUME NEW c, NEW input, modal' = Untested(c, input)
  PROVE  GreenIsOfTheForm'
<1>1. modal'.led = "idle"
  BY DEF Untested
<1> QED
  BY <1>1 DEF GreenIsOfTheForm

\* A green light is of the connection that the form would save, blank fields included,
\* unless the form was changed while the test ran or an earlier save arrived since.
THEOREM GreenIsTrue == PageSpec => []GreenIsOfTheForm
<1>1. PageInit => GreenIsOfTheForm
  BY DEF PageInit, GreenIsOfTheForm
<1>2. ASSUME PageTypeOK, GreenIsOfTheForm, [PageNext]_pageVars PROVE GreenIsOfTheForm'
  <2> USE <1>2
  <2>0. modal # None => modal \in Form
    BY DEF PageTypeOK
  <2>1. ASSUME UNCHANGED <<rows, modal>> PROVE GreenIsOfTheForm'
    BY <2>1 DEF GreenIsOfTheForm, Effective
  <2>2. ASSUME modal' = None PROVE GreenIsOfTheForm'
    BY <2>2 DEF GreenIsOfTheForm
  <2>3. ASSUME NEW c \in Controllers, SyncNow(c) PROVE GreenIsOfTheForm'
    BY <2>1, <2>3 DEF SyncNow, server
  <2>4. ASSUME NEW c \in Controllers, Delete(c) PROVE GreenIsOfTheForm'
    BY <2>2, <2>4 DEF Delete, ByClick
  <2>5. ASSUME NEW c \in Of, Open(c) PROVE GreenIsOfTheForm'
    BY <2>5, UntestedIsFine DEF Open
  <2>6. ASSUME NEW input \in Input, Edit(input) PROVE GreenIsOfTheForm'
    <3>1. CASE modal.led = "testing"
      <4>1. modal # None /\ modal' = [modal EXCEPT !.input = input]
        BY <2>6, <3>1 DEF Edit, Changed
      <4>2. modal' = [of |-> modal.of, input |-> input, led |-> "testing", tested |-> modal.tested,
                      asked |-> modal.asked, overtaken |-> modal.overtaken]
        BY <2>0, <3>1, <4>1 DEF Form
      <4> QED
        BY <4>2 DEF GreenIsOfTheForm
    <3>2. CASE modal.led # "testing"
      BY <2>6, <3>2, UntestedIsFine DEF Edit
    <3> QED
      BY <3>1, <3>2
  <2>7. ASSUME (\E stale \in BOOLEAN : Come(stale)) \/ Leave \/ Submit \/ SaveRefused
        PROVE  GreenIsOfTheForm'
    BY <2>1, <2>7 DEF Come, Leave, Submit, SaveRefused, server
  <2>8. ASSUME Cancel PROVE GreenIsOfTheForm'
    BY <2>2, <2>8 DEF Cancel
  <2>9. ASSUME Test PROVE GreenIsOfTheForm'
    <3>1. modal # None /\ modal' = [modal EXCEPT !.led = "testing", !.tested = None, !.asked = modal.input, !.overtaken = FALSE]
      BY <2>9 DEF Test
    <3>2. modal' = [of |-> modal.of, input |-> modal.input, led |-> "testing", tested |-> None,
                    asked |-> modal.input, overtaken |-> FALSE]
      BY <2>0, <3>1 DEF Form
    <3> QED
      BY <3>2 DEF GreenIsOfTheForm
  <2>10. ASSUME Poll \/ Reconnect \/ ServerReads \/ Answer \/ FetchFails PROVE GreenIsOfTheForm'
    BY <2>1, <2>10 DEF Poll, Reconnect, ServerReads, Answer, FetchFails, server, page
  <2>11. ASSUME NEW p \in posts, Accept(p) \/ Accepted(p) \/ Refused(p) PROVE GreenIsOfTheForm'
    BY <2>1, <2>11 DEF Accept, Accepted, Refused, server
  <2>12. ASSUME NEW ok \in BOOLEAN, Verdict(ok) PROVE GreenIsOfTheForm'
    <3> DEFINE conn == Effective(modal.of, modal.asked)
               led == IF ok THEN "ok" ELSE "err"
               tested == IF ok THEN conn ELSE None
               over == modal.overtaken \/ modal.asked # modal.input
    <3>1. /\ modal # None /\ UNCHANGED rows
          /\ modal' = [modal EXCEPT !.led = led, !.tested = tested, !.overtaken = over, !.asked = None]
      BY <2>12 DEF Verdict, server
    <3>2. modal' = [of |-> modal.of, input |-> modal.input, led |-> led, tested |-> tested,
                    asked |-> None, overtaken |-> over]
      BY <2>0, <3>1 DEF Form
    <3>3. ASSUME modal'.led = "ok", ~modal'.overtaken
          PROVE  Effective(modal.of, modal.input) = tested
      <4>1. led = "ok" /\ ~over
        BY <3>2, <3>3
      <4>2. ok = TRUE /\ modal.asked = modal.input
        BY <4>1
      <4> QED
        BY <4>2
    <3>4. Effective(modal.of, modal.input)' = Effective(modal'.of, modal'.input)
      BY <3>1, SameEffect DEF Effective
    <3>6. modal'.of = modal.of /\ modal'.input = modal.input /\ modal'.tested = tested
      BY <3>2
    <3> HIDE DEF conn, led, tested, over
    <3> QED
      BY <3>1, <3>3, <3>4, <3>6 DEF GreenIsOfTheForm
  <2>13. ASSUME Saved PROVE GreenIsOfTheForm'
    <3>1. CASE modal' = None
      BY <2>2, <3>1
    <3>2. CASE modal' # None
      <4>1. modal # None /\ modal' = [modal EXCEPT !.overtaken = TRUE]
        BY <2>13, <3>2 DEF Saved
      <4>2. modal' = [of |-> modal.of, input |-> modal.input, led |-> modal.led, tested |-> modal.tested,
                      asked |-> modal.asked, overtaken |-> TRUE]
        BY <2>0, <4>1 DEF Form
      <4> QED
        BY <4>2 DEF GreenIsOfTheForm
    <3> QED
      BY <3>1, <3>2
  <2>14. ASSUME NEW c \in Controllers, SchedulerFires(c) \/ TaskStarts(c) \/ TaskEnds(c)
         PROVE  GreenIsOfTheForm'
    BY <2>1, <2>14 DEF SchedulerFires, TaskStarts, TaskEnds, page
  <2>15. CASE UNCHANGED pageVars
    BY <2>1, <2>15 DEF pageVars, server, page
  <2> QED
    BY <2>3, <2>4, <2>5, <2>6, <2>7, <2>8, <2>9, <2>10, <2>11, <2>12, <2>13, <2>14, <2>15
    DEF PageNext, User, Network, Background
<1> QED
  BY <1>1, <1>2, PageTypeCorrect, PTL DEF PageSpec
=============================================================================
