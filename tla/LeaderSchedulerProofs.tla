------------------------ MODULE LeaderSchedulerProofs ------------------------
(* For any number of processes, controllers and requests: the types of      *)
(* LeaderScheduler, and that one scheduler fires the jobs.                  *)
EXTENDS LeaderScheduler, TLAPS

(* Who is started believes it leads, and a believer whose session lives    *)
(* holds the lock.                                                         *)
LeaderHolds ==
  /\ \A p \in Processes : state[p] \in {"elected", "found"} => p \in leaders
  /\ started \subseteq leaders
  /\ \A p \in leaders \ lost : leaderLock = p

IInv == TypeOK /\ LeaderHolds

-----------------------------------------------------------------------------
(* What a row registers is in the range of a table of jobs (the condition  *)
(* of _register_all and of reconcile_controller).                          *)
LEMMA JobOfType == \A r \in Row : JobOf(r) \in Intervals \cup {NoJob}
  BY DEF JobOf, Row

(* The end of any set of requests keeps the types of what a request has.   *)
LEMMA EndType ==
  ASSUME TypeOK, NEW Q, End(Q)
  PROVE  /\ pc' \in [Requests -> {"idle", "loaded", "committed"}]
         /\ at' \in [Requests -> Processes \cup {Nobody}]
         /\ ctrl' \in [Requests -> Controllers \cup {Nobody}]
         /\ seen' \in [Requests -> Row] /\ want' \in [Requests -> Row]
         /\ \A q \in Requests : pc'[q] # "idle" => at'[q] \in Processes /\ ctrl'[q] \in Controllers
  <1>1. Unborn \in Row
    BY DEF Unborn, Row, Modes
  <1> QED  BY <1>1 DEF TypeOK, End

(* Asking keeps them too.                                                  *)
LEMMA AskType ==
  ASSUME TypeOK, NEW q \in Requests, NEW p \in Processes, NEW c \in Controllers,
         NEW r \in Row, NEW s \in {"loaded", "committed"},
         Asks(q, p, c, r), pc' = [pc EXCEPT ![q] = s]
  PROVE  /\ pc' \in [Requests -> {"idle", "loaded", "committed"}]
         /\ at' \in [Requests -> Processes \cup {Nobody}]
         /\ ctrl' \in [Requests -> Controllers \cup {Nobody}]
         /\ want' \in [Requests -> Row]
         /\ \A o \in Requests : pc'[o] # "idle" => at'[o] \in Processes /\ ctrl'[o] \in Controllers
  BY DEF TypeOK, Asks

(* A commit writes a row of the table.                                     *)
LEMMA ChangedType ==
  ASSUME TypeOK, NEW p \in Processes, NEW c \in Controllers, NEW r \in Row, Changed(p, c, r)
  PROVE  row' \in [Controllers -> Row] /\ elsewhere' \in [Processes -> SUBSET Controllers]
  BY DEF TypeOK, Changed

-----------------------------------------------------------------------------
LEMMA InitInv == Init => IInv
  <1> SUFFICES ASSUME Init PROVE IInv
    OBVIOUS
  <1>1. Unborn \in Row /\ NoJobs \in JobTable
    BY DEF Unborn, Row, Modes, NoJobs, JobTable
  <1>2. TypeOK
    BY <1>1, LeaderSchedulerAssumption DEF Init, TypeOK, States
  <1> QED  BY <1>2 DEF Init, IInv, LeaderHolds

(* One step of the lifespan of a process keeps the invariant.              *)
LEMMA ProcessStep ==
  ASSUME IInv, NEW p \in Processes,
         Starts(p) \/ Stops(p) \/ StartFails(p) \/ Shutdown(p) \/ Crash(p)
  PROVE  IInv'
  <1> USE DEF IInv, process, request
  <1>0. NoJobs \in JobTable
    BY DEF NoJobs, JobTable
  <1>m. ASSUME Mishap PROVE mishaps' \in 0..MaxMishaps
    BY <1>m, LeaderSchedulerAssumption DEF Mishap, TypeOK
  <1>1. CASE Elected(p)
    <2>1. TypeOK'
      BY <1>1 DEF Elected, TypeOK, Become, States
    <2>2. \A o \in leaders \ lost : FALSE
      BY <1>1, LeaderSchedulerAssumption DEF Elected, LeaderHolds, TypeOK
    <2>3. LeaderHolds'
      BY <1>1, <2>2 DEF Elected, LeaderHolds, TypeOK, Become
    <2> QED  BY <2>1, <2>3
  <1>2. CASE NotElected(p)
    BY <1>2 DEF NotElected, TypeOK, LeaderHolds, Become, States
  <1>3. CASE SelectControllers(p)
    <2>1. [c \in Controllers |-> JobOf(row[c])] \in JobTable
      BY JobOfType DEF TypeOK, JobTable
    <2> QED  BY <1>3, <2>1 DEF SelectControllers, TypeOK, LeaderHolds, Become, States
  <1>4. CASE RegisterAndStart(p)
    BY <1>4, <1>0 DEF RegisterAndStart, TypeOK, LeaderHolds, Become, States
  <1>5. CASE StopJobs(p)
    BY <1>5, <1>0 DEF StopJobs, TypeOK, LeaderHolds, Become, States
  <1>6. CASE Release(p)
    <2>1. TypeOK'
      BY <1>6, <1>0 DEF Release, TypeOK, Become, States
    <2>2. LeaderHolds'
      BY <1>6 DEF Release, TypeOK, LeaderHolds, Become
    <2> QED  BY <2>1, <2>2
  <1>7. CASE StartFails(p)
    BY <1>7, <1>0, <1>m DEF StartFails, TypeOK, LeaderHolds, Become, States
  <1>8. CASE Shutdown(p)
    BY <1>8 DEF Shutdown, TypeOK, LeaderHolds, Become, States
  <1>9. CASE Crash(p)
    <2>1. TypeOK'
      BY <1>9, <1>0, <1>m, EndType DEF Crash, TypeOK, Become, States
    <2>2. LeaderHolds'
      BY <1>9 DEF Crash, TypeOK, LeaderHolds, Become
    <2> QED  BY <2>1, <2>2
  <1> QED  BY <1>1, <1>2, <1>3, <1>4, <1>5, <1>6, <1>7, <1>8, <1>9 DEF Starts, Stops

(* One step of a request keeps it: none touches the election.              *)
LEMMA RequestStep ==
  ASSUME IInv, NEW q \in Requests,
         \/ Finishes(q)
         \/ \E p \in Processes, c \in Controllers :
              \/ DeleteController(q, p, c)
              \/ \E r \in Row : CreateController(q, p, c, r) \/ UpdateController(q, p, c, r)
  PROVE  IInv'
  <1> USE DEF IInv, process, request
  <1>1. CASE CommitUpdate(q)
    <2>1. at[q] \in Processes /\ ctrl[q] \in Controllers
      BY <1>1 DEF CommitUpdate, TypeOK
    <2>2. row' \in [Controllers -> Row] /\ elsewhere' \in [Processes -> SUBSET Controllers]
      <3>1. CASE UNCHANGED <<row, elsewhere>>
        BY <3>1 DEF TypeOK
      <3> DEFINE w == [mode  |-> Written(row[ctrl[q]].mode, seen[q].mode, want[q].mode),
                       every |-> Written(row[ctrl[q]].every, seen[q].every, want[q].every)]
      <3>2. CASE Changed(at[q], ctrl[q], w)
        <4>1. row[ctrl[q]] \in Row /\ want[q] \in Row
          BY <2>1 DEF TypeOK
        <4>2. w \in Row
          BY <4>1 DEF Row, Written
        <4> HIDE DEF w
        <4> QED  BY <3>2, <4>2, <2>1, ChangedType
      <3> QED  BY <1>1, <3>1, <3>2 DEF CommitUpdate
    <2> QED  BY <1>1, <2>1, <2>2 DEF CommitUpdate, TypeOK, LeaderHolds
  <1>2. CASE UpdateFails(q)
    BY <1>2, EndType DEF UpdateFails, TypeOK, LeaderHolds
  <1>3. CASE ReconcileController(q)
    <2>1. JobOf(want[q]) \in Intervals \cup {NoJob}
      BY JobOfType DEF TypeOK
    <2>2. jobs' \in [Processes -> JobTable]
      BY <1>3, <2>1 DEF ReconcileController, TypeOK, JobTable
    <2> QED  BY <1>3, <2>2, EndType DEF ReconcileController, TypeOK, LeaderHolds
  <1>4. ASSUME NEW p \in Processes, NEW c \in Controllers, DeleteController(q, p, c) PROVE IInv'
    <2>1. Deleted \in Row
      BY DEF Deleted, Unborn, Row, Modes
    <2> QED  BY <1>4, <2>1, AskType, ChangedType DEF DeleteController, TypeOK, LeaderHolds
  <1>5. ASSUME NEW p \in Processes, NEW c \in Controllers, NEW r \in Row, CreateController(q, p, c, r)
        PROVE  IInv'
    BY <1>5, AskType, ChangedType DEF CreateController, TypeOK, LeaderHolds
  <1>6. ASSUME NEW p \in Processes, NEW c \in Controllers, NEW r \in Row, UpdateController(q, p, c, r)
        PROVE  IInv'
    BY <1>6, AskType DEF UpdateController, TypeOK, LeaderHolds
  <1> QED  BY <1>1, <1>2, <1>3, <1>4, <1>5, <1>6 DEF Finishes

LEMMA NextInv == IInv /\ [Next]_vars => IInv'
  <1> SUFFICES ASSUME IInv, [Next]_vars PROVE IInv'
    OBVIOUS
  <1>1. CASE UNCHANGED vars
    BY <1>1 DEF vars, process, request, IInv, TypeOK, LeaderHolds
  <1>2. CASE LeaderConnectionLost
    <2>1. TypeOK'
      BY <1>2, LeaderSchedulerAssumption
      DEF LeaderConnectionLost, Mishap, IInv, TypeOK, process, request
    <2>2. LeaderHolds'
      BY <1>2 DEF LeaderConnectionLost, IInv, LeaderHolds, process, request
    <2> QED  BY <2>1, <2>2 DEF IInv
  <1>3. ASSUME NEW p \in Processes,
               Starts(p) \/ Stops(p) \/ StartFails(p) \/ Shutdown(p) \/ Crash(p)
        PROVE  IInv'
    BY <1>3, ProcessStep
  <1> QED  BY <1>1, <1>2, <1>3, RequestStep DEF Next

THEOREM Invariant == Spec => []IInv
  BY InitInv, NextInv, PTL DEF Spec

(* Every variable stays in its range, whatever runs: the trigger of a job  *)
(* is never built from an interval that would raise (SCHED1).              *)
THEOREM TypeCorrect == Spec => []TypeOK
  <1>1. IInv => TypeOK
    BY DEF IInv
  <1> QED  BY Invariant, <1>1, PTL

(* However many processes start, fail, stop and crash, two schedulers run  *)
(* at once only where PostgreSQL dropped the session of one of them.       *)
THEOREM OneLeaderRuns == Spec => []OneScheduler
  <1>1. IInv => OneScheduler
    BY DEF IInv, LeaderHolds, OneScheduler
  <1> QED  BY Invariant, <1>1, PTL

-----------------------------------------------------------------------------
(* Requests served one at a time.  (Two together can leave a job that      *)
(* contradicts its row.)                                                   *)
OneAtATime == \A q, o \in Requests : q = o

(* What the route holds is what the row holds; what was selected, and what *)
(* is registered, is what the rows hold but for changes made elsewhere and *)
(* one that is committed and not yet reloaded.                             *)
Follows ==
  /\ \A q \in Requests : pc[q] # "idle" => state[at[q]] = "serving"
  /\ \A q \in Requests : pc[q] = "loaded" => seen[q] = row[ctrl[q]]
  /\ \A q \in Requests : pc[q] = "committed" => want[q] = row[ctrl[q]]
  /\ \A p \in started : state[p] \in {"serving", "stopping"}
  /\ \A p \in Processes, c \in Controllers :
       state[p] = "found" /\ c \notin elsewhere[p] => found[p][c] = JobOf(row[c])
  /\ \A p \in started, c \in Controllers :
       c \notin elsewhere[p] /\ (\A q \in Requests : pc[q] = "committed" /\ at[q] = p => ctrl[q] # c)
       => jobs[p][c] = JobOf(row[c])

LEMMA InitFollows == Init => Follows
  BY DEF Init, Follows

(* The lifespan of a process: no request is served by one that starts or   *)
(* stops, and a scheduler starts with what was selected.                   *)
LEMMA ProcessFollows ==
  ASSUME IInv, Follows, OneAtATime, NEW p \in Processes,
         Starts(p) \/ Stops(p) \/ StartFails(p) \/ Shutdown(p) \/ Crash(p)
  PROVE  Follows'
  <1> USE DEF IInv, process, request
  <1>1. CASE Elected(p)
    BY <1>1 DEF Elected, TypeOK, LeaderHolds, Follows, Become
  <1>2. CASE NotElected(p)
    BY <1>2 DEF NotElected, TypeOK, Follows, Become
  <1>3. CASE SelectControllers(p)
    BY <1>3 DEF SelectControllers, TypeOK, Follows, Become
  <1>4. CASE RegisterAndStart(p)
    BY <1>4 DEF RegisterAndStart, TypeOK, Follows, Become
  <1>5. CASE StopJobs(p)
    BY <1>5 DEF StopJobs, TypeOK, Follows, Become
  <1>6. CASE Release(p)
    BY <1>6 DEF Release, TypeOK, Follows, Become
  <1>7. CASE StartFails(p)
    BY <1>7 DEF StartFails, TypeOK, Follows, Become
  <1>8. CASE Shutdown(p)
    BY <1>8 DEF Shutdown, TypeOK, Follows, Become
  <1>9. CASE Crash(p)
    BY <1>9 DEF Crash, TypeOK, Follows, Become, End
  <1> QED  BY <1>1, <1>2, <1>3, <1>4, <1>5, <1>6, <1>7, <1>8, <1>9 DEF Starts, Stops

(* A request: what is alone writes the whole of what it wants, and the     *)
(* reload hands the same to the scheduler.                                 *)
LEMMA RequestFollows ==
  ASSUME IInv, Follows, OneAtATime, NEW q \in Requests,
         \/ Finishes(q)
         \/ \E p \in Processes, c \in Controllers :
              \/ DeleteController(q, p, c)
              \/ \E r \in Row : CreateController(q, p, c, r) \/ UpdateController(q, p, c, r)
  PROVE  Follows'
  <1> USE DEF IInv, process, request, OneAtATime
  <1>1. CASE CommitUpdate(q)
    <2>1. /\ at[q] \in Processes /\ ctrl[q] \in Controllers
          /\ seen[q] = row[ctrl[q]] /\ want[q] \in Row
          /\ state[at[q]] = "serving"
      BY <1>1 DEF CommitUpdate, TypeOK, Follows
    <2>2. row' = [row EXCEPT ![ctrl[q]] = want[q]]
      <3>1. CASE want[q] = seen[q] /\ UNCHANGED row
        BY <3>1, <2>1 DEF TypeOK
      <3> DEFINE w == [mode  |-> Written(row[ctrl[q]].mode, seen[q].mode, want[q].mode),
                       every |-> Written(row[ctrl[q]].every, seen[q].every, want[q].every)]
      <3>2. CASE Changed(at[q], ctrl[q], w)
        <4>1. w = [mode |-> want[q].mode, every |-> want[q].every]
          BY <2>1 DEF Written
        <4>2. \A r \in Row : [mode |-> r.mode, every |-> r.every] = r
          BY DEF Row
        <4>3. w = want[q]
          BY <4>1, <4>2, <2>1
        <4> HIDE DEF w
        <4> QED  BY <3>2, <4>3 DEF Changed
      <3> QED  BY <1>1, <3>1, <3>2 DEF CommitUpdate
    <2>3. /\ \A p \in Processes : elsewhere[p] \subseteq elsewhere'[p]
          /\ row' = row \/ \A p \in Processes : p # at[q] => ctrl[q] \in elsewhere'[p]
      BY <1>1, <2>1 DEF CommitUpdate, Changed, TypeOK
    <2>4. /\ pc' = [pc EXCEPT ![q] = "committed"]
          /\ UNCHANGED <<state, started, found, jobs, at, ctrl, seen, want>>
      BY <1>1 DEF CommitUpdate
    <2>5. \A p \in Processes, c \in Controllers :
            c \notin elsewhere'[p] /\ p # at[q] => row'[c] = row[c] /\ c \notin elsewhere[p]
      BY <2>1, <2>2, <2>3 DEF TypeOK
    <2>6. pc[q] # "committed"
      BY <1>1 DEF CommitUpdate
    <2>7. \A p \in Processes, c \in Controllers :
            state[p] = "found" /\ c \notin elsewhere'[p] => found[p][c] = JobOf(row'[c])
      BY <2>1, <2>5 DEF Follows
    <2>8. \A p \in started, c \in Controllers :
            c \notin elsewhere'[p]
            /\ (\A o \in Requests : pc'[o] = "committed" /\ at[o] = p => ctrl[o] # c)
            => jobs[p][c] = JobOf(row'[c])
      <3> SUFFICES ASSUME NEW p \in started, NEW c \in Controllers, c \notin elsewhere'[p],
                          \A o \in Requests : pc'[o] = "committed" /\ at[o] = p => ctrl[o] # c
                   PROVE  jobs[p][c] = JobOf(row'[c])
        OBVIOUS
      <3>1. p \in Processes /\ c \notin elsewhere[p]
        BY <2>3 DEF TypeOK
      <3>2. jobs[p][c] = JobOf(row[c])
        BY <3>1, <2>6 DEF Follows
      <3>3. row'[c] = row[c]
        BY <2>1, <2>2, <2>4, <2>5, <3>1 DEF TypeOK
      <3> QED  BY <3>2, <3>3
    <2> QED  BY <2>1, <2>2, <2>4, <2>7, <2>8 DEF TypeOK, Follows
  <1>2. CASE UpdateFails(q)
    BY <1>2 DEF UpdateFails, TypeOK, Follows, End
  <1>3. CASE ReconcileController(q)
    <2>1. \A o \in Requests : pc'[o] = "idle"
      BY <1>3 DEF ReconcileController, End, TypeOK
    <2>2. UNCHANGED <<row, state, started, found, elsewhere>>
      BY <1>3 DEF ReconcileController
    <2>3. \A p \in started, c \in Controllers :
            c \notin elsewhere[p] => jobs'[p][c] = JobOf(row[c])
      <3> SUFFICES ASSUME NEW p \in started, NEW c \in Controllers, c \notin elsewhere[p]
                   PROVE  jobs'[p][c] = JobOf(row[c])
        OBVIOUS
      <3>1. p \in Processes /\ p \in leaders /\ jobs[p] \in [Controllers -> Intervals \cup {NoJob}]
        BY DEF TypeOK, LeaderHolds, JobTable
      <3>2. CASE p = at[q] /\ c = ctrl[q]
        <4>1. jobs'[p][c] = JobOf(want[q])
          BY <1>3, <3>1, <3>2 DEF ReconcileController, TypeOK
        <4> QED  BY <1>3, <4>1, <3>2 DEF ReconcileController, Follows
      <3>3. CASE ~(p = at[q] /\ c = ctrl[q])
        <4>1. jobs'[p][c] = jobs[p][c]
          BY <1>3, <3>1, <3>3 DEF ReconcileController, TypeOK, JobTable
        <4>2. \A o \in Requests : pc[o] = "committed" /\ at[o] = p => ctrl[o] # c
          BY <3>3
        <4> QED  BY <4>1, <4>2 DEF Follows
      <3> QED  BY <3>2, <3>3
    <2> QED  BY <2>1, <2>2, <2>3 DEF Follows
  <1>4. ASSUME NEW p \in Processes, NEW c \in Controllers, DeleteController(q, p, c) PROVE Follows'
    BY <1>4 DEF DeleteController, TypeOK, Follows, Changed, Asks
  <1>5. ASSUME NEW p \in Processes, NEW c \in Controllers, NEW r \in Row, CreateController(q, p, c, r)
        PROVE  Follows'
    BY <1>5 DEF CreateController, TypeOK, Follows, Changed, Asks
  <1>6. ASSUME NEW p \in Processes, NEW c \in Controllers, NEW r \in Row, UpdateController(q, p, c, r)
        PROVE  Follows'
    BY <1>6 DEF UpdateController, TypeOK, Follows, Asks
  <1> QED  BY <1>1, <1>2, <1>3, <1>4, <1>5, <1>6 DEF Finishes

(* Where the requests come one at a time, the jobs of a scheduler are      *)
(* those of the committed rows, but for changes made in other processes.   *)
THEOREM JobsFollow == ASSUME OneAtATime PROVE Spec => []JobsFollowRows
  <1>1. IInv /\ Follows /\ [Next]_vars => Follows'
    <2> SUFFICES ASSUME IInv, Follows, [Next]_vars PROVE Follows'
      OBVIOUS
    <2>1. CASE UNCHANGED vars
      BY <2>1 DEF vars, process, request, Follows
    <2>2. CASE LeaderConnectionLost
      BY <2>2 DEF LeaderConnectionLost, process, request, Follows
    <2>3. ASSUME NEW p \in Processes,
                 Starts(p) \/ Stops(p) \/ StartFails(p) \/ Shutdown(p) \/ Crash(p)
          PROVE  Follows'
      BY <2>3, OneAtATime, ProcessFollows
    <2> QED  BY <2>1, <2>2, <2>3, OneAtATime, RequestFollows DEF Next
  <1>2. Follows /\ TypeOK => JobsFollowRows
    BY DEF Follows, TypeOK, JobsFollowRows
  <1> QED  BY Invariant, TypeCorrect, InitFollows, <1>1, <1>2, PTL DEF Spec
=============================================================================
