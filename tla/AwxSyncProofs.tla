--------------------------- MODULE AwxSyncProofs ---------------------------
(***************************************************************************)
(* Theorems about AwxSync for any number of workers, jobs, crashes, faults *)
(* and lost lock connections.                                              *)
(***************************************************************************)
EXTENDS MCAwxSync, FiniteSetTheorems, TLAPS

LEMMA Ranges == /\ Jobs \subseteq Cursors /\ Jobs \subseteq Floors
                /\ 0 \in Cursors /\ NoFloor \in Floors
BY AwxSyncAssumption DEF Jobs, Cursors, Floors, NoFloor

LEMMA MaxRange == ASSUME NEW a \in Cursors, NEW b \in Cursors
                  PROVE  MaxOf(a, b) \in Cursors
BY DEF MaxOf

LEMMA MinRange == ASSUME NEW a \in Floors, NEW b \in Floors
                  PROVE  MinOf(a, b) \in Floors
BY DEF MinOf

(* _durable_cursor stays within the ids.                                   *)
LEMMA DurableRange ==
  ASSUME TypeOK, NEW w \in Workers, NEW m \in Cursors
  PROVE  Durable(w, m) \in Cursors
BY AwxSyncAssumption
DEF TypeOK, Durable, MaxOf, MinOf, Cursors, Floors, NoFloor

LEMMA Names ==
  /\ "idle" \in PcState /\ "queued" \in PcState /\ "loaded" \in PcState
  /\ "begin" \in PcState /\ "list" \in PcState /\ "job" \in PcState
  /\ "fetch" \in PcState /\ "persist" \in PcState /\ "cursor" \in PcState
  /\ "projects" \in PcState /\ "final" \in PcState
  /\ "failed" \in PcState /\ "release" \in PcState
  /\ "never" \in SyncStatus /\ "running" \in SyncStatus
  /\ "ok" \in SyncStatus /\ "error" \in SyncStatus
  /\ "absent" \in JobState /\ "open" \in JobState
  /\ "terminal" \in JobState /\ "purged" \in JobState
BY DEF PcState, Critical, SyncStatus, JobState

(* The range of every column, local and lock (sync_controller).            *)
THEOREM TypeCorrect == Spec => []TypeOK
<1> USE Names
<1>1. Init => TypeOK
  BY Ranges DEF Init, TypeOK
<1>2. ASSUME TypeOK, [Next]_vars PROVE TypeOK'
  <2> USE TypeOK DEF TypeOK, frame, session, dbVars, ormVars, listVars, locals,
                     lockVars
  <2>1. ASSUME NEW j \in Jobs, AwxLaunch(j) \/ AwxFinish(j) \/ AwxPurge(j)
        PROVE  TypeOK'
    BY <2>1 DEF AwxLaunch, AwxFinish, AwxPurge
  <2>2. ASSUME NEW w \in Workers, SyncNow(w) \/ SchedulerFires(w)
        PROVE  TypeOK'
    BY <2>2 DEF SyncNow, SchedulerFires
  <2>3. ASSUME NEW w \in Workers, LoadController(w) PROVE TypeOK'
    BY <2>3 DEF LoadController
  <2>4. ASSUME NEW w \in Workers, LoadNothing(w) \/ SkippedLocked(w)
        PROVE  TypeOK'
    BY <2>4, Ranges DEF LoadNothing, SkippedLocked, Forget
  <2>5. ASSUME NEW w \in Workers, TryLock(w) PROVE TypeOK'
    BY <2>5, Ranges DEF TryLock
  <2>6. ASSUME NEW w \in Workers, MarkRunning(w) PROVE TypeOK'
    BY <2>6 DEF MarkRunning, Written
  <2>7. ASSUME NEW w \in Workers, FetchPage(w) PROVE TypeOK'
    <3> DEFINE L == Listed(since[w])
               P == PageOf(L, pageNo[w])
               U == Unshown(w, P)
    <3>1. P \subseteq Jobs /\ U \subseteq Jobs
      BY DEF PageOf, Listed, Unshown
    <3>3. /\ page' = [page EXCEPT ![w] = P]
          /\ open' = [open EXCEPT ![w] = {j \in P : awx[j] = "open"}]
          /\ unseen' = [unseen EXCEPT ![w] = @ \cup U]
          /\ more' \subseteq Workers
          /\ pc' = [pc EXCEPT ![w] = "job"]
          /\ UNCHANGED <<dbVars, lockVars, ormVars, locals, pageNo, frame>>
      BY <2>7 DEF FetchPage
    <3> HIDE DEF P, L, U
    <3>4. QED
      BY <3>1, <3>3
  <2>8. ASSUME NEW w \in Workers, FollowNext(w) PROVE TypeOK'
    BY <2>8 DEF FollowNext
  <2>9. ASSUME NEW w \in Workers, NEW j \in Jobs,
               SkipOpen(w, j) \/ SkipKnown(w, j) \/ TakeJob(w, j)
        PROVE  TypeOK'
    <3>1. MaxOf(maxId[w], j) \in Cursors /\ MinOf(floor[w], j) \in Floors
      BY MaxRange, MinRange, Ranges
    <3>2. CASE SkipOpen(w, j)
      BY <3>1, <3>2 DEF SkipOpen, NextOnPage
    <3>3. CASE SkipKnown(w, j)
      BY <3>1, <3>3 DEF SkipKnown, NextOnPage
    <3>4. CASE TakeJob(w, j)
      BY <3>4, Ranges DEF TakeJob, NextOnPage
    <3>5. QED
      BY <2>9, <3>2, <3>3, <3>4
  <2>10. ASSUME NEW w \in Workers, FetchEvents(w) PROVE TypeOK'
    BY <2>10 DEF FetchEvents
  <2>11. ASSUME NEW w \in Workers, PersistRun(w) PROVE TypeOK'
    BY <2>11 DEF PersistRun
  <2>12. ASSUME NEW w \in Workers, PersistConflict(w) PROVE TypeOK'
    <3>1. MaxOf(maxId[w], cur[w]) \in Cursors
      BY MaxRange
    <3>2. QED
      BY <2>12, <3>1, Ranges DEF PersistConflict
  <2>13. ASSUME NEW w \in Workers, CommitCursor(w) PROVE TypeOK'
    <3> DEFINE m == MaxOf(maxId[w], cur[w])
    <3>1. m \in Cursors /\ Durable(w, m) \in Cursors
      BY MaxRange, DurableRange
    <3>2. Missed(w, Durable(w, m)) \subseteq Jobs
      BY DEF Missed
    <3> HIDE DEF m
    <3>3. QED
      BY <2>13, <3>1, <3>2, Ranges DEF CommitCursor, Written, m
  <2>14. ASSUME NEW w \in Workers, SyncProjects(w) PROVE TypeOK'
    BY <2>14 DEF SyncProjects
  <2>15. ASSUME NEW w \in Workers, FinishOk(w) PROVE TypeOK'
    <3>1. Durable(w, maxId[w]) \in Cursors
      BY DurableRange
    <3>2. Missed(w, Durable(w, maxId[w])) \subseteq Jobs
      BY DEF Missed
    <3>3. QED
      BY <2>15, <3>1, <3>2 DEF FinishOk, Written
  <2>16. ASSUME NEW w \in Workers,
                Fail(w) \/ RecordError(w) \/ RecordErrorFails(w)
         PROVE  TypeOK'
    BY <2>16 DEF Fail, RecordError, RecordErrorFails
  <2>17. ASSUME NEW w \in Workers, Release(w) \/ Crash(w) PROVE TypeOK'
    <3>1. CASE Release(w)
      BY <3>1, Ranges DEF Release, Forget
    <3>2. CASE Crash(w)
      BY <3>2, Ranges DEF Crash, Forget
    <3>3. QED
      BY <2>17, <3>1, <3>2
  <2>18. ASSUME NEW w \in Workers, LockConnectionLost(w) PROVE TypeOK'
    BY <2>18 DEF LockConnectionLost
  <2>19. CASE RetentionBatch \/ DeleteController
    BY <2>19 DEF RetentionBatch, DeleteController
  <2>20. CASE UNCHANGED vars
    BY <2>20 DEF vars
  <2>21. QED
    BY <1>2, <2>1, <2>2, <2>3, <2>4, <2>5, <2>6, <2>7, <2>8, <2>9, <2>10,
       <2>11, <2>12, <2>13, <2>14, <2>15, <2>16, <2>17, <2>18, <2>19, <2>20
    DEF Next, Start, Work
<1>3. QED
  BY <1>1, <1>2, PTL DEF Spec

-----------------------------------------------------------------------------
(* Mutual exclusion.  Whoever works and has not lost its lock connection   *)
(* holds the lock; a lock is held by such a worker only, and the workers   *)
(* that lost theirs are at work.                                           *)
LockInv ==
  /\ \A w \in Workers : pc[w] \in Critical /\ w \notin lost => lock = w
  /\ LockHasOwner
  /\ \A w \in lost : pc[w] \in Critical

LEMMA LockInductive == Spec => []LockInv
<1> USE AwxSyncAssumption DEF LockInv, LockHasOwner, Critical
<1>1. Init => LockInv
  BY DEF Init
<1>2. ASSUME TypeOK, LockInv, [Next]_vars PROVE LockInv'
  <2> USE TypeOK, LockInv DEF TypeOK, lockVars
  <2>1. ASSUME NEW w \in Workers, NEW q \in Critical,
               pc[w] \in Critical, pc' = [pc EXCEPT ![w] = q],
               UNCHANGED lockVars
        PROVE  LockInv'
    BY <2>1
  <2>2. ASSUME NEW w \in Workers, NEW q \in {"idle", "queued", "loaded"},
               pc[w] \notin Critical, pc' = [pc EXCEPT ![w] = q],
               UNCHANGED lockVars
        PROVE  LockInv'
    BY <2>2
  <2>3. ASSUME UNCHANGED <<pc, lockVars>> PROVE LockInv'
    BY <2>3
  <2>4. ASSUME NEW w \in Workers, TryLock(w) PROVE LockInv'
    BY <2>4 DEF TryLock
  <2>5. ASSUME NEW w \in Workers, Release(w) \/ Crash(w) PROVE LockInv'
    BY <2>5 DEF Release, Crash, Forget
  <2>6. ASSUME NEW w \in Workers, LockConnectionLost(w) PROVE LockInv'
    BY <2>6 DEF LockConnectionLost
  <2>7. ASSUME NEW w \in Workers,
               SyncNow(w) \/ SchedulerFires(w) \/ LoadController(w)
                 \/ LoadNothing(w) \/ SkippedLocked(w)
        PROVE  LockInv'
    BY <2>2, <2>7 DEF SyncNow, SchedulerFires, LoadController, LoadNothing,
                      SkippedLocked, Forget
  <2>8. ASSUME NEW w \in Workers,
               MarkRunning(w) \/ FetchPage(w) \/ FollowNext(w) \/ FetchEvents(w)
                 \/ PersistRun(w) \/ PersistConflict(w)
        PROVE  LockInv'
    BY <2>1, <2>8 DEF MarkRunning, FetchPage, FollowNext, FetchEvents,
                      PersistRun, PersistConflict
  <2>9. ASSUME NEW w \in Workers,
               CommitCursor(w) \/ SyncProjects(w) \/ FinishOk(w) \/ Fail(w)
                 \/ RecordError(w) \/ RecordErrorFails(w)
        PROVE  LockInv'
    BY <2>1, <2>9 DEF CommitCursor, SyncProjects, FinishOk, Fail, RecordError,
                      RecordErrorFails
  <2>10. ASSUME NEW w \in Workers, NEW j \in Jobs,
                SkipOpen(w, j) \/ SkipKnown(w, j) \/ TakeJob(w, j)
         PROVE  LockInv'
    BY <2>1, <2>3, <2>10 DEF SkipOpen, SkipKnown, TakeJob, NextOnPage
  <2>11. CASE UNCHANGED vars \/ RetentionBatch \/ DeleteController
    BY <2>3, <2>11 DEF vars, RetentionBatch, DeleteController
  <2>12. ASSUME NEW j \in Jobs, AwxLaunch(j) \/ AwxFinish(j) \/ AwxPurge(j)
         PROVE  LockInv'
    BY <2>3, <2>12 DEF AwxLaunch, AwxFinish, AwxPurge
  <2>13. QED
    BY <1>2, <2>4, <2>5, <2>6, <2>7, <2>8, <2>9, <2>10, <2>11, <2>12
    DEF Next, Start, Work
<1>3. QED
  BY <1>1, <1>2, TypeCorrect, PTL DEF Spec

(* Two syncs of one controller never overlap while Postgres keeps their    *)
(* lock connections (the advisory lock of sync_controller).                *)
THEOREM NoOverlap == Spec => []SyncsNeverOverlap
<1>1. TypeOK /\ LockInv => SyncsNeverOverlap
  BY DEF TypeOK, LockInv, SyncsNeverOverlap
<1>2. QED
  BY <1>1, TypeCorrect, LockInductive, PTL

(* The finally clause and the dedicated connection give the lock back.     *)
THEOREM LockOwned == Spec => []LockHasOwner
<1>1. LockInv => LockHasOwner
  BY DEF LockInv
<1>2. QED
  BY <1>1, LockInductive, PTL

-----------------------------------------------------------------------------
(* The status.  Who stands behind a "running" that nobody's death left     *)
(* there: a worker that has yet to write its outcome, and whose instance   *)
(* differs from that outcome, so that the unit of work does write it.      *)
WillReset(w) ==
  \/ pc[w] \in {"list", "job", "fetch", "persist", "cursor", "projects",
                "failed"}
  \/ pc[w] = "final" /\ ormStatus[w] = "running"

StatusInv ==
  dbExists /\ crashes = 0 /\ dbStatus = "running" => \E w \in Workers : WillReset(w)

LEMMA StatusInductive == Spec => []StatusInv
<1>1. Init => StatusInv
  BY DEF Init, StatusInv
<1>2. ASSUME TypeOK, StatusInv, [Next]_vars PROVE StatusInv'
  <2> SUFFICES ASSUME dbRow' = "present", crashes' = 0, dbStatus' = "running"
               PROVE  \E v \in Workers : WillReset(v)'
    BY DEF StatusInv, dbExists
  <2> USE TypeOK DEF TypeOK, WillReset, dbExists, dbVars, ormVars, listVars,
                     locals, lockVars, session, frame
  <2>1. ASSUME UNCHANGED <<dbRow, dbStatus, crashes, pc, ormStatus>>
        PROVE  \E v \in Workers : WillReset(v)'
    BY <1>2, <2>1 DEF StatusInv
  \* A step of w that only moves it, between places that agree.
  <2>2. ASSUME NEW w \in Workers, NEW q \in PcState,
               UNCHANGED <<dbRow, dbStatus, crashes>>,
               pc' = [pc EXCEPT ![w] = q],
               \A v \in Workers \ {w} : ormStatus'[v] = ormStatus[v],
               WillReset(w) => WillReset(w)'
        PROVE  \E v \in Workers : WillReset(v)'
    <3>1. PICK v \in Workers : WillReset(v)
      BY <1>2, <2>2 DEF StatusInv
    <3>2. CASE v = w
      BY <2>2, <3>1, <3>2
    <3>3. CASE v # w
      BY <2>2, <3>1, <3>3
    <3>4. QED
      BY <3>2, <3>3
  <2>3. ASSUME NEW w \in Workers,
               SyncNow(w) \/ SchedulerFires(w) \/ LoadController(w)
                 \/ LoadNothing(w) \/ SkippedLocked(w) \/ TryLock(w)
        PROVE  \E v \in Workers : WillReset(v)'
    BY <2>2, <2>3, Names DEF SyncNow, SchedulerFires, LoadController,
      LoadNothing, SkippedLocked, TryLock, Forget
  <2>4. ASSUME NEW w \in Workers, MarkRunning(w)
        PROVE  \E v \in Workers : WillReset(v)'
    BY <2>4 DEF MarkRunning
  <2>5. ASSUME NEW w \in Workers,
               FetchPage(w) \/ FollowNext(w) \/ FetchEvents(w) \/ PersistRun(w)
                 \/ PersistConflict(w) \/ CommitCursor(w)
        PROVE  \E v \in Workers : WillReset(v)'
    BY <2>5 DEF FetchPage, FollowNext, FetchEvents, PersistRun,
      PersistConflict, CommitCursor
  <2>6. ASSUME NEW w \in Workers, NEW j \in Jobs,
               SkipOpen(w, j) \/ SkipKnown(w, j) \/ TakeJob(w, j)
        PROVE  \E v \in Workers : WillReset(v)'
    BY <2>6 DEF SkipOpen, SkipKnown, TakeJob, NextOnPage
  <2>7. ASSUME NEW w \in Workers, SyncProjects(w)
        PROVE  \E v \in Workers : WillReset(v)'
    BY <2>7 DEF SyncProjects
  <2>8. ASSUME NEW w \in Workers, FinishOk(w)
        PROVE  \E v \in Workers : WillReset(v)'
    <3>1. dbStatus' = dbStatus /\ ormStatus[w] = "ok"
      BY <2>8 DEF FinishOk, Written
    <3>2. QED
      BY <2>2, <2>8, <3>1, Names DEF FinishOk
  <2>9. ASSUME NEW w \in Workers, Fail(w)
        PROVE  \E v \in Workers : WillReset(v)'
    BY <2>9 DEF Fail
  <2>10. ASSUME NEW w \in Workers,
                RecordError(w) \/ RecordErrorFails(w) \/ Crash(w)
         PROVE  FALSE
    BY <2>10 DEF RecordError, RecordErrorFails, Crash
  <2>11. ASSUME NEW w \in Workers, Release(w)
         PROVE  \E v \in Workers : WillReset(v)'
    BY <2>2, <2>11, Names DEF Release, Forget
  <2>12. ASSUME NEW w \in Workers, LockConnectionLost(w)
         PROVE  \E v \in Workers : WillReset(v)'
    BY <2>1, <2>12 DEF LockConnectionLost
  <2>13. ASSUME NEW j \in Jobs, AwxLaunch(j) \/ AwxFinish(j) \/ AwxPurge(j)
         PROVE  \E v \in Workers : WillReset(v)'
    BY <2>1, <2>13 DEF AwxLaunch, AwxFinish, AwxPurge
  <2>14. CASE RetentionBatch \/ DeleteController \/ UNCHANGED vars
    BY <2>1, <2>14 DEF RetentionBatch, DeleteController, vars
  <2>15. QED
    BY <1>2, <2>3, <2>4, <2>5, <2>6, <2>7, <2>8, <2>9, <2>10, <2>11, <2>12,
       <2>13, <2>14
    DEF Next, Start, Work
<1>3. QED
  BY <1>1, <1>2, TypeCorrect, PTL DEF Spec

(* Without a death, "running" does not outlive the syncs (both handlers    *)
(* and the last commit of sync_controller), lost connections or not.       *)
THEOREM RunningIsReset == Spec => []IdleNotRunning
<1>1. TypeOK /\ LockInv /\ StatusInv => IdleNotRunning
  BY AwxSyncAssumption
  DEF TypeOK, LockInv, StatusInv, WillReset, IdleNotRunning, Critical
<1>2. QED
  BY <1>1, TypeCorrect, LockInductive, StatusInductive, PTL

(* One task only: its instance is never stale from the load to the release. *)
Alone == \A v, w \in Workers : v = w

Fresh ==
  \A w \in Workers : pc[w] \notin {"idle", "queued"} => ormStatus[w] = dbStatus

(* A lone task is seen as "running" while it reads the listing (the first  *)
(* commit of sync_controller).  With two the instance of the second may    *)
(* hold the "running" of the first, and its own is then not written.       *)
THEOREM AloneIsVisible == ASSUME Alone PROVE Spec => []RunningIsVisible
<1>1. Init => Fresh /\ RunningIsVisible
  BY DEF Init, Fresh, RunningIsVisible
<1>2. ASSUME TypeOK, Fresh, RunningIsVisible, [Next]_vars
      PROVE  Fresh' /\ RunningIsVisible'
  <2> USE Alone, TypeOK, Fresh, RunningIsVisible
      DEF Alone, TypeOK, Fresh, RunningIsVisible, dbVars, ormVars, listVars,
          locals, lockVars, session, frame
  <2>1. ASSUME NEW w \in Workers,
               SyncNow(w) \/ SchedulerFires(w) \/ LoadController(w)
                 \/ LoadNothing(w) \/ SkippedLocked(w) \/ TryLock(w)
        PROVE  Fresh' /\ RunningIsVisible'
    BY <2>1 DEF SyncNow, SchedulerFires, LoadController, LoadNothing,
      SkippedLocked, TryLock, Forget
  <2>2. ASSUME NEW w \in Workers, MarkRunning(w)
        PROVE  Fresh' /\ RunningIsVisible'
    BY <2>2 DEF MarkRunning, Written
  <2>3. ASSUME NEW w \in Workers,
               FetchPage(w) \/ FollowNext(w) \/ FetchEvents(w) \/ PersistRun(w)
                 \/ PersistConflict(w) \/ CommitCursor(w)
        PROVE  Fresh' /\ RunningIsVisible'
    BY <2>3 DEF FetchPage, FollowNext, FetchEvents, PersistRun,
      PersistConflict, CommitCursor
  <2>4. ASSUME NEW w \in Workers, NEW j \in Jobs,
               SkipOpen(w, j) \/ SkipKnown(w, j) \/ TakeJob(w, j)
        PROVE  Fresh' /\ RunningIsVisible'
    BY <2>4 DEF SkipOpen, SkipKnown, TakeJob, NextOnPage
  <2>5. ASSUME NEW w \in Workers,
               SyncProjects(w) \/ FinishOk(w) \/ Fail(w) \/ RecordError(w)
                 \/ RecordErrorFails(w)
        PROVE  Fresh' /\ RunningIsVisible'
    <3>1. CASE SyncProjects(w) \/ FinishOk(w)
      BY <3>1 DEF SyncProjects, FinishOk, Written
    <3>2. CASE Fail(w)
      BY <3>2 DEF Fail, Critical
    <3>3. CASE RecordError(w) \/ RecordErrorFails(w)
      BY <3>3 DEF RecordError, RecordErrorFails
    <3>4. QED
      BY <2>5, <3>1, <3>2, <3>3
  <2>6. ASSUME NEW w \in Workers, Release(w) \/ Crash(w)
        PROVE  Fresh' /\ RunningIsVisible'
    BY <2>6 DEF Release, Crash, Forget
  <2>7. ASSUME UNCHANGED <<pc, dbStatus, ormStatus>>
        PROVE  Fresh' /\ RunningIsVisible'
    BY <2>7
  <2>8. ASSUME NEW j \in Jobs, AwxLaunch(j) \/ AwxFinish(j) \/ AwxPurge(j)
        PROVE  Fresh' /\ RunningIsVisible'
    BY <2>7, <2>8 DEF AwxLaunch, AwxFinish, AwxPurge
  <2>9. ASSUME NEW w \in Workers, LockConnectionLost(w)
        PROVE  Fresh' /\ RunningIsVisible'
    BY <2>7, <2>9 DEF LockConnectionLost
  <2>10. CASE RetentionBatch \/ DeleteController \/ UNCHANGED vars
    BY <2>7, <2>10 DEF RetentionBatch, DeleteController, vars
  <2>11. QED
    BY <1>2, <2>1, <2>2, <2>3, <2>4, <2>5, <2>6, <2>8, <2>9, <2>10
    DEF Next, Start, Work
<1>3. QED
  BY <1>1, <1>2, TypeCorrect, PTL DEF Spec

-----------------------------------------------------------------------------
(* No run outlives its controller: an import that is under way when the    *)
(* row is deleted can no longer be stored (the foreign key of runs).       *)
THEOREM NoRunOutlivesController == Spec => []NoOrphanRuns
<1>1. Init => NoOrphanRuns
  BY DEF Init, NoOrphanRuns
<1>2. ASSUME NoOrphanRuns, [Next]_vars PROVE NoOrphanRuns'
  <2> USE NoOrphanRuns DEF NoOrphanRuns, dbExists, dbVars
  <2>1. ASSUME NEW w \in Workers, PersistRun(w) PROVE NoOrphanRuns'
    BY <2>1 DEF PersistRun
  <2>2. ASSUME UNCHANGED <<dbRow, runs>> PROVE NoOrphanRuns'
    BY <2>2
  <2>3. CASE RetentionBatch \/ DeleteController \/ UNCHANGED vars
    BY <2>3 DEF RetentionBatch, DeleteController, vars
  <2>4. ASSUME NEW w \in Workers,
               SyncNow(w) \/ SchedulerFires(w) \/ Start(w) \/ Fail(w)
                 \/ RecordErrorFails(w) \/ Crash(w) \/ LockConnectionLost(w)
                 \/ Release(w) \/ RecordError(w) \/ FinishOk(w)
                 \/ SyncProjects(w) \/ CommitCursor(w) \/ PersistConflict(w)
                 \/ FetchEvents(w) \/ FollowNext(w) \/ FetchPage(w)
                 \/ MarkRunning(w)
        PROVE  UNCHANGED <<dbRow, runs>>
    BY <2>4
    DEF SyncNow, SchedulerFires, Start, LoadController, LoadNothing,
        SkippedLocked, TryLock, MarkRunning, FetchPage, FollowNext,
        FetchEvents, PersistConflict, CommitCursor, SyncProjects, FinishOk,
        Fail, RecordError, RecordErrorFails, Release, Crash,
        LockConnectionLost
  <2>5. ASSUME NEW j \in Jobs
        PROVE  /\ AwxLaunch(j) \/ AwxFinish(j) \/ AwxPurge(j)
                    => UNCHANGED <<dbRow, runs>>
               /\ \A w \in Workers :
                    SkipOpen(w, j) \/ SkipKnown(w, j) \/ TakeJob(w, j)
                      => UNCHANGED <<dbRow, runs>>
    BY DEF AwxLaunch, AwxFinish, AwxPurge, SkipOpen, SkipKnown, TakeJob
  <2>6. QED
    BY <1>2, <2>1, <2>2, <2>3, <2>4, <2>5 DEF Next, Work
<1>3. QED
  BY <1>1, <1>2, PTL DEF Spec

-----------------------------------------------------------------------------
(* The cursor passes a job only if it is settled, or was missed: a page of  *)
(* the listing went past it.  This takes no assumption on AWX, nor on the  *)
(* number of tasks.                                                        *)

(* AWX hands ids out in order and, if it is InOrder, only odd jobs are     *)
(* still open below one that ended.                                        *)
AwxInv ==
  \A k, j \in Jobs : k < j =>
    /\ awx[j] # "absent" => awx[k] # "absent"
    /\ InOrder /\ awx[j] \in {"terminal", "purged"} /\ awx[k] = "open" => k \in OddJobs

(* The jobs that AWX has ended, and those that the cursor may pass.        *)
Ended     == {j \in Jobs : awx[j] \in {"terminal", "purged"}}
Accounted == Settled \cup missed

(* What worker w may leave behind.                                         *)
Covered(w, k) == k \in Accounted \cup unseen[w] \/ floor[w] <= k

(* Job j can be taken next: everything below is covered.                   *)
Reached(w, j) == \A k \in Jobs : k < j => Covered(w, k)

WorkerInv(w) ==
  /\ \A k \in Jobs : k <= ormCursor[w] \/ k <= since[w] => k \in Accounted
  /\ \A k \in Jobs : k <= maxId[w] => Covered(w, k)
  /\ \A j \in page[w] \ open[w], k \in Jobs :
       k < j => k \in page[w] \/ k = cur[w] \/ Covered(w, k)
  /\ page[w] \ open[w] \subseteq Ended
  /\ pc[w] \in {"fetch", "persist", "cursor"} => cur[w] \in Ended /\ Reached(w, cur[w])
  /\ pc[w] = "cursor" => cur[w] \in imported
  /\ pc[w] \in {"idle", "queued", "loaded", "begin", "list", "job"} => cur[w] = 0
  /\ pc[w] \in {"idle", "queued", "loaded", "begin", "list"} => page[w] = {}

SeenInv ==
  /\ runs \subseteq imported /\ imported \subseteq Ended
  /\ OnlyUnseenAreMissed
  /\ \A w \in Workers : WorkerInv(w)

(* What a step does to AWX.                                                *)
LEMMA AwxStep ==
  ASSUME [Next]_vars
  PROVE  \/ \E j \in Jobs : AwxLaunch(j) \/ AwxFinish(j) \/ AwxPurge(j)
         \/ UNCHANGED awx
<1>1. ASSUME NEW w \in Workers,
             SyncNow(w) \/ SchedulerFires(w) \/ Start(w) \/ Work(w) \/ Fail(w)
               \/ RecordErrorFails(w) \/ Crash(w) \/ LockConnectionLost(w)
      PROVE  UNCHANGED awx
  BY <1>1
  DEF frame, SyncNow, SchedulerFires, Start, LoadController, LoadNothing,
      SkippedLocked, TryLock, Work, MarkRunning, FetchPage, FollowNext,
      SkipOpen, SkipKnown, TakeJob, FetchEvents, PersistRun, PersistConflict,
      CommitCursor, SyncProjects, FinishOk, Fail, RecordError,
      RecordErrorFails, Release, Crash, LockConnectionLost
<1>2. CASE RetentionBatch \/ DeleteController \/ UNCHANGED vars
  BY <1>2 DEF RetentionBatch, DeleteController, frame, vars
<1>3. QED
  BY <1>1, <1>2 DEF Next

LEMMA AwxOrdered == Spec => []AwxInv
<1>1. Init => AwxInv
  BY DEF Init, AwxInv
<1>2. ASSUME TypeOK, AwxInv, [Next]_vars PROVE AwxInv'
  <2> USE TypeOK, AwxInv DEF TypeOK, AwxInv, Jobs
  <2>1. ASSUME NEW j \in Jobs, AwxLaunch(j) PROVE AwxInv'
    BY <2>1 DEF AwxLaunch
  <2>2. ASSUME NEW j \in Jobs, AwxFinish(j) PROVE AwxInv'
    BY <2>2 DEF AwxFinish
  <2>3. ASSUME NEW j \in Jobs, AwxPurge(j) PROVE AwxInv'
    BY <2>3 DEF AwxPurge
  <2>4. CASE UNCHANGED awx
    BY <2>4
  <2>5. QED
    BY <1>2, <2>1, <2>2, <2>3, <2>4, AwxStep
<1>3. QED
  BY <1>1, <1>2, TypeCorrect, PTL DEF Spec

(* A worker is not disturbed while its own locals stand still.             *)
LEMMA Undisturbed ==
  ASSUME NEW v \in Workers, WorkerInv(v),
         Accounted \subseteq Accounted', imported \subseteq imported' /\ Ended \subseteq Ended',
         pc'[v] = pc[v], ormCursor'[v] = ormCursor[v], since'[v] = since[v],
         maxId'[v] = maxId[v], floor'[v] = floor[v], cur'[v] = cur[v],
         page'[v] = page[v], open'[v] = open[v], unseen'[v] = unseen[v]
  PROVE  WorkerInv(v)'
BY DEF WorkerInv, Covered, Reached

(* The cursor that is written covers settled and missed jobs only.         *)
LEMMA DurableSettled ==
  ASSUME TypeOK, NEW w \in Workers, WorkerInv(w), NEW m \in Cursors,
         \A k \in Jobs : k <= m => Covered(w, k)
  PROVE  \A k \in Jobs :
           k <= Durable(w, m) => k \in Settled \cup Missed(w, Durable(w, m))
BY AwxSyncAssumption
DEF TypeOK, WorkerInv, Covered, Accounted, Missed, Durable, MaxOf, MinOf, Cursors, Floors, Jobs,
    NoFloor

(* No step takes a job out of Accounted.                                   *)
LEMMA SettledGrows ==
  ASSUME TypeOK, [Next]_vars
  PROVE  imported \subseteq imported' /\ Ended \subseteq Ended' /\ Accounted \subseteq Accounted'
<1> USE TypeOK DEF TypeOK, Accounted, Settled, Ended, frame, Missed
<1>1. ASSUME NEW j \in Jobs, AwxLaunch(j) \/ AwxFinish(j) \/ AwxPurge(j)
      PROVE  imported \subseteq imported' /\ Ended \subseteq Ended' /\ Accounted \subseteq Accounted'
  BY <1>1 DEF AwxLaunch, AwxFinish, AwxPurge
<1>2. ASSUME NEW w \in Workers,
             SyncNow(w) \/ SchedulerFires(w) \/ Start(w) \/ Work(w) \/ Fail(w)
               \/ RecordErrorFails(w) \/ Crash(w) \/ LockConnectionLost(w)
      PROVE  UNCHANGED awx /\ imported \subseteq imported' /\ missed \subseteq missed'
  BY <1>2
  DEF SyncNow, SchedulerFires, Start, LoadController, LoadNothing,
      SkippedLocked, TryLock, Work, MarkRunning, FetchPage, FollowNext,
      SkipOpen, SkipKnown, TakeJob, FetchEvents, PersistRun, PersistConflict,
      CommitCursor, SyncProjects, FinishOk, Fail, RecordError,
      RecordErrorFails, Release, Crash, LockConnectionLost
<1>3. CASE RetentionBatch \/ DeleteController \/ UNCHANGED vars
  BY <1>3 DEF RetentionBatch, DeleteController, vars
<1>4. QED
  BY <1>1, <1>2, <1>3 DEF Next

(* What is imported has ended: PersistRun stores a job that was taken so.  *)
LEMMA ImportedHasEnded ==
  ASSUME TypeOK, SeenInv, [Next]_vars
  PROVE  imported' \subseteq Ended'
<1>1. imported \subseteq Ended' /\ Ended \subseteq Ended'
  BY SettledGrows DEF SeenInv
<1>2. ASSUME NEW w \in Workers, PersistRun(w) PROVE imported' \subseteq Ended'
  <2>1. cur[w] \in Ended /\ imported' = imported \cup {cur[w]}
    BY <1>2 DEF PersistRun, SeenInv, WorkerInv
  <2>2. QED
    BY <1>1, <2>1
<1>3. ASSUME NEW w \in Workers,
             SyncNow(w) \/ SchedulerFires(w) \/ Start(w) \/ Fail(w)
               \/ RecordErrorFails(w) \/ Crash(w) \/ LockConnectionLost(w)
               \/ Release(w) \/ RecordError(w) \/ FinishOk(w)
               \/ SyncProjects(w) \/ CommitCursor(w) \/ PersistConflict(w)
               \/ FetchEvents(w) \/ FollowNext(w) \/ FetchPage(w)
               \/ MarkRunning(w)
      PROVE  imported' = imported
  BY <1>3
  DEF frame, SyncNow, SchedulerFires, Start, LoadController, LoadNothing,
      SkippedLocked, TryLock, MarkRunning, FetchPage, FollowNext, FetchEvents,
      PersistConflict, CommitCursor, SyncProjects, FinishOk, Fail, RecordError,
      RecordErrorFails, Release, Crash, LockConnectionLost
<1>4. ASSUME NEW j \in Jobs
      PROVE  /\ AwxLaunch(j) \/ AwxFinish(j) \/ AwxPurge(j) => imported' = imported
             /\ \A w \in Workers :
                  SkipOpen(w, j) \/ SkipKnown(w, j) \/ TakeJob(w, j)
                    => imported' = imported
  BY DEF frame, AwxLaunch, AwxFinish, AwxPurge, SkipOpen, SkipKnown, TakeJob
<1>5. CASE RetentionBatch \/ DeleteController \/ UNCHANGED vars
  BY <1>1, <1>5 DEF RetentionBatch, DeleteController, vars, frame
<1>6. QED
  BY <1>1, <1>2, <1>3, <1>4, <1>5 DEF Next, Work

LEMMA SeenInductive == Spec => []SeenInv
<1>1. Init => SeenInv
  BY AwxSyncAssumption
  DEF Init, SeenInv, WorkerInv, OnlyUnseenAreMissed, Covered, Reached, Jobs
<1>2. ASSUME TypeOK, SeenInv, [Next]_vars PROVE SeenInv'
  <2> USE AwxSyncAssumption
  <2>1. /\ imported \subseteq imported' /\ Ended \subseteq Ended' /\ Accounted \subseteq Accounted'
        /\ imported' \subseteq Ended'
    BY <1>2, SettledGrows, ImportedHasEnded
  <2>2. ASSUME runs' \subseteq imported', UNCHANGED dbCursor,
               NEW w \in Workers, WorkerInv(w)',
               \A v \in Workers \ {w} :
                 /\ pc'[v] = pc[v] /\ ormCursor'[v] = ormCursor[v]
                 /\ since'[v] = since[v] /\ maxId'[v] = maxId[v]
                 /\ floor'[v] = floor[v] /\ cur'[v] = cur[v]
                 /\ page'[v] = page[v] /\ open'[v] = open[v]
                 /\ unseen'[v] = unseen[v]
        PROVE  SeenInv'
    BY <1>2, <2>1, <2>2, Undisturbed DEF SeenInv, OnlyUnseenAreMissed, Accounted
  <2>3. ASSUME runs' \subseteq imported', UNCHANGED <<dbCursor, session, pc>>
        PROVE  SeenInv'
    BY <1>2, <2>1, <2>3, Undisturbed
    DEF SeenInv, OnlyUnseenAreMissed, Accounted, session, ormVars, locals, listVars
  <2>4. ASSUME NEW w \in Workers, Forget(w), UNCHANGED dbVars
        PROVE  SeenInv'
    <3>1. WorkerInv(w)'
      BY <1>2, <2>4 DEF TypeOK, Forget, WorkerInv, Covered, Reached, Jobs
    <3>2. QED
      BY <1>2, <2>1, <2>2, <2>4, <3>1
      DEF TypeOK, Forget, SeenInv, dbVars
  <2>5. ASSUME NEW w \in Workers,
               LoadNothing(w) \/ SkippedLocked(w) \/ Release(w) \/ Crash(w)
        PROVE  SeenInv'
    BY <2>4, <2>5 DEF LoadNothing, SkippedLocked, Release, Crash
  <2>6. ASSUME NEW w \in Workers, SyncNow(w) \/ SchedulerFires(w)
        PROVE  SeenInv'
    <3>1. /\ pc[w] = "idle" /\ pc' = [pc EXCEPT ![w] = "queued"]
          /\ UNCHANGED <<dbVars, session, frame>>
      BY <2>6 DEF SyncNow, SchedulerFires
    <3>2. WorkerInv(w)'
      BY <1>2, <3>1, <2>1
      DEF TypeOK, SeenInv, WorkerInv, Covered, Reached, session, ormVars,
          locals, listVars, frame, Accounted, Settled, Ended
    <3>3. QED
      BY <1>2, <2>1, <2>2, <3>1, <3>2
      DEF TypeOK, SeenInv, dbVars, session, ormVars, locals, listVars
  <2>7. ASSUME NEW w \in Workers, LoadController(w) PROVE SeenInv'
    <3> USE <2>7 DEF LoadController
    <3>1. WorkerInv(w)'
      BY <1>2, <2>1
      DEF TypeOK, SeenInv, OnlyUnseenAreMissed, WorkerInv, Accounted, Covered, Reached, locals,
          listVars
    <3>2. QED
      BY <1>2, <2>1, <2>2, <3>1
      DEF TypeOK, SeenInv, dbVars, locals, listVars
  <2>8. ASSUME NEW w \in Workers, TryLock(w) PROVE SeenInv'
    <3> USE <2>8 DEF TryLock
    <3>1. WorkerInv(w)'
      BY <1>2, <2>1
      DEF TypeOK, SeenInv, WorkerInv, Covered, Reached, ormVars, listVars
    <3>2. QED
      BY <1>2, <2>1, <2>2, <3>1
      DEF TypeOK, SeenInv, dbVars, ormVars, listVars
  <2>9. ASSUME NEW w \in Workers, MarkRunning(w) PROVE SeenInv'
    <3> USE <2>9 DEF MarkRunning
    <3>1. WorkerInv(w)'
      BY <1>2, <2>1
      DEF TypeOK, SeenInv, WorkerInv, Covered, Reached, locals
    <3>2. QED
      BY <1>2, <2>1, <2>2, <3>1 DEF TypeOK, SeenInv, locals
  <2>10. ASSUME NEW w \in Workers, FetchPage(w) PROVE SeenInv'
    <3> DEFINE P == PageOf(Listed(since[w]), pageNo[w])
    <3> USE <2>10 DEF FetchPage
    <3>1. P \subseteq Jobs /\ P \subseteq Listed(since[w])
      BY DEF PageOf, Listed
    <3>2. /\ page'[w] = P /\ open'[w] = {j \in P : awx[j] = "open"}
          /\ unseen'[w] = unseen[w] \cup Unshown(w, P)
          /\ UNCHANGED <<Settled, missed>>
      BY <1>2 DEF TypeOK, frame, Settled
    <3>3. ASSUME NEW j \in P, awx[j] # "open", NEW k \in Jobs, k < j
          PROVE  k \in P \/ Covered(w, k)'
      <4>1. awx[j] = "terminal" /\ j \in Jobs
        BY <3>1, <3>3 DEF Listed
      <4>2. CASE k <= since[w]
        BY <1>2, <2>1, <4>2 DEF SeenInv, WorkerInv, Covered
      <4>3. CASE k > since[w] /\ floor[w] <= k
        BY <4>3 DEF Covered, locals
      <4>4. CASE k > since[w] /\ k < floor[w] /\ k \in P \cup Settled
        BY <2>1, <3>2, <4>4 DEF Covered, Accounted
      <4>5. CASE k > since[w] /\ k < floor[w] /\ k \notin P \cup Settled
        <5>1. k \in Unshown(w, P)
          BY <3>3, <4>1, <4>5 DEF Unshown
        <5>2. QED
          BY <3>2, <5>1 DEF Covered
      <4>6. QED
        BY <1>2, <4>2, <4>3, <4>4, <4>5 DEF TypeOK, Cursors, Floors, Jobs, NoFloor
    <3>6. page'[w] \ open'[w] \subseteq Ended
      BY <3>1, <3>2 DEF Listed, Ended
    <3>5. \A k \in Jobs : Covered(w, k) => Covered(w, k)'
      BY <2>1, <3>2 DEF Covered, locals
    <3> HIDE DEF P
    <3>7. WorkerInv(w)'
      <4>1. \A k \in Jobs : k <= maxId'[w] => Covered(w, k)'
        BY <1>2, <3>5 DEF SeenInv, WorkerInv, locals
      <4>2. \A j \in page'[w] \ open'[w], k \in Jobs :
              k < j => k \in page'[w] \/ k = cur'[w] \/ Covered(w, k)'
        BY <3>1, <3>2, <3>3
      <4>3. pc[w] = "list" /\ pc'[w] = "job" /\ cur'[w] = 0
        BY <1>2 DEF TypeOK, SeenInv, WorkerInv, locals
      <4>4. QED
        BY <1>2, <2>1, <3>6, <4>1, <4>2, <4>3 DEF SeenInv, WorkerInv, ormVars, locals
    <3>8. QED
      BY <1>2, <2>1, <2>2, <3>7 DEF TypeOK, SeenInv, dbVars, ormVars, locals
  <2>11. ASSUME NEW w \in Workers, FollowNext(w) PROVE SeenInv'
    <3> USE <2>11 DEF FollowNext
    <3>1. WorkerInv(w)'
      BY <1>2, <2>1
      DEF TypeOK, SeenInv, WorkerInv, Covered, Reached, ormVars, locals
    <3>2. QED
      BY <1>2, <2>1, <2>2, <3>1 DEF TypeOK, SeenInv, dbVars, ormVars, locals
  <2>12. ASSUME NEW w \in Workers, NEW j \in Jobs, NextOnPage(w, j)
         PROVE  /\ pc[w] = "job" /\ cur[w] = 0
                /\ page'[w] = page[w] \ {j} /\ open'[w] = open[w] \ {j}
                /\ j \notin open[w] => Reached(w, j) /\ j \in Ended
                /\ \A i \in page'[w] \ open'[w], k \in Jobs :
                     k < i => k \in page'[w] \/ k = j \/ Covered(w, k)
    <3>1. /\ pc[w] = "job" /\ cur[w] = 0 /\ j \in page[w]
          /\ page'[w] = page[w] \ {j} /\ open'[w] = open[w] \ {j}
      BY <1>2, <2>12 DEF NextOnPage, TypeOK, SeenInv, WorkerInv
    <3>2. \A i \in page[w] \ open[w], k \in Jobs :
            k < i => k \in page[w] \/ Covered(w, k)
      BY <1>2, <3>1 DEF SeenInv, WorkerInv, Jobs
    <3>3. \A k \in Jobs : k < j => k \notin page[w]
      BY <1>2, <2>12 DEF NextOnPage, TypeOK, Jobs
    <3>4. page[w] \ open[w] \subseteq Ended
      BY <1>2 DEF SeenInv, WorkerInv
    <3>5. QED
      BY <3>1, <3>2, <3>3, <3>4 DEF Reached
  <2>13. ASSUME NEW w \in Workers, NEW j \in Jobs, SkipOpen(w, j)
         PROVE  SeenInv'
    <3> USE <2>13 DEF SkipOpen
    <3>1. floor'[w] \in Int /\ floor[w] \in Int /\ floor'[w] <= floor[w]
            /\ floor'[w] <= j
      BY <1>2 DEF TypeOK, MinOf, Floors, NoFloor, Jobs
    <3>2. \A k \in Jobs : Covered(w, k) => Covered(w, k)'
      BY <2>1, <3>1 DEF Covered, Jobs
    <3>3. Covered(w, j)'
      BY <3>1 DEF Covered
    <3>4. \A k \in Jobs : k <= maxId'[w] => Covered(w, k)'
      BY <1>2, <3>2 DEF SeenInv, WorkerInv
    <3>5. \A i \in page'[w] \ open'[w], k \in Jobs :
            k < i => k \in page'[w] \/ k = cur'[w] \/ Covered(w, k)'
      BY <2>12, <3>2, <3>3
    <3>6. WorkerInv(w)'
      BY <1>2, <2>1, <2>12, <3>4, <3>5 DEF SeenInv, WorkerInv, ormVars
    <3>7. QED
      BY <1>2, <2>1, <2>2, <3>6 DEF TypeOK, SeenInv, dbVars, ormVars, NextOnPage
  <2>14. ASSUME NEW w \in Workers, NEW j \in Jobs, SkipKnown(w, j)
         PROVE  SeenInv'
    <3> USE <2>14 DEF SkipKnown
    <3>1. j \in Accounted /\ Reached(w, j)
      BY <1>2, <2>12 DEF SeenInv, Accounted, Settled
    <3>2. \A k \in Jobs : Covered(w, k) => Covered(w, k)'
      BY <2>1 DEF Covered
    <3>3. \A k \in Jobs : k <= j => Covered(w, k)
      BY <3>1 DEF Covered, Reached, Jobs
    <3>4. maxId'[w] \in {maxId[w], j}
      BY <1>2 DEF TypeOK, MaxOf
    <3>5. \A k \in Jobs : k <= maxId'[w] => Covered(w, k)'
      BY <1>2, <3>2, <3>3, <3>4 DEF SeenInv, WorkerInv
    <3>6. \A i \in page'[w] \ open'[w], k \in Jobs :
            k < i => k \in page'[w] \/ k = cur'[w] \/ Covered(w, k)'
      BY <2>12, <3>1, <3>2 DEF Covered
    <3>7. WorkerInv(w)'
      BY <1>2, <2>1, <2>12, <3>5, <3>6 DEF SeenInv, WorkerInv, ormVars
    <3>8. QED
      BY <1>2, <2>1, <2>2, <3>7 DEF TypeOK, SeenInv, dbVars, ormVars, NextOnPage
  <2>15. ASSUME NEW w \in Workers, NEW j \in Jobs, TakeJob(w, j)
         PROVE  SeenInv'
    <3> USE <2>15 DEF TakeJob
    <3>1. Reached(w, j) /\ j \in Ended /\ cur'[w] = j /\ pc'[w] = "fetch"
      BY <1>2, <2>12 DEF TypeOK
    <3>2. \A k \in Jobs : Covered(w, k) => Covered(w, k)'
      BY <2>1 DEF Covered
    <3>3. \A i \in page'[w] \ open'[w], k \in Jobs :
            k < i => k \in page'[w] \/ k = cur'[w] \/ Covered(w, k)'
      BY <2>12, <3>1, <3>2
    <3>4. page'[w] \ open'[w] \subseteq Ended' /\ cur'[w] \in Ended'
      BY <1>2, <2>1, <2>12, <3>1 DEF SeenInv, WorkerInv
    <3>5. WorkerInv(w)'
      BY <1>2, <2>1, <3>1, <3>2, <3>3, <3>4
      DEF SeenInv, WorkerInv, Reached, ormVars
    <3>6. QED
      BY <1>2, <2>1, <2>2, <3>5 DEF TypeOK, SeenInv, dbVars, ormVars, NextOnPage
  <2>16. ASSUME NEW w \in Workers, FetchEvents(w) PROVE SeenInv'
    <3> USE <2>16 DEF FetchEvents
    <3>1. WorkerInv(w)'
      BY <1>2, <2>1
      DEF TypeOK, SeenInv, WorkerInv, Covered, Reached, session, ormVars,
          locals, listVars
    <3>2. QED
      BY <1>2, <2>1, <2>2, <3>1
      DEF TypeOK, SeenInv, dbVars, session, ormVars, locals, listVars
  <2>17. ASSUME NEW w \in Workers, PersistRun(w) PROVE SeenInv'
    <3> USE <2>17 DEF PersistRun
    <3>1. WorkerInv(w)'
      BY <1>2, <2>1
      DEF TypeOK, SeenInv, WorkerInv, Covered, Reached, session, ormVars,
          locals, listVars
    <3>2. QED
      BY <1>2, <2>1, <2>2, <3>1
      DEF TypeOK, SeenInv, session, ormVars, locals, listVars
  <2>18. ASSUME NEW w \in Workers, PersistConflict(w) PROVE SeenInv'
    <3> USE <2>18 DEF PersistConflict
    <3>1. cur[w] \in Jobs /\ cur[w] \in Accounted /\ Reached(w, cur[w])
      BY <1>2 DEF TypeOK, SeenInv, WorkerInv, Accounted, Settled, Ended
    <3>2. ASSUME NEW k \in Jobs, k <= maxId'[w] PROVE Covered(w, k)
      BY <1>2, <3>1, <3>2
      DEF TypeOK, SeenInv, WorkerInv, Accounted, Covered, Reached, MaxOf, Cursors, Jobs
    <3>3. WorkerInv(w)'
      <4>1. \A k \in Jobs : Covered(w, k) => Covered(w, k)'
        BY <2>1 DEF Covered, listVars
      <4>2. \A k \in Jobs : k <= maxId'[w] => Covered(w, k)'
        BY <3>2, <4>1
      <4>3. Covered(w, cur[w])
        BY <3>1 DEF Covered
      <4>4. \A j \in page'[w] \ open'[w], k \in Jobs :
              k < j => k \in page'[w] \/ k = cur'[w] \/ Covered(w, k)'
        BY <1>2, <4>1, <4>3 DEF SeenInv, WorkerInv, listVars
      <4>5. \A k \in Jobs : k <= ormCursor'[w] \/ k <= since'[w] => k \in Accounted'
        BY <1>2, <2>1 DEF TypeOK, SeenInv, OnlyUnseenAreMissed, WorkerInv, Accounted
      <4>6. pc'[w] = "job" /\ cur'[w] = 0
        BY <1>2 DEF TypeOK
      <4>7. QED
        BY <1>2, <2>1, <4>2, <4>4, <4>5, <4>6 DEF SeenInv, WorkerInv, listVars
    <3>4. QED
      BY <1>2, <2>1, <2>2, <3>3 DEF TypeOK, SeenInv, dbVars, listVars
  <2>19. ASSUME NEW w \in Workers, NEW c \in Cursors,
                \A k \in Jobs : k <= c => k \in Settled \cup Missed(w, c),
                missed' = Missed(w, c), UNCHANGED <<awx, imported>>,
                ormCursor' = [ormCursor EXCEPT ![w] = c],
                dbCursor' = Written(dbCursor, ormCursor[w], c), UNCHANGED runs,
                (\A k \in Jobs : k <= c => k \in Accounted') => WorkerInv(w)',
                \A v \in Workers \ {w} :
                  /\ pc'[v] = pc[v] /\ since'[v] = since[v]
                  /\ maxId'[v] = maxId[v] /\ floor'[v] = floor[v]
                  /\ cur'[v] = cur[v] /\ page'[v] = page[v]
                  /\ open'[v] = open[v] /\ unseen'[v] = unseen[v]
         PROVE  SeenInv'
    <3>1. \A k \in Jobs : k <= c => k \in Accounted'
      BY <2>19 DEF Accounted, Settled
    <3>2. OnlyUnseenAreMissed'
      BY <1>2, <2>1, <2>19, <3>1 DEF SeenInv, OnlyUnseenAreMissed, Written, Accounted
    <3>3. \A v \in Workers \ {w} : WorkerInv(v)'
      BY <1>2, <2>1, <2>19, Undisturbed DEF TypeOK, SeenInv
    <3>4. QED
      BY <1>2, <2>1, <2>19, <3>1, <3>2, <3>3 DEF SeenInv
  <2>20. ASSUME NEW w \in Workers, CommitCursor(w) PROVE SeenInv'
    <3> DEFINE m == MaxOf(maxId[w], cur[w])
               c == Durable(w, m)
    <3> USE <2>20 DEF CommitCursor
    <3>1. /\ cur[w] \in Jobs /\ cur[w] \in Accounted /\ Reached(w, cur[w])
          /\ m \in Cursors
      BY <1>2 DEF TypeOK, SeenInv, WorkerInv, Accounted, Settled, MaxOf
    <3>2. ASSUME NEW k \in Jobs, k <= m PROVE Covered(w, k)
      BY <1>2, <3>1, <3>2
      DEF TypeOK, SeenInv, WorkerInv, Covered, Reached, MaxOf, Cursors, Jobs
    <3>3. c \in Cursors
      BY <1>2, <3>1, DurableRange DEF TypeOK
    <3>4. \A k \in Jobs : k <= c => k \in Settled \cup Missed(w, c)
      BY <1>2, <3>1, <3>2, DurableSettled DEF SeenInv
    <3> HIDE DEF m, c
    <3>5. /\ maxId' = [maxId EXCEPT ![w] = m]
          /\ dbCursor' = Written(dbCursor, ormCursor[w], c)
          /\ ormCursor' = [ormCursor EXCEPT ![w] = c]
          /\ missed' = Missed(w, c)
      BY DEF m, c
    <3>6. ASSUME \A k \in Jobs : k <= c => k \in Accounted' PROVE WorkerInv(w)'
      BY <1>2, <2>1, <3>1, <3>2, <3>5, <3>6
      DEF TypeOK, SeenInv, WorkerInv, Covered, Reached, listVars
    <3>7. QED
      BY <1>2, <2>19, <3>3, <3>4, <3>5, <3>6 DEF TypeOK, listVars
  <2>21. ASSUME NEW w \in Workers, SyncProjects(w) PROVE SeenInv'
    <3> USE <2>21 DEF SyncProjects
    <3>1. WorkerInv(w)'
      BY <1>2, <2>1
      DEF TypeOK, SeenInv, OnlyUnseenAreMissed, WorkerInv, Accounted, Covered, Reached, locals,
          listVars
    <3>2. QED
      BY <1>2, <2>1, <2>2, <3>1 DEF TypeOK, SeenInv, dbVars, locals, listVars
  <2>22. ASSUME NEW w \in Workers, FinishOk(w) PROVE SeenInv'
    <3> DEFINE c == Durable(w, maxId[w])
    <3> USE <2>22 DEF FinishOk
    <3>1. maxId[w] \in Cursors
      BY <1>2 DEF TypeOK
    <3>2. c \in Cursors
      BY <1>2, <3>1, DurableRange DEF TypeOK
    <3>3. \A k \in Jobs : k <= c => k \in Settled \cup Missed(w, c)
      BY <1>2, <3>1, DurableSettled DEF SeenInv, WorkerInv
    <3> HIDE DEF c
    <3>4. /\ dbCursor' = Written(dbCursor, ormCursor[w], c)
          /\ ormCursor' = [ormCursor EXCEPT ![w] = c]
          /\ missed' = Missed(w, c)
      BY DEF c
    <3>5. ASSUME \A k \in Jobs : k <= c => k \in Accounted' PROVE WorkerInv(w)'
      BY <1>2, <2>1, <3>4, <3>5
      DEF TypeOK, SeenInv, WorkerInv, Covered, Reached, locals, listVars
    <3>6. QED
      BY <1>2, <2>19, <3>2, <3>3, <3>4, <3>5 DEF TypeOK, locals, listVars
  <2>23. ASSUME NEW w \in Workers,
                Fail(w) \/ RecordError(w) \/ RecordErrorFails(w)
         PROVE  SeenInv'
    <3>1. /\ \E q \in {"failed", "release"} : pc' = [pc EXCEPT ![w] = q]
          /\ ormCursor'[w] \in {ormCursor[w], dbCursor}
          /\ \A v \in Workers \ {w} : ormCursor'[v] = ormCursor[v]
          /\ UNCHANGED <<runs, dbCursor, locals, listVars>>
      BY <1>2, <2>23
      DEF TypeOK, Fail, RecordError, RecordErrorFails, dbVars, session, ormVars
    <3>2. WorkerInv(w)'
      BY <1>2, <2>1, <3>1
      DEF TypeOK, SeenInv, OnlyUnseenAreMissed, WorkerInv, Accounted, Covered, Reached, locals,
          listVars
    <3>3. QED
      BY <1>2, <2>1, <2>2, <3>1, <3>2 DEF TypeOK, SeenInv, locals, listVars
  <2>24. ASSUME NEW w \in Workers, LockConnectionLost(w) PROVE SeenInv'
    BY <1>2, <2>1, <2>3, <2>24 DEF LockConnectionLost, SeenInv, dbVars
  <2>25. CASE RetentionBatch \/ DeleteController \/ UNCHANGED vars
    BY <1>2, <2>1, <2>3, <2>25
    DEF RetentionBatch, DeleteController, vars, SeenInv, dbVars
  <2>26. ASSUME NEW j \in Jobs, AwxLaunch(j) \/ AwxFinish(j) \/ AwxPurge(j)
         PROVE  SeenInv'
    BY <1>2, <2>1, <2>3, <2>26
    DEF AwxLaunch, AwxFinish, AwxPurge, SeenInv, dbVars
  <2>27. QED
    BY <1>2, <2>5, <2>6, <2>7, <2>8, <2>9, <2>10, <2>11, <2>13, <2>14, <2>15,
       <2>16, <2>17, <2>18, <2>20, <2>21, <2>22, <2>23, <2>24, <2>25, <2>26
    DEF Next, Start, Work
<1>3. QED
  BY <1>1, <1>2, TypeCorrect, PTL DEF Spec

(* Of the jobs at or below the durable cursor each one is settled or was   *)
(* missed by the listing of the sync that moved the cursor over it: in any *)
(* order of ends, with pages of any size, purges, retries, crashes, lost   *)
(* locks, retention and deletion, for any number of overlapping tasks (the *)
(* commit order of sync_controller and _durable_cursor).                   *)
THEOREM CursorPassesTheUnseen == Spec => []OnlyUnseenAreMissed
<1>1. SeenInv => OnlyUnseenAreMissed
  BY DEF SeenInv
<1>2. QED
  BY <1>1, SeenInductive, PTL

-----------------------------------------------------------------------------
(* What makes the listing show every job: a page holds all of it, and a    *)
(* job that the listing leaves out while it is open ends before the later  *)
(* ones.                                                                   *)
Orderly == InOrder /\ PageSize >= MaxJob

(* With pages that large the first one is the listing, a second is empty.  *)
LEMMA OnePage ==
  ASSUME PageSize >= MaxJob, NEW L \in SUBSET Jobs, NEW p \in Nat \ {0}
  PROVE  /\ PageOf(L, 1) = L
         /\ p # 1 => PageOf(L, p) = {}
<1>1. ASSUME NEW j \in L
      PROVE  /\ Cardinality({i \in L : i <= j}) \in 1..MaxJob
  <2> DEFINE R == {i \in L : i <= j}
  <2>1. IsFiniteSet(Jobs) /\ Cardinality(Jobs) = MaxJob
    <3>1. 1 \in Int /\ MaxJob \in Int /\ MaxJob >= 0
      BY AwxSyncAssumption
    <3>2. QED
      BY <3>1, FS_Interval DEF Jobs
  <2>2. IsFiniteSet(R) /\ Cardinality(R) <= MaxJob
    BY <2>1, FS_Subset
  <2>3. j \in R
    BY DEF Jobs
  <2>4. Cardinality(R) \in Nat /\ Cardinality(R) # 0
    BY <2>2, <2>3, FS_CardinalityType, FS_EmptySet
  <2>5. QED
    BY <2>2, <2>4, AwxSyncAssumption
<1>2. PageOf(L, 1) = L
  BY <1>1, AwxSyncAssumption DEF PageOf
<1>3. ASSUME p # 1, NEW j \in PageOf(L, p) PROVE FALSE
  <2>1. j \in L /\ (p - 1) * PageSize < Cardinality({i \in L : i <= j})
    BY <1>3 DEF PageOf
  <2>2. (p - 1) * PageSize < PageSize
    BY <1>1, <2>1, AwxSyncAssumption
  <2>3. p - 1 \in Nat \ {0}
    BY <1>3
  <2>4. (p - 1) * PageSize >= PageSize
    BY <2>3, AwxSyncAssumption
  <2>5. QED
    BY <2>2, <2>3, <2>4, AwxSyncAssumption
<1>4. QED
  BY <1>2, <1>3

(* Nothing is hidden from such a listing.                                  *)
NoneUnseen == missed = {} /\ unseen = [w \in Workers |-> {}]

LEMMA OrderlyShowsAll == ASSUME Orderly PROVE Spec => []NoneUnseen
<1>1. Init => NoneUnseen
  BY DEF Init, NoneUnseen
<1>2. ASSUME TypeOK, AwxInv, NoneUnseen, [Next]_vars PROVE NoneUnseen'
  <2> USE TypeOK, NoneUnseen DEF TypeOK, NoneUnseen, frame, session, listVars
  <2>1. ASSUME NEW w \in Workers, FetchPage(w) PROVE NoneUnseen'
    <3> DEFINE L == Listed(since[w])
    <3>1. L \subseteq Jobs /\ pageNo[w] \in Nat \ {0}
      BY DEF Listed
    <3>2. PageOf(L, pageNo[w]) \in {L, {}}
      BY <3>1, OnePage DEF Orderly
    <3>3. ASSUME NEW k \in Unshown(w, L) PROVE FALSE
      <4>1. PICK i \in L : awx[i] = "terminal" /\ k < i
        BY <3>3 DEF Unshown
      <4>2. k \in Jobs /\ k \notin L /\ k \notin Settled /\ since[w] < k
        BY <3>3 DEF Unshown
      <4>3. awx[k] # "absent" /\ (awx[k] = "open" => k \in OddJobs)
        BY <1>2, <3>1, <4>1, <4>2 DEF AwxInv, Orderly
      <4>4. QED
        BY <4>2, <4>3 DEF Settled, Listed, JobState
    <3>4. Unshown(w, {}) = {}
      BY DEF Unshown
    <3>5. Unshown(w, PageOf(L, pageNo[w])) = {}
      BY <3>2, <3>3, <3>4
    <3>6. missed' = missed /\ unseen' = [unseen EXCEPT ![w] = @ \cup {}]
      BY <2>1, <3>5 DEF FetchPage
    <3>7. QED
      BY <3>6
  <2>2. ASSUME NEW w \in Workers, CommitCursor(w) \/ FinishOk(w)
        PROVE  NoneUnseen'
    BY <2>2 DEF CommitCursor, FinishOk, Missed
  <2>3. ASSUME NEW w \in Workers,
               SyncNow(w) \/ SchedulerFires(w) \/ Start(w) \/ Fail(w)
                 \/ RecordErrorFails(w) \/ Crash(w) \/ LockConnectionLost(w)
                 \/ Release(w) \/ RecordError(w) \/ SyncProjects(w)
                 \/ PersistConflict(w) \/ PersistRun(w) \/ FetchEvents(w)
                 \/ FollowNext(w) \/ MarkRunning(w)
        PROVE  NoneUnseen'
    BY <2>3
    DEF SyncNow, SchedulerFires, Start, LoadController, LoadNothing,
        SkippedLocked, TryLock, MarkRunning, FollowNext, FetchEvents,
        PersistRun, PersistConflict, SyncProjects, Fail, RecordError,
        RecordErrorFails, Release, Crash, LockConnectionLost, Forget
  <2>4. ASSUME NEW w \in Workers, NEW j \in Jobs,
               SkipOpen(w, j) \/ SkipKnown(w, j) \/ TakeJob(w, j)
        PROVE  NoneUnseen'
    BY <2>4 DEF SkipOpen, SkipKnown, TakeJob
  <2>5. ASSUME NEW j \in Jobs, AwxLaunch(j) \/ AwxFinish(j) \/ AwxPurge(j)
        PROVE  NoneUnseen'
    BY <2>5 DEF AwxLaunch, AwxFinish, AwxPurge
  <2>6. CASE RetentionBatch \/ DeleteController \/ UNCHANGED vars
    BY <2>6 DEF RetentionBatch, DeleteController, vars
  <2>7. QED
    BY <1>2, <2>1, <2>2, <2>3, <2>4, <2>5, <2>6 DEF Next, Work
<1>3. QED
  BY <1>1, <1>2, TypeCorrect, AwxOrdered, PTL DEF Spec

(* In an orderly environment nothing is missed, and the cursor passes      *)
(* settled jobs only, for any number of overlapping tasks.                 *)
THEOREM CursorNeverSkips == ASSUME Orderly PROVE Spec => []NothingLost
<1>1. OnlyUnseenAreMissed /\ NoneUnseen => NothingLost
  BY DEF OnlyUnseenAreMissed, NothingLost, NoneUnseen
<1>2. QED
  BY <1>1, CursorPassesTheUnseen, OrderlyShowsAll, PTL

(* In an orderly environment no job is leapfrogged while it is not         *)
(* terminal, the odd ones that the listing shows before they end included: *)
(* what the floor of _durable_cursor is for.  Jobs that end out of order   *)
(* are what breaks it (the run leapfrog).                                  *)
THEOREM OrderlyIsNotLeapfrogged == ASSUME Orderly PROVE Spec => []NotLeapfrogged
<1>1. ASSUME TypeOK, SeenInv, NoneUnseen, NEW j \in Jobs, awx[j] = "open"
      PROVE  dbCursor < j
  <2>1. j \notin Settled
    BY <1>1 DEF SeenInv, Settled, Ended
  <2>2. ~ (j <= dbCursor)
    BY <1>1, <2>1 DEF SeenInv, OnlyUnseenAreMissed, NoneUnseen
  <2>3. QED
    BY <1>1, <2>2 DEF TypeOK, Cursors, Jobs
<1>2. TypeOK /\ SeenInv /\ NoneUnseen => NotLeapfrogged
  BY <1>1 DEF NotLeapfrogged
<1>3. QED
  BY <1>2, TypeCorrect, SeenInductive, OrderlyShowsAll, PTL

-----------------------------------------------------------------------------
(* Pages of a listing that only grows at its end.  In an InOrder           *)
(* environment a job that ends enters the listing above every job that     *)
(* ended before, so no job moves to a later page while a sync reads them:  *)
(* those of the next page are above all that were taken.                   *)

Shown == {j \in Jobs : awx[j] = "terminal" \/ (awx[j] = "open" /\ j \in OddJobs)}

(* The place of x among the members of S that are above s.                 *)
RankIn(S, s, x) == Cardinality({i \in S : s < i /\ i <= x})

RankOf(w, x) == RankIn(Shown, since[w], x)

LEMMA RankMonotone ==
  ASSUME NEW S \in SUBSET Jobs, NEW T \in SUBSET Jobs, NEW s \in Int,
         NEW x \in Int, NEW y \in Int,
         \A i \in S : s < i /\ i <= x => i \in T /\ i <= y
  PROVE  /\ RankIn(S, s, x) \in Nat /\ RankIn(T, s, y) \in Nat
         /\ RankIn(S, s, x) <= RankIn(T, s, y)
<1> DEFINE A == {i \in S : s < i /\ i <= x}
           B == {i \in T : s < i /\ i <= y}
<1>1. 1 \in Int /\ MaxJob \in Int
  BY AwxSyncAssumption
<1>2. IsFiniteSet(Jobs)
  BY <1>1, FS_Interval DEF Jobs
<1>3. IsFiniteSet(B)
  BY <1>2, FS_Subset
<1>4. A \subseteq B
  OBVIOUS
<1>5. IsFiniteSet(A) /\ Cardinality(A) <= Cardinality(B)
  BY <1>3, <1>4, FS_Subset
<1>6. Cardinality(A) \in Nat /\ Cardinality(B) \in Nat
  BY <1>3, <1>5, FS_CardinalityType
<1>7. QED
  BY <1>5, <1>6 DEF RankIn

LEMMA RankOfNone ==
  ASSUME NEW S \in SUBSET Jobs, NEW s \in Int, NEW x \in Int, x <= s
  PROVE  RankIn(S, s, x) = 0
<1>1. ASSUME NEW i \in S, s < i, i <= x PROVE FALSE
  BY <1>1 DEF Jobs
<1>2. Cardinality({}) = 0
  BY FS_EmptySet
<1>3. {i \in S : s < i /\ i <= x} = {}
  BY <1>1
<1>4. QED
  BY <1>2, <1>3 DEF RankIn

LEMMA NextMultiple ==
  ASSUME NEW p \in Int, NEW q \in Int
  PROVE  p * q = (p - 1) * q + q
OBVIOUS

(* What AWX does takes nobody that has ended to a later place.             *)
LEMMA RankShrinks ==
  ASSUME InOrder, TypeOK, AwxInv, [Next]_vars,
         NEW s \in Cursors, NEW x \in Cursors, x \in Ended \/ x <= s
  PROVE  /\ RankIn(Shown, s, x) \in Nat /\ RankIn(Shown', s, x) \in Nat
         /\ RankIn(Shown', s, x) <= RankIn(Shown, s, x)
<1>1. ASSUME NEW i \in Shown', s < i, i <= x
      PROVE  i \in Shown
  <2>1. x \in Ended /\ x \in Jobs /\ i \in Jobs
    BY <1>1 DEF Ended, Shown, Cursors, Jobs
  <2>2. ASSUME NEW j \in Jobs, AwxLaunch(j) PROVE i \in Shown
    <3>1. i # j
      BY <1>1, <2>1, <2>2 DEF AwxLaunch, AwxInv, Ended, Jobs
    <3>2. QED
      BY <1>1, <2>1, <2>2, <3>1 DEF TypeOK, AwxLaunch, Shown
  <2>3. ASSUME NEW j \in Jobs, AwxFinish(j) PROVE i \in Shown
    <3>1. i = j => i \in OddJobs
      BY <1>1, <2>1, <2>3 DEF AwxFinish, AwxInv, Ended, Jobs
    <3>2. QED
      BY <1>1, <2>1, <2>3, <3>1 DEF TypeOK, AwxFinish, Shown
  <2>4. ASSUME NEW j \in Jobs, AwxPurge(j) PROVE i \in Shown
    BY <1>1, <2>1, <2>4 DEF TypeOK, AwxPurge, Shown
  <2>5. CASE UNCHANGED awx
    BY <1>1, <2>5 DEF Shown
  <2>6. QED
    BY <2>2, <2>3, <2>4, <2>5, AwxStep
<1>2. Shown \in SUBSET Jobs /\ Shown' \in SUBSET Jobs /\ s \in Int /\ x \in Int
  BY DEF Shown, Jobs, Cursors
<1> HIDE DEF Shown
<1>3. QED
  BY <1>1, <1>2, RankMonotone

RankOk(w) ==
  /\ maxId[w] \in Ended \/ maxId[w] <= since[w]
  /\ pc[w] = "begin" => maxId[w] <= since[w]
  /\ pc[w] = "list" => RankOf(w, maxId[w]) <= (pageNo[w] - 1) * PageSize
  /\ pc[w] \in {"job", "fetch", "persist", "cursor"} =>
       \A x \in {maxId[w]} \cup (page[w] \ open[w]) :
         RankOf(w, x) <= pageNo[w] * PageSize
  /\ pc[w] \in {"fetch", "persist", "cursor"} =>
       RankOf(w, cur[w]) <= pageNo[w] * PageSize

RankInv == InOrder => \A w \in Workers : RankOk(w)

(* A worker keeps its places while its own locals stand still.             *)
LEMMA RankUndisturbed ==
  ASSUME InOrder, TypeOK, AwxInv, SeenInv, [Next]_vars,
         NEW v \in Workers, RankOk(v),
         pc'[v] = pc[v], since'[v] = since[v], maxId'[v] = maxId[v],
         cur'[v] = cur[v], pageNo'[v] = pageNo[v], page'[v] = page[v],
         open'[v] = open[v]
  PROVE  RankOk(v)'
<1>1. Ended \subseteq Ended'
  BY SettledGrows
<1>2. since[v] \in Cursors /\ maxId[v] \in Cursors /\ cur[v] \in Cursors
        /\ page[v] \ open[v] \subseteq Ended /\ Ended \subseteq Cursors
  BY DEF TypeOK, SeenInv, WorkerInv, Ended, Jobs, Cursors
<1>3. (pageNo[v] - 1) * PageSize \in Int /\ pageNo[v] * PageSize \in Int
  BY AwxSyncAssumption DEF TypeOK
<1>4. ASSUME NEW x \in Cursors, x \in Ended \/ x <= since[v],
             NEW n \in Int, RankOf(v, x) <= n
      PROVE  RankIn(Shown', since[v], x) <= n
  <2>1. /\ RankIn(Shown, since[v], x) \in Nat /\ RankIn(Shown', since[v], x) \in Nat
        /\ RankIn(Shown', since[v], x) <= RankIn(Shown, since[v], x)
    BY <1>2, <1>4, RankShrinks
  <2>2. QED
    BY <1>4, <2>1 DEF RankOf
<1>5. pc[v] = "list" => RankIn(Shown', since[v], maxId[v]) <= (pageNo[v] - 1) * PageSize
  BY <1>2, <1>3, <1>4 DEF RankOk
<1>6. pc[v] \in {"job", "fetch", "persist", "cursor"} =>
        \A x \in {maxId[v]} \cup (page[v] \ open[v]) :
          RankIn(Shown', since[v], x) <= pageNo[v] * PageSize
  BY <1>2, <1>3, <1>4 DEF RankOk
<1>7. pc[v] \in {"fetch", "persist", "cursor"} =>
        RankIn(Shown', since[v], cur[v]) <= pageNo[v] * PageSize
  BY <1>2, <1>3, <1>4 DEF RankOk, SeenInv, WorkerInv
<1>8. QED
  BY <1>1, <1>5, <1>6, <1>7 DEF RankOk, RankOf

(* The jobs of the page that is fetched are above all that were taken.     *)
LEMMA PageIsAbove ==
  ASSUME InOrder, TypeOK, NEW w \in Workers, RankOk(w), FetchPage(w)
  PROVE  /\ \A j \in page'[w] : maxId[w] < j /\ RankOf(w, j) <= pageNo[w] * PageSize
         /\ RankOf(w, maxId[w]) <= pageNo[w] * PageSize
<1> DEFINE L == Listed(since[w])
<1>1. /\ pc[w] = "list" /\ page'[w] = PageOf(L, pageNo[w])
      /\ since[w] \in Int /\ maxId[w] \in Int /\ Shown \in SUBSET Jobs /\ Jobs \subseteq Int
  BY DEF FetchPage, TypeOK, Cursors, Shown, Jobs
<1>2. /\ (pageNo[w] - 1) * PageSize \in Int /\ pageNo[w] * PageSize \in Int
      /\ (pageNo[w] - 1) * PageSize <= pageNo[w] * PageSize
  <2>1. pageNo[w] - 1 \in Nat /\ PageSize \in Nat
    BY AwxSyncAssumption DEF TypeOK
  <2>2. pageNo[w] * PageSize = (pageNo[w] - 1) * PageSize + PageSize
    BY AwxSyncAssumption, NextMultiple DEF TypeOK
  <2>3. (pageNo[w] - 1) * PageSize \in Int
    BY <2>1
  <2>4. QED
    BY <2>1, <2>2, <2>3
<1>3. RankOf(w, maxId[w]) <= (pageNo[w] - 1) * PageSize
  BY <1>1 DEF RankOk
<1>4. ASSUME NEW j \in page'[w]
      PROVE  /\ (pageNo[w] - 1) * PageSize < RankOf(w, j)
             /\ RankOf(w, j) <= pageNo[w] * PageSize /\ j \in Int
  <2>1. {i \in L : i <= j} = {i \in Shown : since[w] < i /\ i <= j}
    BY <1>1 DEF Listed, Shown
  <2>2. j \in L
    BY <1>1, <1>4 DEF PageOf
  <2>3. QED
    BY <1>1, <1>4, <2>1, <2>2 DEF PageOf, RankOf, RankIn, Listed
<1> HIDE DEF L
<1>5. ASSUME NEW j \in page'[w], j <= maxId[w] PROVE FALSE
  <2>1. /\ RankIn(Shown, since[w], j) \in Nat
        /\ RankIn(Shown, since[w], maxId[w]) \in Nat
        /\ RankIn(Shown, since[w], j) <= RankIn(Shown, since[w], maxId[w])
    <3>1. j \in Int
      BY <1>4
    <3>2. \A i \in Shown : since[w] < i /\ i <= j => i \in Shown /\ i <= maxId[w]
      BY <1>1, <1>5, <3>1
    <3>3. QED
      BY <1>1, <3>1, <3>2, RankMonotone
  <2>2. QED
    BY <1>2, <1>3, <1>4, <2>1 DEF RankOf
<1>6. RankOf(w, maxId[w]) \in Nat
  BY <1>1, RankMonotone DEF RankOf
<1>7. QED
  BY <1>1, <1>2, <1>3, <1>4, <1>5, <1>6

LEMMA RankInductive == Spec => []RankInv
<1>1. Init => RankInv
  BY DEF Init, RankInv, RankOk
<1>2. ASSUME TypeOK, AwxInv, SeenInv, RankInv, InOrder, [Next]_vars
      PROVE  RankInv'
  <2> USE TypeOK, InOrder
      DEF TypeOK, locals, listVars, session, frame, RankInv
  <2>1. ASSUME NEW v \in Workers,
               pc'[v] = pc[v], since'[v] = since[v], maxId'[v] = maxId[v],
               cur'[v] = cur[v], pageNo'[v] = pageNo[v], page'[v] = page[v],
               open'[v] = open[v]
        PROVE  RankOk(v)'
    BY <1>2, <2>1, RankUndisturbed
  <2>2. ASSUME NEW w \in Workers, RankOk(w)',
               \A v \in Workers \ {w} :
                 /\ pc'[v] = pc[v] /\ since'[v] = since[v]
                 /\ maxId'[v] = maxId[v] /\ cur'[v] = cur[v]
                 /\ pageNo'[v] = pageNo[v] /\ page'[v] = page[v]
                 /\ open'[v] = open[v]
        PROVE  RankInv'
    BY <2>1, <2>2
  <2>3. ASSUME UNCHANGED <<pc, since, maxId, cur, pageNo, page, open>>
        PROVE  RankInv'
    BY <2>1, <2>3
  <2>4. ASSUME UNCHANGED awx
        PROVE  Ended' = Ended /\ Shown' = Shown
    BY <2>4 DEF Ended, Shown
  <2>5. \A w \in Workers : pageNo[w] * PageSize \in Int
    BY AwxSyncAssumption
  <2>6. ASSUME NEW w \in Workers, Forget(w) PROVE RankInv'
    <3>1. RankOk(w)'
      BY <2>6 DEF Forget, RankOk
    <3>2. QED
      BY <2>2, <2>6, <3>1 DEF Forget
  <2>7. ASSUME NEW w \in Workers, UNCHANGED <<awx, since, maxId>>,
               \E q \in {"queued", "loaded", "projects", "final", "failed",
                         "release"} : pc' = [pc EXCEPT ![w] = q],
               UNCHANGED <<cur, pageNo, page, open>>
        PROVE  RankInv'
    <3>1. RankOk(w)'
      BY <1>2, <2>4, <2>7 DEF RankOk
    <3>2. QED
      BY <2>2, <2>7, <3>1
  <2>8. ASSUME NEW w \in Workers,
               SyncNow(w) \/ SchedulerFires(w) \/ LoadController(w)
                 \/ SyncProjects(w) \/ FinishOk(w) \/ Fail(w)
                 \/ RecordError(w) \/ RecordErrorFails(w)
        PROVE  RankInv'
    BY <2>7, <2>8
    DEF SyncNow, SchedulerFires, LoadController, SyncProjects, FinishOk, Fail,
        RecordError, RecordErrorFails
  <2>9. ASSUME NEW w \in Workers, TryLock(w) PROVE RankInv'
    <3>1. /\ maxId'[w] = since'[w] /\ since'[w] \in Int /\ pc'[w] = "begin"
      BY <2>9 DEF TryLock, Cursors
    <3>2. RankOk(w)'
      BY <3>1 DEF RankOk
    <3>3. QED
      BY <2>2, <2>9, <3>2 DEF TryLock
  <2>10. ASSUME NEW w \in Workers, MarkRunning(w) PROVE RankInv'
    <3>1. /\ since' = since /\ maxId' = maxId /\ UNCHANGED awx
          /\ pc'[w] = "list" /\ pageNo'[w] = 1 /\ maxId[w] <= since[w]
      BY <1>2, <2>10 DEF MarkRunning, RankOk
    <3>2. Shown \in SUBSET Jobs /\ since[w] \in Int /\ maxId[w] \in Int
      BY DEF Shown, Cursors
    <3>3. RankIn(Shown, since[w], maxId[w]) = 0
      BY <3>1, <3>2, RankOfNone
    <3>4. (1 - 1) * PageSize = 0
      BY AwxSyncAssumption
    <3>5. RankOk(w)'
      BY <2>4, <3>1, <3>3, <3>4 DEF RankOk, RankOf
    <3>6. QED
      BY <2>2, <2>10, <3>5 DEF MarkRunning
  <2>11. ASSUME NEW w \in Workers, FetchPage(w) PROVE RankInv'
    <3>1. /\ \A j \in page'[w] : RankOf(w, j) <= pageNo[w] * PageSize
          /\ RankOf(w, maxId[w]) <= pageNo[w] * PageSize
      BY <1>2, <2>11, PageIsAbove
    <3>2. /\ pc'[w] = "job" /\ UNCHANGED <<awx, since, maxId, cur, pageNo>>
          /\ \A v \in Workers \ {w} : /\ pc'[v] = pc[v] /\ page'[v] = page[v]
                                      /\ open'[v] = open[v]
      BY <2>11 DEF FetchPage
    <3>3. RankOk(w)'
      BY <1>2, <2>4, <3>1, <3>2 DEF RankOk, RankOf
    <3>4. QED
      BY <2>2, <3>2, <3>3
  <2>12. ASSUME NEW w \in Workers, FollowNext(w) PROVE RankInv'
    <3>1. /\ pc[w] = "job" /\ UNCHANGED <<awx, since, maxId>>
          /\ \/ pc'[w] = "projects"
             \/ pc'[w] = "list" /\ pageNo'[w] = pageNo[w] + 1
      BY <2>12 DEF FollowNext
    <3>2. pageNo[w] + 1 - 1 = pageNo[w]
      OBVIOUS
    <3>3. RankOk(w)'
      BY <1>2, <2>4, <3>1, <3>2 DEF RankOk, RankOf
    <3>4. QED
      BY <2>2, <2>12, <3>3 DEF FollowNext
  <2>13. ASSUME NEW w \in Workers, NEW j \in Jobs, NextOnPage(w, j),
                j \notin open[w]
         PROVE  j \in Ended /\ RankOf(w, j) <= pageNo[w] * PageSize
    BY <1>2, <2>13 DEF NextOnPage, RankOk, SeenInv, WorkerInv
  <2>14. ASSUME NEW w \in Workers, NEW j \in Jobs, SkipOpen(w, j)
         PROVE  RankInv'
    <3>1. /\ pc[w] = "job" /\ page'[w] \ open'[w] \subseteq page[w] \ open[w]
          /\ UNCHANGED <<awx, pc, since, maxId, cur, pageNo>>
      BY <2>14 DEF SkipOpen, NextOnPage
    <3>2. RankOk(w)'
      BY <1>2, <2>4, <3>1 DEF RankOk, RankOf
    <3>3. QED
      BY <2>2, <2>14, <3>2 DEF SkipOpen, NextOnPage
  <2>15. ASSUME NEW w \in Workers, NEW j \in Jobs, SkipKnown(w, j)
         PROVE  RankInv'
    <3>1. /\ pc[w] = "job" /\ page'[w] \ open'[w] \subseteq page[w] \ open[w]
          /\ maxId'[w] \in {maxId[w], j} /\ UNCHANGED <<awx, pc, since, cur, pageNo>>
      BY <2>15 DEF SkipKnown, NextOnPage, MaxOf
    <3>2. j \in Ended /\ RankOf(w, j) <= pageNo[w] * PageSize
      BY <2>13, <2>15 DEF SkipKnown
    <3>3. RankOk(w)'
      BY <1>2, <2>4, <3>1, <3>2 DEF RankOk, RankOf
    <3>4. QED
      BY <2>2, <2>15, <3>3 DEF SkipKnown, NextOnPage
  <2>16. ASSUME NEW w \in Workers, NEW j \in Jobs, TakeJob(w, j)
         PROVE  RankInv'
    <3>1. /\ pc[w] = "job" /\ page'[w] \ open'[w] \subseteq page[w] \ open[w]
          /\ pc'[w] = "fetch" /\ cur'[w] = j
          /\ UNCHANGED <<awx, since, maxId, pageNo>>
      BY <2>16 DEF TakeJob, NextOnPage
    <3>2. RankOf(w, j) <= pageNo[w] * PageSize
      BY <2>13, <2>16 DEF TakeJob
    <3>3. RankOk(w)'
      BY <1>2, <2>4, <3>1, <3>2 DEF RankOk, RankOf
    <3>4. QED
      BY <2>2, <2>16, <3>3 DEF TakeJob, NextOnPage
  <2>17. ASSUME NEW w \in Workers, FetchEvents(w) \/ PersistRun(w)
         PROVE  RankInv'
    <3>1. /\ pc[w] \in {"fetch", "persist"} /\ pc'[w] \in {"persist", "cursor"}
          /\ UNCHANGED <<awx, since, maxId, cur, pageNo, page, open>>
      BY <2>17 DEF FetchEvents, PersistRun
    <3>2. RankOk(w)'
      BY <1>2, <2>4, <3>1 DEF RankOk, RankOf
    <3>3. QED
      BY <2>2, <2>17, <3>2 DEF FetchEvents, PersistRun
  <2>18. ASSUME NEW w \in Workers, PersistConflict(w) \/ CommitCursor(w)
         PROVE  RankInv'
    <3>1. /\ pc[w] \in {"persist", "cursor"} /\ pc'[w] = "job"
          /\ maxId'[w] \in {maxId[w], cur[w]}
          /\ UNCHANGED <<awx, since, pageNo, page, open>>
      BY <2>18 DEF PersistConflict, CommitCursor, MaxOf
    <3>2. cur[w] \in Ended /\ RankOf(w, cur[w]) <= pageNo[w] * PageSize
      BY <1>2, <3>1 DEF SeenInv, WorkerInv, RankOk
    <3>3. RankOk(w)'
      BY <1>2, <2>4, <3>1, <3>2 DEF RankOk, RankOf
    <3>4. QED
      BY <2>2, <2>18, <3>3 DEF PersistConflict, CommitCursor
  <2>19. ASSUME NEW w \in Workers,
                LoadNothing(w) \/ SkippedLocked(w) \/ Release(w) \/ Crash(w)
         PROVE  RankInv'
    BY <2>6, <2>19 DEF LoadNothing, SkippedLocked, Release, Crash
  <2>20. ASSUME NEW w \in Workers, LockConnectionLost(w) PROVE RankInv'
    BY <2>3, <2>20 DEF LockConnectionLost
  <2>21. ASSUME NEW j \in Jobs, AwxLaunch(j) \/ AwxFinish(j) \/ AwxPurge(j)
         PROVE  RankInv'
    BY <2>3, <2>21 DEF AwxLaunch, AwxFinish, AwxPurge
  <2>22. CASE RetentionBatch \/ DeleteController \/ UNCHANGED vars
    BY <2>3, <2>22 DEF RetentionBatch, DeleteController, vars
  <2>23. QED
    BY <1>2, <2>8, <2>9, <2>10, <2>11, <2>12, <2>14, <2>15, <2>16, <2>17,
       <2>18, <2>19, <2>20, <2>21, <2>22
    DEF Next, Start, Work
<1>3. ASSUME TypeOK, AwxInv, SeenInv, RankInv, [Next]_vars PROVE RankInv'
  BY <1>2, <1>3 DEF RankInv
<1>4. QED
  BY <1>1, <1>3, TypeCorrect, AwxOrdered, SeenInductive, PTL DEF Spec

-----------------------------------------------------------------------------
(* One task that synchronises the controller.  With two tasks the second   *)
(* may hold the cursor it loaded before the first moved it (ForwardOnly    *)
(* fails), and the ledger is not implemented.                              *)

(* A listing shows a lone task jobs in ascending order from page to page:  *)
(* a listing on one page does, and so does one that grows at its end only. *)
Ascending == InOrder \/ PageSize >= MaxJob

(* A lone task knows the cursor of the row, takes jobs from above it, in   *)
(* ascending order if the listing is Ascending, and has written no more    *)
(* than its floor allows.                                                  *)
LoneInv ==
  \A w \in Workers :
    /\ pc[w] \notin {"idle", "queued"} => ormCursor[w] = dbCursor
    /\ pc[w] \in Critical =>
         /\ since[w] <= maxId[w]
         /\ dbCursor <= since[w] \/ (dbCursor <= maxId[w] /\ dbCursor < floor[w])
    /\ pc[w] = "begin" => maxId[w] = since[w]
    /\ pc[w] = "list" /\ pageNo[w] = 1 => maxId[w] = since[w]
    /\ pc[w] \in {"idle", "queued", "loaded", "begin", "list"} => page[w] = {}
    /\ open[w] \subseteq OddJobs
    /\ Ascending =>
         /\ \A j \in page[w] : maxId[w] < j
         /\ pc[w] \in {"fetch", "persist", "cursor"} =>
              maxId[w] < cur[w] /\ \A j \in page[w] : cur[w] < j

(* What _durable_cursor yields is a cursor the lone task may have written, *)
(* and no smaller than the one it has written.                             *)
LEMMA DurableGrows ==
  ASSUME TypeOK, NEW w \in Workers, NEW m \in Cursors, maxId[w] <= m,
         since[w] <= maxId[w],
         dbCursor <= since[w] \/ (dbCursor <= maxId[w] /\ dbCursor < floor[w])
  PROVE  /\ Durable(w, m) >= dbCursor
         /\ Durable(w, m) <= since[w] \/ (Durable(w, m) <= m /\ Durable(w, m) < floor[w])
BY AwxSyncAssumption
DEF TypeOK, Durable, MaxOf, MinOf, Cursors, Floors, NoFloor

LEMMA LoneInductive ==
  ASSUME Alone, OddJobs = {} \/ Ascending
  PROVE  Spec => []LoneInv
<1>1. Init => LoneInv
  BY DEF Init, LoneInv, Critical
<1>2. ASSUME TypeOK, RankInv, LoneInv, [Next]_vars PROVE LoneInv'
  <2> USE Alone, TypeOK
      DEF Alone, TypeOK, dbVars, ormVars, listVars, locals, lockVars, session,
          frame, Cursors, Jobs
  <2>1. ASSUME UNCHANGED <<dbCursor, pc, session>> PROVE LoneInv'
    BY <1>2, <2>1 DEF LoneInv
  <2>2. ASSUME NEW w \in Workers, Forget(w) PROVE LoneInv'
    BY <2>2 DEF LoneInv, Forget, Critical
  <2>3. ASSUME NEW w \in Workers, SyncNow(w) \/ SchedulerFires(w)
        PROVE  LoneInv'
    BY <1>2, <2>3 DEF LoneInv, SyncNow, SchedulerFires, Critical
  <2>4. ASSUME NEW w \in Workers, LoadController(w) PROVE LoneInv'
    BY <1>2, <2>4 DEF LoneInv, LoadController, Critical
  <2>5. ASSUME NEW w \in Workers, TryLock(w) PROVE LoneInv'
    BY <1>2, <2>5 DEF LoneInv, TryLock, Critical
  <2>6. ASSUME NEW w \in Workers, MarkRunning(w) PROVE LoneInv'
    BY <1>2, <2>6 DEF LoneInv, MarkRunning, Critical
  <2>7. ASSUME NEW w \in Workers, FetchPage(w) PROVE LoneInv'
    <3> DEFINE L == Listed(since[w])
               P == PageOf(L, pageNo[w])
               O == {j \in P : awx[j] = "open"}
    <3>1. /\ P \subseteq L /\ L \subseteq Jobs /\ \A j \in L : since[w] < j
          /\ O \subseteq OddJobs
      BY DEF Listed, PageOf
    <3>2. /\ pc[w] = "list" /\ pc' = [pc EXCEPT ![w] = "job"]
          /\ page' = [page EXCEPT ![w] = P] /\ open' = [open EXCEPT ![w] = O]
          /\ UNCHANGED <<dbVars, ormVars, locals, pageNo>>
      BY <2>7 DEF FetchPage
    <3>3. ASSUME Ascending PROVE \A j \in P : maxId[w] < j
      <4>1. CASE InOrder
        BY <1>2, <2>7, <3>2, <4>1, PageIsAbove DEF RankInv
      <4>2. CASE PageSize >= MaxJob
        <5>1. P = {} \/ pageNo[w] = 1
          BY <3>1, <4>2, OnePage
        <5>2. pageNo[w] = 1 => maxId[w] = since[w]
          BY <1>2, <3>2 DEF LoneInv
        <5>3. QED
          BY <3>1, <5>1, <5>2
      <4>3. QED
        BY <3>3, <4>1, <4>2 DEF Ascending
    <3> HIDE DEF L, P, O
    <3>4. QED
      BY <1>2, <3>1, <3>2, <3>3 DEF LoneInv, Critical
  <2>8. ASSUME NEW w \in Workers, FollowNext(w) PROVE LoneInv'
    BY <1>2, <2>8 DEF LoneInv, FollowNext, Critical
  <2>9. ASSUME NEW w \in Workers, NEW j \in Jobs, NextOnPage(w, j)
        PROVE  /\ pc[w] = "job" /\ page'[w] \subseteq page[w]
               /\ open'[w] \subseteq open[w]
               /\ Ascending => maxId[w] < j /\ \A i \in page'[w] : j < i
               /\ \A v \in Workers \ {w} : page'[v] = page[v] /\ open'[v] = open[v]
    BY <1>2, <2>9 DEF LoneInv, NextOnPage
  <2>10. ASSUME NEW w \in Workers, NEW j \in Jobs, SkipOpen(w, j)
         PROVE  LoneInv'
    <3>1. floor'[w] \in {floor[w], j} /\ floor[w] \in Int
      BY <2>10 DEF SkipOpen, MinOf, Floors, NoFloor
    <3>2. Ascending
      BY <1>2, <2>10 DEF LoneInv, SkipOpen
    <3>3. /\ pc[w] = "job" /\ maxId[w] < j /\ page'[w] \subseteq page[w]
          /\ open'[w] \subseteq open[w]
          /\ UNCHANGED <<dbCursor, pc, ormCursor, since, maxId, cur, pageNo>>
      BY <2>9, <2>10, <3>2 DEF SkipOpen
    <3>4. QED
      BY <1>2, <3>1, <3>3 DEF LoneInv, Critical
  <2>11. ASSUME NEW w \in Workers, NEW j \in Jobs, SkipKnown(w, j)
         PROVE  LoneInv'
    <3>1. /\ maxId'[w] >= maxId[w] /\ maxId'[w] \in Int
          /\ Ascending => maxId'[w] = j
      BY <2>9, <2>11 DEF SkipKnown, MaxOf
    <3>2. /\ pc[w] = "job" /\ page'[w] \subseteq page[w]
          /\ open'[w] \subseteq open[w]
          /\ Ascending => \A i \in page'[w] : j < i
          /\ UNCHANGED <<dbCursor, pc, ormCursor, since, floor, cur, pageNo>>
      BY <2>9, <2>11 DEF SkipKnown
    <3>3. QED
      BY <1>2, <3>1, <3>2 DEF LoneInv, Critical
  <2>12. ASSUME NEW w \in Workers, NEW j \in Jobs, TakeJob(w, j)
         PROVE  LoneInv'
    <3>1. /\ page'[w] \subseteq page[w] /\ open'[w] \subseteq open[w]
          /\ Ascending => maxId[w] < j /\ \A i \in page'[w] : j < i
          /\ pc[w] = "job" /\ cur'[w] = j /\ pc'[w] = "fetch"
          /\ UNCHANGED <<dbCursor, ormCursor, since, maxId, floor, pageNo>>
      BY <2>9, <2>12 DEF TakeJob
    <3>2. QED
      BY <1>2, <3>1 DEF LoneInv, Critical
  <2>13. ASSUME NEW w \in Workers, FetchEvents(w) \/ PersistRun(w)
         PROVE  LoneInv'
    BY <1>2, <2>13 DEF LoneInv, FetchEvents, PersistRun, Critical
  <2>14. ASSUME NEW w \in Workers, PersistConflict(w) PROVE LoneInv'
    <3>1. /\ maxId'[w] >= maxId[w] /\ maxId'[w] \in Int
          /\ Ascending => maxId'[w] = cur[w]
      BY <1>2, <2>14 DEF LoneInv, PersistConflict, MaxOf
    <3>2. /\ pc[w] = "persist" /\ pc'[w] = "job" /\ ormCursor'[w] = dbCursor
          /\ UNCHANGED <<dbCursor, since, floor, page, open, pageNo>>
      BY <2>14 DEF PersistConflict
    <3>3. QED
      BY <1>2, <3>1, <3>2 DEF LoneInv, Critical
  <2>15. ASSUME NEW w \in Workers, CommitCursor(w) PROVE LoneInv'
    <3> DEFINE m == MaxOf(maxId[w], cur[w])
               c == Durable(w, m)
    <3>1. /\ maxId[w] <= m /\ m \in Cursors /\ cur[w] \in Cursors
          /\ Ascending => m = cur[w]
      BY <1>2, <2>15 DEF LoneInv, CommitCursor, MaxOf
    <3>2. /\ since[w] <= maxId[w] /\ c \in Cursors
          /\ c <= since[w] \/ (c <= m /\ c < floor[w])
      <4>1. /\ since[w] <= maxId[w] /\ m \in Cursors /\ maxId[w] <= m
            /\ dbCursor <= since[w] \/ (dbCursor <= maxId[w] /\ dbCursor < floor[w])
        BY <1>2, <2>15, <3>1 DEF LoneInv, CommitCursor, Critical
      <4>2. QED
        BY <4>1, DurableGrows, DurableRange
    <3>3. ormCursor[w] = dbCursor
      BY <1>2, <2>15 DEF LoneInv, CommitCursor
    <3>4. /\ pc[w] = "cursor" /\ pc'[w] = "job" /\ maxId'[w] = m
          /\ dbCursor' = c /\ ormCursor'[w] = c
          /\ UNCHANGED <<since, floor, page, open, pageNo>>
      BY <2>15, <3>3 DEF CommitCursor, Written
    <3> HIDE DEF m, c
    <3>5. QED
      BY <1>2, <3>1, <3>2, <3>4 DEF LoneInv, Critical
  <2>16. ASSUME NEW w \in Workers, SyncProjects(w) PROVE LoneInv'
    BY <1>2, <2>16 DEF LoneInv, SyncProjects, Critical
  <2>17. ASSUME NEW w \in Workers, FinishOk(w) PROVE LoneInv'
    <3> DEFINE c == Durable(w, maxId[w])
    <3>1. /\ since[w] <= maxId[w]
          /\ c <= since[w] \/ (c <= maxId[w] /\ c < floor[w])
      BY <1>2, <2>17, DurableGrows DEF LoneInv, FinishOk, Critical
    <3>2. ormCursor[w] = dbCursor
      BY <1>2, <2>17 DEF LoneInv, FinishOk
    <3>3. /\ pc[w] = "final" /\ pc'[w] = "release"
          /\ dbCursor' = c /\ ormCursor'[w] = c
          /\ UNCHANGED <<since, maxId, floor, cur, page, open, pageNo>>
      BY <2>17, <3>2 DEF FinishOk, Written
    <3> HIDE DEF c
    <3>4. QED
      BY <1>2, <3>1, <3>3 DEF LoneInv, Critical
  <2>18. ASSUME NEW w \in Workers,
                Fail(w) \/ RecordError(w) \/ RecordErrorFails(w)
         PROVE  LoneInv'
    BY <1>2, <2>18 DEF LoneInv, Fail, RecordError, RecordErrorFails, Critical
  <2>19. ASSUME NEW w \in Workers,
                LoadNothing(w) \/ SkippedLocked(w) \/ Release(w) \/ Crash(w)
         PROVE  LoneInv'
    BY <2>2, <2>19 DEF LoadNothing, SkippedLocked, Release, Crash
  <2>20. ASSUME NEW w \in Workers, LockConnectionLost(w) PROVE LoneInv'
    BY <2>1, <2>20 DEF LockConnectionLost
  <2>21. ASSUME NEW j \in Jobs, AwxLaunch(j) \/ AwxFinish(j) \/ AwxPurge(j)
         PROVE  LoneInv'
    BY <2>1, <2>21 DEF AwxLaunch, AwxFinish, AwxPurge
  <2>22. CASE RetentionBatch \/ DeleteController \/ UNCHANGED vars
    BY <2>1, <2>22 DEF RetentionBatch, DeleteController, vars
  <2>23. QED
    BY <1>2, <2>3, <2>4, <2>5, <2>6, <2>7, <2>8, <2>10, <2>11, <2>12, <2>13,
       <2>14, <2>15, <2>16, <2>17, <2>18, <2>19, <2>20, <2>21, <2>22
    DEF Next, Start, Work
<1>3. QED
  BY <1>1, <1>2, TypeCorrect, RankInductive, PTL DEF Spec

-----------------------------------------------------------------------------
(* AwxSync implements ImportLedger with one task and an Ascending listing, *)
(* through purges, faults, crashes, lost locks, retention and deletion:    *)
(* the task imports a job once, from above the cursor, and moves the       *)
(* cursor forward over jobs that are settled or that its listing has       *)
(* hidden from it (sync_controller with _durable_cursor).  Jobs may end in *)
(* any order if a listing fits on a page; which of them a listing hides    *)
(* then is AWX's choice, and the ledger names those the cursor passes.     *)
THEOREM LedgerKept ==
  ASSUME Alone, Ascending
  PROVE  Spec => LedgerSpec
<1>1. Init => Ledger!Init
  BY DEF Init, Ledger!Init, Settled, Hidden, dbExists
<1>2. ASSUME TypeOK, LoneInv, SeenInv, SeenInv', TypeOK', [Next]_vars
      PROVE  [Ledger!Next]_(Ledger!ledger)
  <2> USE TypeOK DEF dbVars
  <2>1. ASSUME UNCHANGED <<dbCursor, dbRow, runs, imported, awx, missed, unseen>>
        PROVE  UNCHANGED Ledger!ledger
    BY <2>1 DEF Ledger!ledger, Settled, Hidden, dbExists
  <2>2. ASSUME UNCHANGED <<missed, unseen>>, NEW j \in Jobs,
               Settled' = Settled \cup {j}
        PROVE  Hidden' = Hidden \ {j}
    BY <2>2 DEF Hidden
  <2>3. ASSUME NEW w \in Workers, PersistRun(w) PROVE Ledger!Import
    <3>1. pc[w] = "persist" /\ cur[w] \in Jobs
      BY <2>3 DEF PersistRun, TypeOK
    <3>2. /\ since[w] <= maxId[w] /\ maxId[w] < cur[w]
          /\ dbCursor <= since[w] \/ dbCursor <= maxId[w]
      BY <1>2, <3>1 DEF LoneInv, Critical
    <3>3. dbCursor < cur[w]
      BY <3>1, <3>2 DEF TypeOK, Cursors, Jobs
    <3>4. /\ cur[w] \notin runs /\ runs' = runs \cup {cur[w]}
          /\ imported' = imported \cup {cur[w]}
          /\ UNCHANGED <<awx, dbRow, dbCursor, missed, unseen>> /\ dbExists
      BY <2>3 DEF PersistRun, session, listVars
    <3>5. Settled' = Settled \cup {cur[w]}
      BY <3>4 DEF Settled
    <3>6. Hidden' = Hidden \ {cur[w]}
      BY <2>2, <3>1, <3>4, <3>5
    <3>7. QED
      BY <3>1, <3>3, <3>4, <3>5, <3>6 DEF Ledger!Import, dbExists, Jobs
  <2>4. ASSUME UNCHANGED <<dbCursor, dbRow, runs, imported, awx, missed>>
        PROVE  Ledger!List
    <3>1. Settled' = Settled
      BY <2>4 DEF Settled
    <3>2. Hidden \subseteq Jobs /\ Hidden' \subseteq Jobs
      BY <1>2 DEF TypeOK, Hidden
    <3>3. Hidden' \subseteq 1..MaxJob \ Settled
      <4>1. \A j \in Hidden' : j \notin Settled'
        BY DEF Hidden
      <4>2. QED
        BY <3>1, <3>2, <4>1 DEF Jobs
    <3>4. ASSUME NEW j \in Jobs, j <= dbCursor
          PROVE  j \in Hidden' <=> j \in Hidden
      BY <1>2, <2>4, <3>1, <3>4 DEF SeenInv, OnlyUnseenAreMissed, Hidden
    <3>5. Ledger!UpTo(Hidden', dbCursor) = Ledger!UpTo(Hidden, dbCursor)
      BY <3>2, <3>4 DEF Ledger!UpTo
    <3>6. QED
      BY <2>4, <3>1, <3>3, <3>5 DEF Ledger!List, dbExists
  <2>5. ASSUME NEW w \in Workers, NEW c \in Cursors, c >= dbCursor,
               dbCursor' = c, dbExists, missed' = Missed(w, c),
               UNCHANGED <<dbRow, runs, imported, awx, unseen>>
        PROVE  Ledger!Advance \/ UNCHANGED Ledger!ledger
    <3>1. Settled' = Settled /\ UNCHANGED dbExists
      BY <2>5 DEF Settled, dbExists
    <3>2. Hidden' = Hidden
      BY <2>5, <3>1 DEF Hidden, Missed
    <3>3. CASE c = dbCursor
      BY <2>5, <3>1, <3>2, <3>3 DEF Ledger!ledger
    <3>4. CASE c > dbCursor
      <4>1. c \in (dbCursor + 1)..MaxJob
        BY <2>5, <3>4, AwxSyncAssumption DEF TypeOK, Cursors
      <4>2. \A j \in Jobs : j <= c => j \in Settled \cup Hidden
        BY <1>2, <2>5, <3>1 DEF SeenInv, OnlyUnseenAreMissed, Hidden, Missed
      <4>3. (dbCursor + 1)..c \subseteq Settled \cup Hidden
        BY <2>5, <4>1, <4>2, AwxSyncAssumption DEF TypeOK, Cursors, Jobs
      <4>4. QED
        BY <2>5, <3>1, <3>2, <4>1, <4>3 DEF Ledger!Advance
    <3>5. QED
      BY <2>5, <3>3, <3>4 DEF TypeOK, Cursors
  <2>6. ASSUME NEW w \in Workers, CommitCursor(w)
        PROVE  Ledger!Advance \/ UNCHANGED Ledger!ledger
    <3> DEFINE m == MaxOf(maxId[w], cur[w])
    <3>1. m \in Cursors /\ maxId[w] <= m
      BY DEF TypeOK, MaxOf, Cursors
    <3>2. /\ since[w] <= maxId[w] /\ ormCursor[w] = dbCursor
          /\ dbCursor <= since[w] \/ (dbCursor <= maxId[w] /\ dbCursor < floor[w])
      BY <1>2, <2>6 DEF LoneInv, CommitCursor, Critical
    <3>3. Durable(w, m) >= dbCursor /\ Durable(w, m) \in Cursors
      BY <3>1, <3>2, DurableGrows, DurableRange
    <3>4. /\ dbCursor' = Durable(w, m) /\ dbExists
          /\ missed' = Missed(w, Durable(w, m))
          /\ UNCHANGED <<dbRow, runs, imported, awx, unseen>>
      BY <2>6, <3>2 DEF CommitCursor, Written, listVars
    <3> HIDE DEF m
    <3>5. QED
      BY <2>5, <3>3, <3>4
  <2>7. ASSUME NEW w \in Workers, FinishOk(w)
        PROVE  Ledger!Advance \/ UNCHANGED Ledger!ledger
    <3>1. maxId[w] \in Cursors /\ maxId[w] <= maxId[w]
      BY DEF TypeOK, Cursors
    <3>2. /\ since[w] <= maxId[w] /\ ormCursor[w] = dbCursor
          /\ dbCursor <= since[w] \/ (dbCursor <= maxId[w] /\ dbCursor < floor[w])
      BY <1>2, <2>7 DEF LoneInv, FinishOk, Critical
    <3>3. Durable(w, maxId[w]) >= dbCursor /\ Durable(w, maxId[w]) \in Cursors
      BY <3>1, <3>2, DurableGrows, DurableRange
    <3>4. /\ dbCursor' = Durable(w, maxId[w]) /\ dbExists
          /\ missed' = Missed(w, Durable(w, maxId[w]))
          /\ UNCHANGED <<dbRow, runs, imported, awx, unseen>>
      BY <2>7, <3>2 DEF FinishOk, Written, listVars
    <3>5. QED
      BY <2>5, <3>3, <3>4
  <2>8. ASSUME NEW j \in Jobs, AwxLaunch(j) PROVE UNCHANGED Ledger!ledger
    <3>1. Settled' = Settled
      BY <2>8 DEF AwxLaunch, Settled, TypeOK
    <3>2. Hidden' = Hidden
      BY <2>8, <3>1 DEF AwxLaunch, session, listVars, Hidden
    <3>3. QED
      BY <2>8, <3>1, <3>2 DEF AwxLaunch, Ledger!ledger, dbExists
  <2>9. ASSUME NEW j \in Jobs, AwxFinish(j)
        PROVE  Ledger!Vanish \/ UNCHANGED Ledger!ledger
    <3>1. Settled' = IF j \in SelfConflicting THEN Settled \cup {j} ELSE Settled
      BY <2>9 DEF AwxFinish, Settled, TypeOK
    <3>2. UNCHANGED <<dbCursor, runs, dbRow, missed, unseen>>
      BY <2>9 DEF AwxFinish, session, listVars
    <3>3. CASE j \in SelfConflicting
      <4>1. Hidden' = Hidden \ {j}
        BY <2>2, <3>1, <3>2, <3>3
      <4>2. QED
        BY <3>1, <3>2, <3>3, <4>1 DEF Ledger!Vanish, dbExists, Jobs
    <3>4. CASE j \notin SelfConflicting
      <4>1. Hidden' = Hidden
        BY <3>1, <3>2, <3>4 DEF Hidden
      <4>2. QED
        BY <3>1, <3>2, <3>4, <4>1 DEF Ledger!ledger, dbExists
    <3>5. QED
      BY <3>3, <3>4
  <2>10. ASSUME NEW j \in Jobs, AwxPurge(j) PROVE Ledger!Vanish
    <3>1. Settled' = Settled \cup {j}
      BY <2>10 DEF AwxPurge, Settled, TypeOK
    <3>2. Hidden' = Hidden \ {j}
      BY <2>2, <2>10, <3>1 DEF AwxPurge, session, listVars
    <3>3. QED
      BY <2>10, <3>1, <3>2 DEF AwxPurge, Ledger!Vanish, dbExists, Jobs
  <2>11. ASSUME RetentionBatch PROVE Ledger!Remove
    BY <2>11
    DEF RetentionBatch, Ledger!Remove, Settled, Hidden, dbExists, frame,
        session, listVars
  <2>12. ASSUME DeleteController PROVE Ledger!Delete
    BY <2>12
    DEF DeleteController, Ledger!Delete, Settled, Hidden, dbExists, frame,
        session, listVars
  <2>13. ASSUME NEW w \in Workers,
                FetchPage(w) \/ LoadNothing(w) \/ SkippedLocked(w)
                  \/ Release(w) \/ Crash(w)
         PROVE  Ledger!List
    BY <2>4, <2>13
    DEF frame, FetchPage, LoadNothing, SkippedLocked, Release, Crash
  <2>14. ASSUME NEW w \in Workers,
                SyncNow(w) \/ SchedulerFires(w) \/ LoadController(w)
                  \/ TryLock(w) \/ Fail(w) \/ RecordErrorFails(w)
                  \/ LockConnectionLost(w) \/ RecordError(w) \/ SyncProjects(w)
                  \/ PersistConflict(w) \/ FetchEvents(w) \/ FollowNext(w)
                  \/ MarkRunning(w)
         PROVE  UNCHANGED Ledger!ledger
    BY <2>1, <2>14
    DEF frame, session, listVars, SyncNow, SchedulerFires, LoadController,
        TryLock, MarkRunning, FollowNext, FetchEvents, PersistConflict,
        SyncProjects, Fail, RecordError, RecordErrorFails, LockConnectionLost
  <2>15. ASSUME NEW w \in Workers, NEW j \in Jobs,
                SkipOpen(w, j) \/ SkipKnown(w, j) \/ TakeJob(w, j)
         PROVE  UNCHANGED Ledger!ledger
    BY <2>1, <2>15 DEF frame, SkipOpen, SkipKnown, TakeJob
  <2>16. CASE UNCHANGED vars
    BY <2>1, <2>16 DEF vars, frame, session, listVars
  <2>17. QED
    BY <1>2, <2>3, <2>6, <2>7, <2>8, <2>9, <2>10, <2>11, <2>12, <2>13, <2>14,
       <2>15, <2>16
    DEF Next, Start, Work, Ledger!Next
<1>3. Ascending => (OddJobs = {} \/ Ascending)
  OBVIOUS
<1>4. Spec => []LoneInv
  BY <1>3, LoneInductive
<1>5. QED
  BY <1>1, <1>2, <1>4, TypeCorrect, SeenInductive, PTL
  DEF Spec, LedgerSpec, Ledger!Spec

(* One task never moves the cursor back ("never rewind below the previous  *)
(* cursor"), in whatever order jobs end, where FINISHED_FILTER keeps its   *)
(* promise and lists ended jobs only, or the listing is Ascending.  Both   *)
(* exceptions are real: AwxSync_rewind.cfg moves it back with a second     *)
(* task, AwxSync_relist.cfg with a job that is listed early on a page that *)
(* another job's end has moved.                                            *)
THEOREM LoneCursorGoesForward ==
  ASSUME Alone, OddJobs = {} \/ Ascending
  PROVE  Spec => ForwardOnly
<1>1. ASSUME TypeOK, LoneInv, [Next]_vars PROVE [dbCursor' >= dbCursor]_vars
  <2> USE TypeOK DEF TypeOK, Cursors
  <2>1. ASSUME NEW w \in Workers, CommitCursor(w) PROVE dbCursor' >= dbCursor
    <3> DEFINE m == MaxOf(maxId[w], cur[w])
    <3>1. m \in Cursors /\ maxId[w] <= m
      BY DEF MaxOf
    <3>2. /\ since[w] <= maxId[w] /\ ormCursor[w] = dbCursor
          /\ dbCursor <= since[w] \/ (dbCursor <= maxId[w] /\ dbCursor < floor[w])
      BY <1>1, <2>1 DEF LoneInv, CommitCursor, Critical
    <3>3. Durable(w, m) >= dbCursor
      BY <3>1, <3>2, DurableGrows
    <3>4. QED
      BY <2>1, <3>2, <3>3 DEF CommitCursor, Written
  <2>2. ASSUME NEW w \in Workers, FinishOk(w) PROVE dbCursor' >= dbCursor
    <3>1. /\ since[w] <= maxId[w] /\ ormCursor[w] = dbCursor
          /\ dbCursor <= since[w] \/ (dbCursor <= maxId[w] /\ dbCursor < floor[w])
      BY <1>1, <2>2 DEF LoneInv, FinishOk, Critical
    <3>2. Durable(w, maxId[w]) >= dbCursor
      BY <3>1, DurableGrows
    <3>3. QED
      BY <2>2, <3>1, <3>2 DEF FinishOk, Written
  <2>3. ASSUME UNCHANGED dbCursor PROVE dbCursor' >= dbCursor
    BY <2>3
  <2>4. ASSUME NEW w \in Workers,
               SyncNow(w) \/ SchedulerFires(w) \/ Start(w) \/ Fail(w)
                 \/ RecordErrorFails(w) \/ Crash(w) \/ LockConnectionLost(w)
                 \/ Release(w) \/ RecordError(w) \/ SyncProjects(w)
                 \/ PersistConflict(w) \/ PersistRun(w) \/ FetchEvents(w)
                 \/ FollowNext(w) \/ FetchPage(w) \/ MarkRunning(w)
        PROVE  UNCHANGED dbCursor
    BY <2>4
    DEF dbVars, SyncNow, SchedulerFires, Start, LoadController, LoadNothing,
        SkippedLocked, TryLock, MarkRunning, FetchPage, FollowNext,
        FetchEvents, PersistRun, PersistConflict, SyncProjects, Fail,
        RecordError, RecordErrorFails, Release, Crash, LockConnectionLost
  <2>5. ASSUME NEW w \in Workers, NEW j \in Jobs,
               SkipOpen(w, j) \/ SkipKnown(w, j) \/ TakeJob(w, j)
        PROVE  UNCHANGED dbCursor
    BY <2>5 DEF dbVars, SkipOpen, SkipKnown, TakeJob
  <2>6. ASSUME NEW j \in Jobs, AwxLaunch(j) \/ AwxFinish(j) \/ AwxPurge(j)
        PROVE  UNCHANGED dbCursor
    BY <2>6 DEF dbVars, AwxLaunch, AwxFinish, AwxPurge
  <2>7. CASE RetentionBatch \/ DeleteController \/ UNCHANGED vars
    BY <2>7 DEF dbVars, RetentionBatch, DeleteController, vars
  <2>8. QED
    BY <1>1, <2>1, <2>2, <2>3, <2>4, <2>5, <2>6, <2>7 DEF Next, Work
<1>2. QED
  BY <1>1, LoneInductive, TypeCorrect, PTL DEF Spec, ForwardOnly
=============================================================================
