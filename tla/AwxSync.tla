------------------------------ MODULE AwxSync ------------------------------
(***************************************************************************)
(* One AWX controller and the tasks that synchronise it: sync_controller   *)
(* (awx/sync.py) run from the scheduler (_run_sync) or from the API        *)
(* (sync_now, _run_manual_sync), the retention sweep (awx/retention.py),   *)
(* the deletion of the controller and the AWX server that is listed.       *)
(*                                                                         *)
(* A worker is one such task.  Between two awaits a worker runs alone; at  *)
(* an await every other worker, the sweep, AWX and a crash may step.  The  *)
(* controller row lives in the database (db...) and, as an ORM instance    *)
(* that is neither locked nor re-read, in the worker's session (orm...):   *)
(* the unit of work writes a column only when its value differs from the   *)
(* one the instance last loaded or wrote (operator Written).               *)
(*                                                                         *)
(* Abstracted: the progress columns, error texts and timestamps, which no  *)
(* guard reads, and the run's contents.                                    *)
(***************************************************************************)
EXTENDS Integers, FiniteSets

CONSTANTS
  Workers,          \* concurrent tasks that may run sync_controller
  ManualWorkers,    \* those started by POST /controllers/{id}/sync
  NoWorker,         \* nobody holds the advisory lock
  MaxJob,           \* AWX job ids are 1..MaxJob
  PageSize,         \* PAGE_SIZE of the jobs listing
  OddJobs,          \* jobs that AWX lists before they are terminal
  SelfConflicting,  \* jobs whose own rows break a unique constraint
  Unfetchable,      \* jobs whose events no sync can fetch or parse
  InOrder,          \* environment: unlisted jobs finish before later ones
  Retention,        \* RETENTION_DAYS > 0
  Deletable,        \* an admin may delete the controller
  MaxPurges,        \* bound: jobs AWX's own clean-up removes
  MaxFaults,        \* bound: AWX, parser or database errors in a sync
  MaxCrashes,       \* bound: tasks that die without running a handler
  MaxLockLosses     \* bound: syncs running at once without their lock connection

ASSUME AwxSyncAssumption ==
  /\ NoWorker \notin Workers
  /\ ManualWorkers \subseteq Workers
  /\ MaxJob \in Nat /\ PageSize \in Nat \ {0}
  /\ OddJobs \subseteq 1..MaxJob /\ SelfConflicting \subseteq 1..MaxJob
  /\ Unfetchable \subseteq 1..MaxJob
  /\ {InOrder, Retention, Deletable} \subseteq BOOLEAN
  /\ {MaxPurges, MaxFaults, MaxCrashes, MaxLockLosses} \subseteq Nat

VARIABLES
  awx,        \* AWX's job table: the state of every job id
  runs,       \* rows of runs with this controller_id, by awx_job_id
  dbRow,      \* the controller's row is "present" or "deleted"
  dbCursor,   \* awx_controllers.last_synced_job_id (NULL is 0)
  dbStatus,   \* awx_controllers.last_sync_status
  lock,       \* holder of the controller's session-level advisory lock
  lost,       \* workers whose lock connection died under a running sync
  pc,         \* where each worker is
  ormCursor,  \* last_synced_job_id as the worker's instance knows it
  ormStatus,  \* last_sync_status as the worker's instance knows it
  since,      \* local since: what the listing starts after
  maxId,      \* local max_id
  floor,      \* local pending_floor (NoFloor is None)
  pageNo,     \* the page of the listing being read
  page,       \* jobs of that page not yet taken
  open,       \* those of page listed with a non-terminal status
  more,       \* the workers whose page had a "next" link
  cur,        \* the job being imported (0 between jobs)
  faults, crashes,   \* errors and deaths so far (bounded)
  imported,  \* history: the jobs ever imported
  unseen,    \* history: jobs that a page of the worker's listing went past
  missed     \* history: such jobs that a cursor then passed

dbVars   == <<runs, dbRow, dbCursor, dbStatus>>
ormVars  == <<ormCursor, ormStatus>>
listVars == <<pageNo, page, open, more, unseen>>
locals   == <<since, maxId, floor, cur>>
lockVars == <<lock, lost>>
session  == <<ormVars, locals, listVars>>
frame    == <<awx, faults, crashes, imported, missed>>
vars     == <<dbVars, lockVars, pc, session, frame>>

Jobs    == 1..MaxJob
NoFloor == MaxJob + 1
Cursors == 0..MaxJob     \* what a cursor or max_id can be
Floors  == 1..NoFloor
JobState   == {"absent", "open", "terminal", "purged"}
SyncStatus == {"never", "running", "ok", "error"}

(* Between the acquisition and the release of the lock.                    *)
Critical == {"begin", "list", "job", "fetch", "persist", "cursor",
             "projects", "final", "failed", "release"}
PcState  == {"idle", "queued", "loaded"} \cup Critical

MaxOf(a, b) == IF a >= b THEN a ELSE b
MinOf(a, b) == IF a <= b THEN a ELSE b

dbExists == dbRow = "present"

(* What a flush leaves in a column: an unchanged attribute is not written. *)
Written(db, orm, new) == IF new = orm THEN db ELSE new

(* The task of worker w has returned: its locals and its session are gone. *)
Forget(w) ==
  /\ pc' = [pc EXCEPT ![w] = "idle"]
  /\ ormCursor' = [ormCursor EXCEPT ![w] = 0]
  /\ ormStatus' = [ormStatus EXCEPT ![w] = "never"]
  /\ since' = [since EXCEPT ![w] = 0] /\ maxId' = [maxId EXCEPT ![w] = 0]
  /\ floor' = [floor EXCEPT ![w] = NoFloor] /\ cur' = [cur EXCEPT ![w] = 0]
  /\ pageNo' = [pageNo EXCEPT ![w] = 1] /\ more' = more \ {w}
  /\ page' = [page EXCEPT ![w] = {}] /\ open' = [open EXCEPT ![w] = {}]
  /\ unseen' = [unseen EXCEPT ![w] = {}]

(* Mutants, here and below: plausible bugs of the definition that follows,  *)
(* which show what the properties would catch.  No specification uses them. *)
DurableNextId(w, m)  == MaxOf(since[w], MinOf(m, floor[w] - 1) + 1)
DurableNoFloor(w, m) == MaxOf(since[w], m)

(* _durable_cursor with max_id m: with no floor, NoFloor - 1 >= m.         *)
Durable(w, m) == MaxOf(since[w], MinOf(m, floor[w] - 1))

Init ==
  /\ awx = [j \in Jobs |-> "absent"]
  /\ runs = {} /\ dbRow = "present" /\ dbCursor = 0 /\ dbStatus = "never"
  /\ lock = NoWorker /\ lost = {}
  /\ pc = [w \in Workers |-> "idle"]
  /\ ormCursor = [w \in Workers |-> 0]
  /\ ormStatus = [w \in Workers |-> "never"]
  /\ since = [w \in Workers |-> 0]
  /\ maxId = [w \in Workers |-> 0]
  /\ floor = [w \in Workers |-> NoFloor]
  /\ cur = [w \in Workers |-> 0]
  /\ pageNo = [w \in Workers |-> 1]
  /\ page = [w \in Workers |-> {}]
  /\ open = [w \in Workers |-> {}]
  /\ more = {}
  /\ faults = 0 /\ crashes = 0
  /\ imported = {} /\ missed = {}
  /\ unseen = [w \in Workers |-> {}]

-----------------------------------------------------------------------------
(* The AWX server.  Ids are handed out in order; jobs end in any order     *)
(* unless InOrder.                                                         *)

AwxLaunch(j) ==
  /\ awx[j] = "absent"
  /\ \A k \in Jobs : k < j => awx[k] # "absent"
  /\ awx' = [awx EXCEPT ![j] = "open"]
  /\ UNCHANGED <<dbVars, lockVars, pc, session, faults, crashes, imported,
                 missed>>

AwxFinish(j) ==
  /\ awx[j] = "open"
  /\ InOrder => \A k \in Jobs : k < j /\ awx[k] = "open" => k \in OddJobs
  /\ awx' = [awx EXCEPT ![j] = "terminal"]
  /\ UNCHANGED <<dbVars, lockVars, pc, session, faults, crashes, imported,
                 missed>>

AwxPurge(j) ==
  /\ awx[j] = "terminal"
  /\ Cardinality({k \in Jobs : awx[k] = "purged"}) < MaxPurges
  /\ awx' = [awx EXCEPT ![j] = "purged"]
  /\ UNCHANGED <<dbVars, lockVars, pc, session, faults, crashes, imported,
                 missed>>

(* The finished-job listing of list_jobs: FINISHED_FILTER leaves out the   *)
(* jobs that are still open, but for the odd one that slips through.       *)
Listed(s) ==
  {j \in Jobs : /\ j > s
                /\ awx[j] = "terminal" \/ (awx[j] = "open" /\ j \in OddJobs)}

(* Page p of the listing: the ids of rank (p-1)*PageSize+1 .. p*PageSize.  *)
PageOf(L, p) ==
  {j \in L : LET rank == Cardinality({i \in L : i <= j})
             IN (p - 1) * PageSize < rank /\ rank <= p * PageSize}

(* The jobs the cursor may pass: stored once, no longer on AWX, or ended    *)
(* and refused by the database's own constraints.                          *)
Settled ==
  imported \cup {j \in Jobs : \/ awx[j] = "purged"
                              \/ awx[j] = "terminal" /\ j \in SelfConflicting}

-----------------------------------------------------------------------------
(* Starting a sync.                                                        *)

(* POST /controllers/{id}/sync: the 409 pre-check, then a background task. *)
SyncNow(w) ==
  /\ w \in ManualWorkers
  /\ pc[w] = "idle" /\ dbExists /\ dbStatus # "running"
  /\ pc' = [pc EXCEPT ![w] = "queued"]
  /\ UNCHANGED <<dbVars, lockVars, session, frame>>

(* The interval job of an auto-mode controller fires (max_instances = 1).  *)
SchedulerFires(w) ==
  /\ w \in Workers \ ManualWorkers
  /\ pc[w] = "idle" /\ dbExists
  /\ pc' = [pc EXCEPT ![w] = "queued"]
  /\ UNCHANGED <<dbVars, lockVars, session, frame>>

(* A fresh session loads the controller: this copy is not read again       *)
(* before the lock is held.                                                *)
LoadController(w) ==
  /\ pc[w] = "queued" /\ dbExists
  /\ pc' = [pc EXCEPT ![w] = "loaded"]
  /\ ormCursor' = [ormCursor EXCEPT ![w] = dbCursor]
  /\ ormStatus' = [ormStatus EXCEPT ![w] = dbStatus]
  /\ UNCHANGED <<dbVars, lockVars, locals, listVars, frame>>

LoadNothing(w) ==
  /\ pc[w] = "queued" /\ ~dbExists
  /\ Forget(w)
  /\ UNCHANGED <<dbVars, lockVars, frame>>

(* pg_try_advisory_lock; when it is taken, the sync is skipped_locked.     *)
SkippedLocked(w) ==
  /\ pc[w] = "loaded" /\ lock # NoWorker
  /\ Forget(w)
  /\ UNCHANGED <<dbVars, lockVars, frame>>

(* Mutant: the result of pg_try_advisory_lock is not looked at.            *)
TryLockIgnored(w) ==
  /\ pc[w] = "loaded"
  /\ lock' = IF lock = NoWorker THEN w ELSE lock
  /\ pc' = [pc EXCEPT ![w] = "begin"]
  /\ since' = [since EXCEPT ![w] = ormCursor[w]]
  /\ maxId' = [maxId EXCEPT ![w] = ormCursor[w]]
  /\ floor' = [floor EXCEPT ![w] = NoFloor]
  /\ UNCHANGED <<dbVars, lost, ormVars, cur, listVars, frame>>

(* Mutant: every sync lists from the beginning.                            *)
TryLockFromScratch(w) ==
  /\ pc[w] = "loaded" /\ lock = NoWorker
  /\ lock' = w
  /\ pc' = [pc EXCEPT ![w] = "begin"]
  /\ since' = [since EXCEPT ![w] = 0]
  /\ maxId' = [maxId EXCEPT ![w] = 0]
  /\ floor' = [floor EXCEPT ![w] = NoFloor]
  /\ UNCHANGED <<dbVars, lost, ormVars, cur, listVars, frame>>

TryLock(w) ==
  /\ pc[w] = "loaded" /\ lock = NoWorker
  /\ lock' = w
  /\ pc' = [pc EXCEPT ![w] = "begin"]
  /\ since' = [since EXCEPT ![w] = ormCursor[w]]
  /\ maxId' = [maxId EXCEPT ![w] = ormCursor[w]]
  /\ floor' = [floor EXCEPT ![w] = NoFloor]
  /\ UNCHANGED <<dbVars, lost, ormVars, cur, listVars, frame>>

(* Mutant: the status is set and not committed before the listing.         *)
MarkRunningUncommitted(w) ==
  /\ pc[w] = "begin" /\ dbExists
  /\ ormStatus' = [ormStatus EXCEPT ![w] = "running"]
  /\ pageNo' = [pageNo EXCEPT ![w] = 1]
  /\ pc' = [pc EXCEPT ![w] = "list"]
  /\ UNCHANGED <<dbVars, lockVars, ormCursor, locals, page, open, more, unseen,
                 frame>>

MarkRunning(w) ==
  /\ pc[w] = "begin" /\ dbExists
  /\ dbStatus' = Written(dbStatus, ormStatus[w], "running")
  /\ ormStatus' = [ormStatus EXCEPT ![w] = "running"]
  /\ pageNo' = [pageNo EXCEPT ![w] = 1]
  /\ pc' = [pc EXCEPT ![w] = "list"]
  /\ UNCHANGED <<runs, dbRow, dbCursor, lockVars, ormCursor, locals, page,
                 open, more, unseen, frame>>

-----------------------------------------------------------------------------
(* The listing loop.                                                       *)

(* For the properties only: jobs of the window that page P goes past       *)
(* without showing them, since they are still open or slipped to a page    *)
(* that was read before.                                                   *)
Unshown(w, P) ==
  {j \in Jobs \ (P \cup Settled) :
     since[w] < j /\ j < floor[w] /\ \E i \in P : awx[i] = "terminal" /\ j < i}

(* For the properties only: the cursor c passes what w has not seen.       *)
Missed(w, c) == missed \cup {j \in unseen[w] \ Settled : j <= c}

(* AWX answers a page; a page past the end is a 404 (see Fail).            *)
FetchPage(w) ==
  LET L == Listed(since[w])
      P == PageOf(L, pageNo[w])
  IN /\ pc[w] = "list"
     /\ pageNo[w] = 1 \/ P # {}
     /\ page' = [page EXCEPT ![w] = P]
     /\ open' = [open EXCEPT ![w] = {j \in P : awx[j] = "open"}]
     /\ more' = IF Cardinality(L) > pageNo[w] * PageSize
                THEN more \cup {w} ELSE more \ {w}
     /\ unseen' = [unseen EXCEPT ![w] = @ \cup Unshown(w, P)]
     /\ pc' = [pc EXCEPT ![w] = "job"]
     /\ UNCHANGED <<dbVars, lockVars, ormVars, locals, pageNo, frame>>

FollowNext(w) ==
  /\ pc[w] = "job" /\ page[w] = {}
  /\ pc' = [pc EXCEPT ![w] = IF w \in more THEN "list" ELSE "projects"]
  /\ pageNo' = [pageNo EXCEPT ![w] = IF w \in more THEN @ + 1 ELSE @]
  /\ UNCHANGED <<dbVars, lockVars, ormVars, locals, page, open, more, unseen,
                 frame>>

(* The listing is ascending: j is the next job of the page.                *)
NextOnPage(w, j) ==
  /\ pc[w] = "job"
  /\ j \in page[w] /\ \A i \in page[w] : j <= i
  /\ page' = [page EXCEPT ![w] = @ \ {j}]
  /\ open' = [open EXCEPT ![w] = @ \ {j}]

(* A job listed with a non-terminal status becomes the cursor's floor.     *)
SkipOpen(w, j) ==
  /\ NextOnPage(w, j) /\ j \in open[w] /\ dbExists
  /\ floor' = [floor EXCEPT ![w] = MinOf(@, j)]
  /\ UNCHANGED <<dbVars, lockVars, pc, ormVars, since, maxId, cur, pageNo,
                 more, unseen, frame>>

(* Dedupe by (controller_id, awx_job_id).                                  *)
SkipKnown(w, j) ==
  /\ NextOnPage(w, j) /\ j \notin open[w] /\ j \in runs /\ dbExists
  /\ maxId' = [maxId EXCEPT ![w] = MaxOf(@, j)]
  /\ UNCHANGED <<dbVars, lockVars, pc, ormVars, since, floor, cur, pageNo,
                 more, unseen, frame>>

TakeJob(w, j) ==
  /\ NextOnPage(w, j) /\ j \notin open[w] /\ j \notin runs
  /\ cur' = [cur EXCEPT ![w] = j]
  /\ pc' = [pc EXCEPT ![w] = "fetch"]
  /\ UNCHANGED <<dbVars, lockVars, ormVars, since, maxId, floor, pageNo,
                 more, unseen, frame>>

(* A job of more than MAX_JOB_EVENTS events, or one whose events do not     *)
(* parse, raises in every sync; nothing marks it, and no sync gets past it *)
(* (see MustFail).                                                         *)
FetchEvents(w) ==
  /\ pc[w] = "fetch" /\ awx[cur[w]] # "purged" /\ cur[w] \notin Unfetchable
  /\ pc' = [pc EXCEPT ![w] = "persist"]
  /\ UNCHANGED <<dbVars, lockVars, session, frame>>

(* Mutant: no foreign key ties the run to its controller.                  *)
PersistRunUnchecked(w) ==
  /\ pc[w] = "persist"
  /\ cur[w] \notin runs \cup SelfConflicting
  /\ runs' = runs \cup {cur[w]}
  /\ imported' = imported \cup {cur[w]}
  /\ pc' = [pc EXCEPT ![w] = "cursor"]
  /\ UNCHANGED <<awx, dbRow, dbCursor, dbStatus, lockVars, session, faults,
                 crashes, missed>>

(* The run and its rows are committed in one transaction.                  *)
PersistRun(w) ==
  /\ pc[w] = "persist" /\ dbExists
  /\ cur[w] \notin runs \cup SelfConflicting
  /\ runs' = runs \cup {cur[w]}
  /\ imported' = imported \cup {cur[w]}
  /\ pc' = [pc EXCEPT ![w] = "cursor"]
  /\ UNCHANGED <<awx, dbRow, dbCursor, dbStatus, lockVars, session, faults,
                 crashes, missed>>

(* IntegrityError: roll back, refresh the instance, count it as a dedupe.  *)
PersistConflict(w) ==
  /\ pc[w] = "persist" /\ dbExists
  /\ cur[w] \in runs \cup SelfConflicting
  /\ ormCursor' = [ormCursor EXCEPT ![w] = dbCursor]
  /\ ormStatus' = [ormStatus EXCEPT ![w] = dbStatus]
  /\ maxId' = [maxId EXCEPT ![w] = MaxOf(@, cur[w])]
  /\ cur' = [cur EXCEPT ![w] = 0]
  /\ pc' = [pc EXCEPT ![w] = "job"]
  /\ UNCHANGED <<dbVars, lockVars, since, floor, listVars, frame>>

(* The durable per-job cursor, committed after the run.  match_run follows *)
(* and touches only the knowledge base.                                    *)
CommitCursor(w) ==
  LET m == MaxOf(maxId[w], cur[w])
      c == Durable(w, m)
  IN /\ pc[w] = "cursor" /\ dbExists
     /\ maxId' = [maxId EXCEPT ![w] = m]
     /\ dbCursor' = Written(dbCursor, ormCursor[w], c)
     /\ ormCursor' = [ormCursor EXCEPT ![w] = c]
     /\ cur' = [cur EXCEPT ![w] = 0]
     /\ missed' = Missed(w, c)
     /\ pc' = [pc EXCEPT ![w] = "job"]
     /\ UNCHANGED <<runs, dbRow, dbStatus, lockVars, ormStatus, since,
                    floor, listVars, awx, faults, crashes, imported>>

-----------------------------------------------------------------------------
(* Ending a sync.                                                          *)

(* sync_projects, best effort: both outcomes refresh the instance.         *)
SyncProjects(w) ==
  /\ pc[w] = "projects" /\ dbExists
  /\ ormCursor' = [ormCursor EXCEPT ![w] = dbCursor]
  /\ ormStatus' = [ormStatus EXCEPT ![w] = dbStatus]
  /\ pc' = [pc EXCEPT ![w] = "final"]
  /\ UNCHANGED <<dbVars, lockVars, locals, listVars, frame>>

(* Mutant: the sync ends without its status.                               *)
FinishOkNoStatus(w) ==
  LET c == Durable(w, maxId[w])
  IN /\ pc[w] = "final" /\ dbExists
     /\ dbCursor' = Written(dbCursor, ormCursor[w], c)
     /\ ormCursor' = [ormCursor EXCEPT ![w] = c]
     /\ missed' = Missed(w, c)
     /\ pc' = [pc EXCEPT ![w] = "release"]
     /\ UNCHANGED <<runs, dbRow, dbStatus, lockVars, ormStatus, locals,
                    listVars, awx, faults, crashes, imported>>

FinishOk(w) ==
  LET c == Durable(w, maxId[w])
  IN /\ pc[w] = "final" /\ dbExists
     /\ dbCursor' = Written(dbCursor, ormCursor[w], c)
     /\ dbStatus' = Written(dbStatus, ormStatus[w], "ok")
     /\ ormCursor' = [ormCursor EXCEPT ![w] = c]
     /\ ormStatus' = [ormStatus EXCEPT ![w] = "ok"]
     /\ missed' = Missed(w, c)
     /\ pc' = [pc EXCEPT ![w] = "release"]
     /\ UNCHANGED <<runs, dbRow, lockVars, locals, listVars, awx, faults,
                    crashes, imported>>

(* Errors the run of a sync cannot avoid: the controller row is gone (an   *)
(* UPDATE of no row, a broken foreign key, a refresh of nothing), the job  *)
(* or the page is gone on AWX, the job's events cannot be had.             *)
MustFail(w) ==
  \/ ~dbExists
  \/ pc[w] = "fetch" /\ (awx[cur[w]] = "purged" \/ cur[w] \in Unfetchable)
  \/ /\ pc[w] = "list" /\ pageNo[w] # 1
     /\ PageOf(Listed(since[w]), pageNo[w]) = {}

(* An exception reaches one of the two handlers of sync_controller.        *)
Fail(w) ==
  /\ pc[w] \in Critical \ {"failed", "release"}
  /\ MustFail(w) \/ faults < MaxFaults
  /\ faults' = IF MustFail(w) THEN faults ELSE faults + 1
  /\ pc' = [pc EXCEPT ![w] = "failed"]
  /\ UNCHANGED <<awx, dbVars, lockVars, session, crashes, imported, missed>>

(* Mutant: the handler logs and stamps nothing.                            *)
RecordErrorSilent(w) ==
  /\ pc[w] = "failed" /\ dbExists
  /\ pc' = [pc EXCEPT ![w] = "release"]
  /\ UNCHANGED <<dbVars, lockVars, session, frame>>

(* The handler rolls back, refreshes and stamps the error.                 *)
RecordError(w) ==
  /\ pc[w] = "failed" /\ dbExists
  /\ dbStatus' = "error"
  /\ ormStatus' = [ormStatus EXCEPT ![w] = "error"]
  /\ ormCursor' = [ormCursor EXCEPT ![w] = dbCursor]
  /\ pc' = [pc EXCEPT ![w] = "release"]
  /\ UNCHANGED <<runs, dbRow, dbCursor, lockVars, locals, listVars, frame>>

(* The handler itself fails: nothing is stamped.                           *)
RecordErrorFails(w) ==
  /\ pc[w] = "failed"
  /\ ~dbExists \/ crashes < MaxCrashes
  /\ crashes' = IF dbExists THEN crashes + 1 ELSE crashes
  /\ pc' = [pc EXCEPT ![w] = "release"]
  /\ UNCHANGED <<awx, dbVars, lockVars, session, faults, imported, missed>>

(* Mutant: the lock is not released when the sync ends.                    *)
ReleaseWithoutUnlock(w) ==
  /\ pc[w] = "release"
  /\ Forget(w)
  /\ UNCHANGED <<dbVars, lockVars, frame>>

(* The finally clause; on a dead connection there is nothing to unlock.    *)
Release(w) ==
  /\ pc[w] = "release"
  /\ lock' = IF lock = w THEN NoWorker ELSE lock
  /\ lost' = lost \ {w}
  /\ Forget(w)
  /\ UNCHANGED <<dbVars, frame>>

(* The process dies or the task is cancelled: no handler runs (a           *)
(* CancelledError is no Exception) and the lock goes with its connection.  *)
Crash(w) ==
  /\ pc[w] # "idle" /\ crashes < MaxCrashes
  /\ crashes' = crashes + 1
  /\ lock' = IF lock = w THEN NoWorker ELSE lock
  /\ lost' = lost \ {w}
  /\ Forget(w)
  /\ UNCHANGED <<awx, dbVars, faults, imported, missed>>

(* The dedicated lock connection dies (a server restart, an idle limit) and *)
(* Postgres drops its lock; the sync, on another connection, runs on.      *)
LockConnectionLost(w) ==
  /\ lock = w /\ Cardinality(lost) < MaxLockLosses
  /\ lock' = NoWorker
  /\ lost' = lost \cup {w}
  /\ UNCHANGED <<dbVars, pc, session, frame>>

-----------------------------------------------------------------------------
(* Other writers.                                                          *)

(* One batch of run_retention_sweep: any runs may have become old.         *)
RetentionBatch ==
  /\ Retention
  /\ \E S \in SUBSET runs :
       /\ S # {}
       /\ runs' = runs \ S
  /\ UNCHANGED <<dbRow, dbCursor, dbStatus, lockVars, pc, session, frame>>

(* delete_controller: the row goes and its runs with it (ON DELETE CASCADE). *)
DeleteController ==
  /\ Deletable /\ dbExists
  /\ dbRow' = "deleted" /\ runs' = {}
  /\ UNCHANGED <<dbCursor, dbStatus, lockVars, pc, session, frame>>

-----------------------------------------------------------------------------
(* sync_controller once the lock is held.                                  *)
Work(w) ==
  \/ MarkRunning(w) \/ FetchPage(w) \/ FollowNext(w)
  \/ \E j \in Jobs : SkipOpen(w, j) \/ SkipKnown(w, j) \/ TakeJob(w, j)
  \/ FetchEvents(w) \/ PersistRun(w) \/ PersistConflict(w) \/ CommitCursor(w)
  \/ SyncProjects(w) \/ FinishOk(w)
  \/ MustFail(w) /\ Fail(w)
  \/ RecordError(w) \/ (~dbExists /\ RecordErrorFails(w))
  \/ Release(w)

Start(w) == LoadController(w) \/ LoadNothing(w) \/ SkippedLocked(w) \/ TryLock(w)

Next ==
  \/ \E j \in Jobs : AwxLaunch(j) \/ AwxFinish(j) \/ AwxPurge(j)
  \/ \E w \in Workers :
       \/ SyncNow(w) \/ SchedulerFires(w) \/ Start(w) \/ Work(w)
       \/ Fail(w) \/ RecordErrorFails(w) \/ Crash(w) \/ LockConnectionLost(w)
  \/ RetentionBatch \/ DeleteController

Spec == Init /\ [][Next]_vars

(* The event loop runs every started task on; the interval job fires again *)
(* and again.  Nothing obliges a user to press "sync now", AWX to end a    *)
(* job, or a fault to happen.                                              *)
FairSpec ==
  /\ Spec
  /\ \A w \in Workers :
       WF_vars(Start(w)) /\ WF_vars(Work(w)) /\ WF_vars(SchedulerFires(w))

-----------------------------------------------------------------------------
(* Properties.                                                             *)

(* Every variable of the sync stays in its range.                          *)
TypeOK ==
  /\ awx \in [Jobs -> JobState]
  /\ runs \subseteq Jobs /\ dbRow \in {"present", "deleted"}
  /\ dbCursor \in Cursors /\ dbStatus \in SyncStatus
  /\ lock \in Workers \cup {NoWorker} /\ lost \subseteq Workers
  /\ pc \in [Workers -> PcState]
  /\ ormCursor \in [Workers -> Cursors]
  /\ ormStatus \in [Workers -> SyncStatus]
  /\ since \in [Workers -> Cursors] /\ maxId \in [Workers -> Cursors]
  /\ floor \in [Workers -> Floors] /\ cur \in [Workers -> Cursors]
  /\ pageNo \in [Workers -> Nat \ {0}] /\ more \subseteq Workers
  /\ page \in [Workers -> SUBSET Jobs] /\ open \in [Workers -> SUBSET Jobs]
  /\ \A w \in Workers : pc[w] \in {"fetch", "persist", "cursor"} => cur[w] \in Jobs
  /\ faults \in Nat /\ crashes \in Nat
  /\ imported \subseteq Jobs /\ missed \subseteq Jobs
  /\ unseen \in [Workers -> SUBSET Jobs]

(* "A manual sync and a scheduled sync never overlap" (sync_controller):   *)
(* two tasks between acquisition and release exist only where Postgres     *)
(* dropped the lock of one of them with its connection.                    *)
SyncsNeverOverlap ==
  \A v, w \in Workers :
    /\ pc[v] \in Critical /\ v \notin lost
    /\ pc[w] \in Critical /\ w \notin lost
    => v = w

(* The lock is never left behind: whoever holds it is a running sync that  *)
(* will come to its finally clause, through every error path and crash.    *)
LockHasOwner == lock # NoWorker => pc[lock] \in Critical /\ lock \notin lost

(* The durable cursor never passes a job that was not imported, whatever   *)
(* the order of status changes, crashes, retries and overlapping syncs     *)
(* (_durable_cursor and the commit order of the loop).  Only id__gt the    *)
(* cursor is listed again, so such a job would be lost for good.           *)
NothingLost == \A j \in Jobs : j <= dbCursor => j \in Settled

(* A controller shows "running" only while a sync holds its lock: every    *)
(* handled outcome resets it (the two handlers of sync_controller), so     *)
(* that the 409 pre-check of sync_now does not outlive the sync.           *)
IdleNotRunning ==
  (dbExists /\ lock = NoWorker /\ lost = {} /\ crashes = 0) => dbStatus # "running"

(* Deleting the controller while a sync is importing leaves no run behind: *)
(* the sync cannot insert one after the cascade.                           *)
NoOrphanRuns == ~dbExists => runs = {}

(* No write of the cursor rewinds it (_durable_cursor: "never rewind below *)
(* the previous cursor").                                                  *)
ForwardOnly == [][dbCursor' >= dbCursor]_vars

(* The test of the cursor's floor: a job that is not terminal yet is never *)
(* leapfrogged by a higher terminal one.                                   *)
NotLeapfrogged == \A j \in Jobs : awx[j] = "open" => dbCursor < j

(* "Committed so the UI sees running": while a sync reads the listing its  *)
(* controller says so.                                                     *)
RunningIsVisible ==
  \A w \in Workers :
    pc[w] \in {"list", "job", "fetch", "persist", "cursor"} => dbStatus = "running"

(* "Must NOT leave the controller pinned at running" (the handler of       *)
(* unexpected failures): the status is always reset in the end.            *)
NeverPinned == (dbStatus = "running" /\ dbExists) ~> (dbStatus # "running" \/ ~dbExists)

(* Whatever the order in which jobs end, the pages, the purges and the     *)
(* other tasks, the cursor passes a job that is not settled only where the *)
(* listing of the sync that moves it went past that job without showing it *)
(* (sync_controller handles every job it is shown).                        *)
OnlyUnseenAreMissed == \A j \in Jobs : j <= dbCursor => j \in Settled \cup missed

(* A job that no sync can fetch stops every sync before the later ones,    *)
(* until AWX's clean-up removes it.                                        *)
Blocked(j) == \E k \in Unfetchable : k <= j /\ awx[k] = "terminal"

(* A job that AWX has finished is imported in the end: after errors,       *)
(* crashes and skipped syncs the cursor makes a later sync list it again.  *)
(* Not so while an unfetchable job is in the way (sync_controller stops at *)
(* the first error), nor once the cursor has passed a job it was not shown. *)
FinishedIsImported ==
  \A j \in Jobs : awx[j] = "terminal"
                   ~> (j \in Settled \cup missed \/ Blocked(j) \/ ~dbExists)

(* The same with no job in the way: refuted by AwxSync_blocked.cfg.        *)
FetchableIsImported ==
  \A j \in Jobs \ Unfetchable :
    awx[j] = "terminal" ~> (j \in Settled \cup missed \/ ~dbExists)
=============================================================================
