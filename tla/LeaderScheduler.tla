-------------------------- MODULE LeaderScheduler --------------------------
(***************************************************************************)
(* The in-process scheduler (scheduler.py): the processes of the app elect *)
(* a leader by a session-level advisory lock, the leader registers a job   *)
(* per auto-mode controller, and the routes that create, change and delete *)
(* controllers (api/controllers.py) reload its jobs after their commit.    *)
(*                                                                         *)
(* A step of a process ends where it awaits the database; a route is a     *)
(* load, a commit and, in the same process, what follows the commit.  A    *)
(* route keeps the ORM instance it loaded, and an attribute that is        *)
(* assigned the value it has there is not written.                         *)
(*                                                                         *)
(* Abstracted: names, tokens and team assignments of a controller (a       *)
(* request that they reject fails), the retention and re-fetch jobs (they  *)
(* come and go with the scheduler), what a job does (see AwxSync).         *)
(***************************************************************************)
EXTENDS Integers

CONSTANTS
  Processes,     \* app processes
  Controllers,   \* controllers that may be created
  Intervals,     \* sync_interval_minutes > 0
  NoInterval,    \* sync_interval_minutes is None or not positive
  NoJob,         \* the scheduler has no job for a controller
  Requests,      \* requests served at once
  Nobody,        \* no process, no controller
  MaxMishaps     \* bound: crashes, failed starts and lost connections

ASSUME LeaderSchedulerAssumption ==
  /\ NoInterval \notin Intervals /\ NoJob \notin Intervals \cup {NoInterval}
  /\ Nobody \notin Processes \cup Controllers
  /\ MaxMishaps \in Nat

VARIABLES
  row,         \* sync_mode and sync_interval_minutes of each controller
  leaderLock,  \* the session that holds LEADER_KEY, by its process
  state,       \* where each process is in its lifespan
  leaders,     \* processes with _is_leader
  started,     \* processes with a started _scheduler
  found,       \* the controllers that _register_all selected
  jobs,        \* the jobs of each process's scheduler, by controller
  pc,          \* where each request is
  at, ctrl,    \* the process that serves it, the controller it names
  seen,        \* the instance it loaded
  want,        \* and what it assigns to it
  elsewhere,   \* (history) controllers changed in other processes since it read
  lost,        \* (history) leaders whose session PostgreSQL has dropped
  mishaps      \* bound

process == <<leaders, started, found, jobs>>
request == <<pc, at, ctrl, seen, want>>
vars    == <<row, leaderLock, state, process, request, elsewhere, lost, mishaps>>

States   == {"down", "elected", "found", "serving", "stopping", "releasing"}
Modes    == {"none", "manual", "auto", "deleted"}
Row      == [mode : Modes, every : Intervals \cup {NoInterval}]
JobTable == [Controllers -> Intervals \cup {NoJob}]

Unborn  == [mode |-> "none", every |-> NoInterval]
NoJobs  == [c \in Controllers |-> NoJob]
Deleted == [Unborn EXCEPT !.mode = "deleted"]
Exists(c) == row[c].mode \in {"manual", "auto"}

(* The one condition of _register_all and of reconcile_controller.         *)
JobOf(r) == IF r.mode = "auto" /\ r.every \in Intervals THEN r.every ELSE NoJob

(* What a flush leaves in a column: an unchanged attribute is not written. *)
Written(db, orm, new) == IF new = orm THEN db ELSE new

Init ==
  /\ row = [c \in Controllers |-> Unborn]
  /\ leaderLock = Nobody
  /\ state = [p \in Processes |-> "down"]
  /\ leaders = {} /\ started = {}
  /\ found = [p \in Processes |-> NoJobs] /\ jobs = [p \in Processes |-> NoJobs]
  /\ pc = [q \in Requests |-> "idle"]
  /\ at = [q \in Requests |-> Nobody] /\ ctrl = [q \in Requests |-> Nobody]
  /\ seen = [q \in Requests |-> Unborn] /\ want = [q \in Requests |-> Unborn]
  /\ elsewhere = [p \in Processes |-> {}] /\ lost = {}
  /\ mishaps = 0

Become(p, s) == state' = [state EXCEPT ![p] = s]
Mishap == mishaps < MaxMishaps /\ mishaps' = mishaps + 1

(* The requests of Q are over.                                             *)
End(Q) ==
  /\ pc' = [q \in Requests |-> IF q \in Q THEN "idle" ELSE pc[q]]
  /\ at' = [q \in Requests |-> IF q \in Q THEN Nobody ELSE at[q]]
  /\ ctrl' = [q \in Requests |-> IF q \in Q THEN Nobody ELSE ctrl[q]]
  /\ seen' = [q \in Requests |-> IF q \in Q THEN Unborn ELSE seen[q]]
  /\ want' = [q \in Requests |-> IF q \in Q THEN Unborn ELSE want[q]]

-----------------------------------------------------------------------------
(* The lifespan of a process.                                              *)

(* Mutant: the answer of pg_try_advisory_lock is not looked at.            *)
ElectedAnyway(p) ==
  /\ state[p] = "down"
  /\ leaderLock' = p /\ leaders' = leaders \cup {p}
  /\ Become(p, "elected")
  /\ UNCHANGED <<row, started, found, jobs, request, elsewhere, lost, mishaps>>

Elected(p) ==
  /\ state[p] = "down" /\ leaderLock = Nobody
  /\ leaderLock' = p /\ leaders' = leaders \cup {p}
  /\ Become(p, "elected")
  /\ UNCHANGED <<row, started, found, jobs, request, elsewhere, lost, mishaps>>

(* It serves, and never tries again.                                       *)
NotElected(p) ==
  /\ state[p] = "down" /\ leaderLock # Nobody
  /\ Become(p, "serving")
  /\ UNCHANGED <<row, leaderLock, process, request, elsewhere, lost, mishaps>>

SelectControllers(p) ==
  /\ state[p] = "elected"
  /\ found' = [found EXCEPT ![p] = [c \in Controllers |-> JobOf(row[c])]]
  /\ elsewhere' = [elsewhere EXCEPT ![p] = {}]
  /\ Become(p, "found")
  /\ UNCHANGED <<row, leaderLock, leaders, started, jobs, request, lost, mishaps>>

RegisterAndStart(p) ==
  /\ state[p] = "found"
  /\ jobs' = [jobs EXCEPT ![p] = found[p]]
  /\ found' = [found EXCEPT ![p] = NoJobs]
  /\ started' = started \cup {p}
  /\ Become(p, "serving")
  /\ UNCHANGED <<row, leaderLock, leaders, request, elsewhere, lost, mishaps>>

(* Mutant: a start that fails leaves the lock to the session it has.       *)
StartFailsPinned(p) ==
  /\ state[p] \in {"elected", "found"} /\ Mishap
  /\ found' = [found EXCEPT ![p] = NoJobs]
  /\ leaders' = leaders \ {p}
  /\ Become(p, "down")
  /\ UNCHANGED <<row, leaderLock, started, jobs, request, elsewhere, lost>>

(* The handler calls stop_scheduler, with no scheduler to shut down.       *)
StartFails(p) ==
  /\ state[p] \in {"elected", "found"} /\ Mishap
  /\ found' = [found EXCEPT ![p] = NoJobs]
  /\ Become(p, "releasing")
  /\ UNCHANGED <<row, leaderLock, leaders, started, jobs, request, elsewhere, lost>>

(* The server has finished its requests when the lifespan ends.            *)
Shutdown(p) ==
  /\ state[p] = "serving" /\ \A q \in Requests : at[q] # p
  /\ Become(p, "stopping")
  /\ UNCHANGED <<row, leaderLock, process, request, elsewhere, lost, mishaps>>

StopJobs(p) ==
  /\ state[p] = "stopping"
  /\ started' = started \ {p}
  /\ jobs' = [jobs EXCEPT ![p] = NoJobs]
  /\ Become(p, "releasing")
  /\ UNCHANGED <<row, leaderLock, leaders, found, request, elsewhere, lost, mishaps>>

(* Unlocked, or dropped with the connection.                               *)
Release(p) ==
  /\ state[p] = "releasing"
  /\ leaderLock' = IF leaderLock = p THEN Nobody ELSE leaderLock
  /\ leaders' = leaders \ {p} /\ started' = started \ {p}
  /\ jobs' = [jobs EXCEPT ![p] = NoJobs]
  /\ lost' = lost \ {p}
  /\ Become(p, "down")
  /\ UNCHANGED <<row, found, request, elsewhere, mishaps>>

Crash(p) ==
  /\ state[p] # "down" /\ Mishap
  /\ leaderLock' = IF leaderLock = p THEN Nobody ELSE leaderLock
  /\ leaders' = leaders \ {p} /\ started' = started \ {p}
  /\ found' = [found EXCEPT ![p] = NoJobs] /\ jobs' = [jobs EXCEPT ![p] = NoJobs]
  /\ lost' = lost \ {p}
  /\ Become(p, "down")
  /\ End({q \in Requests : at[q] = p})
  /\ UNCHANGED <<row, elsewhere>>

(* PostgreSQL drops the leader's session; the leader does not notice.      *)
LeaderConnectionLost ==
  /\ leaderLock # Nobody /\ Mishap
  /\ leaderLock' = Nobody
  /\ lost' = lost \cup {leaderLock}
  /\ UNCHANGED <<row, state, process, request, elsewhere>>

-----------------------------------------------------------------------------
(* The routes.                                                             *)

Asks(q, p, c, r) ==
  /\ pc[q] = "idle" /\ state[p] = "serving"
  /\ at' = [at EXCEPT ![q] = p] /\ ctrl' = [ctrl EXCEPT ![q] = c]
  /\ want' = [want EXCEPT ![q] = r]

(* A commit in p, which no other process hears of.                         *)
Changed(p, c, r) ==
  /\ row' = [row EXCEPT ![c] = r]
  /\ elsewhere' = [o \in Processes |-> IF o = p THEN elsewhere[o] ELSE elsewhere[o] \cup {c}]

(* _validate_sync, on what the row will be as far as the route knows.      *)
Valid(r) == r.mode \in {"manual", "auto"} /\ (r.mode = "auto" => r.every \in Intervals)

CreateController(q, p, c, r) ==
  /\ row[c] = Unborn /\ Valid(r) /\ Asks(q, p, c, r)
  /\ Changed(p, c, r)
  /\ pc' = [pc EXCEPT ![q] = "committed"]
  /\ UNCHANGED <<leaderLock, state, process, seen, lost, mishaps>>

(* What the payload leaves out keeps the value that was loaded.            *)
UpdateController(q, p, c, r) ==
  /\ Exists(c) /\ Valid(r) /\ Asks(q, p, c, r)
  /\ r.every \in Intervals \/ r.every = row[c].every
  /\ seen' = [seen EXCEPT ![q] = row[c]]
  /\ pc' = [pc EXCEPT ![q] = "loaded"]
  /\ UNCHANGED <<row, leaderLock, state, process, elsewhere, lost, mishaps>>

(* Of a controller deleted meanwhile, only an update that writes nothing   *)
(* succeeds.                                                               *)
CommitUpdate(q) ==
  LET c == ctrl[q]  old == seen[q]  new == want[q] IN
  /\ pc[q] = "loaded"
  /\ \/ /\ Exists(c)
        /\ Changed(at[q], c, [mode  |-> Written(row[c].mode, old.mode, new.mode),
                               every |-> Written(row[c].every, old.every, new.every)])
     \/ ~Exists(c) /\ new = old /\ UNCHANGED <<row, elsewhere>>
  /\ pc' = [pc EXCEPT ![q] = "committed"]
  /\ UNCHANGED <<leaderLock, state, process, at, ctrl, seen, want, lost, mishaps>>

(* A name that exists, a rejected assignment, a stale row: a rollback.     *)
UpdateFails(q) ==
  /\ pc[q] = "loaded"
  /\ End({q})
  /\ UNCHANGED <<row, leaderLock, state, process, elsewhere, lost, mishaps>>

DeleteController(q, p, c) ==
  /\ Exists(c) /\ Asks(q, p, c, Deleted)
  /\ Changed(p, c, Deleted)
  /\ pc' = [pc EXCEPT ![q] = "committed"]
  /\ UNCHANGED <<leaderLock, state, process, seen, lost, mishaps>>

(* Mutant: a job that exists is not touched.                               *)
ReconcileNewOnly(q) ==
  LET p == at[q]  c == ctrl[q] IN
  /\ pc[q] = "committed"
  /\ jobs' = IF p \in leaders \cap started /\ jobs[p][c] = NoJob
             THEN [jobs EXCEPT ![p] = [@ EXCEPT ![c] = JobOf(want[q])]]
             ELSE jobs
  /\ End({q})
  /\ UNCHANGED <<row, leaderLock, state, leaders, started, found, elsewhere, lost, mishaps>>

(* reconcile_controller, with the attributes of the route's instance.      *)
ReconcileController(q) ==
  LET p == at[q]  c == ctrl[q] IN
  /\ pc[q] = "committed"
  /\ jobs' = IF p \in leaders \cap started
             THEN [jobs EXCEPT ![p] = [@ EXCEPT ![c] = JobOf(want[q])]]
             ELSE jobs
  /\ End({q})
  /\ UNCHANGED <<row, leaderLock, state, leaders, started, found, elsewhere, lost, mishaps>>

-----------------------------------------------------------------------------
Starts(p) == Elected(p) \/ NotElected(p) \/ SelectControllers(p) \/ RegisterAndStart(p)
Stops(p)  == StopJobs(p) \/ Release(p)
Finishes(q) == CommitUpdate(q) \/ UpdateFails(q) \/ ReconcileController(q)

Next ==
  \/ \E p \in Processes : Starts(p) \/ Stops(p) \/ StartFails(p) \/ Shutdown(p) \/ Crash(p)
  \/ LeaderConnectionLost
  \/ \E q \in Requests : Finishes(q)
  \/ \E q \in Requests, p \in Processes, c \in Controllers :
       \/ DeleteController(q, p, c)
       \/ \E r \in Row : CreateController(q, p, c, r) \/ UpdateController(q, p, c, r)

Spec == Init /\ [][Next]_vars

(* A process that is down is started again, and goes on starting and       *)
(* stopping; nobody has to send a request or to shut it down.              *)
FairSpec == Spec /\ \A p \in Processes : WF_vars(Starts(p)) /\ WF_vars(Stops(p))

-----------------------------------------------------------------------------
(* Properties.                                                             *)

(* Every variable stays in its range; the table of a scheduler has no job  *)
(* that its trigger would refuse (SCHED1).                                 *)
TypeOK ==
  /\ row \in [Controllers -> Row]
  /\ leaderLock \in Processes \cup {Nobody}
  /\ state \in [Processes -> States]
  /\ leaders \subseteq Processes /\ started \subseteq Processes
  /\ found \in [Processes -> JobTable] /\ jobs \in [Processes -> JobTable]
  /\ pc \in [Requests -> {"idle", "loaded", "committed"}]
  /\ at \in [Requests -> Processes \cup {Nobody}]
  /\ ctrl \in [Requests -> Controllers \cup {Nobody}]
  /\ seen \in [Requests -> Row] /\ want \in [Requests -> Row]
  /\ elsewhere \in [Processes -> SUBSET Controllers] /\ lost \subseteq Processes
  /\ \A q \in Requests : pc[q] # "idle" => at[q] \in Processes /\ ctrl[q] \in Controllers
  /\ mishaps \in 0..MaxMishaps

(* One scheduler fires the jobs, through starts that fail, shutdowns and   *)
(* crashes: whatever runs beside it has lost the session that elected it.  *)
OneScheduler == \A p, o \in started \ lost : p = o

(* "Hot-reload one controller's auto-sync job": between requests, the jobs *)
(* of a scheduler are those of the committed rows, for every controller    *)
(* that was not changed in another process since it registered.            *)
JobsFollowRows ==
  \A p \in started, c \in Controllers :
    c \notin elsewhere[p] /\ (\A q \in Requests : ctrl[q] # c) => jobs[p][c] = JobOf(row[c])

(* "No other worker could take over": the end of a leader, whichever way   *)
(* it ends, leaves the lock to the next process that starts.               *)
SchedulingResumes == (started = {}) ~> (started # {})
=============================================================================
