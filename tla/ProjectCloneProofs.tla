------------------------- MODULE ProjectCloneProofs -------------------------
(***************************************************************************)
(* Proofs about ProjectClone, for any sources, requested clones, revisions *)
(* and bounds.                                                             *)
(***************************************************************************)
EXTENDS ProjectClone, TLAPS

(* The job is a worker, and nobody is none.                                *)
LEMMA WorkerNames == Job \in Workers /\ Requested \subseteq Workers /\ Nobody \notin Workers
BY ProjectCloneAssumption DEF Workers

(* Places and statuses that the actions name.                              *)
LEMMA Names ==
  /\ PcState = {"idle", "queued", "loaded", "locked", "git", "clone", "cloneDone",
                "fetch", "fetchDone", "failed", "release"}
  /\ Statuses = {"unlinked", "pending", "cloning", "cloned", "error"}
BY DEF PcState, Statuses

(* The end of workers keeps their variables in their ranges.               *)
LEMMA EndTyped ==
  ASSUME TypeOK, NEW W \in SUBSET Workers, End(W)
  PROVE  /\ pc' \in [Workers -> PcState]
         /\ loaded' \in [Workers -> [status : Statuses, note : {"clear", "error"}]]
         /\ link' \in [Workers -> Urls \cup {NoUrl}]
         /\ oldUrl' \in [Workers -> Urls \cup {NoUrl}]
         /\ had' \subseteq Workers
<1>1. Fresh \in [status : Statuses, note : {"clear", "error"}]
  BY Names DEF Fresh
<1>2. QED
  BY <1>1, Names DEF TypeOK, End

(* Every variable stays in its range.                                      *)
THEOREM TypeCorrect == Spec => []TypeOK
<1>1. Init => TypeOK
  <2>1. Fresh \in [status : Statuses, note : {"clear", "error"}]
    BY Names DEF Fresh
  <2>2. QED
    BY <2>1, Names, ProjectCloneAssumption DEF Init, TypeOK
<1>2. ASSUME TypeOK, [Next]_vars PROVE TypeOK'
  <2> USE <1>2, Names, WorkerNames, ProjectCloneAssumption
      DEF TypeOK, row, urls, repo, disk, bounds, locals, Goto
  <2>1. Move \/ Mishap \/ UNCHANGED bounds
        => moves' \in 0..MaxMoves /\ mishaps' \in 0..MaxMishaps
    BY DEF Move, Mishap
  <2>2. Effective \in Urls \cup {NoUrl} /\ \A u \in Urls : History(u) \subseteq Revision
    BY DEF Effective, History
  <2>3. ASSUME NEW u \in Urls, Publish(u) PROVE TypeOK'
    BY <2>1, <2>3 DEF Publish
  <2>4. ASSUME NEW u \in Urls, Mirror(u) PROVE TypeOK'
    BY <2>1, <2>4 DEF Mirror
  <2>5. ASSUME NEW u \in Clonable \cup {NoUrl}, SetProjectGit(u) PROVE TypeOK'
    BY <2>1, <2>5 DEF SetProjectGit
  <2>6. ASSUME NEW w \in Workers, CloneProject(w) PROVE TypeOK'
    BY <2>6 DEF CloneProject
  <2>7. ASSUME Refetch \/ TimePasses \/ DeleteController PROVE TypeOK'
    BY <2>1, <2>7 DEF Refetch, TimePasses, DeleteController
  <2>8. ASSUME Crash PROVE TypeOK'
    BY <2>1, <2>8, EndTyped DEF Crash
  <2>9. ASSUME NEW w \in Workers, LoadProject(w) PROVE TypeOK'
    <3>1. [status |-> status, note |-> note] \in [status : Statuses, note : {"clear", "error"}]
      BY <2>9 DEF LoadProject, Exists
    <3>2. QED
      BY <2>2, <2>9, <3>1 DEF LoadProject
  <2>10. ASSUME NEW w \in Workers, GiveUp(w) \/ NotClonable(w) \/ Release(w) PROVE TypeOK'
    <3>1. End({w}) /\ lock' \in Workers \cup {Nobody}
      BY <2>10 DEF GiveUp, NotClonable, Release
    <3>2. CASE NotClonable(w)
      BY <3>1, <3>2, EndTyped DEF NotClonable, Written
    <3>3. CASE GiveUp(w) \/ Release(w)
      BY <3>1, <3>3, EndTyped DEF GiveUp, Release
    <3>4. QED
      BY <2>10, <3>2, <3>3
  <2>11. ASSUME NEW w \in Workers, TryLock(w) PROVE TypeOK'
    BY <2>11 DEF TryLock
  <2>12. ASSUME NEW w \in Workers, MarkCloning(w) PROVE TypeOK'
    <3>1. [status |-> "cloning", note |-> "clear"]
            \in [status : Statuses, note : {"clear", "error"}]
      OBVIOUS
    <3>2. QED
      BY <2>12, <3>1 DEF MarkCloning, Written
  <2>13. ASSUME NEW w \in Workers, StartClone(w) \/ StartFetch(w) PROVE TypeOK'
    <3>1. CASE StartClone(w)
      BY <3>1 DEF StartClone
    <3>2. CASE StartFetch(w)
      BY <3>2 DEF StartFetch
    <3>3. QED
      BY <2>13, <3>1, <3>2
  <2>14. ASSUME NEW w \in Workers, EndClone(w) \/ EndFetch(w) PROVE TypeOK'
    <3>1. \A u \in Urls \cup {NoUrl} : History(u) \subseteq Revision
      BY DEF History
    <3>2. QED
      BY <2>14, <3>1 DEF EndClone, EndFetch
  <2>15. ASSUME NEW w \in Workers,
                DiscardClone(w) \/ DiscardRejectedFetch(w) \/ RollbackFails(w)
         PROVE  TypeOK'
    BY <2>15 DEF DiscardClone, DiscardRejectedFetch, RollbackFails, NoRepo
  <2>16. ASSUME NEW w \in Workers, FinishCloned(w) \/ RecordError(w) PROVE TypeOK'
    BY <2>16 DEF FinishCloned, RecordError
  <2>17. ASSUME NEW w \in Workers, Fails(w) \/ RecordErrorFails(w) PROVE TypeOK'
    BY <2>1, <2>17 DEF Fails, RecordErrorFails
  <2>18. CASE UNCHANGED vars
    BY <2>18 DEF vars
  <2>19. QED
    BY <2>3, <2>4, <2>5, <2>6, <2>7, <2>8, <2>9, <2>10, <2>11, <2>12, <2>13,
       <2>14, <2>15, <2>16, <2>17, <2>18
    DEF Next, Work
<1>3. QED
  BY <1>1, <1>2, PTL DEF Spec

-----------------------------------------------------------------------------
(* The worker that has the lock knows what there is on disk; while it makes *)
(* a first clone, nothing says "cloned" and nothing has been fetched.      *)
AtWork(w) ==
  /\ InRepo(w) <=> lock = w
  /\ pc[w] \in {"locked", "git"} => (w \in had <=> head = "present")
  /\ pc[w] \in {"clone", "cloneDone"}
     => head = "present" /\ w \notin had /\ status # "cloned" /\ fetched = {}
  /\ pc[w] \in {"fetch", "fetchDone"} => head = "present" /\ w \in had
  /\ pc[w] = "failed" /\ w \in had => head = "present"

OnDisk == ClonedHasRepo /\ (fetched # {} => head = "present")

CloneInv == OnDisk /\ \A w \in Workers : AtWork(w)

(* A step of worker w that changes at most the lock and its own place, and *)
(* the disk and the status where it holds the lock.                        *)
LEMMA AtWorkFrame ==
  ASSUME TypeOK, CloneInv, NEW w \in Workers,
         \A v \in Workers \ {w} : pc'[v] = pc[v] /\ (v \in had' <=> v \in had),
         lock' = lock \/ (lock = Nobody /\ lock' = w) \/ (lock = w /\ lock' = Nobody),
         \/ lock = w
         \/ UNCHANGED <<head, fetched>> /\ (status' = status \/ status' # "cloned"),
         AtWork(w)', OnDisk'
  PROVE  CloneInv'
<1>1. ASSUME NEW v \in Workers \ {w} PROVE AtWork(v)'
  <2>1. AtWork(v) /\ v # w /\ v # Nobody
    BY WorkerNames DEF CloneInv
  <2>2. lock' = v <=> lock = v
    BY <2>1
  <2>3. CASE lock = v
    BY <2>1, <2>2, <2>3 DEF AtWork, InRepo
  <2>4. CASE lock # v
    <3>1. pc[v] \in {"idle", "queued", "loaded"}
      BY <2>1, <2>4 DEF AtWork, InRepo
    <3>2. QED
      BY <2>1, <2>2, <2>4, <3>1 DEF AtWork, InRepo
  <2>5. QED
    BY <2>3, <2>4
<1>2. QED
  BY <1>1 DEF CloneInv

(* A step that leaves the workers and the disk alone.                      *)
LEMMA ApartFrame ==
  ASSUME CloneInv, UNCHANGED <<head, fetched, lock, had>>,
         status' = status \/ status' # "cloned",
         \A v \in Workers : pc'[v] = pc[v] \/ {pc[v], pc'[v]} = {"idle", "queued"}
  PROVE  CloneInv'
<1>1. ASSUME NEW v \in Workers PROVE AtWork(v)'
  <2>1. AtWork(v)
    BY DEF CloneInv
  <2>2. CASE pc'[v] = pc[v]
    BY <2>1, <2>2 DEF AtWork, InRepo
  <2>3. CASE {pc[v], pc'[v]} = {"idle", "queued"}
    <3>1. pc[v] \in {"idle", "queued"} /\ pc'[v] \in {"idle", "queued"}
      BY <2>3
    <3>2. QED
      BY <2>1, <3>1 DEF AtWork, InRepo
  <2>4. QED
    BY <2>2, <2>3
<1>2. OnDisk'
  BY DEF CloneInv, OnDisk, ClonedHasRepo
<1>3. QED
  BY <1>1, <1>2 DEF CloneInv

LEMMA CloneInductive == Spec => []CloneInv
<1>1. Init => CloneInv
  BY WorkerNames DEF Init, CloneInv, OnDisk, ClonedHasRepo, AtWork, InRepo
<1>2. ASSUME TypeOK, CloneInv, [Next]_vars PROVE CloneInv'
  <2> USE DEF row, urls, repo, disk, bounds, locals, Goto
  <2>1. OnDisk /\ \A w \in Workers : AtWork(w)
    BY <1>2 DEF CloneInv
  <2>2. CASE \E u \in Urls : Publish(u) \/ Mirror(u)
    BY <1>2, <2>2, ApartFrame DEF Publish, Mirror
  <2>3. CASE \E u \in Clonable \cup {NoUrl} : SetProjectGit(u)
    BY <1>2, <2>3, ApartFrame DEF SetProjectGit
  <2>4. CASE TimePasses \/ DeleteController
    BY <1>2, <2>4, ApartFrame DEF TimePasses, DeleteController
  <2>5. CASE Refetch \/ \E w \in Workers : CloneProject(w)
    <3>1. /\ UNCHANGED <<head, fetched, lock, had>>
          /\ status' = status \/ status' # "cloned"
          /\ \E w \in Workers : pc[w] = "idle" /\ pc' = [pc EXCEPT ![w] = "queued"]
      BY <2>5, WorkerNames DEF Refetch, CloneProject
    <3>2. \A v \in Workers : pc'[v] = pc[v] \/ {pc[v], pc'[v]} = {"idle", "queued"}
      BY <1>2, <3>1 DEF TypeOK
    <3>3. QED
      BY <1>2, <3>1, <3>2, ApartFrame
  <2>6. CASE Crash
    <3>1. /\ \A w \in Workers : pc'[w] = "idle"
          /\ lock' = Nobody /\ UNCHANGED <<status, head, fetched>>
      BY <2>6 DEF Crash, End
    <3>2. QED
      BY <2>1, <3>1, WorkerNames DEF CloneInv, OnDisk, ClonedHasRepo, AtWork, InRepo
  <2>7. ASSUME NEW w \in Workers, LoadProject(w) PROVE CloneInv'
    <3>1. AtWork(w)' /\ OnDisk'
      BY <1>2, <2>1, <2>7
      DEF TypeOK, LoadProject, AtWork, InRepo, OnDisk, ClonedHasRepo
    <3>2. QED
      BY <1>2, <2>7, <3>1, AtWorkFrame DEF TypeOK, LoadProject
  <2>8. ASSUME NEW w \in Workers, GiveUp(w) \/ NotClonable(w) PROVE CloneInv'
    <3>1. /\ pc[w] \in {"queued", "loaded"} /\ UNCHANGED <<head, fetched, lock>>
          /\ status' = status \/ status' # "cloned"
          /\ pc'[w] = "idle"
          /\ \A v \in Workers \ {w} : pc'[v] = pc[v] /\ (v \in had' <=> v \in had)
      BY <1>2, <2>8 DEF TypeOK, GiveUp, NotClonable, End, Written
    <3>2. AtWork(w)' /\ OnDisk'
      BY <2>1, <3>1 DEF AtWork, InRepo, OnDisk, ClonedHasRepo
    <3>3. QED
      BY <1>2, <3>1, <3>2, AtWorkFrame
  <2>9. ASSUME NEW w \in Workers, TryLock(w) PROVE CloneInv'
    <3>1. /\ UNCHANGED <<status, head, fetched>> /\ lock = Nobody /\ lock' = w
          /\ pc'[w] = "locked" /\ (w \in had' <=> head = "present")
          /\ \A v \in Workers \ {w} : pc'[v] = pc[v] /\ (v \in had' <=> v \in had)
      BY <1>2, <2>9 DEF TypeOK, TryLock
    <3>2. AtWork(w)' /\ OnDisk'
      BY <2>1, <3>1 DEF AtWork, InRepo, OnDisk, ClonedHasRepo
    <3>3. QED
      BY <1>2, <3>1, <3>2, AtWorkFrame
  <2>10. ASSUME NEW w \in Workers,
                \/ MarkCloning(w) \/ StartClone(w) \/ EndClone(w) \/ DiscardClone(w)
                \/ StartFetch(w) \/ EndFetch(w) \/ DiscardRejectedFetch(w)
                \/ RollbackFails(w) \/ FinishCloned(w) \/ Fails(w)
                \/ RecordError(w) \/ RecordErrorFails(w)
         PROVE  CloneInv'
    <3>1. /\ pc[w] \notin {"idle", "queued", "loaded"}
          /\ UNCHANGED <<lock, had>>
          /\ \A v \in Workers \ {w} : pc'[v] = pc[v]
      BY <1>2, <2>10
      DEF TypeOK, MarkCloning, StartClone, EndClone, DiscardClone, StartFetch,
          EndFetch, DiscardRejectedFetch, RollbackFails, FinishCloned, Fails,
          RecordError, RecordErrorFails
    <3>2. lock = w
      BY <2>1, <3>1 DEF AtWork, InRepo
    <3>3. AtWork(w)' /\ OnDisk'
      <4> USE <1>2, <2>1, <3>1, <3>2
          DEF TypeOK, AtWork, InRepo, OnDisk, ClonedHasRepo
      <4>1. CASE MarkCloning(w)
        BY <4>1 DEF MarkCloning, Written
      <4>2. CASE StartClone(w)
        BY <4>2 DEF StartClone
      <4>3. CASE EndClone(w)
        BY <4>3 DEF EndClone
      <4>4. CASE DiscardClone(w)
        BY <4>4 DEF DiscardClone, NoRepo
      <4>5. CASE StartFetch(w)
        BY <4>5 DEF StartFetch
      <4>6. CASE EndFetch(w)
        BY <4>6 DEF EndFetch
      <4>7. CASE DiscardRejectedFetch(w) \/ RollbackFails(w)
        BY <4>7 DEF DiscardRejectedFetch, RollbackFails
      <4>8. CASE FinishCloned(w)
        BY <4>8 DEF FinishCloned
      <4>9. CASE Fails(w)
        BY <4>9 DEF Fails
      <4>10. CASE RecordError(w)
        BY <4>10 DEF RecordError
      <4>11. CASE RecordErrorFails(w)
        BY <4>11 DEF RecordErrorFails
      <4>12. QED
        BY <2>10, <4>1, <4>2, <4>3, <4>4, <4>5, <4>6, <4>7, <4>8, <4>9, <4>10, <4>11
    <3>4. QED
      BY <1>2, <3>1, <3>2, <3>3, AtWorkFrame
  <2>11. ASSUME NEW w \in Workers, Release(w) PROVE CloneInv'
    <3>1. /\ UNCHANGED <<status, head, fetched>> /\ pc[w] = "release"
          /\ lock' = Nobody /\ pc'[w] = "idle"
          /\ \A v \in Workers \ {w} : pc'[v] = pc[v] /\ (v \in had' <=> v \in had)
      BY <1>2, <2>11 DEF TypeOK, Release, End
    <3>2. lock = w
      BY <2>1, <3>1 DEF AtWork, InRepo
    <3>3. AtWork(w)' /\ OnDisk'
      BY <2>1, <3>1, WorkerNames DEF AtWork, InRepo, OnDisk, ClonedHasRepo
    <3>4. QED
      BY <1>2, <3>1, <3>2, <3>3, AtWorkFrame
  <2>12. CASE UNCHANGED vars
    BY <1>2, <2>12, ApartFrame DEF vars
  <2>13. QED
    BY <1>2, <2>2, <2>3, <2>4, <2>5, <2>6, <2>7, <2>8, <2>9, <2>10, <2>11, <2>12
    DEF Next, Work
<1>3. QED
  BY <1>1, <1>2, TypeCorrect, PTL DEF Spec

(* However many clones are requested beside the re-fetch, one worker at    *)
(* most is in the directory, and the lock belongs to it (run_clone).       *)
THEOREM OneWorker == Spec => []OneAtWork
<1>1. CloneInv => OneAtWork
  BY DEF CloneInv, AtWork, OneAtWork
<1>2. QED
  BY <1>1, CloneInductive, PTL

(* A project that says "cloned" has its directory, through failed clones,  *)
(* new links, retries and crashes.                                         *)
THEOREM ClonedIsThere == Spec => []ClonedHasRepo
<1>1. CloneInv => ClonedHasRepo
  BY DEF CloneInv, OnDisk
<1>2. QED
  BY <1>1, CloneInductive, PTL

(* Once a run has ended well, no step takes from what the refs reach.      *)
THEOREM GoodCloneIsKept == Spec => GoodCloneStays
<1>1. ASSUME TypeOK, CloneInv, [Next]_vars, fetched # {}
      PROVE  refs \subseteq refs'
  <2> USE DEF row, urls, repo, disk, bounds, locals
  <2>1. head = "present" /\ \A w \in Workers : AtWork(w)
    BY <1>1 DEF CloneInv, OnDisk
  <2>2. ASSUME NEW w \in Workers, Work(w) PROVE refs' = refs
    <3>1. pc[w] \notin {"clone", "cloneDone"}
      BY <1>1, <2>1 DEF AtWork
    <3>2. QED
      BY <2>1, <2>2, <3>1
      DEF Work, LoadProject, GiveUp, NotClonable, TryLock, MarkCloning, StartClone,
          EndClone, DiscardClone, StartFetch, EndFetch, DiscardRejectedFetch,
          RollbackFails, FinishCloned, Fails, RecordError, RecordErrorFails, Release
  <2>3. QED
    BY <1>1, <2>2
    DEF Next, vars, Publish, Mirror, SetProjectGit, CloneProject, Refetch,
        TimePasses, DeleteController, Crash
<1>2. TypeOK /\ CloneInv /\ [Next]_vars => [fetched # {} => refs \subseteq refs']_vars
  BY <1>1
<1>3. QED
  BY <1>2, TypeCorrect, CloneInductive, PTL DEF Spec, GoodCloneStays

-----------------------------------------------------------------------------
(* What only a death of the process breaks (AtWork says that nobody else   *)
(* is in the directory).                                                   *)
HeadInv ==
  /\ head = "present" => refs # {} \/ \E w \in Workers : pc[w] = "clone"
  /\ \A w \in Workers : InRepo(w) => link[w] \in Clonable

(* Everything that git has cloned has a revision at least.                 *)
LEMMA HistoryIsThere ==
  ASSUME TypeOK, NEW u \in Clonable
  PROVE  History(u) # {}
<1>1. u \in Urls /\ published[u] \in 1..MaxRevision
  BY ProjectCloneAssumption DEF TypeOK
<1>2. <<u, 1>> \in Revision
  BY <1>1, ProjectCloneAssumption DEF Revision
<1>3. <<u, 1>> \in History(u)
  BY <1>1, <1>2 DEF History
<1>4. QED
  BY <1>3

LEMMA LinkStep ==
  ASSUME TypeOK, [Next]_vars, \A w \in Workers : InRepo(w) => link[w] \in Clonable
  PROVE  \A w \in Workers : InRepo(w)' => link'[w] \in Clonable
<1> USE DEF TypeOK, row, urls, repo, disk, bounds, locals, Goto, InRepo
<1>1. ASSUME NEW w \in Workers, Work(w)
      PROVE  \A v \in Workers : InRepo(v)' => link'[v] \in Clonable
  <2>1. \A v \in Workers \ {w} : pc'[v] = pc[v] /\ link'[v] = link[v]
    BY <1>1
    DEF Work, LoadProject, GiveUp, NotClonable, TryLock, MarkCloning, StartClone,
        EndClone, DiscardClone, StartFetch, EndFetch, DiscardRejectedFetch,
        RollbackFails, FinishCloned, Fails, RecordError, RecordErrorFails, Release, End
  <2>2. pc'[w] \in {"idle", "loaded"} \/ (InRepo(w) /\ link'[w] = link[w]) \/ link'[w] \in Clonable
    BY <1>1
    DEF Work, LoadProject, GiveUp, NotClonable, TryLock, MarkCloning, StartClone,
        EndClone, DiscardClone, StartFetch, EndFetch, DiscardRejectedFetch,
        RollbackFails, FinishCloned, Fails, RecordError, RecordErrorFails, Release, End
  <2>3. QED
    BY <2>1, <2>2
<1>2. CASE Crash
  BY <1>2 DEF Crash, End
<1>3. CASE Refetch \/ \E w \in Workers : CloneProject(w)
  BY <1>3, WorkerNames DEF Refetch, CloneProject
<1>4. CASE UNCHANGED <<pc, link>>
  BY <1>4
<1>5. QED
  BY <1>1, <1>2, <1>3, <1>4
  DEF Next, vars, Publish, Mirror, SetProjectGit, TimePasses, DeleteController

(* A step of a worker leaves the refs and the directory, or makes a clone, *)
(* or ends it.                                                             *)
LEMMA HeadStep ==
  ASSUME TypeOK, CloneInv, HeadInv, NEW w \in Workers, Work(w)
  PROVE  head' = "present" => refs' # {} \/ \E v \in Workers : pc'[v] = "clone"
<1> USE DEF TypeOK, row, urls, repo, disk, bounds, locals, Goto
<1>1. CASE StartClone(w)
  BY <1>1 DEF StartClone
<1>2. CASE EndClone(w)
  <2>1. link[w] \in Clonable
    BY <1>2 DEF EndClone, HeadInv, InRepo
  <2>2. QED
    BY <1>2, <2>1, HistoryIsThere DEF EndClone
<1>3. CASE DiscardClone(w)
  BY <1>3 DEF DiscardClone, NoRepo
<1>4. CASE ~StartClone(w) /\ ~EndClone(w) /\ ~DiscardClone(w)
  <2>1. /\ UNCHANGED <<head, refs>> /\ pc[w] # "clone"
        /\ \A v \in Workers \ {w} : pc'[v] = pc[v]
    BY <1>4
    DEF Work, LoadProject, GiveUp, NotClonable, TryLock, MarkCloning, StartFetch,
        EndFetch, DiscardRejectedFetch, RollbackFails, FinishCloned, Fails,
        RecordError, RecordErrorFails, Release, End
  <2>2. QED
    BY <2>1 DEF HeadInv
<1>5. QED
  BY <1>1, <1>2, <1>3, <1>4

(* Where no process dies, a project that says "cloned" has a HEAD that     *)
(* resolves, whatever fails, is refused or linked anew (had_valid_clone in *)
(* run_clone in projects/worker.py): what its had_valid_clone takes        *)
(* for a clone is one.  A death in a first clone is what breaks it         *)
(* (ProjectClone_orphan.cfg).                                              *)
THEOREM HeadResolves == Spec /\ [][~Crash]_vars => []ClonedHasHead
<1>1. Init => HeadInv
  BY WorkerNames DEF Init, HeadInv, InRepo
<1>2. ASSUME TypeOK, CloneInv, HeadInv, [Next]_vars, [~Crash]_vars
      PROVE  HeadInv'
  <2>1. \A w \in Workers : InRepo(w)' => link'[w] \in Clonable
    BY <1>2, LinkStep DEF HeadInv
  <2>2. head' = "present" => refs' # {} \/ \E v \in Workers : pc'[v] = "clone"
    <3>1. CASE \E w \in Workers : Work(w)
      BY <1>2, <3>1, HeadStep
    <3>2. CASE Refetch \/ \E w \in Workers : CloneProject(w)
      <4>1. /\ UNCHANGED <<head, refs>>
            /\ \E w \in Workers : pc[w] = "idle" /\ pc' = [pc EXCEPT ![w] = "queued"]
        BY <3>2, WorkerNames DEF Refetch, CloneProject, Goto, disk, repo
      <4>2. QED
        BY <1>2, <4>1 DEF TypeOK, HeadInv
    <3>3. CASE UNCHANGED <<head, refs, pc>>
      BY <1>2, <3>3 DEF HeadInv
    <3>4. QED
      BY <1>2, <3>1, <3>2, <3>3
      DEF Next, vars, disk, repo, Publish, Mirror, SetProjectGit, TimePasses, DeleteController
  <2>3. QED
    BY <2>1, <2>2 DEF HeadInv, InRepo
<1>3. CloneInv /\ HeadInv => ClonedHasHead
  BY DEF CloneInv, OnDisk, ClonedHasRepo, AtWork, HeadInv, ClonedHasHead
<1>4. QED
  BY <1>1, <1>2, <1>3, TypeCorrect, CloneInductive, PTL DEF Spec

(* "Holds every fetched revision" (projects/storage.py): where no fetch is *)
(* rolled back, nothing that a successful run brought is lost, through new *)
(* links, failures and crashes.  The collection that follows a rejected    *)
(* fetch is what breaks it (ProjectClone_gc.cfg).                          *)
THEOREM FetchedIsHeld ==
  Spec /\ [][\A w \in Workers : ~DiscardRejectedFetch(w)]_vars => []HoldsEveryFetchedRevision
<1>1. Init => HoldsEveryFetchedRevision
  BY DEF Init, HoldsEveryFetchedRevision
<1>2. ASSUME CloneInv, HoldsEveryFetchedRevision, [Next]_vars,
             [\A w \in Workers : ~DiscardRejectedFetch(w)]_vars
      PROVE  HoldsEveryFetchedRevision'
  <2> USE DEF row, urls, repo, disk, bounds, locals, HoldsEveryFetchedRevision
  <2>1. (fetched # {} => head = "present") /\ \A w \in Workers : AtWork(w)
    BY <1>2 DEF CloneInv, OnDisk
  <2>2. ASSUME NEW w \in Workers, Work(w), ~DiscardRejectedFetch(w)
        PROVE  HoldsEveryFetchedRevision'
    <3>1. CASE StartClone(w) \/ EndClone(w) \/ DiscardClone(w)
      <4>1. fetched = {} /\ fetched' = fetched
        BY <2>1, <3>1 DEF StartClone, EndClone, DiscardClone, AtWork
      <4>2. QED
        BY <4>1
    <3>2. CASE EndFetch(w) \/ FinishCloned(w)
      BY <1>2, <3>2 DEF EndFetch, FinishCloned
    <3>3. CASE UNCHANGED <<objects, fetched>>
      BY <1>2, <3>3
    <3>4. QED
      BY <2>2, <3>1, <3>2, <3>3
      DEF Work, LoadProject, GiveUp, NotClonable, TryLock, MarkCloning, StartFetch,
          RollbackFails, Fails, RecordError, RecordErrorFails, Release
  <2>3. CASE UNCHANGED <<objects, fetched>>
    BY <1>2, <2>3
  <2>4. QED
    BY <1>2, <2>2, <2>3
    DEF Next, vars, Publish, Mirror, SetProjectGit, CloneProject, Refetch,
        TimePasses, DeleteController, Crash
<1>3. QED
  BY <1>1, <1>2, CloneInductive, PTL DEF Spec
=============================================================================
