---------------------------- MODULE ProjectClone ----------------------------
(***************************************************************************)
(* One project's git source: the bare clone on disk and the status in its  *)
(* row, as run_clone (projects/worker.py) and clone_or_fetch               *)
(* (projects/git.py) change them, with the routes that link a source and   *)
(* ask for a clone (api/projects.py), the AWX mirror that rewrites scm_url *)
(* (awx/projects_sync.py) and the periodic re-fetch.                       *)
(*                                                                         *)
(* A step is what runs up to an await at which others can run: a commit, a *)
(* git process.  A worker keeps the ORM instance it loaded; an attribute   *)
(* set to the value the instance has is not written.                       *)
(*                                                                         *)
(* git is modelled as it behaves on a clone made with --bare, which has no *)
(* fetch refspec: a fetch brings objects and moves no ref; gc --prune=now  *)
(* keeps what the refs reach.  A clone directory has its HEAD file, and    *)
(* its origin, before it has an object.                                    *)
(*                                                                         *)
(* Abstracted: credentials, audit rows, sizes (a verdict), branch names;   *)
(* a route's or the mirror's read and commit are one step.                 *)
(***************************************************************************)
EXTENDS FiniteSets, Integers

CONSTANTS
  Urls,          \* sources a project may have
  Clonable,      \* those that are https URLs
  Mirrored,      \* those that AWX may name at first
  NoUrl,         \* no override, no source
  Requested,     \* background tasks of POST /clone
  Job,           \* the re-fetch job (max_instances=1)
  Nobody,        \* no holder of the lock
  MaxRevision,   \* revisions a source publishes
  MaxMoves,      \* bound: new revisions, links, mirrored URLs, deletion
  MaxMishaps     \* bound: database errors and deaths of the process

ASSUME ProjectCloneAssumption ==
  /\ Clonable \cup Mirrored \subseteq Urls /\ NoUrl \notin Urls
  /\ Job \notin Requested /\ Nobody \notin Requested \cup {Job}
  /\ MaxRevision \in Nat \ {0}
  /\ {MaxMoves, MaxMishaps} \subseteq Nat

Workers  == Requested \cup {Job}
Statuses == {"unlinked", "pending", "cloning", "cloned", "error"}
PcState  == {"idle", "queued", "loaded", "locked", "git", "clone", "cloneDone",
             "fetch", "fetchDone", "failed", "release"}
Revision == Urls \X (1..MaxRevision)

VARIABLES
  status,     \* projects.status ("deleted": the row is gone)
  note,       \* projects.last_clone_error: "clear" or "error"
  age,        \* "old": updated_at is _STALE_CLONE_MINUTES ago, or "fresh"
  scm,        \* projects.scm_url
  override,   \* projects.git_url_override
  head,       \* the clone directory, seen by its HEAD file: absent, present
  origin,     \* its remote's URL
  refs,       \* revisions that its refs reach
  objects,    \* revisions that it has
  published,  \* what each source has published
  fetched,    \* (history) revisions that a successful run brought
  lock,       \* the project's session-level advisory lock
  pc,         \* where each worker is
  loaded,     \* its ORM instance: status and note
  link,       \* its effective_url
  had,        \* workers with had_valid_clone
  oldUrl,     \* clone_or_fetch's old_url
  moves, mishaps   \* bounds: how many there were

row    == <<status, note, age>>
urls   == <<scm, override>>
repo   == <<head, origin, refs, objects>>
disk   == <<repo, fetched>>
bounds == <<moves, mishaps>>
locals == <<loaded, link, had, oldUrl>>
vars   == <<row, urls, disk, published, lock, pc, locals, bounds>>

Exists    == status # "deleted"
Effective == IF override = NoUrl THEN scm ELSE override

(* What a flush leaves in a column: an unchanged attribute is not written. *)
Written(db, orm, new) == IF new = orm THEN db ELSE new

NoRepo == head' = "absent" /\ origin' = NoUrl /\ refs' = {} /\ objects' = {}

(* The history of a source, as far as it is published.                     *)
History(u) == {r \in Revision : r[1] = u /\ r[2] <= published[u]}

(* A new project's instance.                                               *)
Fresh == [status |-> "unlinked", note |-> "clear"]

Init ==
  /\ status = "unlinked" /\ note = "clear" /\ age = "fresh"
  /\ scm \in Mirrored /\ override = NoUrl
  /\ head = "absent" /\ origin = NoUrl /\ refs = {} /\ objects = {} /\ fetched = {}
  /\ published = [u \in Urls |-> 1]
  /\ lock = Nobody /\ pc = [w \in Workers |-> "idle"]
  /\ loaded = [w \in Workers |-> Fresh]
  /\ link = [w \in Workers |-> NoUrl] /\ had = {}
  /\ oldUrl = [w \in Workers |-> NoUrl]
  /\ moves = 0 /\ mishaps = 0

Goto(w, p) == pc' = [pc EXCEPT ![w] = p]

(* The workers of W end, and what they had loaded goes with them.          *)
End(W) ==
  /\ pc' = [w \in Workers |-> IF w \in W THEN "idle" ELSE pc[w]]
  /\ loaded' = [w \in Workers |-> IF w \in W THEN Fresh ELSE loaded[w]]
  /\ link' = [w \in Workers |-> IF w \in W THEN NoUrl ELSE link[w]]
  /\ oldUrl' = [w \in Workers |-> IF w \in W THEN NoUrl ELSE oldUrl[w]]
  /\ had' = had \ W

Move   == moves < MaxMoves /\ moves' = moves + 1 /\ UNCHANGED mishaps
Mishap == mishaps < MaxMishaps /\ mishaps' = mishaps + 1 /\ UNCHANGED moves

-----------------------------------------------------------------------------
(* What happens around the workers.                                        *)

Publish(u) ==
  /\ published[u] < MaxRevision /\ Move
  /\ published' = [published EXCEPT ![u] = @ + 1]
  /\ UNCHANGED <<row, urls, disk, lock, pc, locals>>

(* sync_projects writes what it mirrors, and updated_at with it, never the *)
(* status.                                                                 *)
Mirror(u) ==
  /\ Exists /\ u # scm /\ Move
  /\ scm' = u /\ age' = "fresh"
  /\ UNCHANGED <<status, note, override, disk, published, lock, pc, locals>>

SetProjectGit(u) ==
  /\ Exists /\ Move
  /\ override' = u /\ status' = "pending"
  /\ age' = IF status = "pending" /\ u = override THEN age ELSE "fresh"
  /\ UNCHANGED <<note, scm, disk, published, lock, pc, locals>>

(* clone_project commits "pending" and leaves the rest to a task.          *)
CloneProject(w) ==
  /\ w \in Requested /\ pc[w] = "idle"
  /\ Exists /\ Effective \in Clonable
  /\ status' = "pending" /\ age' = IF status = "pending" THEN age ELSE "fresh"
  /\ Goto(w, "queued")
  /\ UNCHANGED <<note, urls, disk, published, lock, locals, bounds>>

(* Mutant: only what was cloned before is fetched again.                   *)
ToRefetchClonedOnly == status = "cloned"

ToRefetch == status = "cloned" \/ (status \in {"pending", "cloning"} /\ age = "old")

Refetch ==
  /\ pc[Job] = "idle" /\ ToRefetch
  /\ Goto(Job, "queued")
  /\ UNCHANGED <<row, urls, disk, published, lock, locals, bounds>>

TimePasses ==
  /\ age = "fresh" /\ status \in {"pending", "cloning"}
  /\ age' = "old"
  /\ UNCHANGED <<status, note, urls, disk, published, lock, pc, locals, bounds>>

(* The row goes with its controller; the directory stays.                  *)
DeleteController ==
  /\ Exists /\ Move /\ status' = "deleted"
  /\ UNCHANGED <<note, age, urls, disk, published, lock, pc, locals>>

-----------------------------------------------------------------------------
(* run_clone up to git.                                                    *)

LoadProject(w) ==
  /\ pc[w] = "queued" /\ Exists
  /\ loaded' = [loaded EXCEPT ![w] = [status |-> status, note |-> note]]
  /\ link' = [link EXCEPT ![w] = Effective]
  /\ Goto(w, "loaded")
  /\ UNCHANGED <<row, urls, disk, published, lock, had, oldUrl, bounds>>

(* No row, the lock held by another, an exception before the lock: the     *)
(* worker ends and leaves the status to whom it may concern.               *)
GiveUp(w) ==
  /\ \/ pc[w] = "queued" /\ ~Exists
     \/ pc[w] = "loaded" /\ link[w] \in Clonable /\ lock # Nobody
     \/ pc[w] = "loaded" /\ link[w] \notin Clonable /\ ~Exists
  /\ End({w})
  /\ UNCHANGED <<row, urls, disk, published, lock, bounds>>

(* "Short-circuits BEFORE acquiring the lock" a source that git cannot     *)
(* clone.                                                                  *)
NotClonable(w) ==
  /\ pc[w] = "loaded" /\ link[w] \notin Clonable /\ Exists
  /\ status' = Written(status, loaded[w].status, "error")
  /\ note' = Written(note, loaded[w].note, "error")
  /\ age' = "fresh"
  /\ End({w})
  /\ UNCHANGED <<urls, disk, published, lock, bounds>>

(* Mutant: the answer of pg_try_advisory_lock is not looked at.            *)
TryLockIgnored(w) ==
  /\ pc[w] = "loaded" /\ link[w] \in Clonable
  /\ lock' = w
  /\ had' = IF head = "present" THEN had \cup {w} ELSE had \ {w}
  /\ Goto(w, "locked")
  /\ UNCHANGED <<row, urls, disk, published, loaded, link, oldUrl, bounds>>

TryLock(w) ==
  /\ pc[w] = "loaded" /\ link[w] \in Clonable /\ lock = Nobody
  /\ lock' = w
  /\ had' = IF head = "present" THEN had \cup {w} ELSE had \ {w}
  /\ Goto(w, "locked")
  /\ UNCHANGED <<row, urls, disk, published, loaded, link, oldUrl, bounds>>

(* A row that is gone is a StaleDataError, where there is something to     *)
(* write: see Fails.                                                       *)
Changes(w) == loaded[w] # [status |-> "cloning", note |-> "clear"]

MarkCloning(w) ==
  /\ pc[w] = "locked" /\ (Exists \/ ~Changes(w))
  /\ IF Exists
     THEN /\ status' = Written(status, loaded[w].status, "cloning")
          /\ note' = Written(note, loaded[w].note, "clear")
          /\ age' = IF Changes(w) THEN "fresh" ELSE age
     ELSE UNCHANGED row
  /\ loaded' = [loaded EXCEPT ![w] = [status |-> "cloning", note |-> "clear"]]
  /\ Goto(w, "git")
  /\ UNCHANGED <<urls, disk, published, lock, link, had, oldUrl, bounds>>

-----------------------------------------------------------------------------
(* clone_or_fetch: the first clone ...                                     *)

StartClone(w) ==
  /\ pc[w] = "git" /\ head = "absent"
  /\ head' = "present" /\ origin' = link[w] /\ refs' = {} /\ objects' = {}
  /\ Goto(w, "clone")
  /\ UNCHANGED <<row, urls, fetched, published, lock, locals, bounds>>

EndClone(w) ==
  /\ pc[w] = "clone"
  /\ refs' = History(link[w]) /\ objects' = History(link[w])
  /\ UNCHANGED <<head, origin>>
  /\ Goto(w, "cloneDone")
  /\ UNCHANGED <<row, urls, fetched, published, lock, locals, bounds>>

(* rmtree after a git error or an overage: nothing of it is worth keeping. *)
DiscardClone(w) ==
  /\ pc[w] \in {"clone", "cloneDone"}
  /\ NoRepo
  /\ Goto(w, "failed")
  /\ UNCHANGED <<row, urls, fetched, published, lock, locals, bounds>>

(* ... and a fetch into the clone that is there.                           *)

(* Mutant: the fetch goes to the origin that the clone was made from.      *)
StartFetchOldUrl(w) ==
  /\ pc[w] = "git" /\ head = "present"
  /\ oldUrl' = [oldUrl EXCEPT ![w] = origin]
  /\ Goto(w, "fetch")
  /\ UNCHANGED <<row, urls, disk, published, lock, loaded, link, had, bounds>>

StartFetch(w) ==
  /\ pc[w] = "git" /\ head = "present"
  /\ oldUrl' = [oldUrl EXCEPT ![w] = origin]
  /\ origin' = link[w] /\ UNCHANGED <<head, refs, objects>>
  /\ Goto(w, "fetch")
  /\ UNCHANGED <<row, urls, fetched, published, lock, loaded, link, had, bounds>>

EndFetch(w) ==
  /\ pc[w] = "fetch"
  /\ objects' = objects \cup History(origin) /\ UNCHANGED <<head, origin, refs>>
  /\ Goto(w, "fetchDone")
  /\ UNCHANGED <<row, urls, fetched, published, lock, locals, bounds>>

(* Mutant: a fetch that is refused takes the clone with it.                *)
DiscardOversized(w) ==
  /\ pc[w] \in {"fetch", "fetchDone"}
  /\ NoRepo
  /\ Goto(w, "failed")
  /\ UNCHANGED <<row, urls, fetched, published, lock, locals, bounds>>

(* A git error or an overage: the refs, the origin, and then gc.           *)
DiscardRejectedFetch(w) ==
  /\ pc[w] \in {"fetch", "fetchDone"}
  /\ origin' = oldUrl[w] /\ objects' = refs /\ UNCHANGED <<head, refs>>
  /\ Goto(w, "failed")
  /\ UNCHANGED <<row, urls, fetched, published, lock, locals, bounds>>

(* "fetch rollback failed": a git error on the way.                        *)
RollbackFails(w) ==
  /\ pc[w] \in {"fetch", "fetchDone"}
  /\ origin' \in {origin, oldUrl[w]} /\ UNCHANGED <<head, refs, objects>>
  /\ Goto(w, "failed")
  /\ UNCHANGED <<row, urls, fetched, published, lock, locals, bounds>>

-----------------------------------------------------------------------------
(* run_clone after git.                                                    *)

(* The note was set to None before, and is not written again.              *)
FinishCloned(w) ==
  /\ pc[w] \in {"cloneDone", "fetchDone"} /\ Exists
  /\ status' = "cloned" /\ age' = "fresh"
  /\ fetched' = fetched \cup objects
  /\ Goto(w, "release")
  /\ UNCHANGED <<note, urls, repo, published, lock, locals, bounds>>

(* An undecryptable secret, a git that does not start, a row that is gone, *)
(* an error of the database.                                               *)
Fails(w) ==
  /\ \/ pc[w] = "git" /\ UNCHANGED bounds
     \/ /\ ~Exists /\ UNCHANGED bounds
        /\ pc[w] \in {"cloneDone", "fetchDone"} \/ (pc[w] = "locked" /\ Changes(w))
     \/ pc[w] \in {"locked", "cloneDone", "fetchDone"} /\ Mishap
  /\ Goto(w, "failed")
  /\ UNCHANGED <<row, urls, disk, published, lock, locals>>

(* Mutant: the handler says "cloned" whatever there was before.            *)
RecordCloned(w) ==
  /\ pc[w] = "failed" /\ Exists
  /\ status' = "cloned" /\ note' = "error" /\ age' = "fresh"
  /\ Goto(w, "release")
  /\ UNCHANGED <<urls, disk, published, lock, locals, bounds>>

RecordError(w) ==
  /\ pc[w] = "failed" /\ Exists
  /\ status' = IF w \in had THEN "cloned" ELSE "error"
  /\ note' = "error" /\ age' = "fresh"
  /\ Goto(w, "release")
  /\ UNCHANGED <<urls, disk, published, lock, locals, bounds>>

RecordErrorFails(w) ==
  /\ pc[w] = "failed"
  /\ \/ ~Exists /\ UNCHANGED bounds
     \/ Mishap
  /\ Goto(w, "release")
  /\ UNCHANGED <<row, urls, disk, published, lock, locals>>

Release(w) ==
  /\ pc[w] = "release"
  /\ lock' = Nobody
  /\ End({w})
  /\ UNCHANGED <<row, urls, disk, published, bounds>>

(* The process dies, with its git processes and its database sessions.     *)
Crash ==
  /\ Mishap
  /\ End(Workers) /\ lock' = Nobody
  /\ UNCHANGED <<row, urls, disk, published>>

Work(w) ==
  \/ LoadProject(w) \/ GiveUp(w) \/ NotClonable(w) \/ TryLock(w) \/ MarkCloning(w)
  \/ StartClone(w) \/ EndClone(w) \/ DiscardClone(w)
  \/ StartFetch(w) \/ EndFetch(w) \/ DiscardRejectedFetch(w) \/ RollbackFails(w)
  \/ FinishCloned(w) \/ Fails(w) \/ RecordError(w) \/ RecordErrorFails(w)
  \/ Release(w)

Next ==
  \/ \E u \in Urls : Publish(u) \/ Mirror(u)
  \/ \E u \in Clonable \cup {NoUrl} : SetProjectGit(u)
  \/ \E w \in Workers : CloneProject(w) \/ Work(w)
  \/ Refetch \/ TimePasses \/ DeleteController \/ Crash

Spec == Init /\ [][Next]_vars

(* Every worker goes on, time passes, and the job fires while there is     *)
(* something for it: nobody has to ask for a clone.                        *)
FairSpec ==
  /\ Spec
  /\ \A w \in Workers : WF_vars(Work(w))
  /\ WF_vars(Refetch) /\ WF_vars(TimePasses)

-----------------------------------------------------------------------------
(* Properties.                                                             *)

(* Every variable stays in its range.                                      *)
TypeOK ==
  /\ status \in Statuses \cup {"deleted"} /\ note \in {"clear", "error"}
  /\ age \in {"fresh", "old"} /\ scm \in Urls /\ override \in Clonable \cup {NoUrl}
  /\ head \in {"absent", "present"} /\ origin \in Urls \cup {NoUrl}
  /\ refs \subseteq Revision /\ objects \subseteq Revision /\ fetched \subseteq Revision
  /\ published \in [Urls -> 1..MaxRevision]
  /\ lock \in Workers \cup {Nobody}
  /\ pc \in [Workers -> PcState]
  /\ loaded \in [Workers -> [status : Statuses, note : {"clear", "error"}]]
  /\ link \in [Workers -> Urls \cup {NoUrl}] /\ oldUrl \in [Workers -> Urls \cup {NoUrl}]
  /\ had \subseteq Workers
  /\ moves \in 0..MaxMoves /\ mishaps \in 0..MaxMishaps

InRepo(w) == pc[w] \notin {"idle", "queued", "loaded"}

(* "The per-project advisory lock dedupes": of a requested clone, another   *)
(* one and the re-fetch, one at most is at work on the directory, and the   *)
(* lock is never left behind, whichever error path it takes.               *)
OneAtWork == \A w \in Workers : InRepo(w) <=> lock = w

(* Browsing needs the status and the directory: a project that says        *)
(* "cloned" has a clone, though a first clone that fails removes its       *)
(* directory while links, requests and crashes go on around it.            *)
ClonedHasRepo == status = "cloned" => head = "present"

(* "Do NOT destroy a previously-good clone" (GIT2): what the refs of the   *)
(* clone reach stays, through failed and refused fetches, other sources,   *)
(* crashes and retries, once a run has ended well.                         *)
GoodCloneStays == [][fetched # {} => refs \subseteq refs']_vars

(* "Also retry projects left in pending/cloning by a crashed worker"       *)
(* (REL1): no project stays in them.                                       *)
PendingSettles == status \in {"pending", "cloning"} ~> status \notin {"pending", "cloning"}

(* An edited URL would "be silently ignored" (GIT1): a clone of another    *)
(* source than the link's becomes one of the link's, or the project shows  *)
(* an error.                                                               *)
LinkIsFollowed ==
  (status = "cloned" /\ note = "clear" /\ origin # Effective)
    ~> (origin = Effective \/ note = "error" \/ status \in {"error", "deleted"})

(* What the code says and the runs refute.  The clone "holds every fetched *)
(* revision" (projects/storage.py).                                        *)
HoldsEveryFetchedRevision == fetched \subseteq objects

(* A clone that is there (had_valid_clone) and says "cloned" has a HEAD    *)
(* that resolves, after the retry of a crashed worker's clone too.         *)
ClonedHasHead == status = "cloned" => refs # {}
=============================================================================
