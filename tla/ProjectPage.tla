------------------------------ MODULE ProjectPage ------------------------------
(***************************************************************************)
(* The page of one project (frontend/src/projects, api/projects.ts): an    *)
(* administrator links its git source, starts clones and uploads files,    *)
(* and browses the source, while the server clones in the background       *)
(* (ProjectClone, of which this module keeps what the page can tell).      *)
(*                                                                         *)
(* The page polls while the status that was last read is of a clone under  *)
(* way; the tree at HEAD is asked for only when that status is "cloned".   *)
(*                                                                         *)
(* Abstracted: which source is linked and cloned (see ProjectClone),       *)
(* pinned revisions, directories below the root and the viewer; the list   *)
(* of projects and leaving for it; the form's fields, its opening and      *)
(* closing; what is fetched when the network is back.  The page has one    *)
(* request of a form at a time.                                            *)
(***************************************************************************)
EXTENDS Integers

CONSTANTS
  None,           \* null: no request, no file browser
  Undefined,      \* no data yet
  Refused,        \* 409: the source cannot be browsed now
  MaxEvents       \* bound: what users, other pages and failures do

ASSUME ProjectPageAssumption == MaxEvents \in Nat /\ Undefined # Refused

VARIABLES
  srv,            \* the project on the server
  query,          \* the cache: "detail" and the trees at "HEAD" and of "uploads"
  gitRef,         \* FileBrowser's ref, None if it is not mounted
  triggered,      \* cloneTriggered
  post,           \* the request of a form
  mine,           \* uploads that this client knows of
  blind,          \* since a clone was last seen under way others, the network or the
                  \* user's own choice of a view came between
  events          \* counts what MaxEvents bounds

page == <<gitRef, triggered>>
vars == <<srv, query, page, post, mine, blind, events>>

Refs   == {"HEAD", "uploads"}
Keys   == Refs \cup {"detail"}
Busy   == {"pending", "cloning"}
Forms  == {"git", "clone", "refresh", "upload"}

Counted == events < MaxEvents /\ events' = events + 1

(***************************************************************************)
(* The server                                                              *)
(***************************************************************************)
Accepts(do) ==
  CASE do \in {"git", "clone"} -> [srv EXCEPT !.status = "pending"]
    [] do = "upload"           -> [srv EXCEPT !.uploads = @ + 1]
    [] do = "refresh"          -> srv

GetTree(ref) ==
  IF ref = "uploads" THEN srv.uploads
  ELSE IF srv.status = "cloned" THEN "source" ELSE Refused

Truth(k) == IF k = "detail" THEN srv.status ELSE GetTree(k)

\* The background task of a request, or the retry of what was left pending.
WorkerStarts ==
  /\ srv.status \in Busy /\ ~srv.working
  /\ srv' = [srv EXCEPT !.status = "cloning", !.working = TRUE]
  /\ UNCHANGED <<query, page, post, mine, blind, events>>

WorkerEnds ==
  /\ srv.working
  /\ \/ srv' = [srv EXCEPT !.status = "cloned", !.content = TRUE, !.working = FALSE]
     \/ srv' = [srv EXCEPT !.status = IF srv.content THEN "cloned" ELSE "error", !.working = FALSE]
  /\ UNCHANGED <<query, page, post, mine, blind, events>>

\* Another administrator's request, or the regular fetch of what is cloned.
Elsewhere ==
  /\ Counted
  /\ \/ \E do \in Forms : (do = "clone" => srv.status # "unlinked") /\ srv' = Accepts(do)
     \/ /\ srv.status = "cloned" /\ ~srv.working
        /\ srv' = [srv EXCEPT !.status = "cloning", !.working = TRUE]
  /\ blind' = TRUE
  /\ UNCHANGED <<query, page, post, mine>>

(***************************************************************************)
(* The cache                                                               *)
(***************************************************************************)
\* early: the request under way for a tree, or last answered, was made before the tree
\* was left, or invalidated.
Unasked == [data |-> Undefined, is |-> "idle", read |-> Undefined, failed |-> FALSE,
            stale |-> FALSE, early |-> FALSE]

Ask(q) ==
  IF q.is # "idle" THEN q
  ELSE [q EXCEPT !.is = "asked", !.early = FALSE, !.failed = @ /\ q.data # Undefined]

\* Mutant: only the status of a running clone is polled.
PollsRunning(status) == status = "cloning"

Polls(status) == status \in Busy

\* A component that is shown with this ref and status observes the query.
Enabled(k, ref, status) ==
  k = "detail" \/ (k = ref /\ (k = "uploads" \/ status = "cloned"))

Active(k) == Enabled(k, gitRef, query.detail.data)

\* Refetched where it is observed (data that are there cancel what is under way).
Invalidated(k) ==
  LET q == [query[k] EXCEPT !.stale = k \in Refs, !.early = k \in Refs /\ query[k].is # "idle"]
  IN IF Active(k) THEN Ask([q EXCEPT !.is = IF q.data = Undefined THEN @ ELSE "idle"]) ELSE q

\* The page is rendered: what is observed anew and missing or stale is requested.
Render(ref, cache) ==
  /\ gitRef' = ref
  /\ query' = [k \in Keys |->
       LET q == cache[k]  shows == Enabled(k, ref, cache.detail.data)
       IN CASE shows /\ ~Active(k) /\ (q.data = Undefined \/ q.stale) -> Ask(q)
            [] ~shows /\ Active(k) -> [q EXCEPT !.early = @ \/ (k \in Refs /\ q.is # "idle")]
            [] OTHER -> q]

\* The first option of the file browser.
FirstRef(status) ==
  CASE status = Undefined -> None [] status = "cloned" -> "HEAD" [] OTHER -> "uploads"

Init ==
  /\ srv \in [status : {"unlinked", "pending", "cloned"}, content : BOOLEAN, working : {FALSE}, uploads : {0}]
  /\ srv.status = "cloned" => srv.content
  /\ srv.status = "unlinked" => ~srv.content
  /\ query = [k \in Keys |-> IF k = "detail" THEN Ask(Unasked) ELSE Unasked]
  /\ gitRef = None /\ triggered = FALSE
  /\ post = None /\ mine = 0 /\ blind = FALSE /\ events = 0

Read(k) ==
  /\ query[k].is = "asked"
  /\ query' = [query EXCEPT ![k].is = "read", ![k].read = Truth(k)]
  /\ UNCHANGED <<srv, page, post, mine, blind, events>>

Answered(q) ==
  IF q.read = Refused THEN [q EXCEPT !.is = "idle", !.read = Undefined, !.failed = TRUE, !.stale = q.data # Undefined]
  ELSE [Unasked EXCEPT !.data = q.read, !.early = q.early]

AnswerTree(k) ==
  /\ query[k].is = "read"
  /\ query' = [query EXCEPT ![k] = Answered(@)]
  /\ UNCHANGED <<srv, page, post, mine, blind, events>>

\* Mutant: the browser stays where it was.
NextRefKept(old, new) == IF gitRef = None THEN FirstRef(new) ELSE gitRef

\* "When a clone finishes, jump to the default branch".
NextRef(old, new) ==
  CASE gitRef = None -> FirstRef(new)
    [] gitRef # None -> IF old # "cloned" /\ new = "cloned" THEN "HEAD" ELSE gitRef

\* A status other than the last one that ends a clone ends the one from here.
AnswerDetail ==
  LET new == query.detail.read  old == query.detail.data
  IN /\ query.detail.is = "read"
     /\ Render(NextRef(old, new), [query EXCEPT !.detail = Answered(@)])
     /\ triggered' = (triggered /\ ~(new # old /\ new \in {"cloned", "error"}))
     /\ blind' = (blind /\ new \notin Busy)
     /\ UNCHANGED <<srv, post, mine, events>>

\* No retry; data that were there are kept, and a status is shown on.
FetchFails(k) ==
  /\ Counted /\ query[k].is # "idle"
  /\ query' = [query EXCEPT ![k].is = "idle", ![k].read = Undefined, ![k].failed = k \in Refs,
                            ![k].stale = k \in Refs /\ query[k].data # Undefined]
  /\ blind' = TRUE
  /\ UNCHANGED <<srv, page, post, mine>>

Poll ==
  /\ query.detail.is = "idle" /\ Polls(query.detail.data)
  /\ query' = [query EXCEPT !.detail = Ask(@)]
  /\ UNCHANGED <<srv, page, post, mine, blind, events>>

\* Half a minute has passed since the answers.
Ages ==
  /\ query' = [k \in Keys |-> [query[k] EXCEPT !.stale = k \in Refs /\ query[k].data # Undefined]]
  /\ query' # query
  /\ UNCHANGED <<srv, page, post, mine, blind, events>>

(***************************************************************************)
(* The user                                                                *)
(***************************************************************************)
\* HEAD is an option while the source is cloned.  Bound: not while the tree is fetched.
PickRef(ref) ==
  /\ Counted /\ gitRef \notin {None, ref} /\ query[gitRef].is = "idle"
  /\ ref = "HEAD" => query.detail.data = "cloned"
  /\ Render(ref, query)
  /\ blind' = TRUE
  /\ UNCHANGED <<srv, triggered, post, mine>>

CloneInProgress ==
  \/ query.detail.data = "cloning"
  \/ triggered /\ query.detail.data = "pending"

Request(do) == [do |-> do, is |-> "sent", ok |-> FALSE]

Send(do) ==
  /\ Counted /\ gitRef # None /\ post = None
  /\ post' = Request(do)
  /\ UNCHANGED <<srv, query, gitRef, mine, blind>>

\* The form that links a git source, whatever is going on.
SaveGit == Send("git") /\ UNCHANGED triggered

UploadFiles == Send("upload") /\ UNCHANGED triggered

RefreshMetadata == Send("refresh") /\ UNCHANGED triggered

\* "Refresh source", hidden until a source is linked.
RefreshSource ==
  /\ query.detail.data # "unlinked" /\ ~CloneInProgress
  /\ Send("clone")
  /\ triggered' = TRUE

(***************************************************************************)
(* The forms' requests                                                     *)
(***************************************************************************)
Serve ==
  /\ post # None /\ post.is = "sent"
  /\ srv' = Accepts(post.do)
  /\ post' = [post EXCEPT !.is = "served", !.ok = TRUE]
  /\ UNCHANGED <<query, page, mine, blind, events>>

\* Refused, or lost on one of its ways.
RequestFails ==
  /\ Counted /\ post # None
  /\ post.is = "sent" \/ post.ok
  /\ post' = [post EXCEPT !.is = "served", !.ok = FALSE]
  /\ blind' = TRUE
  /\ UNCHANGED <<srv, query, page, mine>>

Settles(do) ==
  /\ post # None /\ post.is = "served" /\ post.ok /\ post.do = do
  /\ UNCHANGED <<srv, gitRef, blind, events>>

ErrorShown ==
  /\ post # None /\ post.is = "served" /\ ~post.ok
  /\ post' = None
  /\ triggered' = (triggered /\ post.do # "clone")
  /\ UNCHANGED <<srv, query, gitRef, mine, blind, events>>

\* Saving starts the clone.
GitSaved ==
  /\ Settles("git")
  /\ query' = [query EXCEPT !.detail = Invalidated("detail")]
  /\ triggered' = TRUE
  /\ post' = Request("clone")
  /\ UNCHANGED mine

CloneStarted ==
  /\ Settles("clone")
  /\ query' = [query EXCEPT !.detail = Invalidated("detail")]
  /\ post' = None
  /\ UNCHANGED <<triggered, mine>>

MirrorRefreshed ==
  /\ Settles("refresh")
  /\ query' = [k \in Keys |-> Invalidated(k)]
  /\ post' = None
  /\ UNCHANGED <<triggered, mine>>

\* Mutant: the detail is refreshed and the tree is not.
UploadedUnseen ==
  /\ Settles("upload")
  /\ query' = [query EXCEPT !.detail = Invalidated("detail")]
  /\ post' = None /\ mine' = mine + 1
  /\ UNCHANGED triggered

Uploaded ==
  /\ Settles("upload")
  /\ query' = [query EXCEPT !.uploads = Invalidated("uploads")]
  /\ post' = None /\ mine' = mine + 1
  /\ UNCHANGED triggered

User ==
  \/ \E ref \in Refs : PickRef(ref)
  \/ SaveGit \/ UploadFiles \/ RefreshMetadata \/ RefreshSource

Settle == ErrorShown \/ GitSaved \/ CloneStarted \/ MirrorRefreshed \/ Uploaded

Network ==
  \/ \E k \in Keys : Read(k) \/ FetchFails(k)
  \/ \E k \in Refs : AnswerTree(k)
  \/ AnswerDetail \/ Poll \/ Ages \/ Serve \/ RequestFails

Next == User \/ Settle \/ Network \/ WorkerStarts \/ WorkerEnds \/ Elsewhere

Spec == Init /\ [][Next]_vars

\* Requests are answered, the page polls, git ends within its timeout, and what is
\* left pending is retried by the regular job.
FairSpec ==
  /\ Spec
  /\ \A k \in Keys : WF_vars(Read(k))
  /\ \A k \in Refs : WF_vars(AnswerTree(k))
  /\ WF_vars(AnswerDetail) /\ WF_vars(Poll) /\ WF_vars(WorkerStarts) /\ WF_vars(WorkerEnds)

(***************************************************************************)
(* Properties                                                              *)
(***************************************************************************)
Statuses == Busy \cup {"unlinked", "cloned", "error"}
Answers  == Nat \cup Statuses \cup {"source", Refused, Undefined}
Query    == [data : Answers, is : {"idle", "asked", "read"}, read : Answers,
             failed : BOOLEAN, stale : BOOLEAN, early : BOOLEAN]

\* Every variable of the page and of its server stays in its range.
TypeOK ==
  /\ srv \in [status : Statuses, content : BOOLEAN, working : BOOLEAN, uploads : Nat]
  /\ query \in [Keys -> Query]
  /\ gitRef \in Refs \cup {None} /\ triggered \in BOOLEAN
  /\ post \in [do : Forms, is : {"sent", "served"}, ok : BOOLEAN] \cup {None}
  /\ mine \in Nat /\ blind \in BOOLEAN /\ events \in 0..MaxEvents

\* A page that stays open learns the end of a clone it shows, pending or running,
\* whoever started it and whichever requests were lost on the way ("poll while any
\* project is mid-clone so the status badge converges on its own").
EndIsSeen == query.detail.data \in Busy ~> query.detail.data \notin Busy

\* The source appears by itself when the clone that is shown ends, unless it ended in
\* an error, the user goes on to something else, others or the network come between,
\* or a request of before is still out ("so the source tree appears automatically").
SourceAppears ==
  (query.detail.data \in Busy /\ post = None /\ ~blind)
    ~> \/ post # None \/ blind \/ query.HEAD.early \/ query.detail.data = "error"
       \/ /\ gitRef = "HEAD" /\ query.detail.data = "cloned"
          /\ query.HEAD.data # Undefined /\ ~query.HEAD.failed

\* The tree of uploads that is shown, and not about to be fetched, has the files that
\* were uploaded whatever was under way when they were; what was asked for
\* early, and could not be cancelled, is the exception.
UploadsAreShown ==
  /\ gitRef = "uploads" /\ query.uploads.is = "idle" /\ ~query.uploads.early
  /\ query.uploads.data # Undefined /\ ~query.uploads.failed
  => query.uploads.data >= mine

\* "A disabled query fetches fresh the moment it becomes enabled".
EnabledIsFresh ==
  [][gitRef = "HEAD" /\ query.detail.data # "cloned" /\ query.detail.data' = "cloned"
     => query.HEAD.is' # "idle"]_vars
=============================================================================
