--------------------------- MODULE ControllersPage ---------------------------
(***************************************************************************)
(* The web client's view of the AWX controllers: the list with its polling *)
(* (frontend/src/api/controllers.ts), the page that edits them             *)
(* (settings/AwxControllers.tsx), and the "Sync now" buttons of the        *)
(* dashboard (dashboard/SyncNowChip.tsx, SourceChips.tsx, RunsList.tsx).   *)
(*                                                                         *)
(* A step is an event of the page with the render and the effects that     *)
(* follow it, or a step of the server.  A request for the list is sent,    *)
(* read by the server and answered in three steps, a sync is accepted      *)
(* before its background task starts and its answer may come after.        *)
(*                                                                         *)
(* Abstracted: of a controller the three fields a connection test uses;    *)
(* of its status whether it is running; names, modes and assignments.  The *)
(* server's side of a sync is in AwxSync.  One administrator.              *)
(***************************************************************************)
EXTENDS Integers, FiniteSets

CONSTANTS
  Controllers,    \* ids
  Urls, Tokens,   \* base_url (each of its own origin), token
  Blank,          \* an empty field
  None,           \* null or undefined
  Starts,         \* bound: the sets of controllers that there may be at first
  MaxEvents       \* bound: clicks, edits, scheduled syncs and failed fetches

VARIABLES
  rows,           \* the controllers that exist, with their connection
  sync,           \* of each: idle or running
  queue,          \* and the tasks that were accepted (202) and have not started
  list,           \* query data: what the page shows of the controllers
  fetch,          \* request for the list: none, asked, or the answer to come
  here,           \* a component that watches the list is mounted
  posts,          \* syncs asked for: of a controller, accepted or not yet
  busy,           \* the sync that the page's buttons wait for
  modal,          \* the form, or None
  save,           \* a submitted form
  news,           \* controllers with a sync that ended since the runs were fetched
  events          \* counts what MaxEvents bounds

server == <<rows, sync, queue>>
query  == <<list, fetch, news>>
page   == <<here, posts, busy, modal, save>>
pageVars == <<server, query, page, events>>

Conn  == [url : Urls, token : Tokens, ssl : BOOLEAN]
Input == [url : Urls \cup {Blank}, token : Tokens \cup {Blank}, ssl : BOOLEAN]
Seen  == [url : Urls, ssl : BOOLEAN, running : BOOLEAN]
Of    == Controllers \cup {None}    \* None: a new controller

Lists == UNION {[S -> Seen] : S \in SUBSET Controllers}
Fetch == [is : {"none", "asked", "read"}, list : Lists \cup {None}]
Form  == [of : Of, input : Input, led : {"idle", "testing", "ok", "err"},
          tested : Conn \cup {None}, asked : Input \cup {None}, overtaken : BOOLEAN]

ASSUME ControllersPageAssumption ==
  /\ Urls # {} /\ Tokens # {} /\ Blank \notin Urls \cup Tokens
  /\ None \notin Lists \cup Conn \cup Input
  /\ Starts \subseteq SUBSET Controllers
  /\ MaxEvents \in Nat

PageTypeOK ==
  /\ DOMAIN rows \subseteq Controllers /\ \A c \in DOMAIN rows : rows[c] \in Conn
  /\ sync \in [Controllers -> {"idle", "running"}] /\ queue \in [Controllers -> Nat]
  /\ list \in Lists \cup {None}
  /\ fetch \in Fetch /\ (fetch.is = "read" <=> fetch.list # None)
  /\ here \in BOOLEAN /\ posts \subseteq [of : Controllers, accepted : BOOLEAN]
  /\ busy \in Controllers \cup {None}
  /\ modal = None \/ /\ modal \in Form
                     /\ modal.led = "ok" <=> modal.tested # None
                     /\ modal.led = "testing" <=> modal.asked # None
  /\ save \in [of : Of, input : Input, live : BOOLEAN] \cup {None}
  /\ news \subseteq Controllers /\ events \in 0..MaxEvents

(***************************************************************************)
(* The list                                                                *)
(***************************************************************************)
Shown == IF list = None THEN <<>> ELSE list

Busy(l) == {c \in DOMAIN l : l[c].running}

Counted == events < MaxEvents /\ events' = events + 1

NoFetch == [is |-> "none", list |-> None]
Asked   == [is |-> "asked", list |-> None]

\* What GET /controllers answers.
ReadList ==
  [c \in DOMAIN rows |-> [url |-> rows[c].url, ssl |-> rows[c].ssl, running |-> sync[c] = "running"]]

\* Mutant: the map of statuses is replaced before it is compared.
SetDataLate(l) == list' = l /\ UNCHANGED news

\* New data: where a status leaves "running" the runs are fetched again.
SetData(l) ==
  /\ list' = l
  /\ news' = IF here /\ \E c \in DOMAIN l : c \in Busy(Shown) \ Busy(l) THEN {} ELSE news

\* The list is invalidated: while it is watched it is fetched anew, and an older
\* answer dropped, but not before there are any data.
Invalidate ==
  fetch' = IF ~here \/ (list = None /\ fetch.is # "none") THEN fetch ELSE Asked

\* Mutant: polling only while every controller is syncing.
PollAll ==
  /\ here /\ Shown # <<>> /\ Busy(Shown) = DOMAIN Shown
  /\ fetch.is = "none" /\ fetch' = Asked
  /\ UNCHANGED <<server, list, news, page, events>>

\* Every 1.5 s while some controller is syncing.
Poll ==
  /\ here /\ Busy(Shown) # {}
  /\ fetch.is = "none" /\ fetch' = Asked
  /\ UNCHANGED <<server, list, news, page, events>>

\* Data that are stale are fetched again when the network comes back.
Reconnect ==
  /\ here /\ fetch.is = "none" /\ fetch' = Asked
  /\ UNCHANGED <<server, list, news, page, events>>

ServerReads ==
  /\ fetch.is = "asked" /\ fetch' = [is |-> "read", list |-> ReadList]
  /\ UNCHANGED <<server, list, news, page, events>>

Answer ==
  /\ fetch.is = "read" /\ fetch' = NoFetch
  /\ SetData(fetch.list)
  /\ UNCHANGED <<server, page, events>>

FetchFails ==
  /\ fetch.is # "none" /\ Counted
  /\ fetch' = NoFetch
  /\ UNCHANGED <<server, list, news, page>>

\* Bound: the controllers of Starts, on one server.
PageInit ==
  /\ \E S \in Starts : rows = [c \in S |-> CHOOSE x \in Conn : x.ssl]
  /\ sync = [c \in Controllers |-> "idle"] /\ queue = [c \in Controllers |-> 0]
  /\ list = None /\ fetch = Asked
  /\ here = TRUE /\ posts = {} /\ busy = None /\ modal = None /\ save = None
  /\ news = {}
  /\ events = 0

(***************************************************************************)
(* Synchronisation                                                         *)
(***************************************************************************)
ByClick == Counted /\ here /\ modal = None

\* The button of a controller; the page's other ones wait with it.
SyncNow(c) ==
  /\ ByClick /\ busy = None /\ c \in DOMAIN Shown \ Busy(Shown)
  /\ posts' = posts \cup {[of |-> c, accepted |-> FALSE]} /\ busy' = c
  /\ UNCHANGED <<server, query, here, modal, save>>

\* sync_now refuses a controller that is running, not one whose task is queued; it
\* answers 202 and queues a task.
Accept(p) ==
  /\ p \in posts /\ ~p.accepted
  /\ p.of \in DOMAIN rows /\ sync[p.of] # "running"
  /\ queue' = [queue EXCEPT ![p.of] = @ + 1]
  /\ posts' = (posts \ {p}) \cup {[p EXCEPT !.accepted = TRUE]}
  /\ UNCHANGED <<rows, sync, query, here, busy, modal, save, events>>

Freed(c) == busy' = IF busy = c THEN None ELSE busy

\* The 202 arrives: the status is set to running, which starts the polling.
Accepted(p) ==
  /\ p \in posts /\ p.accepted
  /\ posts' = posts \ {p} /\ Freed(p.of)
  /\ IF p.of \in DOMAIN Shown THEN SetData([list EXCEPT ![p.of].running = TRUE])
                              ELSE UNCHANGED <<list, news>>
  /\ UNCHANGED <<server, fetch, here, modal, save, events>>

\* 409 because it is running, 403, 404, or the network.
Refused(p) ==
  /\ p \in posts /\ ~p.accepted
  /\ posts' = posts \ {p} /\ Freed(p.of)
  /\ UNCHANGED <<server, query, here, modal, save, events>>

\* The interval job.
SchedulerFires(c) ==
  /\ Counted /\ c \in DOMAIN rows /\ sync[c] = "idle"
  /\ sync' = [sync EXCEPT ![c] = "running"]
  /\ UNCHANGED <<rows, queue, query, page>>

\* A task that finds another one at work skips.
TaskStarts(c) ==
  /\ queue[c] > 0 /\ queue' = [queue EXCEPT ![c] = @ - 1]
  /\ sync' = [sync EXCEPT ![c] = "running"]
  /\ UNCHANGED <<rows, query, page, events>>

TaskEnds(c) ==
  /\ sync[c] = "running" /\ sync' = [sync EXCEPT ![c] = "idle"]
  /\ news' = news \cup {c}
  /\ UNCHANGED <<rows, queue, list, fetch, page, events>>

(***************************************************************************)
(* Coming and going.  Mutations go on, their callbacks for the page do not *)
(***************************************************************************)
Leave ==
  /\ here /\ modal = None
  /\ here' = FALSE /\ busy' = None
  /\ save' = IF save = None THEN None ELSE [save EXCEPT !.live = FALSE]
  /\ UNCHANGED <<server, query, posts, modal, events>>

\* Data that are there are fetched again if they are stale.
Come(stale) ==
  /\ ~here /\ here' = TRUE
  /\ list = None => stale
  /\ fetch' = IF stale /\ fetch.is = "none" THEN Asked ELSE fetch
  /\ UNCHANGED <<server, list, news, posts, busy, modal, save, events>>

(***************************************************************************)
(* The form                                                                *)
(***************************************************************************)
\* initForm, from the list as it is shown.
InitForm(c) ==
  [url |-> IF c = None THEN Blank ELSE Shown[c].url, token |-> Blank,
   ssl |-> IF c = None THEN TRUE ELSE Shown[c].ssl]

\* The form without a verdict.
Untested(c, input) ==
  [of |-> c, input |-> input, led |-> "idle", tested |-> None, asked |-> None, overtaken |-> FALSE]

Open(c) ==
  /\ here /\ modal = None /\ c \in DOMAIN Shown \cup {None}
  /\ modal' = Untested(c, InitForm(c))
  /\ UNCHANGED <<server, query, here, posts, busy, save, events>>

Cancel ==
  /\ modal # None /\ modal' = None
  /\ UNCHANGED <<server, query, here, posts, busy, save, events>>

\* A field changes.
Changed(input) ==
  /\ Counted /\ modal # None
  /\ \E f \in {"url", "token", "ssl"} : \A g \in {"url", "token", "ssl"} \ {f} : input[g] = modal.input[g]
  /\ input # modal.input
  /\ UNCHANGED <<server, query, here, posts, busy, save>>

\* Mutant: verify_ssl does not clear the verdict.
EditKeepingVerdict(input) ==
  /\ Changed(input)
  /\ modal' = IF input.ssl = modal.input.ssl /\ modal.led # "testing"
              THEN Untested(modal.of, input)
              ELSE [modal EXCEPT !.input = input]

\* The verdict of a test is cleared; one that is under way goes on.
Edit(input) ==
  /\ Changed(input)
  /\ modal' = IF modal.led = "testing" THEN [modal EXCEPT !.input = input]
              ELSE Untested(modal.of, input)

\* What the server makes of a form, or None if it refuses: blank fields are
\* those of the row, whose token is not used for another origin.
Effective(c, input) ==
  LET had == c # None /\ c \in DOMAIN rows
      url == IF input.url = Blank /\ had THEN rows[c].url ELSE input.url
      tok == IF input.token = Blank /\ had /\ rows[c].url = url THEN rows[c].token ELSE input.token
  IN IF (c # None /\ ~had) \/ Blank \in {url, tok} THEN None
     ELSE [url |-> url, token |-> tok, ssl |-> input.ssl]

Test ==
  /\ Counted /\ modal # None /\ modal.led # "testing"
  /\ modal.of = None => Blank \notin {modal.input.url, modal.input.token}
  /\ modal' = [modal EXCEPT !.led = "testing", !.tested = None, !.asked = modal.input, !.overtaken = FALSE]
  /\ UNCHANGED <<server, query, here, posts, busy, save>>

\* The answer, of a connection that works or not, a refusal, or an error.
Verdict(ok) ==
  /\ modal # None /\ modal.led = "testing"
  /\ LET conn == Effective(modal.of, modal.asked)
     IN /\ ok => conn # None
        /\ modal' = [modal EXCEPT !.led = IF ok THEN "ok" ELSE "err",
                                  !.tested = IF ok THEN conn ELSE None,
                                  !.overtaken = modal.overtaken \/ modal.asked # modal.input,
                                  !.asked = None]
  /\ UNCHANGED <<server, query, here, posts, busy, save, events>>

\* Bound: one form is saved at a time.
Submit ==
  /\ Counted /\ modal # None /\ save = None
  /\ save' = [of |-> modal.of, input |-> modal.input, live |-> TRUE]
  /\ UNCHANGED <<server, query, here, posts, busy, modal>>

\* Whatever form is open by then is closed, if the page is the same.
Saved ==
  /\ save # None /\ Effective(save.of, save.input) # None
  /\ \E c \in IF save.of = None THEN Controllers \ DOMAIN rows ELSE {save.of} :
       rows' = [d \in DOMAIN rows \cup {c} |->
                  IF d = c THEN Effective(save.of, save.input) ELSE rows[d]]
  /\ Invalidate
  /\ modal' = IF save.live \/ modal = None THEN None ELSE [modal EXCEPT !.overtaken = TRUE]
  /\ save' = None
  /\ UNCHANGED <<sync, queue, list, news, here, posts, busy, events>>

\* 422, 404, 409 for a name that is taken, or the network.
SaveRefused ==
  /\ save # None /\ save' = None
  /\ UNCHANGED <<server, query, here, posts, busy, modal, events>>

\* Confirmed, and answered at once; its sync and its tasks end with it.
Delete(c) ==
  /\ ByClick /\ c \in DOMAIN Shown \cap DOMAIN rows
  /\ rows' = [d \in DOMAIN rows \ {c} |-> rows[d]] /\ sync' = [sync EXCEPT ![c] = "idle"]
  /\ queue' = [queue EXCEPT ![c] = 0] /\ news' = news \ {c}
  /\ Invalidate
  /\ UNCHANGED <<list, here, posts, busy, modal, save>>

User ==
  \/ \E c \in Controllers : SyncNow(c) \/ Delete(c)
  \/ \E c \in Of : Open(c)
  \/ \E input \in Input : Edit(input)
  \/ \E stale \in BOOLEAN : Come(stale)
  \/ Leave \/ Cancel \/ Test \/ Submit

Network ==
  \/ Poll \/ Reconnect \/ ServerReads \/ Answer \/ FetchFails
  \/ \E p \in posts : Accept(p) \/ Accepted(p) \/ Refused(p)
  \/ \E ok \in BOOLEAN : Verdict(ok)
  \/ Saved \/ SaveRefused

Background == \E c \in Controllers : SchedulerFires(c) \/ TaskStarts(c) \/ TaskEnds(c)

PageNext == User \/ Network \/ Background

PageSpec == PageInit /\ [][PageNext]_pageVars

\* A timer fires, requests are answered, and a sync comes to its end (AwxSync).
FairPageSpec ==
  /\ PageSpec
  /\ WF_pageVars(Poll) /\ WF_pageVars(ServerReads) /\ WF_pageVars(Answer)
  /\ WF_pageVars(\E p \in posts : Accepted(p))
  /\ \A c \in Controllers : WF_pageVars(TaskStarts(c)) /\ WF_pageVars(TaskEnds(c))

(***************************************************************************)
(* Properties                                                              *)
(***************************************************************************)
\* A chip that says "Syncing..." does not say so for ever, whatever became of
\* the sync, of requests, or of the other controllers.
ChipSettles ==
  \A c \in Controllers : (here /\ c \in Busy(Shown)) ~> (~here \/ c \notin Busy(Shown))

\* A sync that the page knows to be running, with no older answer to come, is
\* followed to its end, and the runs it brought are fetched.
EndIsFollowed ==
  \A c \in Controllers :
    (/\ here /\ c \in Busy(Shown) /\ sync[c] = "running"
     /\ fetch.is = "read" => c \in DOMAIN fetch.list /\ fetch.list[c].running)
    ~> (~here \/ c \notin DOMAIN Shown \/ c \notin Busy(Shown) \cup news)

\* The page learns how a sync that it asked for ended ("which converges to
\* ok/error").
Converges ==
  \A c \in Controllers :
    (here /\ queue[c] > 0)
      ~> (~here \/ c \notin DOMAIN rows \/ (queue[c] = 0 /\ sync[c] = "idle" /\ c \notin news))

\* A green light means that the form, if it is saved, makes the connection that
\* was tested, blank fields included, unless the form was changed while the test ran
\* or an earlier save arrived since.
GreenIsOfTheForm ==
  modal # None /\ modal.led = "ok" /\ ~modal.overtaken => Effective(modal.of, modal.input) = modal.tested

\* The same for every form ("a green/red dot can't linger against changed
\* URL/token/SSL values").
LightIsOfTheForm ==
  modal # None /\ modal.led = "ok" => Effective(modal.of, modal.input) = modal.tested
=============================================================================
