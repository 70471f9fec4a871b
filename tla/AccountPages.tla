----------------------------- MODULE AccountPages -----------------------------
(***************************************************************************)
(* Getting in and out of the web client: the guards of its routes          *)
(* (frontend/src/App.tsx) over two cached answers, who the user is and     *)
(* whether the installation needs its first account, the forms that sign   *)
(* in and out (auth/, shell/TopBar.tsx), and two-factor authentication     *)
(* with its recovery codes (settings/SecuritySettings.tsx).                *)
(*                                                                         *)
(* A step is an event of the page with its render, a redirect, one of the  *)
(* three parts of a query (asked, read by the server, answered), or one of *)
(* a form's request (sent, served, settled).                               *)
(*                                                                         *)
(* Abstracted: one account and one browser, other devices by what they     *)
(* change; passwords, codes and secrets by whether the server takes them;  *)
(* every page behind the sign-in but one is "app"; a secret that was set   *)
(* up stays until it is used.  MFA_ADMIN_REQUIRED is on, as by default.    *)
(* must_change_password is left out: nothing in the program sets it.       *)
(***************************************************************************)
EXTENDS Integers

CONSTANTS
  None,           \* null: no user, no request
  Undefined,      \* no data yet
  MaxEvents       \* bound: what users, other devices and failures do

Section == {"totp", "enable", "disable", "regen"}
Forms   == Section \cup {"login", "verify", "setup", "accept", "logout", "everywhere", "change"}

\* What the server keeps of an account and what it tells of it, and the request of a form.
Account == [admin : BOOLEAN, enabled : BOOLEAN]
Me      == [enabled : BOOLEAN, required : BOOLEAN]
Request == [do : Forms, is : {"sent", "served"}, ok : BOOLEAN, me : Me \cup {None}, live : BOOLEAN]

ASSUME AccountPagesAssumption ==
  /\ MaxEvents \in Nat
  /\ None # Undefined /\ None \notin Account \cup Me \cup Request

VARIABLES
  srv,            \* the server: account, needs_setup; this browser's cookies
  query,          \* the cache: "me" and "setup"
  page,           \* the route
  scan,           \* the QR code is shown
  panel,          \* recovery codes are shown
  post,           \* the request of a form
  events          \* counts what MaxEvents bounds

client == <<query, page, scan, panel, post>>
vars   == <<srv, client, events>>

Public    == {"login", "code"}      \* two steps of one page
Protected == {"app", "security"}
Pages     == Public \cup Protected \cup {"setup", "invite", "change", "enrol"}
Keys      == {"me", "setup"}

Counted == events < MaxEvents /\ events' = events + 1

(***************************************************************************)
(* The server.  What a handler that accepts a request makes of its state,  *)
(* nothing if it cannot                                                    *)
(***************************************************************************)
BuildMe ==
  IF srv.cookie # "live" THEN None
  ELSE [enabled |-> srv.account.enabled, required |-> srv.account.admin /\ ~srv.account.enabled]

Truth == [me |-> BuildMe, setup |-> srv.needsSetup]

CompleteLogin(s) == [s EXCEPT !.cookie = "live"]

Login ==
  IF srv.account = None THEN {}
  ELSE {IF srv.account.enabled THEN [srv EXCEPT !.pending = TRUE] ELSE CompleteLogin(srv)}

LoginVerify ==
  {CompleteLogin([s EXCEPT !.pending = FALSE]) : s \in {t \in {srv} : t.pending /\ t.account.enabled}}

RunSetup ==
  IF ~srv.needsSetup THEN {}
  ELSE {CompleteLogin([srv EXCEPT !.needsSetup = FALSE, !.account = [admin |-> TRUE, enabled |-> FALSE]])}

AcceptInvite ==
  IF srv.needsSetup \/ srv.account # None THEN {}
  ELSE {CompleteLogin([srv EXCEPT !.account = [admin |-> role, enabled |-> FALSE]]) : role \in BOOLEAN}

Logout == IF srv.cookie = "live" THEN {[srv EXCEPT !.cookie = "none"]} ELSE {}

ChangePassword == IF srv.cookie = "live" THEN {srv} ELSE {}

MfaSetup == IF srv.cookie = "live" /\ ~srv.account.enabled THEN {srv} ELSE {}

MfaEnable ==
  IF srv.cookie = "live" /\ ~srv.account.enabled THEN {[srv EXCEPT !.account.enabled = TRUE]} ELSE {}

MfaDisable ==
  IF srv.cookie = "live" /\ srv.account.enabled THEN {[srv EXCEPT !.account.enabled = FALSE]} ELSE {}

Regenerate == IF srv.cookie = "live" /\ srv.account.enabled THEN {srv} ELSE {}

Accepts(do) ==
  CASE do = "login"  -> Login      [] do = "verify"  -> LoginVerify  [] do = "setup"  -> RunSetup
    [] do = "accept" -> AcceptInvite [] do \in {"logout", "everywhere"} -> Logout
    [] do = "change" -> ChangePassword [] do = "totp" -> MfaSetup    [] do = "enable" -> MfaEnable
    [] do = "disable" -> MfaDisable [] do = "regen"  -> Regenerate

(***************************************************************************)
(* The cache                                                               *)
(***************************************************************************)
\* lag: the data were old when they came, or something the client was not told since.
Unasked ==
  [data |-> Undefined, failed |-> FALSE, invalid |-> FALSE, lag |-> FALSE,
   is |-> "idle", read |-> Undefined, why |-> "page", early |-> FALSE]

\* The routes with an observer of each.
Uses == [me |-> Public \cup Protected \cup {"change"}, setup |-> Public \cup Protected \cup {"setup"}]

Known == [me |-> Me \cup {None, Undefined}, setup |-> BOOLEAN \cup {Undefined}]

Query(k) ==
  [data : Known[k], failed : BOOLEAN, invalid : BOOLEAN, lag : BOOLEAN, is : {"idle", "asked", "read"},
   read : Known[k], why : {"page", "network"}, early : BOOLEAN]

IsPending(q) == q.data = Undefined /\ ~q.failed

Ask(q, why) ==
  IF q.is # "idle" THEN q
  ELSE [q EXCEPT !.is = "asked", !.why = why, !.early = FALSE, !.failed = FALSE]

\* Fetched anew where it is observed (data that are there cancel what is under way).
Invalidate(k) ==
  LET q == [query[k] EXCEPT !.invalid = TRUE]
  IN IF page \notin Uses[k] THEN q
     ELSE Ask([q EXCEPT !.is = IF q.data = Undefined THEN @ ELSE "idle"], "page")

SetData(data) ==
  [query.me EXCEPT !.data = data, !.failed = FALSE, !.invalid = FALSE, !.lag = data # BuildMe]

\* An observer is mounted; an answer for "me" is stale after a minute.
Mounted(k, q, stale) ==
  IF q.data = Undefined \/ q.invalid \/ (k = "me" /\ stale) THEN Ask(q, "page") ELSE q

SignedIn == query.me.data \notin {None, Undefined}

Visit(p, cache, stale) ==
  /\ page' = p
  /\ query' = [k \in Keys |-> IF p \in Uses[k] THEN Mounted(k, cache[k], stale) ELSE cache[k]]
  /\ scan' = FALSE /\ panel' = FALSE

\* The form that waits is gone with its page; the top bar is on every protected one.
Gone(p) ==
  IF post = None \/ p = page \/ (post.do = "logout" /\ p \in Protected) THEN post
  ELSE [post EXCEPT !.live = FALSE]

\* Codes that are left were not confirmed, and "me" is not fetched for them.
Left == [query EXCEPT !.me.lag = @ \/ panel]

Init ==
  /\ srv \in [needsSetup : BOOLEAN, account : Account \cup {None}, cookie : {"none"}, pending : {FALSE}]
  /\ srv.needsSetup => srv.account = None
  /\ page \in {"login", "app", "invite"}
  /\ query = [k \in Keys |-> IF page \in Uses[k] THEN Ask(Unasked, "page") ELSE Unasked]
  /\ scan = FALSE /\ panel = FALSE /\ post = None
  /\ events = 0

Read(k) ==
  /\ query[k].is = "asked"
  /\ query' = [query EXCEPT ![k].is = "read", ![k].read = Truth[k]]
  /\ UNCHANGED <<srv, page, scan, panel, post, events>>

\* On the security page another answer for "me" is another section.
Answer(k) ==
  /\ query[k].is = "read"
  /\ query' = [query EXCEPT ![k] = [Unasked EXCEPT !.data = query[k].read, !.lag = query[k].read # Truth[k]]]
  /\ LET flips == /\ k = "me" /\ page = "security" /\ SignedIn /\ query.me.read # None
                  /\ query.me.read.enabled # query.me.data.enabled
     IN /\ scan' = (scan /\ ~flips) /\ panel' = (panel /\ ~flips)
        /\ post' = IF flips /\ post # None /\ post.do \in Section THEN [post EXCEPT !.live = FALSE] ELSE post
  /\ UNCHANGED <<srv, page, events>>

\* No retry; what was there is kept.
FetchFails(k) ==
  /\ Counted /\ query[k].is # "idle"
  /\ query' = [query EXCEPT ![k] = [@ EXCEPT !.is = "idle", !.read = Undefined, !.failed = TRUE, !.lag = TRUE]]
  /\ UNCHANGED <<srv, page, scan, panel, post>>

\* The network is back: what is observed and stale is fetched.  While it is pending the
\* routes show a spinner in place of their page, and what that kept is lost.
Reconnect(k) ==
  /\ page \in Uses[k] /\ query[k].is = "idle"
  /\ k = "me" \/ query[k].invalid \/ query[k].data = Undefined
  /\ LET lost == query[k].data = Undefined /\ page \in Public \cup Protected
     IN /\ query' = [(IF lost THEN Left ELSE query) EXCEPT ![k] = Ask(@, "network")]
        /\ page' = IF lost /\ page = "code" THEN "login" ELSE page
        /\ scan' = (scan /\ ~lost) /\ panel' = (panel /\ ~lost)
        /\ post' = IF lost /\ post # None THEN [post EXCEPT !.live = FALSE] ELSE post
  /\ UNCHANGED <<srv, events>>

\* After five minutes without an observer.
Evict(k) ==
  /\ page \notin Uses[k] /\ query[k].is = "idle" /\ query[k] # Unasked
  /\ query' = [query EXCEPT ![k] = Unasked]
  /\ UNCHANGED <<srv, page, scan, panel, post, events>>

(***************************************************************************)
(* Routes                                                                  *)
(***************************************************************************)
Waiting == IsPending(query.me) \/ IsPending(query.setup)

PublicOnly ==
  IF Waiting THEN None
  ELSE IF query.setup.data = TRUE THEN "setup" ELSE IF SignedIn THEN "app" ELSE None

ProtectedRoute ==
  IF Waiting THEN None
  ELSE IF query.setup.data = TRUE THEN "setup"
  ELSE IF ~SignedIn THEN "login"
  ELSE IF query.me.data.required THEN "enrol" ELSE None

SetupWizard == IF query.setup.data = FALSE THEN "login" ELSE None

\* Where the route that is rendered sends the user, None if it shows its page.
Target ==
  IF page \in Public THEN PublicOnly
  ELSE IF page \in Protected THEN ProtectedRoute
  ELSE IF page = "setup" THEN SetupWizard ELSE None

Redirect(stale) ==
  /\ Target # None
  /\ Visit(Target, Left, stale) /\ post' = Gone(Target)
  /\ UNCHANGED <<srv, events>>

\* A link, back or forward.
Go(p, stale) ==
  /\ Counted /\ p \in Pages \ {page, "code"}
  /\ Visit(p, Left, stale) /\ post' = Gone(p)
  /\ UNCHANGED srv

\* Bound: not before the server has served what was sent.
Reload ==
  /\ Counted
  /\ IF post = None THEN TRUE ELSE post.is = "served"
  /\ Visit(IF page = "code" THEN "login" ELSE page, [k \in Keys |-> Unasked], FALSE)
  /\ post' = None
  /\ UNCHANGED srv

(***************************************************************************)
(* Forms                                                                   *)
(***************************************************************************)
Rendered ==
  /\ Target = None
  /\ page \in Public \cup Protected => ~Waiting
  /\ page = "setup" => ~IsPending(query.setup)

MfaSetupRequired == page = "enrol" /\ ~panel
EnrollSection    == page = "security" /\ ~query.me.data.enabled /\ ~panel
EnrolledSection  == page = "security" /\ query.me.data.enabled /\ ~panel
Enrolling        == MfaSetupRequired \/ EnrollSection

Offered(do) ==
  /\ Rendered
  /\ CASE do = "login"  -> page = "login"       [] do = "verify" -> page = "code"
       [] do = "setup"  -> page = "setup"       [] do = "accept" -> page = "invite"
       [] do = "logout" -> page \in Protected   [] do = "everywhere" -> page = "security"
       [] do = "change" -> page = "change"      [] do = "totp"   -> Enrolling /\ ~scan
       [] do = "enable" -> Enrolling /\ scan    [] do \in {"disable", "regen"} -> EnrolledSection

\* Bound: one request of a form at a time.
Send(do) ==
  /\ Counted /\ post = None /\ Offered(do)
  /\ post' = [do |-> do, is |-> "sent", ok |-> FALSE, me |-> None, live |-> TRUE]
  /\ query' = [query EXCEPT !.me.early = query.me.is # "idle"]
  /\ UNCHANGED <<srv, page, scan, panel>>

\* A wrong password or code, a limit, a session that ended, or a request that was lost.
Refuse ==
  /\ post # None /\ post.is = "sent"
  /\ post' = [post EXCEPT !.is = "served"]
  /\ UNCHANGED <<srv, query, page, scan, panel, events>>

\* Who the user is, unless a login has to be verified first.
Serve ==
  /\ post # None /\ post.is = "sent"
  /\ srv' \in Accepts(post.do)
  /\ LET verify == post.do = "login" /\ srv.account.enabled
     IN post' = [post EXCEPT !.is = "served", !.ok = TRUE, !.me = IF verify THEN None ELSE BuildMe']
  /\ UNCHANGED <<query, page, scan, panel, events>>

\* The server has done it and the client is not told.
AnswerLost ==
  /\ Counted /\ post # None /\ post.ok
  /\ post' = [post EXCEPT !.ok = FALSE]
  /\ query' = [k \in Keys |-> [query[k] EXCEPT !.lag = TRUE]]
  /\ UNCHANGED <<srv, page, scan, panel>>

Settles(forms) ==
  /\ post # None /\ post.is = "served" /\ post.do \in forms
  /\ post' = None
  /\ UNCHANGED <<srv, events>>

ErrorShown ==
  /\ post # None /\ ~post.ok
  /\ Settles(Forms \ {"logout", "everywhere"})
  /\ UNCHANGED <<query, page, scan, panel>>

CodeAsked ==
  /\ post # None /\ post.ok /\ post.me = None
  /\ Settles({"login"})
  /\ page' = IF post.live THEN "code" ELSE page
  /\ UNCHANGED <<query, scan, panel>>

\* With the cache, and if its page is still there the form leads on.
LeadsOn(p, cache, stale) ==
  IF post.live THEN Visit(p, cache, stale)
  ELSE query' = cache /\ UNCHANGED <<page, scan, panel>>

\* Where a form leads: a login to where the user wanted to go, the others to the start.
LeadsTo(do, from) == IF do \in {"login", "verify"} THEN from ELSE "app"

\* Mutant: the first account is there and the cached answer says it is needed.
SignedInBefore(from, stale) ==
  /\ post # None /\ post.ok /\ post.me # None
  /\ Settles({"login", "verify", "setup", "accept"})
  /\ LeadsOn(LeadsTo(post.do, from),
             [query EXCEPT !.me = SetData(post.me)], stale)

\* The answer says who the user is; the first account ends the need for it.
SignedInNow(from, stale) ==
  /\ post # None /\ post.ok /\ post.me # None
  /\ Settles({"login", "verify", "setup", "accept"})
  /\ LeadsOn(LeadsTo(post.do, from),
             [query EXCEPT !.me = SetData(post.me),
                           !.setup = IF post.do = "setup" THEN Invalidate("setup") ELSE @], stale)

Cleared == [k \in Keys |-> Unasked]

\* Whatever the server said, the cache is emptied.
SignedOut(stale) ==
  /\ Settles({"logout", "everywhere"})
  /\ IF post.live THEN Visit("login", Cleared, stale)
     ELSE /\ query' = [k \in Keys |-> IF page \in Uses[k] THEN Ask(Unasked, "page") ELSE Unasked]
          /\ UNCHANGED <<page, scan, panel>>

PasswordChanged(stale) ==
  /\ post # None /\ post.ok
  /\ Settles({"change"})
  /\ LeadsOn("app", [query EXCEPT !.me = Invalidate("me")], stale)

SecretShown ==
  /\ post # None /\ post.ok
  /\ Settles({"totp"})
  /\ scan' = post.live
  /\ UNCHANGED <<query, page, panel>>

\* Mutant: the request itself invalidates "me".
CodesShownFresh ==
  /\ post # None /\ post.ok
  /\ Settles({"enable", "regen"})
  /\ panel' = post.live /\ scan' = FALSE
  /\ query' = [query EXCEPT !.me = Invalidate("me")]
  /\ UNCHANGED page

\* The new codes, unless their page is gone: then nobody sees them.
CodesShown ==
  /\ post # None /\ post.ok
  /\ Settles({"enable", "regen"})
  /\ panel' = post.live /\ scan' = FALSE
  /\ query' = [query EXCEPT !.me.lag = @ \/ ~post.live]
  /\ UNCHANGED page

\* Mutant: nobody tells the client.
DisabledUnseen ==
  /\ post # None /\ post.ok
  /\ Settles({"disable"})
  /\ UNCHANGED <<query, page, scan, panel>>

Disabled ==
  /\ post # None /\ post.ok
  /\ Settles({"disable"})
  /\ query' = [query EXCEPT !.me = Invalidate("me")]
  /\ UNCHANGED <<page, scan, panel>>

\* The codes are confirmed: "Done" in the section they came in.
Done ==
  /\ panel /\ page = "security" /\ Rendered
  /\ panel' = FALSE
  /\ query' = IF query.me.data.enabled THEN query ELSE [query EXCEPT !.me = Invalidate("me")]
  /\ UNCHANGED <<srv, page, scan, post, events>>

\* "Continue to app", of the administrator who had to enrol.
Continue(stale) ==
  /\ panel /\ page = "enrol" /\ post = None
  /\ LET patched == IF SignedIn THEN [enabled |-> TRUE, required |-> FALSE] ELSE query.me.data
     IN Visit("app", [query EXCEPT !.me = [Invalidate("me") EXCEPT !.data = patched]], stale)
  /\ UNCHANGED <<srv, post, events>>

\* On another device: two-factor authentication, the end of this session, the first
\* account, and with time.
Elsewhere ==
  /\ Counted
  /\ srv' \in UNION {
       {[s EXCEPT !.account.enabled = ~@] : s \in {t \in {srv} : t.account # None}},
       {[s EXCEPT !.cookie = "dead"] : s \in {t \in {srv} : t.cookie = "live"}},
       {[s EXCEPT !.needsSetup = FALSE] : s \in {t \in {srv} : t.needsSetup}}}
  /\ query' = [k \in Keys |-> [query[k] EXCEPT !.lag = TRUE]]
  /\ UNCHANGED <<page, scan, panel, post>>

User ==
  \/ \E p \in Pages, stale \in BOOLEAN : Go(p, stale)
  \/ \E do \in Forms : Send(do)
  \/ \E stale \in BOOLEAN : Continue(stale)
  \/ Done \/ Reload

Settle ==
  \/ ErrorShown \/ CodeAsked \/ SecretShown \/ CodesShown \/ Disabled
  \/ \E stale \in BOOLEAN :
       \/ \E from \in Protected : SignedInNow(from, stale)
       \/ SignedOut(stale) \/ PasswordChanged(stale)

Network ==
  \/ \E k \in Keys : Read(k) \/ Answer(k) \/ FetchFails(k) \/ Reconnect(k) \/ Evict(k)
  \/ Serve \/ Refuse \/ AnswerLost

Next == User \/ Settle \/ Network \/ Elsewhere \/ \E stale \in BOOLEAN : Redirect(stale)

Spec == Init /\ [][Next]_vars

\* Redirects are effects of a render; the server reads what is asked, and every request
\* it has served is settled.
FairSpec ==
  /\ Spec
  /\ WF_vars(\E stale \in BOOLEAN : Redirect(stale)) /\ WF_vars(Settle)
  /\ \A k \in Keys : WF_vars(Read(k)) /\ WF_vars(Answer(k))

(***************************************************************************)
(* Properties                                                              *)
(***************************************************************************)
TypeOK ==
  /\ srv \in [needsSetup : BOOLEAN, account : Account \cup {None},
              cookie : {"none", "live", "dead"}, pending : BOOLEAN]
  /\ srv.cookie = "live" \/ srv.pending => srv.account # None
  /\ DOMAIN query = Keys /\ \A k \in Keys : query[k] \in Query(k)
  /\ page \in Pages /\ scan \in BOOLEAN /\ panel \in BOOLEAN
  /\ post \in Request \cup {None}
  /\ events \in 0..MaxEvents

\* Whatever was signed in to, out of, enabled, disabled or changed here, in whatever
\* order the answers came: when nothing is under way the client knows who the user is
\* and what they still have to do, or knows that it has to ask, unless it could not know.
MeIsFresh ==
  /\ query.me.data # Undefined /\ query.me.is = "idle" /\ post = None
  /\ ~panel /\ ~query.me.lag /\ ~query.me.invalid
  => query.me.data = BuildMe

\* Recovery codes are not taken from the page by an answer that their own issue
\* brought about, only by what was asked before, or by the network ("so the
\* RecoveryCodes panel stays mounted until the user clicks Done").
CodesAreSeen ==
  [][(\E k \in Keys : Answer(k)) /\ panel /\ ~panel' => query.me.early \/ query.me.why = "network"]_vars

\* Who is signed in is led away from the forms for those who are not, through all the
\* guards, unless the answer about the first account could not be had.
GetsIn ==
  (SignedIn /\ page \in Public \cup {"setup"})
    ~> (page \notin Public \cup {"setup"} \/ ~SignedIn \/ query.setup.failed \/ query.setup.lag)
=============================================================================
