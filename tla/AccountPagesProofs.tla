------------------------- MODULE AccountPagesProofs -------------------------
(***************************************************************************)
(* For any number of events, whichever requests are late or lost and       *)
(* whatever other devices do: the client knows who the user is or that it  *)
(* has to ask, and recovery codes stay on the page.                        *)
(***************************************************************************)
EXTENDS AccountPages, TLAPS

Server  == [needsSetup : BOOLEAN, account : Account \cup {None}, cookie : {"none", "live", "dead"}, pending : BOOLEAN]

\* The server's part of the type invariant.
Sound(s) == s \in Server /\ (s.cookie = "live" \/ s.pending => s.account # None)

Cache(c) == DOMAIN c = Keys /\ \A k \in Keys : c[k] \in Query(k)

LEMMA BothKnown ==
  /\ Known["me"] = Me \cup {None, Undefined} /\ Known["setup"] = BOOLEAN \cup {Undefined}
  /\ \A k \in Keys : Undefined \in Known[k]
BY DEF Known, Keys

(***************************************************************************)
(* The server                                                              *)
(***************************************************************************)
\* What the server says of the user in a state of its own.
MeOf(s) ==
  IF s.cookie # "live" THEN None
  ELSE [enabled |-> s.account.enabled, required |-> s.account.admin /\ ~s.account.enabled]

LEMMA BuildMeType ==
  ASSUME NEW s, Sound(s)
  PROVE  /\ MeOf(s) \in Me \cup {None}
         /\ s.cookie = "live" => /\ s.account \in Account /\ MeOf(s) \in Me /\ MeOf(s) # None
                                 /\ MeOf(s).enabled = s.account.enabled
<1>0. None \notin Me
  BY AccountPagesAssumption
<1>1. CASE s.cookie = "live"
  <2>1. s.account \in Account
    BY <1>1 DEF Sound, Server
  <2>2. s.account.enabled \in BOOLEAN /\ s.account.admin \in BOOLEAN
    BY <2>1 DEF Account
  <2>3. MeOf(s) = [enabled |-> s.account.enabled, required |-> s.account.admin /\ ~s.account.enabled]
    BY <1>1 DEF MeOf
  <2>4. MeOf(s) \in Me /\ MeOf(s).enabled = s.account.enabled
    BY <2>2, <2>3 DEF Me
  <2>5. MeOf(s) # None
    BY <1>0, <2>4
  <2> QED
    BY <2>1, <2>4, <2>5
<1>2. CASE s.cookie # "live"
  BY <1>2 DEF MeOf
<1> QED
  BY <1>1, <1>2

LEMMA Telling == BuildMe = MeOf(srv)
BY DEF BuildMe, MeOf

LEMMA TruthType ==
  ASSUME Sound(srv), NEW k \in Keys
  PROVE  Truth[k] \in Known[k]
<1>1. Truth["me"] = BuildMe /\ Truth["setup"] = srv.needsSetup
  BY DEF Truth
<1>2. srv.needsSetup \in BOOLEAN
  BY DEF Sound, Server
<1> QED
  BY <1>1, <1>2, BuildMeType, Telling, BothKnown DEF Keys

\* The fields that a handler sets.
LEMMA ServerFields ==
  ASSUME NEW s \in Server
  PROVE  /\ \A c \in {"none", "live", "dead"} : [s EXCEPT !.cookie = c] \in Server
         /\ \A b \in BOOLEAN : [s EXCEPT !.pending = b] \in Server
         /\ \A a \in Account : [s EXCEPT !.account = a] \in Server
         /\ [s EXCEPT !.needsSetup = FALSE] \in Server
BY DEF Server

LEMMA EnabledField ==
  ASSUME NEW s \in Server, s.account \in Account, NEW b \in BOOLEAN
  PROVE  /\ [s EXCEPT !.account.enabled = b] = [s EXCEPT !.account = [s.account EXCEPT !.enabled = b]]
         /\ [s EXCEPT !.account.enabled = b] \in Server
         /\ [s EXCEPT !.account.enabled = b].account \in Account
         /\ [s EXCEPT !.account.enabled = b].account.enabled = b
         /\ [s EXCEPT !.account.enabled = b].cookie = s.cookie
         /\ [s EXCEPT !.account.enabled = b].pending = s.pending
<1>1. [s.account EXCEPT !.enabled = b] \in Account /\ [s.account EXCEPT !.enabled = b].enabled = b
  BY DEF Account
<1>2. [s EXCEPT !.account.enabled = b] = [s EXCEPT !.account = [s.account EXCEPT !.enabled = b]]
  OBVIOUS
<1> QED
  BY <1>1, <1>2, ServerFields DEF Server

LEMMA AcceptsType ==
  ASSUME Sound(srv), NEW do \in Forms, NEW s \in Accepts(do)
  PROVE  /\ Sound(s)
         /\ do \in {"totp", "regen", "change"} => s = srv
         /\ do \in {"verify", "setup", "accept"} => s.cookie = "live"
         /\ do = "login" => /\ srv.account \in Account
                            /\ IF srv.account.enabled THEN s.cookie = srv.cookie /\ s.account = srv.account
                               ELSE s.cookie = "live"
<1>00. None \notin Account
  BY AccountPagesAssumption
<1>0. srv \in Server /\ (srv.account # None => srv.account \in Account)
  BY DEF Sound, Server
<1>1. CASE do = "login"
  <2>1. s \in Login
    BY <1>1 DEF Accepts
  <2>2. srv.account \in Account
    BY <1>0, <2>1 DEF Login
  <2>3. srv.account # None
    BY <2>1 DEF Login
  <2>4. CASE srv.account.enabled
    <3>1. s = [srv EXCEPT !.pending = TRUE]
      BY <2>1, <2>3, <2>4 DEF Login
    <3> QED
      BY <1>0, <1>1, <2>2, <2>3, <2>4, <3>1 DEF Sound, Server
  <2>5. CASE ~srv.account.enabled
    <3>1. s = [srv EXCEPT !.cookie = "live"]
      BY <2>1, <2>3, <2>5 DEF Login, CompleteLogin
    <3> QED
      BY <1>0, <1>1, <2>2, <2>3, <2>5, <3>1 DEF Sound, Server
  <2> QED
    BY <2>4, <2>5
<1>2. CASE do = "verify"
  <2>1. s = [[srv EXCEPT !.pending = FALSE] EXCEPT !.cookie = "live"] /\ srv.pending
    BY <1>2 DEF Accepts, LoginVerify, CompleteLogin
  <2> QED
    BY <1>0, <1>2, <2>1 DEF Sound, Server
<1>3. CASE do = "setup"
  <2> DEFINE a == [admin |-> TRUE, enabled |-> FALSE]
  <2>1. s = [[srv EXCEPT !.needsSetup = FALSE, !.account = a] EXCEPT !.cookie = "live"]
    BY <1>3 DEF Accepts, RunSetup, CompleteLogin
  <2>2. a \in Account
    BY DEF Account
  <2>3. a # None
    BY <1>00, <2>2
  <2> QED
    BY <1>0, <1>3, <2>1, <2>2, <2>3 DEF Sound, Server
<1>4. CASE do = "accept"
  <2>1. PICK role \in BOOLEAN : s = [[srv EXCEPT !.account = [admin |-> role, enabled |-> FALSE]] EXCEPT !.cookie = "live"]
    BY <1>4 DEF Accepts, AcceptInvite, CompleteLogin
  <2> DEFINE a == [admin |-> role, enabled |-> FALSE]
  <2>2. a \in Account
    BY DEF Account
  <2>3. a # None
    BY <1>00, <2>2
  <2> QED
    BY <1>0, <1>4, <2>1, <2>2, <2>3 DEF Sound, Server
<1>5. CASE do \in {"logout", "everywhere"}
  BY <1>0, <1>5 DEF Accepts, Logout, Sound, Server
<1>6. CASE do \in {"change", "totp", "regen"}
  BY <1>0, <1>6 DEF Accepts, ChangePassword, MfaSetup, Regenerate
<1>7. CASE do \in {"enable", "disable"}
  <2>1. PICK b \in BOOLEAN : s = [srv EXCEPT !.account.enabled = b] /\ srv.cookie = "live"
    BY <1>7 DEF Accepts, MfaEnable, MfaDisable
  <2>2. srv.account \in Account
    BY <1>0, <2>1 DEF Sound
  <2>3. s \in Server /\ s.account \in Account /\ s.account # None
    BY <1>0, <1>00, <2>1, <2>2, EnabledField
  <2> QED
    BY <1>7, <2>3 DEF Sound
<1> QED
  BY <1>1, <1>2, <1>3, <1>4, <1>5, <1>6, <1>7 DEF Forms, Section

(***************************************************************************)
(* The cache                                                               *)
(***************************************************************************)
LEMMA QueryFields ==
  ASSUME NEW k \in Keys, NEW q \in Query(k)
  PROVE  /\ \A b \in BOOLEAN : /\ [q EXCEPT !.lag = b] \in Query(k)
                               /\ [q EXCEPT !.invalid = b] \in Query(k)
                               /\ [q EXCEPT !.early = b] \in Query(k)
         /\ \A d \in Known[k] : /\ [q EXCEPT !.data = d] \in Query(k)
                                /\ [q EXCEPT !.is = "read", !.read = d] \in Query(k)
         /\ [q EXCEPT !.is = "idle"] \in Query(k)
         /\ [q EXCEPT !.is = "idle", !.read = Undefined, !.failed = TRUE, !.lag = TRUE] \in Query(k)
<1>1. Undefined \in Known[k]
  BY BothKnown
<1> QED
  BY <1>1 DEF Query

LEMMA UnaskedType == \A k \in Keys : Unasked \in Query(k)
BY BothKnown DEF Unasked, Query

LEMMA AskType ==
  ASSUME NEW k \in Keys, NEW q \in Query(k), NEW why \in {"page", "network"}
  PROVE  /\ Ask(q, why) \in Query(k) /\ Ask(q, why).is # "idle"
         /\ Ask(q, why).data = q.data /\ Ask(q, why).invalid = q.invalid /\ Ask(q, why).lag = q.lag
         /\ q.is = "idle" => Ask(q, why).why = why
<1>1. CASE q.is # "idle"
  BY <1>1 DEF Ask
<1>2. CASE q.is = "idle"
  <2>1. Ask(q, why) = [q EXCEPT !.is = "asked", !.why = why, !.early = FALSE, !.failed = FALSE]
    BY <1>2 DEF Ask
  <2> QED
    BY <2>1 DEF Query
<1> QED
  BY <1>1, <1>2

\* What an event may do to a query without an answer: it is under way, or nothing changed.
LEMMA MountedType ==
  ASSUME NEW k \in Keys, NEW q \in Query(k), NEW stale \in BOOLEAN
  PROVE  /\ Mounted(k, q, stale) \in Query(k)
         /\ Mounted(k, q, stale) = q \/ Mounted(k, q, stale).is # "idle"
BY AskType DEF Mounted

LEMMA InvalidateType ==
  ASSUME Cache(query), NEW k \in Keys
  PROVE  Invalidate(k) \in Query(k) /\ Invalidate(k).invalid
<1> DEFINE q == [query[k] EXCEPT !.invalid = TRUE]
           r == [q EXCEPT !.is = IF q.data = Undefined THEN @ ELSE "idle"]
<1>1. q \in Query(k) /\ q.invalid
  BY DEF Cache, Query
<1>2. r \in Query(k) /\ r.invalid
  BY <1>1 DEF Query
<1>3. Ask(r, "page") \in Query(k) /\ Ask(r, "page").invalid
  BY <1>2, AskType
<1>4. Invalidate(k) = IF page \notin Uses[k] THEN q ELSE Ask(r, "page")
  BY DEF Invalidate
<1> QED
  BY <1>1, <1>3, <1>4

LEMMA SetDataType ==
  ASSUME Cache(query), NEW d \in Me \cup {None}
  PROVE  /\ SetData(d) \in Query("me") /\ SetData(d).data = d
         /\ ~SetData(d).lag => d = BuildMe
<1>1. d \in Known["me"] /\ query.me \in Query("me")
  BY BothKnown DEF Cache, Keys
<1>2. (d # BuildMe) \in BOOLEAN
  OBVIOUS
<1> HIDE DEF BuildMe
<1> QED
  BY <1>1, <1>2 DEF SetData, Query

LEMMA CacheParts ==
  ASSUME NEW c, Cache(c)
  PROVE  c.me \in Query("me") /\ c.setup \in Query("setup") /\ c.me.is \in {"idle", "asked", "read"}
BY DEF Cache, Keys, Query

\* Codes that are left make the answer that was there late.
LEMMA LeftType ==
  ASSUME Cache(query), panel \in BOOLEAN
  PROVE  Cache(Left) /\ Left.me = [query.me EXCEPT !.lag = @ \/ panel] /\ Left.setup = query.setup
<1>1. query.me \in Query("me") /\ "me" \in Keys /\ "setup" \in Keys \ {"me"}
  BY CacheParts DEF Keys
<1>2. (query.me.lag \/ panel) \in BOOLEAN
  OBVIOUS
<1> DEFINE q == [query.me EXCEPT !.lag = query.me.lag \/ panel]
<1>3. q \in Query("me")
  BY <1>1, <1>2, QueryFields
<1>4. Left = [query EXCEPT !["me"] = q]
  BY DEF Left
<1> HIDE DEF q
<1>5. Cache(Left) /\ Left["me"] = q /\ Left["setup"] = query["setup"]
  BY <1>1, <1>3, <1>4 DEF Cache
<1> QED
  BY <1>5 DEF q

\* Nothing is asked and nothing is known to be old.
Calm(q) == q.data # Undefined /\ q.is = "idle" /\ ~q.lag /\ ~q.invalid

LEMMA VisitType ==
  ASSUME NEW c, Cache(c), NEW p, NEW stale \in BOOLEAN, Visit(p, c, stale)
  PROVE  /\ page' = p /\ scan' = FALSE /\ panel' = FALSE
         /\ Cache(query') /\ (Calm(query.me') => query.me' = c.me)
<1>1. page' = p /\ scan' = FALSE /\ panel' = FALSE
  BY DEF Visit
<1>2. query' = [k \in Keys |-> IF p \in Uses[k] THEN Mounted(k, c[k], stale) ELSE c[k]]
  BY DEF Visit
<1>3. \A k \in Keys : query'[k] \in Query(k) /\ (query'[k] = c[k] \/ query'[k].is # "idle")
  BY <1>2, MountedType DEF Cache
<1>4. Cache(query')
  BY <1>2, <1>3 DEF Cache
<1>5. query.me' = c.me \/ query.me'.is # "idle"
  BY <1>3 DEF Keys
<1> QED
  BY <1>1, <1>4, <1>5 DEF Calm

LEMMA GoneType ==
  ASSUME post \in Request \cup {None}, NEW p
  PROVE  /\ Gone(p) \in Request \cup {None}
         /\ Gone(p) = None <=> post = None
         /\ post # None => /\ Gone(p).do = post.do /\ Gone(p).ok = post.ok /\ Gone(p).me = post.me
                           /\ Gone(p).is = post.is
                           /\ Gone(p).live => post.live /\ (p = page \/ post.do = "logout")
<1>0. None \notin Request
  BY AccountPagesAssumption
<1>1. CASE post = None \/ p = page \/ (post.do = "logout" /\ p \in Protected)
  <2>1. Gone(p) = post
    BY <1>1 DEF Gone
  <2> QED
    BY <1>1, <2>1
<1>2. CASE ~(post = None \/ p = page \/ (post.do = "logout" /\ p \in Protected))
  <2>1. Gone(p) = [post EXCEPT !.live = FALSE] /\ post \in Request
    BY <1>2 DEF Gone
  <2> QED
    BY <1>0, <1>2, <2>1 DEF Request
<1> QED
  BY <1>1, <1>2

LEMMA TargetType ==
  /\ Target # None => Target \in Pages
  /\ Target # None => Target # page
BY DEF Target, PublicOnly, ProtectedRoute, SetupWizard, Pages, Public, Protected

(***************************************************************************)
(* Types, and a request that was not served is not accepted                *)
(***************************************************************************)
Types ==
  /\ Sound(srv) /\ Cache(query)
  /\ page \in Pages /\ scan \in BOOLEAN /\ panel \in BOOLEAN
  /\ post \in Request \cup {None} /\ events \in 0..MaxEvents
  /\ post # None /\ post.is = "sent" => ~post.ok

LEMMA PostFields ==
  ASSUME post \in Request
  PROVE  /\ post # None /\ post.do \in Forms /\ post.live \in BOOLEAN /\ post.ok \in BOOLEAN
         /\ post.me \in Me \cup {None}
         /\ [post EXCEPT !.live = FALSE] \in Request
         /\ [post EXCEPT !.ok = FALSE] \in Request
         /\ [post EXCEPT !.is = "served"] \in Request
         /\ \A m \in Me \cup {None} : [post EXCEPT !.is = "served", !.ok = TRUE, !.me = m] \in Request
BY AccountPagesAssumption DEF Request

LEMMA LagType ==
  ASSUME Cache(query), NEW c, c = [k \in Keys |-> [query[k] EXCEPT !.lag = TRUE]]
  PROVE  Cache(c) /\ c.me = [query.me EXCEPT !.lag = TRUE]
<1>1. \A k \in Keys : [query[k] EXCEPT !.lag = TRUE] \in Query(k)
  BY QueryFields DEF Cache
<1> QED
  BY <1>1 DEF Cache, Keys

LEMMA CountedType == events \in 0..MaxEvents /\ Counted => events' \in 0..MaxEvents
BY AccountPagesAssumption DEF Counted

LEMMA UserType == Types /\ User => Types'
<1> SUFFICES ASSUME Types, User PROVE Types'
  OBVIOUS
<1>0. Cache(query) /\ panel \in BOOLEAN /\ post \in Request \cup {None} /\ None \notin Request
  BY AccountPagesAssumption DEF Types
<1>1. ASSUME NEW p \in Pages, NEW stale \in BOOLEAN, Go(p, stale) PROVE Types'
  <2>0. Visit(p, Left, stale) /\ Cache(Left)
    BY <1>0, <1>1, LeftType DEF Go
  <2>1. Cache(query') /\ page' = p /\ scan' = FALSE /\ panel' = FALSE
    BY <2>0, VisitType
  <2>2. Sound(srv') /\ post' = Gone(p) /\ Counted
    BY <1>1 DEF Go, Types
  <2> QED
    BY <1>0, <2>1, <2>2, GoneType, CountedType DEF Types
<1>2. ASSUME NEW do \in Forms, Send(do) PROVE Types'
  <2>1. post' \in Request /\ post'.ok = FALSE
    BY <1>2 DEF Send, Request
  <2> DEFINE q == [query.me EXCEPT !.early = query.me.is # "idle"]
  <2>2. q \in Query("me")
    BY <1>0, CacheParts, QueryFields DEF Keys
  <2>3. query' = [query EXCEPT !["me"] = q]
    BY <1>2 DEF Send
  <2> HIDE DEF q
  <2>4. Cache(query')
    BY <1>0, <2>2, <2>3 DEF Cache
  <2> QED
    BY <1>2, <2>1, <2>4, CountedType DEF Send, Types
<1>3. ASSUME NEW stale \in BOOLEAN, Continue(stale) PROVE Types'
  <2> DEFINE patched == IF SignedIn THEN [enabled |-> TRUE, required |-> FALSE] ELSE query.me.data
             q == [Invalidate("me") EXCEPT !.data = patched]
  <2>1. patched \in Known["me"]
    BY <1>0, CacheParts, BothKnown DEF Me, Query
  <2>2. q \in Query("me")
    BY <1>0, <2>1, InvalidateType, QueryFields DEF Keys
  <2>3. Visit("app", [query EXCEPT !["me"] = q], stale) /\ UNCHANGED <<srv, post, events>>
    BY <1>3 DEF Continue
  <2> HIDE DEF q
  <2>4. Cache([query EXCEPT !["me"] = q])
    BY <1>0, <2>2 DEF Cache
  <2>5. Cache(query') /\ page' = "app" /\ scan' = FALSE /\ panel' = FALSE
    BY <2>3, <2>4, VisitType
  <2> QED
    BY <2>3, <2>5 DEF Types, Pages, Protected
<1>4. CASE Done
  <2>1. Invalidate("me") \in Query("me")
    BY <1>0, InvalidateType DEF Keys
  <2>2. Cache([query EXCEPT !["me"] = Invalidate("me")])
    BY <1>0, <2>1 DEF Cache
  <2>3. Cache(query')
    BY <1>0, <1>4, <2>2 DEF Done
  <2> QED
    BY <1>4, <2>3 DEF Done, Types
<1>5. CASE Reload
  <2>1. Cache([k \in Keys |-> Unasked])
    BY UnaskedType DEF Cache
  <2> DEFINE p == IF page = "code" THEN "login" ELSE page
  <2>2. Visit(p, [k \in Keys |-> Unasked], FALSE) /\ p \in Pages
    BY <1>5 DEF Reload, Types, Pages, Public
  <2> HIDE DEF p
  <2>3. Cache(query') /\ page' = p /\ scan' = FALSE /\ panel' = FALSE
    BY <2>1, <2>2, VisitType
  <2> QED
    BY <1>5, <2>2, <2>3, CountedType DEF Reload, Types
<1> QED
  BY <1>1, <1>2, <1>3, <1>4, <1>5 DEF User

LEMMA SettleType == Types /\ Settle => Types'
<1> SUFFICES ASSUME Types, Settle PROVE Types'
  OBVIOUS
<1>0. Cache(query) /\ panel \in BOOLEAN /\ post \in Request \cup {None} /\ None \notin Request
  BY AccountPagesAssumption DEF Types
\* A form's end leaves the types if it leaves those of the client.
<1>1. ASSUME NEW forms \in SUBSET Forms, Settles(forms), Cache(query'), page' \in Pages, scan' \in BOOLEAN,
             panel' \in BOOLEAN
      PROVE  Types'
  BY <1>1 DEF Settles, Types
<1>2. ASSUME NEW p \in Pages, NEW c, Cache(c), NEW stale \in BOOLEAN, LeadsOn(p, c, stale)
      PROVE  Cache(query') /\ page' \in Pages /\ scan' \in BOOLEAN /\ panel' \in BOOLEAN
  <2>1. CASE post.live
    BY <1>2, <2>1, VisitType DEF LeadsOn
  <2>2. CASE ~post.live
    BY <1>2, <2>2 DEF LeadsOn, Types
  <2> QED
    BY <2>1, <2>2
<1>3. \A k \in Keys : Cache([query EXCEPT ![k] = Invalidate(k)])
  <2> TAKE k \in Keys
  <2>1. Invalidate(k) \in Query(k)
    BY <1>0, InvalidateType
  <2> QED
    BY <1>0, <2>1 DEF Cache
<1>4. CASE ErrorShown
  BY <1>1, <1>4 DEF ErrorShown, Types
<1>5. CASE CodeAsked
  BY <1>1, <1>5 DEF CodeAsked, Types, Pages, Public, Forms
<1>6. CASE SecretShown
  BY <1>0, <1>1, <1>6, PostFields DEF SecretShown, Types, Forms, Section
<1>7. CASE CodesShown
  <2> DEFINE q == [query.me EXCEPT !.lag = query.me.lag \/ ~post.live]
  <2>1. query.me \in Query("me") /\ (query.me.lag \/ ~post.live) \in BOOLEAN
    BY <1>0, CacheParts
  <2>2. q \in Query("me")
    BY <2>1, QueryFields DEF Keys
  <2>3. query' = [query EXCEPT !["me"] = q]
    BY <1>7 DEF CodesShown
  <2> HIDE DEF q
  <2>4. Cache(query')
    BY <1>0, <2>2, <2>3 DEF Cache
  <2> QED
    BY <1>0, <1>1, <1>7, <2>4, PostFields DEF CodesShown, Types, Forms, Section
<1>8. CASE Disabled
  <2>1. Cache(query')
    BY <1>3, <1>8 DEF Disabled, Keys
  <2> QED
    BY <1>1, <1>8, <2>1 DEF Disabled, Types, Forms, Section
<1>9. ASSUME NEW stale \in BOOLEAN, NEW from \in Protected, SignedInNow(from, stale) PROVE Types'
  <2> DEFINE m == SetData(post.me)
             i == IF post.do = "setup" THEN Invalidate("setup") ELSE query.setup
             c == [query EXCEPT !["me"] = m, !["setup"] = i]
             p == LeadsTo(post.do, from)
  <2>1. m \in Query("me") /\ i \in Query("setup")
    <3>1. post.me \in Me \cup {None}
      BY <1>0, <1>9, PostFields DEF SignedInNow
    <3> QED
      BY <1>0, <3>1, SetDataType, InvalidateType, CacheParts DEF Keys
  <2>2. Settles({"login", "verify", "setup", "accept"}) /\ LeadsOn(p, c, stale)
    BY <1>9 DEF SignedInNow
  <2>3. p \in Pages
    BY DEF LeadsTo, Pages, Protected
  <2> HIDE DEF m, i, p
  <2>4. Cache(c)
    BY <1>0, <2>1 DEF Cache, Keys
  <2> HIDE DEF c
  <2> QED
    BY <1>1, <1>2, <2>2, <2>3, <2>4 DEF Forms
<1>10. ASSUME NEW stale \in BOOLEAN, SignedOut(stale) PROVE Types'
  <2>1. Cache([k \in Keys |-> Unasked])
    BY UnaskedType DEF Cache
  <2>2. CASE post.live
    <3>1. Visit("login", [k \in Keys |-> Unasked], stale)
      BY <1>10, <2>2 DEF SignedOut, Cleared
    <3>2. Cache(query') /\ page' = "login" /\ scan' = FALSE /\ panel' = FALSE
      BY <2>1, <3>1, VisitType
    <3> QED
      BY <1>1, <1>10, <3>2 DEF SignedOut, Forms, Pages, Public
  <2>3. CASE ~post.live
    <3>1. \A k \in Keys : Ask(Unasked, "page") \in Query(k) /\ Unasked \in Query(k)
      BY UnaskedType, AskType
    <3>2. Cache(query')
      BY <1>10, <2>3, <3>1 DEF SignedOut, Cache
    <3> QED
      BY <1>1, <1>10, <2>3, <3>2 DEF SignedOut, Forms, Types
  <2> QED
    BY <2>2, <2>3
<1>11. ASSUME NEW stale \in BOOLEAN, PasswordChanged(stale) PROVE Types'
  <2>1. "me" \in Keys /\ "app" \in Pages
    BY DEF Keys, Pages, Protected
  <2>2. Settles({"change"}) /\ LeadsOn("app", [query EXCEPT !["me"] = Invalidate("me")], stale)
    BY <1>11 DEF PasswordChanged
  <2> QED
    BY <1>1, <1>2, <1>3, <2>1, <2>2 DEF Forms
<1> QED
  BY <1>4, <1>5, <1>6, <1>7, <1>8, <1>9, <1>10, <1>11 DEF Settle

LEMMA NetworkType == Types /\ Network => Types'
<1> SUFFICES ASSUME Types, Network PROVE Types'
  OBVIOUS
<1>0. /\ Sound(srv) /\ Cache(query) /\ panel \in BOOLEAN /\ post \in Request \cup {None}
      /\ None \notin Request /\ page \in Pages
  BY AccountPagesAssumption DEF Types
<1>1. ASSUME NEW k \in Keys, Read(k) PROVE Types'
  <2> DEFINE q == [query[k] EXCEPT !.is = "read", !.read = Truth[k]]
  <2>1. q \in Query(k)
    BY <1>0, TruthType, QueryFields DEF Cache
  <2>2. query' = [query EXCEPT ![k] = q]
    BY <1>1 DEF Read
  <2> HIDE DEF q
  <2>3. Cache(query')
    BY <1>0, <2>1, <2>2 DEF Cache
  <2> QED
    BY <1>1, <2>3 DEF Read, Types
<1>2. ASSUME NEW k \in Keys, Answer(k) PROVE Types'
  <2> DEFINE late == query[k].read # Truth[k]
             q == [Unasked EXCEPT !.data = query[k].read, !.lag = late]
  <2>1. query[k].read \in Known[k] /\ late \in BOOLEAN
    BY <1>0 DEF Cache, Query
  <2>2. query' = [query EXCEPT ![k] = q]
    BY <1>2 DEF Answer
  <2> HIDE DEF late
  <2>3. q \in Query(k)
    BY <2>1, UnaskedType DEF Query
  <2> HIDE DEF q
  <2>4. Cache(query')
    BY <1>0, <2>2, <2>3 DEF Cache
  <2>5. scan' \in BOOLEAN /\ panel' \in BOOLEAN /\ (post' = post \/ (post # None /\ post' = [post EXCEPT !.live = FALSE]))
    BY <1>2 DEF Answer, Types
  <2>6. post' \in Request \cup {None} /\ (post' # None /\ post'.is = "sent" => ~post'.ok)
    BY <1>0, <2>5 DEF Types, Request
  <2> QED
    BY <1>2, <2>4, <2>5, <2>6 DEF Answer, Types
<1>3. ASSUME NEW k \in Keys, FetchFails(k) PROVE Types'
  <2> DEFINE q == [query[k] EXCEPT !.is = "idle", !.read = Undefined, !.failed = TRUE, !.lag = TRUE]
  <2>1. q \in Query(k)
    BY <1>0, QueryFields DEF Cache
  <2>2. query' = [query EXCEPT ![k] = q]
    BY <1>3 DEF FetchFails
  <2> HIDE DEF q
  <2>3. Cache(query')
    BY <1>0, <2>1, <2>2 DEF Cache
  <2> QED
    BY <1>3, <2>3, CountedType DEF FetchFails, Types
<1>4. ASSUME NEW k \in Keys, Reconnect(k) PROVE Types'
  <2> DEFINE lost == query[k].data = Undefined /\ page \in Public \cup Protected
             c == IF lost THEN Left ELSE query
             q == Ask(c[k], "network")
  <2>1. Cache(c)
    BY <1>0, LeftType
  <2>2. q \in Query(k)
    BY <2>1, AskType DEF Cache
  <2>3. query' = [c EXCEPT ![k] = q]
    BY <1>4 DEF Reconnect
  <2>4. /\ page' = IF lost /\ page = "code" THEN "login" ELSE page
        /\ scan' = (scan /\ ~lost) /\ panel' = (panel /\ ~lost)
        /\ post' = IF lost /\ post # None THEN [post EXCEPT !.live = FALSE] ELSE post
        /\ UNCHANGED <<srv, events>>
    BY <1>4 DEF Reconnect
  <2> HIDE DEF q, c, lost
  <2>5. Cache(query')
    BY <2>1, <2>2, <2>3 DEF Cache
  <2>6. page' \in Pages /\ scan' \in BOOLEAN /\ panel' \in BOOLEAN
    BY <1>0, <2>4 DEF Pages, Public, Types
  <2>7. post' = post \/ (post # None /\ post' = [post EXCEPT !.live = FALSE])
    BY <2>4
  <2>8. post' \in Request \cup {None} /\ (post' # None /\ post'.is = "sent" => ~post'.ok)
    BY <1>0, <2>7 DEF Types, Request
  <2> QED
    BY <2>4, <2>5, <2>6, <2>8 DEF Types
<1>5. ASSUME NEW k \in Keys, Evict(k) PROVE Types'
  <2>1. query' = [query EXCEPT ![k] = Unasked] /\ Unasked \in Query(k)
    BY <1>5, UnaskedType DEF Evict
  <2>2. Cache(query')
    BY <1>0, <2>1 DEF Cache
  <2> QED
    BY <1>5, <2>2 DEF Evict, Types
<1>6. CASE Serve
  <2>0. post \in Request /\ post.do \in Forms /\ srv' \in Accepts(post.do)
    BY <1>0, <1>6, PostFields DEF Serve
  <2>1. Sound(srv')
    BY <1>0, <2>0, AcceptsType
  <2>2. BuildMe' \in Me \cup {None}
    BY <2>1, BuildMeType DEF BuildMe, MeOf
  <2> DEFINE m == IF post.do = "login" /\ srv.account.enabled THEN None ELSE BuildMe'
  <2>3. post' = [post EXCEPT !.is = "served", !.ok = TRUE, !.me = m]
    BY <1>6 DEF Serve
  <2>4. m \in Me \cup {None}
    BY <2>2
  <2> HIDE DEF m
  <2>5. post' \in Request /\ post'.is = "served"
    BY <2>0, <2>3, <2>4 DEF Request
  <2> QED
    BY <1>6, <2>1, <2>5 DEF Serve, Types
<1>7. CASE Refuse
  <2>1. post \in Request /\ post' = [post EXCEPT !.is = "served"]
    BY <1>0, <1>7 DEF Refuse
  <2>2. post' \in Request /\ post'.is = "served"
    BY <2>1 DEF Request
  <2> QED
    BY <1>7, <2>2 DEF Refuse, Types
<1>8. CASE AnswerLost
  <2>1. post \in Request /\ post' = [post EXCEPT !.ok = FALSE]
    BY <1>0, <1>8 DEF AnswerLost
  <2>2. post' \in Request /\ ~post'.ok
    BY <2>1 DEF Request
  <2>3. Cache(query')
    BY <1>0, <1>8, LagType DEF AnswerLost
  <2> QED
    BY <1>8, <2>2, <2>3, CountedType DEF AnswerLost, Types
<1> QED
  BY <1>1, <1>2, <1>3, <1>4, <1>5, <1>6, <1>7, <1>8 DEF Network

LEMMA ElsewhereType == Types /\ Elsewhere => Types'
<1> SUFFICES ASSUME Types, Elsewhere PROVE Types'
  OBVIOUS
<1>0. Sound(srv) /\ Cache(query) /\ None \notin Account
  BY AccountPagesAssumption DEF Types
<1>1. Cache(query')
  BY <1>0, LagType DEF Elsewhere
<1>2. CASE srv.account # None /\ srv' = [srv EXCEPT !.account.enabled = ~@]
  <2>1. srv.account \in Account /\ srv \in Server
    BY <1>0, <1>2 DEF Sound, Server
  <2>2. (~srv.account.enabled) \in BOOLEAN /\ srv' = [srv EXCEPT !.account.enabled = ~srv.account.enabled]
    BY <1>2
  <2>3. srv' \in Server /\ srv'.account \in Account
    BY <2>1, <2>2, EnabledField
  <2>4. Sound(srv')
    BY <1>0, <2>3 DEF Sound
  <2> QED
    BY <1>1, <2>4, CountedType DEF Elsewhere, Types
<1>3. CASE srv.cookie = "live" /\ srv' = [srv EXCEPT !.cookie = "dead"]
  <2>1. Sound(srv')
    BY <1>0, <1>3 DEF Sound, Server
  <2> QED
    BY <1>1, <2>1, CountedType DEF Elsewhere, Types
<1>4. CASE srv' = [srv EXCEPT !.needsSetup = FALSE]
  <2>1. Sound(srv')
    BY <1>0, <1>4 DEF Sound, Server
  <2> QED
    BY <1>1, <2>1, CountedType DEF Elsewhere, Types
<1> QED
  BY <1>2, <1>3, <1>4 DEF Elsewhere

LEMMA RedirectType == ASSUME Types, NEW stale \in BOOLEAN, Redirect(stale) PROVE Types'
<1>0. Cache(query) /\ panel \in BOOLEAN /\ post \in Request \cup {None} /\ None \notin Request
  BY AccountPagesAssumption DEF Types
<1>1. Visit(Target, Left, stale) /\ Cache(Left) /\ Target \in Pages
  BY <1>0, LeftType, TargetType DEF Redirect
<1>2. Cache(query') /\ page' = Target /\ scan' = FALSE /\ panel' = FALSE
  BY <1>1, VisitType
<1>3. Sound(srv') /\ post' = Gone(Target) /\ UNCHANGED events
  BY DEF Redirect, Types
<1> QED
  BY <1>0, <1>1, <1>2, <1>3, GoneType DEF Types

LEMMA TypesInductive == Init /\ [][Next]_vars => []Types
<1>1. Init => Types
  <2> SUFFICES ASSUME Init PROVE Types
    OBVIOUS
  <2>1. Cache(query)
    BY UnaskedType, AskType DEF Init, Cache
  <2>2. Sound(srv)
    BY DEF Init, Sound, Server
  <2>3. page \in Pages /\ scan \in BOOLEAN /\ panel \in BOOLEAN
    BY DEF Init, Pages, Public, Protected
  <2> QED
    BY <2>1, <2>2, <2>3, AccountPagesAssumption DEF Init, Types
<1>2. Types /\ [Next]_vars => Types'
  <2>1. Types /\ UNCHANGED vars => Types'
    BY DEF vars, client, Types
  <2> QED
    BY <2>1, UserType, SettleType, NetworkType, ElsewhereType, RedirectType DEF Next
<1> QED
  BY <1>1, <1>2, PTL

\* The server's state, what the client keeps of it, the route and the form's request
\* stay what they are declared to be; a live cookie or a half-done login has an account.
THEOREM TypeCorrect == Spec => []TypeOK
<1>1. Types => TypeOK
  BY DEF Types, TypeOK, Sound, Server, Cache
<1> QED
  BY <1>1, TypesInductive, PTL DEF Spec

(***************************************************************************)
(* Recovery codes                                                          *)
(***************************************************************************)
\* The server is asked for codes by a section that is there.
Issuing == post # None /\ post.live /\ post.do \in {"enable", "regen"}

\* Codes are shown or asked for where a section is; nothing but a way out is sent while
\* they are shown; and who the user is, is asked then only since before or by the network.
Codes ==
  /\ panel \/ Issuing => page \in {"security", "enrol"}
  /\ panel /\ post # None => post.live /\ post.do \in {"logout", "everywhere"}
  /\ (panel \/ Issuing) /\ query.me.is # "idle" => query.me.early \/ query.me.why = "network"

\* Codes may not be issued elsewhere, and what is kept of the query is what Codes speaks of.
LEMMA CodesKept ==
  ASSUME Codes, page' = page \/ ~(panel \/ Issuing), panel' => panel, Issuing' => Issuing,
         (panel' /\ post' # None) => (post # None /\ post'.live = post.live /\ post'.do = post.do),
         query'.me.is # "idle" => \/ query'.me.why = "network"
                                  \/ /\ query.me.is # "idle" /\ query'.me.why = query.me.why
                                     /\ query'.me.early = query.me.early
  PROVE  Codes'
BY DEF Codes

\* A page that is left takes its codes and its form with it.
LEMMA CodesLeft ==
  ASSUME Types, NEW p, p # page, NEW c, NEW stale, Visit(p, c, stale), post' = Gone(p)
  PROVE  Codes'
<1>1. panel' = FALSE
  BY DEF Visit
<1>2. ~Issuing'
  BY GoneType DEF Types, Issuing
<1> QED
  BY <1>1, <1>2 DEF Codes

LEMMA UserCodes == Types /\ Codes /\ User => Codes'
<1> SUFFICES ASSUME Types, Codes, User PROVE Codes'
  OBVIOUS
<1>1. ASSUME NEW p \in Pages, NEW stale \in BOOLEAN, Go(p, stale) PROVE Codes'
  BY <1>1, CodesLeft DEF Go
<1>2. ASSUME NEW do \in Forms, Send(do) PROVE Codes'
  <2>1. /\ query'.me.is = query.me.is /\ query'.me.why = query.me.why
        /\ query'.me.early = (query.me.is # "idle")
    BY <1>2, CacheParts DEF Send, Types, Cache, Keys, Query
  <2>2. /\ post = None /\ post'.do = do /\ post'.live /\ panel' = panel /\ page' = page /\ Offered(do)
    BY <1>2 DEF Send
  <2>3. panel => do \in {"logout", "everywhere"}
    BY <2>2 DEF Codes, Offered, Enrolling, MfaSetupRequired, EnrollSection, EnrolledSection, Forms, Section
  <2>4. do \in {"enable", "regen"} => page \in {"security", "enrol"}
    BY <2>2 DEF Offered, Enrolling, MfaSetupRequired, EnrollSection, EnrolledSection
  <2> QED
    BY <2>1, <2>2, <2>3, <2>4 DEF Codes, Issuing
<1>3. ASSUME NEW stale \in BOOLEAN, Continue(stale) PROVE Codes'
  <2>1. panel' = FALSE /\ post' = None
    BY <1>3 DEF Continue, Visit
  <2> QED
    BY <2>1 DEF Codes, Issuing
<1>4. CASE Done
  <2>1. panel' = FALSE /\ ~Issuing'
    BY <1>4 DEF Done, Codes, Issuing
  <2> QED
    BY <2>1 DEF Codes
<1>5. CASE Reload
  <2>1. panel' = FALSE /\ post' = None
    BY <1>5 DEF Reload, Visit
  <2> QED
    BY <2>1 DEF Codes, Issuing
<1> QED
  BY <1>1, <1>2, <1>3, <1>4, <1>5 DEF User

LEMMA SettleCodes == Types /\ Codes /\ Settle => Codes'
<1> SUFFICES ASSUME Types, Codes, Settle PROVE Codes'
  OBVIOUS
<1>1. ASSUME NEW forms, Settles(forms), forms \cap {"logout", "everywhere"} = {}
      PROVE  ~panel /\ post' = None /\ (~panel' => Codes')
  BY <1>1 DEF Settles, Codes, Issuing
<1>2. ASSUME NEW p, NEW c, NEW stale, LeadsOn(p, c, stale) PROVE panel' = FALSE \/ panel' = panel
  BY <1>2 DEF LeadsOn, Visit
<1>3. CASE ErrorShown
  BY <1>1, <1>3 DEF ErrorShown
<1>4. CASE CodeAsked
  BY <1>1, <1>4 DEF CodeAsked
<1>5. CASE SecretShown
  BY <1>1, <1>5 DEF SecretShown
<1>6. CASE CodesShown
  <2>1. /\ query'.me.is = query.me.is /\ query'.me.why = query.me.why
        /\ query'.me.early = query.me.early
    BY <1>6, CacheParts DEF CodesShown, Types, Cache, Keys, Query
  <2>2. post' = None /\ panel' = post.live /\ (post.live => Issuing) /\ page' = page
    BY <1>6 DEF CodesShown, Settles, Issuing
  <2> QED
    BY <2>1, <2>2 DEF Codes, Issuing
<1>7. CASE Disabled
  BY <1>1, <1>7 DEF Disabled
<1>8. ASSUME NEW stale \in BOOLEAN, NEW from \in Protected, SignedInNow(from, stale) PROVE Codes'
  <2>1. ~panel /\ (~panel' => Codes')
    BY <1>1, <1>8 DEF SignedInNow
  <2>2. panel' = FALSE \/ panel' = panel
    BY <1>2, <1>8 DEF SignedInNow
  <2> QED
    BY <2>1, <2>2
<1>9. ASSUME NEW stale \in BOOLEAN, SignedOut(stale) PROVE Codes'
  <2>1. post' = None /\ panel' = FALSE
    BY <1>9 DEF SignedOut, Settles, Visit, Codes, Types
  <2> QED
    BY <2>1 DEF Codes, Issuing
<1>10. ASSUME NEW stale \in BOOLEAN, PasswordChanged(stale) PROVE Codes'
  <2>1. ~panel /\ (~panel' => Codes')
    BY <1>1, <1>10 DEF PasswordChanged
  <2>2. panel' = FALSE \/ panel' = panel
    BY <1>2, <1>10 DEF PasswordChanged
  <2> QED
    BY <2>1, <2>2
<1> QED
  BY <1>3, <1>4, <1>5, <1>6, <1>7, <1>8, <1>9, <1>10 DEF Settle

LEMMA NetworkCodes == Types /\ Codes /\ Network => Codes'
<1> SUFFICES ASSUME Types, Codes, Network PROVE Codes'
  OBVIOUS
<1>0. /\ query.me \in Query("me") /\ DOMAIN query = Keys /\ post \in Request \cup {None}
      /\ None \notin Request /\ Cache(query) /\ panel \in BOOLEAN
  BY CacheParts, AccountPagesAssumption DEF Types, Cache
<1>1. ASSUME NEW k \in Keys, Read(k) PROVE Codes'
  <2>1. /\ query'.me.why = query.me.why /\ query'.me.early = query.me.early
        /\ query'.me.is # "idle" => query.me.is # "idle"
    BY <1>0, <1>1 DEF Read, Keys, Query
  <2> QED
    BY <1>1, <2>1, CodesKept DEF Read, Issuing
<1>2. ASSUME NEW k \in Keys, Answer(k) PROVE Codes'
  <2>1. query'.me.is = "idle" \/ query'.me = query.me
    BY <1>0, <1>2 DEF Answer, Keys, Unasked
  <2>2. \/ post' = post /\ (panel' => panel)
        \/ ~panel' /\ post' = [post EXCEPT !.live = FALSE] /\ post # None
    BY <1>2 DEF Answer
  <2>3. Issuing' => Issuing
    BY <1>0, <2>2 DEF Issuing, Request
  <2> QED
    BY <1>2, <2>1, <2>2, <2>3, CodesKept DEF Answer
<1>3. ASSUME NEW k \in Keys, FetchFails(k) PROVE Codes'
  <2>1. query'.me.is = "idle" \/ query'.me = query.me
    BY <1>0, <1>3 DEF FetchFails, Keys, Query
  <2> QED
    BY <1>3, <2>1, CodesKept DEF FetchFails, Issuing
<1>4. ASSUME NEW k \in Keys, Reconnect(k) PROVE Codes'
  <2> DEFINE lost == query[k].data = Undefined /\ page \in Public \cup Protected
             c == IF lost THEN Left ELSE query
  <2>1. /\ Cache(c) /\ c.me.is = query.me.is /\ c.me.why = query.me.why
        /\ c.me.early = query.me.early /\ c.me \in Query("me")
    BY <1>0, LeftType, CacheParts DEF Query
  <2>2. /\ query' = [c EXCEPT ![k] = Ask(c[k], "network")] /\ query[k].is = "idle"
        /\ page' = IF lost /\ page = "code" THEN "login" ELSE page
        /\ panel' = (panel /\ ~lost)
        /\ post' = IF lost /\ post # None THEN [post EXCEPT !.live = FALSE] ELSE post
    BY <1>4 DEF Reconnect
  <2> HIDE DEF c, lost
  <2>3. CASE k = "me"
    <3>1. query'.me = Ask(c.me, "network") /\ c.me.is = "idle"
      BY <2>1, <2>2, <2>3 DEF Cache, Keys
    <3>2. Ask(c.me, "network").why = "network"
      BY <2>1, <3>1, AskType DEF Keys
    <3> QED
      BY <1>0, <2>2, <3>1, <3>2, CodesKept DEF Issuing, Codes, Request
  <2>4. CASE k # "me"
    <3>1. query'.me = c.me
      BY <2>1, <2>2, <2>4 DEF Cache, Keys
    <3> QED
      BY <1>0, <2>1, <2>2, <3>1, CodesKept DEF Issuing, Codes, Request
  <2> QED
    BY <2>3, <2>4
<1>5. ASSUME NEW k \in Keys, Evict(k) PROVE Codes'
  <2>1. query'.me.is = "idle" \/ query'.me = query.me
    BY <1>0, <1>5 DEF Evict, Keys, Unasked
  <2> QED
    BY <1>5, <2>1, CodesKept DEF Evict, Issuing
<1>6. CASE Serve \/ Refuse \/ AnswerLost
  <2>1. post # None /\ post \in Request /\ panel' = panel /\ page' = page
    BY <1>0, <1>6 DEF Serve, Refuse, AnswerLost
  <2>2. post'.live = post.live /\ post'.do = post.do
    BY <1>6, <2>1 DEF Serve, Refuse, AnswerLost, Request
  <2>3. /\ query'.me.is = query.me.is /\ query'.me.why = query.me.why
        /\ query'.me.early = query.me.early
    BY <1>0, <1>6 DEF Serve, Refuse, AnswerLost, Keys, Query
  <2> QED
    BY <2>1, <2>2, <2>3, CodesKept DEF Issuing
<1> QED
  BY <1>1, <1>2, <1>3, <1>4, <1>5, <1>6 DEF Network

LEMMA CodesInductive == Init /\ [][Next]_vars => []Codes
<1>1. Init => Codes
  BY DEF Init, Codes, Issuing
<1>2. Types /\ Codes /\ [Next]_vars => Codes'
  <2>1. Codes /\ UNCHANGED vars => Codes'
    BY DEF vars, client, Codes, Issuing
  <2>2. Types /\ Codes /\ Elsewhere => Codes'
    <3> SUFFICES ASSUME Types, Codes, Elsewhere PROVE Codes'
      OBVIOUS
    <3>1. query'.me.is = query.me.is /\ query'.me.why = query.me.why /\ query'.me.early = query.me.early
      BY CacheParts DEF Elsewhere, Types, Keys, Query
    <3> QED
      BY <3>1, CodesKept DEF Elsewhere, Issuing
  <2>3. ASSUME Types, Codes, NEW stale \in BOOLEAN, Redirect(stale) PROVE Codes'
    BY <2>3, CodesLeft, TargetType DEF Redirect
  <2> QED
    BY <2>1, <2>2, <2>3, UserCodes, SettleCodes, NetworkCodes DEF Next
<1> QED
  BY <1>1, <1>2, TypesInductive, PTL

\* Recovery codes that are on the page are not taken from it by an answer that their own
\* issue brought about (SecuritySettings.tsx does not invalidate "me" before "Done").
THEOREM CodesStayOnPage == Spec => CodesAreSeen
<1>1. Types /\ Codes /\ [Next]_vars
        => [(\E k \in Keys : Answer(k)) /\ panel /\ ~panel' => query.me.early \/ query.me.why = "network"]_vars
  <2> SUFFICES ASSUME Codes, NEW k \in Keys, Answer(k), panel, ~panel'
               PROVE  query.me.early \/ query.me.why = "network"
    OBVIOUS
  <2>1. query.me.is = "read"
    BY DEF Answer
  <2> QED
    BY <2>1 DEF Codes
<1> QED
  BY <1>1, TypesInductive, CodesInductive, PTL DEF Spec, CodesAreSeen

(***************************************************************************)
(* What the client knows of its user                                       *)
(***************************************************************************)
\* As the client sees it, two-factor authentication can be set up.
ToBeEnabled(q) == q.data # None /\ ~q.data.enabled

\* The form that waits has an answer that tells the client.
Owed ==
  /\ post # None /\ post.ok
  /\ \/ post.do \in {"login", "verify", "setup", "accept"} /\ post.me # None
     \/ post.do \in {"logout", "everywhere", "disable"}
     \/ post.do = "enable" /\ ToBeEnabled(query.me)

\* What is known is true, or will be told by the form's answer or when codes are confirmed.
Fresh == Calm(query.me) /\ query.me.data # BuildMe => Owed \/ (panel /\ ToBeEnabled(query.me))

LEMMA BuildMeKept == UNCHANGED srv => BuildMe' = BuildMe
BY DEF BuildMe

\* The cache knows no more, and what was to be told is still to be told.
LEMMA FreshKept ==
  ASSUME Fresh, UNCHANGED srv,
         Calm(query'.me) => Calm(query.me) /\ query'.me.data = query.me.data,
         Owed => Owed' \/ ~Calm(query'.me),
         (panel /\ ToBeEnabled(query.me)) => (Owed' \/ panel' \/ ~Calm(query'.me))
  PROVE  Fresh'
BY BuildMeKept DEF Fresh, ToBeEnabled

\* A page that is left: the codes on it make its answer late, the form goes on waiting.
LEMMA FreshLeft ==
  ASSUME Types, Fresh, NEW p, NEW stale \in BOOLEAN, Visit(p, Left, stale), post' = Gone(p), UNCHANGED srv
  PROVE  Fresh'
<1>1. Cache(query) /\ panel \in BOOLEAN /\ post \in Request \cup {None} /\ query.me \in Query("me")
  BY CacheParts DEF Types
<1>2. Cache(Left) /\ Left.me = [query.me EXCEPT !.lag = @ \/ panel]
  BY <1>1, LeftType
<1>3. Calm(query'.me) => query'.me = Left.me
  BY <1>2, VisitType
<1>4. Calm(query'.me) => ~panel /\ Calm(query.me) /\ query'.me.data = query.me.data
  BY <1>1, <1>2, <1>3 DEF Calm, Query
<1>5. Calm(query'.me) => (Owed => Owed')
  BY <1>1, <1>4, GoneType DEF Owed, ToBeEnabled
<1> QED
  BY <1>4, <1>5, FreshKept

LEMMA UserFresh == Types /\ Codes /\ Fresh /\ User => Fresh'
<1> SUFFICES ASSUME Types, Codes, Fresh, User PROVE Fresh'
  OBVIOUS
<1>0. /\ query.me \in Query("me") /\ DOMAIN query = Keys /\ Cache(query) /\ panel \in BOOLEAN
  BY CacheParts DEF Types, Cache
<1>1. ASSUME NEW p \in Pages, NEW stale \in BOOLEAN, Go(p, stale) PROVE Fresh'
  BY <1>1, FreshLeft DEF Go
<1>2. ASSUME NEW do \in Forms, Send(do) PROVE Fresh'
  <2>1. Calm(query'.me) = Calm(query.me) /\ query'.me.data = query.me.data
    BY <1>0, <1>2 DEF Send, Keys, Query, Calm
  <2>2. ~Owed /\ panel' = panel /\ UNCHANGED srv
    BY <1>2 DEF Send, Owed
  <2> QED
    BY <2>1, <2>2, FreshKept
<1>3. ASSUME NEW stale \in BOOLEAN, Continue(stale) PROVE Fresh'
  <2> DEFINE patched == IF SignedIn THEN [enabled |-> TRUE, required |-> FALSE] ELSE query.me.data
             q == [Invalidate("me") EXCEPT !.data = patched]
             c == [query EXCEPT !["me"] = q]
  <2>1. patched \in Known["me"]
    BY <1>0, BothKnown DEF Me, Query
  <2>11. Invalidate("me") \in Query("me") /\ Invalidate("me").invalid
    BY <1>0, InvalidateType DEF Keys
  <2> HIDE DEF patched
  <2>2. q \in Query("me") /\ q.invalid
    BY <2>1, <2>11 DEF Query
  <2>3. Visit("app", c, stale)
    BY <1>3 DEF Continue, patched
  <2> HIDE DEF q
  <2>4. Cache(c) /\ c.me = q
    BY <1>0, <2>2 DEF Cache, Keys
  <2> HIDE DEF c
  <2>5. ~Calm(query'.me)
    BY <2>2, <2>3, <2>4, VisitType DEF Calm
  <2> QED
    BY <2>5 DEF Fresh
<1>4. CASE Done
  <2>1. CASE query.me.data.enabled
    BY <1>4, <2>1, BuildMeKept DEF Done, Fresh, Owed, ToBeEnabled
  <2>2. CASE ~query.me.data.enabled
    <3>1. query'.me = Invalidate("me")
      BY <1>0, <1>4, <2>2 DEF Done, Keys
    <3> QED
      BY <1>0, <3>1, InvalidateType DEF Fresh, Calm, Keys
  <2> QED
    BY <2>1, <2>2
<1>5. CASE Reload
  <2> DEFINE c == [k \in Keys |-> Unasked]
             p == IF page = "code" THEN "login" ELSE page
  <2>1. Cache(c) /\ c.me.data = Undefined
    BY UnaskedType DEF Cache, Keys, Unasked
  <2>2. Visit(p, c, FALSE)
    BY <1>5 DEF Reload
  <2> HIDE DEF c, p
  <2>3. ~Calm(query'.me)
    BY <2>1, <2>2, VisitType DEF Calm
  <2> QED
    BY <2>3 DEF Fresh
<1> QED
  BY <1>1, <1>2, <1>3, <1>4, <1>5 DEF User

LEMMA SettleFresh == Types /\ Codes /\ Fresh /\ Settle => Fresh'
<1> SUFFICES ASSUME Types, Codes, Fresh, Settle PROVE Fresh'
  OBVIOUS
<1>0. /\ query.me \in Query("me") /\ DOMAIN query = Keys /\ Cache(query) /\ panel \in BOOLEAN
      /\ post \in Request \cup {None}
  BY CacheParts DEF Types, Cache
<1>1. CASE ErrorShown
  <2>1. ~Owed
    BY <1>1 DEF ErrorShown, Owed
  <2> QED
    BY <1>1, <2>1, FreshKept DEF ErrorShown, Settles
<1>2. CASE CodeAsked
  <2>1. ~Owed
    BY <1>2 DEF CodeAsked, Settles, Owed
  <2> QED
    BY <1>2, <2>1, FreshKept DEF CodeAsked, Settles
<1>3. CASE SecretShown
  <2>1. ~Owed
    BY <1>3 DEF SecretShown, Settles, Owed
  <2> QED
    BY <1>3, <2>1, FreshKept DEF SecretShown, Settles
<1>4. CASE CodesShown
  <2>1. query'.me = [query.me EXCEPT !.lag = query.me.lag \/ ~post.live] /\ panel' = post.live /\ UNCHANGED srv
    BY <1>0, <1>4 DEF CodesShown, Settles, Keys
  <2>2. post.live \in BOOLEAN
    BY <1>0, <1>4, PostFields DEF CodesShown
  <2>3. Calm(query'.me) => post.live /\ Calm(query.me) /\ query'.me.data = query.me.data
    BY <1>0, <2>1, <2>2 DEF Calm, Query
  <2>4. Calm(query'.me) => panel'
    BY <2>1, <2>2, <2>3
  <2>5. Owed => ToBeEnabled(query.me)
    BY <1>4 DEF CodesShown, Settles, Owed
  <2> QED
    BY <2>1, <2>3, <2>4, <2>5, BuildMeKept DEF Fresh, ToBeEnabled
<1>5. CASE Disabled
  <2>1. query'.me = Invalidate("me")
    BY <1>0, <1>5 DEF Disabled, Keys
  <2> QED
    BY <1>0, <2>1, InvalidateType DEF Fresh, Calm, Keys
\* A cache that is led on is not better known than it was.
<1>6. ASSUME NEW p, NEW c, Cache(c), NEW stale \in BOOLEAN, LeadsOn(p, c, stale)
      PROVE  Calm(query'.me) => query'.me = c.me
  <2>1. CASE post.live
    BY <1>6, <2>1, VisitType DEF LeadsOn
  <2>2. CASE ~post.live
    BY <1>6, <2>2 DEF LeadsOn
  <2> QED
    BY <2>1, <2>2
<1>7. ASSUME NEW stale \in BOOLEAN, NEW from \in Protected, SignedInNow(from, stale) PROVE Fresh'
  <2> DEFINE m == SetData(post.me)
             i == IF post.do = "setup" THEN Invalidate("setup") ELSE query.setup
             c == [query EXCEPT !["me"] = m, !["setup"] = i]
             p == LeadsTo(post.do, from)
  <2>0. post.me \in Me \cup {None}
    BY <1>0, <1>7, PostFields DEF SignedInNow
  <2>1. m \in Query("me") /\ i \in Query("setup") /\ m.data = post.me /\ (~m.lag => post.me = BuildMe)
    BY <1>0, <2>0, SetDataType, InvalidateType, CacheParts DEF Keys
  <2>2. LeadsOn(p, c, stale) /\ UNCHANGED srv
    BY <1>7 DEF SignedInNow, Settles
  <2> HIDE DEF m, i, p
  <2>3. Cache(c) /\ c.me = m
    BY <1>0, <2>1 DEF Cache, Keys
  <2> HIDE DEF c
  <2>4. Calm(query'.me) => query'.me = m
    BY <1>6, <2>2, <2>3
  <2> QED
    BY <2>1, <2>2, <2>4, BuildMeKept DEF Fresh, Calm
<1>8. ASSUME NEW stale \in BOOLEAN, SignedOut(stale) PROVE Fresh'
  <2> DEFINE c == [k \in Keys |-> Unasked]
  <2>1. Cache(c) /\ c.me.data = Undefined
    BY UnaskedType DEF Cache, Keys, Unasked
  <2>2. CASE post.live
    <3>1. Visit("login", c, stale)
      BY <1>8, <2>2 DEF SignedOut, Cleared
    <3> HIDE DEF c
    <3> QED
      BY <2>1, <3>1, VisitType DEF Fresh, Calm
  <2>3. CASE ~post.live
    <3>1. Ask(Unasked, "page").data = Undefined /\ Unasked.data = Undefined
      BY UnaskedType, AskType DEF Unasked, Keys
    <3>2. query'.me.data = Undefined
      BY <1>8, <2>3, <3>1 DEF SignedOut, Keys
    <3> QED
      BY <3>2 DEF Fresh, Calm
  <2> QED
    BY <2>2, <2>3
<1>9. ASSUME NEW stale \in BOOLEAN, PasswordChanged(stale) PROVE Fresh'
  <2> DEFINE m == Invalidate("me")
             c == [query EXCEPT !["me"] = m]
  <2>1. m \in Query("me") /\ m.invalid
    BY <1>0, InvalidateType DEF Keys
  <2>2. LeadsOn("app", c, stale)
    BY <1>9 DEF PasswordChanged
  <2> HIDE DEF m
  <2>3. Cache(c) /\ c.me = m
    BY <1>0, <2>1 DEF Cache, Keys
  <2> HIDE DEF c
  <2> QED
    BY <1>6, <2>1, <2>2, <2>3 DEF Fresh, Calm
<1> QED
  BY <1>1, <1>2, <1>3, <1>4, <1>5, <1>7, <1>8, <1>9 DEF Settle

LEMMA NetworkFresh == Types /\ Codes /\ Fresh /\ Network => Fresh'
<1> SUFFICES ASSUME Types, Codes, Fresh, Network PROVE Fresh'
  OBVIOUS
<1>0. /\ query.me \in Query("me") /\ DOMAIN query = Keys /\ Cache(query) /\ panel \in BOOLEAN
      /\ post \in Request \cup {None} /\ None \notin Request /\ Sound(srv)
  BY CacheParts, AccountPagesAssumption DEF Types, Cache
<1>1. ASSUME NEW k \in Keys, Read(k) PROVE Fresh'
  <2>1. query'.me = query.me \/ query'.me.is = "read"
    BY <1>0, <1>1 DEF Read, Keys, Query
  <2> QED
    BY <1>1, <2>1, FreshKept DEF Read, Calm, Owed
<1>2. ASSUME NEW k \in Keys, Answer(k) PROVE Fresh'
  <2>1. CASE k = "me"
    <3>1. query'.me.data = query.me.read /\ query'.me.lag = (query.me.read # BuildMe)
      BY <1>0, <1>2, <2>1 DEF Answer, Keys, Unasked, Truth
    <3> QED
      BY <1>2, <3>1, BuildMeKept DEF Answer, Fresh, Calm
  <2>2. CASE k # "me"
    <3>1. query'.me = query.me /\ post' = post /\ panel' = panel /\ UNCHANGED srv
      BY <1>0, <1>2, <2>2 DEF Answer, Keys
    <3> QED
      BY <3>1, FreshKept DEF Owed
  <2> QED
    BY <2>1, <2>2
<1>3. ASSUME NEW k \in Keys, FetchFails(k) PROVE Fresh'
  <2>1. query'.me = query.me \/ query'.me.lag
    BY <1>0, <1>3 DEF FetchFails, Keys, Query
  <2> QED
    BY <1>3, <2>1, FreshKept DEF FetchFails, Calm, Owed
<1>4. ASSUME NEW k \in Keys, Reconnect(k) PROVE Fresh'
  <2> DEFINE lost == query[k].data = Undefined /\ page \in Public \cup Protected
             c == IF lost THEN Left ELSE query
  <2>1. /\ Cache(c) /\ c.me \in Query("me")
        /\ Calm(c.me) => Calm(query.me) /\ c.me.data = query.me.data /\ ~(lost /\ panel)
    BY <1>0, LeftType, CacheParts DEF Query, Calm
  <2>2. /\ query' = [c EXCEPT ![k] = Ask(c[k], "network")]
        /\ panel' = (panel /\ ~lost)
        /\ post' = IF lost /\ post # None THEN [post EXCEPT !.live = FALSE] ELSE post
        /\ UNCHANGED srv
    BY <1>4 DEF Reconnect
  <2> HIDE DEF c, lost
  <2>3. CASE k = "me"
    <3>1. query'.me = Ask(c.me, "network")
      BY <2>1, <2>2, <2>3 DEF Cache, Keys
    <3>2. ~Calm(query'.me)
      BY <2>1, <3>1, AskType DEF Keys, Calm
    <3> QED
      BY <3>2 DEF Fresh
  <2>4. CASE k # "me"
    <3>1. query'.me = c.me
      BY <2>1, <2>2, <2>4 DEF Cache, Keys
    <3>2. post' = post \/ (post \in Request /\ post' = [post EXCEPT !.live = FALSE])
      BY <1>0, <2>2
    <3>3. Calm(query'.me) => (Owed => Owed')
      BY <1>0, <2>1, <3>1, <3>2 DEF Owed, Request, ToBeEnabled
    <3> QED
      BY <2>1, <2>2, <3>1, <3>3, FreshKept
  <2> QED
    BY <2>3, <2>4
<1>5. ASSUME NEW k \in Keys, Evict(k) PROVE Fresh'
  <2>1. query'.me = query.me \/ query'.me.data = Undefined
    BY <1>0, <1>5 DEF Evict, Keys, Unasked
  <2> QED
    BY <1>5, <2>1, FreshKept DEF Evict, Calm, Owed
<1>6. CASE Serve
  <2>0. /\ post \in Request /\ post # None /\ ~post.ok /\ post.do \in Forms
        /\ srv' \in Accepts(post.do) /\ query' = query /\ panel' = panel
    BY <1>0, <1>6, PostFields DEF Serve, Types
  <2> DEFINE verify == post.do = "login" /\ srv.account.enabled
             m == IF verify THEN None ELSE BuildMe'
  <2>1. post' = [post EXCEPT !.is = "served", !.ok = TRUE, !.me = m]
    BY <1>6 DEF Serve
  <2> HIDE DEF m
  <2>2. post' # None /\ post'.do = post.do /\ post'.ok /\ post'.me = m
    <3>1. m \in Me \cup {None}
      <4>1. Sound(srv')
        BY <1>0, <2>0, AcceptsType
      <4> QED
        BY <4>1, BuildMeType DEF m, BuildMe, MeOf
    <3>2. post' \in Request
      BY <2>0, <2>1, <3>1, PostFields
    <3> QED
      BY <1>0, <2>0, <2>1, <3>2 DEF Request
  <2>3. Sound(srv')
    BY <1>0, <2>0, AcceptsType
  <2>4. BuildMe' = MeOf(srv') /\ BuildMe = MeOf(srv)
    BY DEF BuildMe, MeOf
  <2>5. ~Owed
    BY <2>0 DEF Owed
  <2>6. CASE post.do \in {"logout", "everywhere", "disable"}
    BY <2>2, <2>6 DEF Fresh, Owed
  <2>7. CASE post.do \in {"verify", "setup", "accept"} \/ (post.do = "login" /\ ~srv.account.enabled)
    <3>1. srv'.cookie = "live"
      BY <1>0, <2>0, <2>7, AcceptsType
    <3>2. m # None
      BY <2>3, <2>4, <2>7, <3>1, BuildMeType DEF m
    <3> QED
      BY <2>2, <2>7, <3>2 DEF Fresh, Owed
  <2>8. CASE verify
    <3>1. srv'.cookie = srv.cookie /\ srv'.account = srv.account
      BY <1>0, <2>0, <2>8, AcceptsType
    <3>2. BuildMe' = BuildMe
      BY <2>4, <3>1 DEF MeOf
    <3> QED
      BY <2>0, <2>5, <3>2 DEF Fresh, ToBeEnabled
  <2>9. CASE post.do \in {"totp", "regen", "change"}
    <3>1. srv' = srv
      BY <1>0, <2>0, <2>9, AcceptsType
    <3> QED
      BY <2>0, <2>5, <3>1, BuildMeKept DEF Fresh, ToBeEnabled
  <2>10. CASE post.do = "enable"
    <3>1. srv.cookie = "live" /\ ~srv.account.enabled
      BY <2>0, <2>10 DEF Accepts, MfaEnable
    <3>2. BuildMe # None /\ ~BuildMe.enabled
      BY <1>0, <2>4, <3>1, BuildMeType
    <3>3. Calm(query.me) => ToBeEnabled(query.me)
      BY <2>5, <3>2 DEF Fresh, ToBeEnabled
    <3> QED
      BY <2>0, <2>2, <2>10, <3>3 DEF Fresh, Owed, ToBeEnabled
  <2> QED
    BY <2>0, <2>6, <2>7, <2>8, <2>9, <2>10 DEF Forms, Section
<1>7. CASE Refuse
  <2>1. ~Owed
    BY <1>7 DEF Refuse, Owed, Types
  <2> QED
    BY <1>7, <2>1, FreshKept DEF Refuse
<1>8. CASE AnswerLost
  <2>1. query'.me.lag
    BY <1>0, <1>8, LagType DEF AnswerLost, Query
  <2> QED
    BY <2>1 DEF Fresh, Calm
<1> QED
  BY <1>1, <1>2, <1>3, <1>4, <1>5, <1>6, <1>7, <1>8 DEF Network

LEMMA FreshInductive == Init /\ [][Next]_vars => []Fresh
<1>1. Init => Fresh
  <2> SUFFICES ASSUME Init PROVE Fresh
    OBVIOUS
  <2>1. query.me.data = Undefined
    BY UnaskedType, AskType DEF Init, Keys, Unasked
  <2> QED
    BY <2>1 DEF Fresh, Calm
<1>2. Types /\ Codes /\ Fresh /\ [Next]_vars => Fresh'
  <2>1. Fresh /\ UNCHANGED vars => Fresh'
    BY BuildMeKept DEF vars, client, Fresh, Owed
  <2>2. Types /\ Elsewhere => Fresh'
    <3> SUFFICES ASSUME Types, Elsewhere PROVE Fresh'
      OBVIOUS
    <3>1. query'.me.lag
      BY LagType, CacheParts DEF Elsewhere, Query, Types
    <3> QED
      BY <3>1 DEF Fresh, Calm
  <2>3. ASSUME Types, Fresh, NEW stale \in BOOLEAN, Redirect(stale) PROVE Fresh'
    BY <2>3, FreshLeft DEF Redirect
  <2> QED
    BY <2>1, <2>2, <2>3, UserFresh, SettleFresh, NetworkFresh DEF Next
<1> QED
  BY <1>1, <1>2, TypesInductive, CodesInductive, PTL

\* Whatever was signed in to, out of, enabled, disabled or changed here, in whatever order
\* the answers came: when nothing is under way, what the cache says of the user is what
\* the server says, unless the client could not know (auth/useMe.ts, LoginPage.tsx,
\* SecuritySettings.tsx).
THEOREM UserIsKnown == Spec => []MeIsFresh
<1>1. Fresh => MeIsFresh
  BY DEF Fresh, MeIsFresh, Calm, Owed
<1> QED
  BY <1>1, FreshInductive, PTL DEF Spec
=============================================================================
