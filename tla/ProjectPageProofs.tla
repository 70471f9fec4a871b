------------------------- MODULE ProjectPageProofs -------------------------
(***************************************************************************)
(* For any number of events: the tree of uploads that is shown has what    *)
(* was uploaded from this page.                                            *)
(***************************************************************************)
EXTENDS ProjectPage, TLAPS

\* A request keeps a query a query.
LEMMA AskType ==
  ASSUME NEW q \in Query
  PROVE  Ask(q) \in Query
BY DEF Ask, Query

\* What FetchFails, Ages and Invalidated set.
LEMMA FieldTypes ==
  ASSUME NEW q \in Query, NEW a \in BOOLEAN, NEW b \in BOOLEAN
  PROVE  /\ [q EXCEPT !.stale = a] \in Query
         /\ [q EXCEPT !.stale = a, !.early = b] \in Query
         /\ [q EXCEPT !.is = "idle", !.read = Undefined, !.failed = a, !.stale = b] \in Query
BY DEF Query, Answers

\* What the server answers is an answer.
LEMMA TruthType ==
  ASSUME TypeOK, NEW k \in Keys
  PROVE  Truth(k) \in Answers
BY DEF TypeOK, Truth, GetTree, Answers, Keys, Refs

\* A form's request leaves a project a project.
LEMMA AcceptsType ==
  ASSUME TypeOK, NEW do \in Forms
  PROVE  Accepts(do) \in [status : Statuses, content : BOOLEAN, working : BOOLEAN, uploads : Nat]
BY DEF TypeOK, Accepts, Forms, Statuses, Busy

\* An invalidated query is a query ...
LEMMA InvalidatedType ==
  ASSUME TypeOK, NEW k \in Keys
  PROVE  Invalidated(k) \in Query
<1> DEFINE q == [query[k] EXCEPT !.stale = k \in Refs, !.early = k \in Refs /\ query[k].is # "idle"]
           r == [q EXCEPT !.is = IF q.data = Undefined THEN @ ELSE "idle"]
<1>1. query[k] \in Query /\ q \in Query
  <2>1. query[k] \in Query
    BY DEF TypeOK
  <2>2. (k \in Refs) \in BOOLEAN /\ (k \in Refs /\ query[k].is # "idle") \in BOOLEAN
    OBVIOUS
  <2> QED
    BY <2>1, <2>2, FieldTypes
<1>2. r \in Query
  BY <1>1 DEF Query
<1>3. Ask(r) \in Query
  BY <1>2, AskType
<1>4. Invalidated(k) = IF Active(k) THEN Ask(r) ELSE q
  BY DEF Invalidated
<1> HIDE DEF q, r
<1> QED
  BY <1>1, <1>3, <1>4

\* ... so is one that is answered ...
LEMMA AnsweredType ==
  ASSUME NEW q \in Query
  PROVE  Answered(q) \in Query
BY DEF Answered, Query, Unasked, Answers

\* ... and so are those of a page that is rendered.
LEMMA RenderType ==
  ASSUME NEW ref \in Refs \cup {None}, NEW cache \in [Keys -> Query], Render(ref, cache)
  PROVE  gitRef' \in Refs \cup {None} /\ query' \in [Keys -> Query]
<1>1. ASSUME NEW k \in Keys PROVE query'[k] \in Query
  <2>1. cache[k] \in Query /\ Ask(cache[k]) \in Query
    BY AskType
  <2>2. [cache[k] EXCEPT !.early = @ \/ (k \in Refs /\ cache[k].is # "idle")] \in Query
    BY <2>1 DEF Query
  <2> QED
    BY <2>1, <2>2 DEF Render
<1> QED
  BY <1>1 DEF Render

\* The state of ProjectDetail, its queries and its server stay in their ranges.
THEOREM TypeCorrect == Spec => []TypeOK
<1> USE DEF Keys, Refs
<1>1. Init => TypeOK
  <2> SUFFICES ASSUME Init PROVE TypeOK
    OBVIOUS
  <2>1. Unasked \in Query
    BY DEF Unasked, Query, Answers
  <2>2. query \in [Keys -> Query]
    BY <2>1, AskType DEF Init
  <2> QED
    <3>1. srv \in [status : Statuses, content : BOOLEAN, working : BOOLEAN, uploads : Nat]
      <4>1. srv \in [status : {"unlinked", "pending", "cloned"}, content : BOOLEAN, working : {FALSE}, uploads : {0}]
        BY DEF Init
      <4>2. /\ srv = [status |-> srv.status, content |-> srv.content, working |-> srv.working, uploads |-> srv.uploads]
            /\ srv.status \in {"unlinked", "pending", "cloned"} /\ srv.content \in BOOLEAN
            /\ srv.working \in {FALSE} /\ srv.uploads \in {0}
        BY <4>1, Zenon
      <4>3. srv.status \in Statuses /\ srv.uploads \in Nat
        BY <4>2 DEF Statuses, Busy
      <4>4. srv.working \in BOOLEAN
        BY <4>2, Zenon
      <4> QED
        BY <4>2, <4>3, <4>4, Zenon
    <3>3. mine \in Nat /\ events \in 0..MaxEvents
      BY ProjectPageAssumption DEF Init
    <3>2. gitRef \in Refs \cup {None} /\ post = None /\ triggered \in BOOLEAN /\ blind \in BOOLEAN
      BY DEF Init
    <3> QED
      BY <2>2, <3>1, <3>2, <3>3 DEF TypeOK
<1>2. ASSUME TypeOK, [Next]_vars PROVE TypeOK'
  <2> USE <1>2
  <2>0. Counted => events' \in 0..MaxEvents
    BY ProjectPageAssumption DEF Counted, TypeOK
  <2>1. ASSUME WorkerStarts \/ WorkerEnds PROVE TypeOK'
    BY <2>1 DEF WorkerStarts, WorkerEnds, TypeOK, page, Statuses, Busy
  <2>2. ASSUME Elsewhere PROVE TypeOK'
    <3>1. srv' \in [status : Statuses, content : BOOLEAN, working : BOOLEAN, uploads : Nat]
      BY <2>2, AcceptsType DEF Elsewhere, TypeOK, Statuses, Busy
    <3>2. /\ Counted /\ blind' = TRUE /\ UNCHANGED <<query, gitRef, triggered, post, mine>>
      BY <2>2 DEF Elsewhere, page
    <3> QED
      BY <2>0, <3>1, <3>2 DEF TypeOK
  <2>3. ASSUME NEW k \in Keys, Read(k) PROVE TypeOK'
    BY <2>3, TruthType DEF Read, TypeOK, page, Query
  <2>4. ASSUME NEW k \in Refs, AnswerTree(k) PROVE TypeOK'
    BY <2>4, AnsweredType DEF AnswerTree, TypeOK, page
  <2>5. ASSUME AnswerDetail PROVE TypeOK'
    <3>1. [query EXCEPT !.detail = Answered(@)] \in [Keys -> Query]
      BY AnsweredType DEF TypeOK
    <3>2. NextRef(query.detail.data, query.detail.read) \in Refs \cup {None}
      BY DEF NextRef, FirstRef, TypeOK
    <3> QED
      BY <2>5, <3>1, <3>2, RenderType DEF AnswerDetail, TypeOK
  <2>6. ASSUME NEW k \in Keys, FetchFails(k) PROVE TypeOK'
    <3> DEFINE q == [query[k] EXCEPT !.is = "idle", !.read = Undefined, !.failed = k \in Refs,
                                     !.stale = k \in Refs /\ query[k].data # Undefined]
    <3>1. query[k] \in Query
      BY DEF TypeOK
    <3>2. q \in Query
      <4>1. (k \in Refs) \in BOOLEAN /\ (k \in Refs /\ query[k].data # Undefined) \in BOOLEAN
        OBVIOUS
      <4> QED
        BY <3>1, <4>1, FieldTypes
    <3>3. query' = [query EXCEPT ![k] = q]
      BY <2>6, <3>1 DEF FetchFails, TypeOK
    <3> HIDE DEF q
    <3>4. /\ Counted /\ blind' = TRUE /\ UNCHANGED <<srv, gitRef, triggered, post, mine>>
      BY <2>6 DEF FetchFails, page
    <3> QED
      BY <2>0, <3>2, <3>3, <3>4 DEF TypeOK
  <2>7. ASSUME Poll PROVE TypeOK'
    BY <2>7, AskType DEF Poll, TypeOK, page
  <2>8. ASSUME Ages PROVE TypeOK'
    <3>1. ASSUME NEW k \in Keys
          PROVE  [query[k] EXCEPT !.stale = k \in Refs /\ query[k].data # Undefined] \in Query
      <4>1. query[k] \in Query /\ (k \in Refs /\ query[k].data # Undefined) \in BOOLEAN
        BY DEF TypeOK
      <4> QED
        BY <4>1, FieldTypes
    <3>2. query' \in [Keys -> Query] /\ UNCHANGED <<srv, gitRef, triggered, post, mine, blind, events>>
      BY <2>8, <3>1 DEF Ages, page
    <3> QED
      BY <3>2 DEF TypeOK
  <2>9. ASSUME NEW ref \in Refs, PickRef(ref) PROVE TypeOK'
    <3>1. query \in [Keys -> Query] /\ Render(ref, query)
      BY <2>9 DEF PickRef, TypeOK
    <3>2. gitRef' \in Refs \cup {None} /\ query' \in [Keys -> Query]
      BY <3>1, RenderType
    <3>3. Counted /\ blind' = TRUE /\ UNCHANGED <<srv, triggered, post, mine>>
      BY <2>9 DEF PickRef
    <3> QED
      BY <2>0, <3>2, <3>3 DEF TypeOK
  <2>10. ASSUME NEW do \in Forms, Send(do), triggered' \in BOOLEAN PROVE TypeOK'
    <3>1. post' \in [do : Forms, is : {"sent", "served"}, ok : BOOLEAN]
      BY <2>10 DEF Send, Request
    <3>2. Counted /\ UNCHANGED <<srv, query, gitRef, mine, blind>>
      BY <2>10 DEF Send
    <3> QED
      BY <2>0, <2>10, <3>1, <3>2 DEF TypeOK
  <2>11. ASSUME SaveGit \/ UploadFiles \/ RefreshMetadata \/ RefreshSource PROVE TypeOK'
    BY <2>10, <2>11 DEF SaveGit, UploadFiles, RefreshMetadata, RefreshSource, Forms, TypeOK
  <2>12. ASSUME Serve PROVE TypeOK'
    <3>1. Accepts(post.do) \in [status : Statuses, content : BOOLEAN, working : BOOLEAN, uploads : Nat]
      BY <2>12, AcceptsType DEF Serve, TypeOK
    <3> QED
      BY <2>12, <3>1 DEF Serve, TypeOK, page
  <2>13. ASSUME RequestFails \/ ErrorShown PROVE TypeOK'
    <3>1. CASE RequestFails
      <4>1. /\ post' \in [do : Forms, is : {"sent", "served"}, ok : BOOLEAN]
            /\ Counted /\ blind' = TRUE /\ UNCHANGED <<srv, query, gitRef, triggered, mine>>
        BY <3>1 DEF RequestFails, TypeOK, page
      <4> QED
        BY <2>0, <4>1 DEF TypeOK
    <3>2. CASE ErrorShown
      <4>1. triggered' \in BOOLEAN
        BY <3>2 DEF ErrorShown
      <4>2. post' = None /\ UNCHANGED <<srv, query, gitRef, mine, blind, events>>
        BY <3>2 DEF ErrorShown
      <4> QED
        BY <4>1, <4>2 DEF TypeOK
    <3> QED
      BY <2>13, <3>1, <3>2
  <2>14. ASSUME GitSaved \/ CloneStarted \/ Uploaded PROVE TypeOK'
    <3>1. Invalidated("detail") \in Query /\ Invalidated("uploads") \in Query
      BY InvalidatedType
    <3>2. query' \in [Keys -> Query]
      BY <2>14, <3>1 DEF GitSaved, CloneStarted, Uploaded, TypeOK
    <3>3. UNCHANGED <<srv, gitRef, blind, events>>
      BY <2>14 DEF GitSaved, CloneStarted, Uploaded, Settles
    <3>4. post' \in [do : Forms, is : {"sent", "served"}, ok : BOOLEAN] \cup {None}
      <4>1. Request("clone") \in [do : Forms, is : {"sent", "served"}, ok : BOOLEAN]
        BY DEF Request, Forms
      <4>2. post' = Request("clone") \/ post' = None
        BY <2>14 DEF GitSaved, CloneStarted, Uploaded
      <4> QED
        BY <4>1, <4>2
    <3>5. mine' \in Nat
      BY <2>14 DEF GitSaved, CloneStarted, Uploaded, TypeOK
    <3>6. triggered' = TRUE \/ triggered' = triggered
      BY <2>14 DEF GitSaved, CloneStarted, Uploaded
    <3> QED
      BY <3>2, <3>3, <3>4, <3>5, <3>6 DEF TypeOK
  <2>15. ASSUME MirrorRefreshed PROVE TypeOK'
    BY <2>15, InvalidatedType DEF MirrorRefreshed, Settles, TypeOK
  <2>16. ASSUME UNCHANGED vars PROVE TypeOK'
    BY <2>16 DEF vars, page, TypeOK
  <2> QED
    BY <2>1, <2>2, <2>3, <2>4, <2>5, <2>6, <2>7, <2>8, <2>9, <2>11, <2>12, <2>13, <2>14, <2>15, <2>16
       DEF Next, User, Settle, Network
<1> QED
  BY <1>1, <1>2, PTL DEF Spec

-----------------------------------------------------------------------------
\* What tree q of the uploads may be taken for while the browser is at ref: what was
\* read after the last upload, unless it was asked for early.
Current(q, ref, n) ==
  /\ q.is = "read" /\ ~q.early => q.read >= n
  /\ /\ q.is = "idle" /\ q.data # Undefined /\ ~q.failed /\ ~q.early
     /\ ref = "uploads" \/ ~q.stale
     => q.data >= n

\* An upload is known here only after the server has stored it.
UploadInv ==
  /\ mine <= srv.uploads
  /\ post # None /\ post.do = "upload" /\ post.ok => mine + 1 <= srv.uploads
  /\ Current(query.uploads, gitRef, mine)

\* After an invalidation nothing that was read before it counts.
LEMMA InvalidatedIsCurrent ==
  ASSUME TypeOK, NEW n
  PROVE  Current(Invalidated("uploads"), gitRef, n)
<1> DEFINE q == query.uploads
           a == "uploads" \in Refs
           b == "uploads" \in Refs /\ q.is # "idle"
           r == [q EXCEPT !.stale = a, !.early = b]
           c == [r EXCEPT !.is = IF r.data = Undefined THEN @ ELSE "idle"]
<1>1. q \in Query /\ a = TRUE /\ a \in BOOLEAN /\ b \in BOOLEAN /\ (b <=> q.is # "idle")
  BY DEF TypeOK, Keys, Refs
<1>2. /\ Invalidated("uploads") = IF Active("uploads") THEN Ask(c) ELSE r
      /\ Active("uploads") <=> gitRef = "uploads"
  <2>1. Active("uploads") <=> gitRef = "uploads"
    BY DEF Active, Enabled
  <2>2. Invalidated("uploads") = IF Active("uploads") THEN Ask(c) ELSE r
    BY DEF Invalidated
  <2> QED
    BY <2>1, <2>2
<1>3. /\ r \in Query /\ r.stale = TRUE /\ (r.is # "idle" => r.early = TRUE)
      /\ c \in Query /\ (c.is # "idle" => c.early = TRUE)
  <2>1. r \in Query
    BY <1>1, FieldTypes
  <2>2. r.stale = a /\ r.is = q.is /\ r.early = b
    BY <1>1 DEF Query
  <2> HIDE DEF r
  <2>3. c \in Query /\ c.is \in {r.is, "idle"} /\ c.early = r.early
    BY <2>1 DEF Query
  <2>4. q.is # "idle" => b = TRUE
    BY <1>1
  <2> HIDE DEF q, a, b, c
  <2> QED
    BY <1>1, <2>1, <2>2, <2>3, <2>4
<1> HIDE DEF q, a, b, r, c
<1>4. CASE gitRef # "uploads"
  BY <1>2, <1>3, <1>4 DEF Current
<1>5. CASE gitRef = "uploads" /\ c.is = "idle"
  <2>1. Ask(c).is = "asked"
    BY <1>3, <1>5 DEF Ask, Query
  <2> QED
    BY <1>2, <1>5, <2>1 DEF Current
<1>6. CASE gitRef = "uploads" /\ c.is # "idle"
  <2>1. Ask(c) = c /\ c.early = TRUE
    BY <1>3, <1>6 DEF Ask
  <2> QED
    BY <1>2, <1>6, <2>1 DEF Current
<1> QED
  BY <1>4, <1>5, <1>6

\* Going to the uploads or away keeps it so.
LEMMA RenderIsCurrent ==
  ASSUME TypeOK, NEW ref \in Refs \cup {None}, NEW cache \in [Keys -> Query],
         cache.uploads = query.uploads, Render(ref, cache), NEW n,
         Current(query.uploads, gitRef, n)
  PROVE  Current(query'.uploads, gitRef', n)
<1> DEFINE q == query.uploads
           b == q.early \/ q.is # "idle"
<1>1. /\ q \in Query /\ q.early \in BOOLEAN /\ q.stale \in BOOLEAN
      /\ [q EXCEPT !.early = b] \in Query
  <2>1. q \in Query
    BY DEF TypeOK, Keys, Refs
  <2> QED
    BY <2>1 DEF Query
<1>2. /\ gitRef' = ref
      /\ query'.uploads =
           CASE ref = "uploads" /\ gitRef # "uploads" /\ (q.data = Undefined \/ q.stale) -> Ask(q)
             [] ref # "uploads" /\ gitRef = "uploads" -> [q EXCEPT !.early = b]
             [] OTHER -> q
  BY DEF Render, Enabled, Active, Keys, Refs
<1>3. CASE ref = "uploads" /\ gitRef # "uploads" /\ (q.data = Undefined \/ q.stale)
  <2>1. query'.uploads = Ask(q)
    BY <1>2, <1>3
  <2>2. q.is = "idle" => Ask(q).is = "asked"
    BY <1>1 DEF Ask, Query
  <2>3. q.is # "idle" => Ask(q) = q
    BY DEF Ask
  <2> QED
    BY <2>1, <2>2, <2>3 DEF Current
<1>4. CASE ref # "uploads" /\ gitRef = "uploads"
  <2>1. query'.uploads = [q EXCEPT !.early = b]
    BY <1>2, <1>4
  <2>2. /\ query'.uploads.is = q.is /\ query'.uploads.data = q.data
        /\ query'.uploads.failed = q.failed /\ query'.uploads.stale = q.stale
        /\ query'.uploads.early = b
    BY <1>1, <2>1 DEF Query
  <2> QED
    BY <1>2, <1>4, <2>2 DEF Current
<1>5. CASE ref = "uploads" /\ gitRef # "uploads" /\ q.data # Undefined /\ ~q.stale
  <2>1. query'.uploads = q
    BY <1>2, <1>5
  <2> QED
    BY <1>5, <2>1 DEF Current
<1>6. CASE (ref = "uploads") <=> (gitRef = "uploads")
  <2>1. query'.uploads = q
    BY <1>2, <1>6
  <2> QED
    BY <1>2, <1>6, <2>1 DEF Current
<1> QED
  BY <1>3, <1>4, <1>5, <1>6

\* Every answer, request, failure and choice of the user keeps it.
LEMMA UploadInductive == Spec => []UploadInv
<1> USE DEF Keys, Refs
<1>1. Init => UploadInv
  <2> SUFFICES ASSUME Init PROVE UploadInv
    OBVIOUS
  <2>1. query.uploads = Unasked /\ mine = 0 /\ srv.uploads = 0 /\ post = None
    BY DEF Init
  <2>2. Unasked.is = "idle" /\ Unasked.data = Undefined
    BY DEF Unasked
  <2>3. Current(query.uploads, gitRef, mine)
    BY <2>1, <2>2 DEF Current
  <2> QED
    BY <2>1, <2>3 DEF UploadInv
<1>2. ASSUME TypeOK, UploadInv, [Next]_vars PROVE UploadInv'
  <2> USE <1>2
  <2>0. /\ mine \in Nat /\ srv.uploads \in Nat
        /\ query.uploads \in Query /\ query \in [Keys -> Query]
    BY DEF TypeOK
  <2>1. ASSUME srv'.uploads \in Nat, srv'.uploads >= srv.uploads, UNCHANGED <<post, mine>>,
               Current(query'.uploads, gitRef', mine)
        PROVE  UploadInv'
    BY <2>0, <2>1 DEF UploadInv
  <2>2. Current(query.uploads, gitRef, mine)
    BY DEF UploadInv
  <2>3. ASSUME WorkerStarts \/ WorkerEnds PROVE UploadInv'
    <3>1. srv'.uploads = srv.uploads /\ UNCHANGED <<query, gitRef, post, mine>>
      BY <2>3 DEF WorkerStarts, WorkerEnds, TypeOK, page
    <3> QED
      BY <2>0, <2>1, <2>2, <3>1
  <2>4. ASSUME NEW do \in Forms
        PROVE  Accepts(do).uploads = IF do = "upload" THEN srv.uploads + 1 ELSE srv.uploads
    BY <2>4 DEF Accepts, Forms, TypeOK
  <2>5. ASSUME Elsewhere PROVE UploadInv'
    <3>1. srv'.uploads \in {srv.uploads, srv.uploads + 1}
      BY <2>4, <2>5 DEF Elsewhere, TypeOK
    <3>2. UNCHANGED <<query, gitRef, post, mine>>
      BY <2>5 DEF Elsewhere, page
    <3> QED
      BY <2>0, <2>1, <2>2, <3>1, <3>2
  <2>6. ASSUME NEW k \in Keys, Read(k) PROVE UploadInv'
    <3>1. UNCHANGED <<srv, gitRef, post, mine>>
      BY <2>6 DEF Read, page
    <3>2. CASE k # "uploads"
      <4>1. query'.uploads = query.uploads
        BY <2>0, <2>6, <3>2 DEF Read
      <4> QED
        BY <2>0, <2>1, <2>2, <3>1, <4>1
    <3>3. CASE k = "uploads"
      <4>1. query'.uploads.is = "read" /\ query'.uploads.read = srv.uploads
        BY <2>0, <2>6, <3>3 DEF Read, Truth, GetTree, Query
      <4>2. Current(query'.uploads, gitRef', mine)
        BY <2>0, <4>1 DEF Current, UploadInv
      <4> QED
        BY <2>0, <2>1, <3>1, <4>2
    <3> QED
      BY <3>2, <3>3
  <2>7. ASSUME NEW k \in Refs, AnswerTree(k) PROVE UploadInv'
    <3>1. UNCHANGED <<srv, gitRef, post, mine>>
      BY <2>7 DEF AnswerTree, page
    <3>2. CASE k # "uploads"
      <4>1. query'.uploads = query.uploads
        BY <2>0, <2>7, <3>2 DEF AnswerTree
      <4> QED
        BY <2>0, <2>1, <2>2, <3>1, <4>1
    <3>3. CASE k = "uploads"
      <4> DEFINE q == query.uploads
      <4>1. q.is = "read" /\ query'.uploads = Answered(q)
        BY <2>0, <2>7, <3>3 DEF AnswerTree
      <4>2. CASE q.read = Refused
        <5>1. Answered(q).is = "idle" /\ Answered(q).failed = TRUE
          BY <2>0, <4>2 DEF Answered, Query
        <5> QED
          BY <2>0, <2>1, <3>1, <4>1, <5>1 DEF Current
      <4>3. CASE q.read # Refused
        <5>1. /\ Answered(q).is = "idle" /\ Answered(q).data = q.read
              /\ Answered(q).early = q.early
          BY <2>0, <4>3 DEF Answered, Query, Unasked
        <5> QED
          BY <2>0, <2>1, <2>2, <3>1, <4>1, <5>1 DEF Current
      <4> QED
        BY <4>2, <4>3
    <3> QED
      BY <3>2, <3>3
  <2>8. ASSUME AnswerDetail PROVE UploadInv'
    <3> DEFINE ref == NextRef(query.detail.data, query.detail.read)
               cache == [query EXCEPT !.detail = Answered(@)]
    <3>1. cache \in [Keys -> Query] /\ cache.uploads = query.uploads
      BY <2>0, AnsweredType
    <3>2. ref \in Refs \cup {None}
      BY DEF NextRef, FirstRef, TypeOK
    <3>3. Render(ref, cache) /\ UNCHANGED <<srv, post, mine>>
      BY <2>8 DEF AnswerDetail
    <3> HIDE DEF ref, cache
    <3>4. Current(query'.uploads, gitRef', mine)
      BY <2>2, <3>1, <3>2, <3>3, RenderIsCurrent
    <3> QED
      BY <2>0, <2>1, <3>3, <3>4
  <2>9. ASSUME NEW k \in Keys, FetchFails(k) PROVE UploadInv'
    <3>1. UNCHANGED <<srv, gitRef, post, mine>>
      BY <2>9 DEF FetchFails, page
    <3>2. CASE k # "uploads"
      <4>1. query'.uploads = query.uploads
        BY <2>0, <2>9, <3>2 DEF FetchFails
      <4> QED
        BY <2>0, <2>1, <2>2, <3>1, <4>1
    <3>3. CASE k = "uploads"
      <4>1. query'.uploads.is = "idle" /\ query'.uploads.failed = TRUE
        BY <2>0, <2>9, <3>3 DEF FetchFails, Query
      <4> QED
        BY <2>0, <2>1, <3>1, <4>1 DEF Current
    <3> QED
      BY <3>2, <3>3
  <2>10. ASSUME Poll PROVE UploadInv'
    <3>1. query'.uploads = query.uploads /\ UNCHANGED <<srv, gitRef, post, mine>>
      BY <2>0, <2>10 DEF Poll, page
    <3> QED
      BY <2>0, <2>1, <2>2, <3>1
  <2>11. ASSUME Ages PROVE UploadInv'
    <3> DEFINE q == query.uploads
    <3>1. /\ query'.uploads = [q EXCEPT !.stale = q.data # Undefined]
          /\ UNCHANGED <<srv, gitRef, post, mine>>
      BY <2>11 DEF Ages, page
    <3>2. /\ query'.uploads.is = q.is /\ query'.uploads.data = q.data
          /\ query'.uploads.failed = q.failed /\ query'.uploads.early = q.early
          /\ query'.uploads.read = q.read
          /\ query'.uploads.stale = (q.data # Undefined)
      BY <2>0, <3>1 DEF Query
    <3>3. Current(query'.uploads, gitRef', mine)
      BY <2>2, <3>1, <3>2 DEF Current
    <3> QED
      BY <2>0, <2>1, <3>1, <3>3
  <2>12. ASSUME NEW ref \in Refs, PickRef(ref) PROVE UploadInv'
    <3>1. Render(ref, query) /\ UNCHANGED <<srv, post, mine>>
      BY <2>12 DEF PickRef
    <3>2. Current(query'.uploads, gitRef', mine)
      BY <2>0, <2>2, <3>1, RenderIsCurrent
    <3> QED
      BY <2>0, <2>1, <3>1, <3>2
  <2>13. ASSUME NEW do \in Forms, Send(do) PROVE UploadInv'
    <3>1. post'.ok = FALSE /\ UNCHANGED <<srv, query, gitRef, mine>>
      BY <2>13 DEF Send, Request
    <3> QED
      BY <2>2, <3>1 DEF UploadInv
  <2>14. ASSUME SaveGit \/ UploadFiles \/ RefreshMetadata \/ RefreshSource PROVE UploadInv'
    BY <2>13, <2>14 DEF SaveGit, UploadFiles, RefreshMetadata, RefreshSource, Forms
  <2>15. ASSUME Serve PROVE UploadInv'
    <3>1. /\ post.do \in Forms /\ srv' = Accepts(post.do) /\ post'.do = post.do
          /\ UNCHANGED <<query, gitRef, mine>>
      BY <2>15 DEF Serve, TypeOK, page
    <3>2. srv'.uploads = IF post.do = "upload" THEN srv.uploads + 1 ELSE srv.uploads
      BY <2>4, <3>1
    <3> QED
      BY <2>0, <2>2, <3>1, <3>2 DEF UploadInv
  <2>16. ASSUME RequestFails \/ ErrorShown PROVE UploadInv'
    <3>1. post' = None \/ post'.ok = FALSE
      BY <2>16 DEF RequestFails, ErrorShown, TypeOK
    <3>2. UNCHANGED <<srv, query, gitRef, mine>>
      BY <2>16 DEF RequestFails, ErrorShown, page
    <3> QED
      BY <2>2, <3>1, <3>2 DEF UploadInv
  <2>17. ASSUME GitSaved \/ CloneStarted PROVE UploadInv'
    <3>1. query'.uploads = query.uploads /\ UNCHANGED <<srv, gitRef, mine>>
      BY <2>0, <2>17 DEF GitSaved, CloneStarted, Settles
    <3>2. post' = None \/ post'.ok = FALSE
      BY <2>17 DEF GitSaved, CloneStarted, Request
    <3> QED
      BY <2>2, <3>1, <3>2 DEF UploadInv
  <2>18. ASSUME MirrorRefreshed \/ Uploaded PROVE UploadInv'
    <3>1. post' = None /\ UNCHANGED <<srv, gitRef>>
      BY <2>18 DEF MirrorRefreshed, Uploaded, Settles
    <3>2. query'.uploads = Invalidated("uploads")
      BY <2>0, <2>18 DEF MirrorRefreshed, Uploaded
    <3>3. mine' <= srv.uploads
      BY <2>0, <2>18 DEF MirrorRefreshed, Uploaded, Settles, UploadInv
    <3>4. Current(query'.uploads, gitRef', mine')
      BY <3>1, <3>2, InvalidatedIsCurrent
    <3> QED
      BY <3>1, <3>3, <3>4 DEF UploadInv
  <2>19. ASSUME UNCHANGED vars PROVE UploadInv'
    BY <2>19 DEF vars, page, UploadInv
  <2> QED
    BY <2>3, <2>5, <2>6, <2>7, <2>8, <2>9, <2>10, <2>11, <2>12, <2>14, <2>15, <2>16,
       <2>17, <2>18, <2>19
    DEF Next, User, Settle, Network
<1> QED
  BY <1>1, <1>2, TypeCorrect, PTL DEF Spec

\* The tree of uploads that is shown has what was uploaded from this page, whatever was
\* under way when it was (useUploadProjectFiles, useRefreshMirror).
THEOREM UploadsSeen == Spec => []UploadsAreShown
<1>1. UploadInv => UploadsAreShown
  BY DEF UploadInv, Current, UploadsAreShown
<1> QED
  BY <1>1, UploadInductive, PTL
=============================================================================
