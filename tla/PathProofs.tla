----------------------------- MODULE PathProofs -----------------------------
(***************************************************************************)
(* For any run, any number of requests and any order of their answers: the *)
(* Path Explorer shows the tree that its controls ask for (PathExplorer).  *)
(* For any layouts and cards: the wheel listener is on the canvas that is  *)
(* there, and, where the signature of a layout tells apart what is drawn,  *)
(* every picture is fitted and no gesture is undone (PathCanvas).          *)
(***************************************************************************)
EXTENDS PathExplorer, PathCanvas, SequenceTheorems, FiniteSetTheorems, WellFoundedInduction, TLAPS

(***************************************************************************)
(* PathExplorer                                                            *)
(***************************************************************************)
\* What the request with this key asks the server for: a key has every parameter of
\* its request, which is what the cache rests on.
Wanted(key) ==
  IF key[1] = "tree"
  THEN [of |-> key[2], iter |-> key[3], ghosts |-> key[4] /\ key[2] \notin Loops]
  ELSE RowAt(key[2], key[3])

\* An answer is kept under the key it was asked by.
Keeps(c) == \A k \in DOMAIN c : c[k] \in {Failed, Wanted(k)}

Asks(qs) == \A q \in qs : q.want = Wanted(q.key)

CacheInv == neverRun \in BOOLEAN /\ Keeps(cache) /\ Asks(flight)

LEMMA QueriesAsk ==
  ASSUME NEW v, NEW i, NEW nr \in BOOLEAN, NEW tree, NEW sel
  PROVE  /\ Wanted(TreeKey(v, i, nr)) = FetchTree(v, i, nr)
         /\ Asks({TreeQuery(v, i, nr)} \cup LeafQuery(tree, sel, i))
<1>1. Wanted(TreeKey(v, i, nr)) = FetchTree(v, i, nr)
  BY DEF Wanted, TreeKey, FetchTree
<1>2. Asks({TreeQuery(v, i, nr)})
  BY <1>1 DEF Asks, TreeQuery
<1>3. Asks(LeafQuery(tree, sel, i))
  BY DEF Asks, LeafQuery, ResultsQuery, ResultsKey, Wanted
<1> QED
  BY <1>1, <1>2, <1>3 DEF Asks

\* Whatever is dropped, what stays is as it was.
LEMMA DropKeeps ==
  ASSUME NEW c, NEW ks, Keeps(c)
  PROVE  Keeps(Drop(c, ks))
BY DEF Keeps, Drop

LEMMA PutKeeps ==
  ASSUME NEW c, Keeps(c), NEW k, NEW x, x \in {Failed, Wanted(k)}
  PROVE  Keeps(Put(c, k, x))
BY DEF Keeps, Put

\* A render asks, and keeps what it has.
LEMMA RenderKeeps ==
  ASSUME NEW v, NEW i, NEW nr \in BOOLEAN, NEW sel, NEW c, NEW pending,
         Keeps(c), Asks(pending), Render(v, i, nr, sel, c, pending)
  PROVE  CacheInv'
<1> DEFINE key  == TreeKey(v, i, nr)
           data == DataOf(c, key)
           own  == IF data \in {None, Failed} THEN last ELSE data
           tree == IF data = Failed /\ key \in Observed THEN None ELSE own
           asks == {TreeQuery(v, i, nr)} \cup LeafQuery(tree, sel, i)
           kept == {q.key : q \in asks} \cap Observed
           gone == {k \in DOMAIN c \ kept : c[k] = Failed}
<1>1. /\ neverRun' = nr
      /\ cache' = Drop(c, gone)
      /\ flight' = pending \cup {q \in asks : /\ q.key \notin DOMAIN cache'
                                              /\ \A p \in pending : p.key # q.key}
  BY DEF Render
<1>2. Keeps(cache')
  BY <1>1, DropKeeps
<1>3. Asks(asks)
  BY QueriesAsk
<1> HIDE DEF asks
<1>4. Asks(flight')
  BY <1>1, <1>3 DEF Asks
<1> QED
  BY <1>1, <1>2, <1>4 DEF CacheInv, Keeps, Asks, Wanted

LEMMA CacheInductive == Spec => []CacheInv
<1>1. Init => CacheInv
  <2> SUFFICES ASSUME Init PROVE CacheInv
    OBVIOUS
  <2>1. Asks({TreeQuery(Main, 0, FALSE)})
    BY QueriesAsk DEF Asks
  <2>2. DOMAIN << >> = {}
    OBVIOUS
  <2> QED
    BY <2>1, <2>2 DEF Init, CacheInv, Keeps
<1>2. ASSUME CacheInv, [Next]_vars PROVE CacheInv'
  <2> USE <1>2
  <2>0. neverRun \in BOOLEAN /\ Keeps(cache) /\ Asks(flight)
    BY DEF CacheInv
  <2>1. ASSUME NEW n \in Roles \cup Loops, Enter(n) PROVE CacheInv'
    BY <2>0, <2>1, RenderKeeps DEF Enter
  <2>2. ASSUME ExitToMain PROVE CacheInv'
    BY <2>0, <2>2, RenderKeeps DEF ExitToMain
  <2>3. ASSUME NEW dir \in {-1, 1}, Step(dir) PROVE CacheInv'
    BY <2>0, <2>3, RenderKeeps DEF Step
  <2>4. ASSUME ToggleNeverRun PROVE CacheInv'
    <3>1. (~neverRun) \in BOOLEAN
      BY <2>0
    <3> QED
      BY <2>0, <2>4, <3>1, RenderKeeps DEF ToggleNeverRun
  <2>5. ASSUME NEW n \in Nodes \cup LoopNodes, Select(n) PROVE CacheInv'
    BY <2>0, <2>5, RenderKeeps DEF Select
  <2>6. ASSUME Deselect PROVE CacheInv'
    BY <2>0, <2>6, RenderKeeps DEF Deselect
  <2>7. ASSUME NEW q \in flight, Answer(q) \/ RequestFails(q) PROVE CacheInv'
    <3>1. q.want = Wanted(q.key)
      BY <2>0 DEF Asks
    <3>2. Asks(flight \ {q})
      BY <2>0 DEF Asks
    <3>3. Keeps(Put(cache, q.key, q.want)) /\ Keeps(Put(cache, q.key, Failed))
      BY <2>0, <3>1, PutKeeps
    <3> QED
      BY <2>0, <2>7, <3>2, <3>3, RenderKeeps DEF Answer, RequestFails
  <2>8. ASSUME NEW k \in DOMAIN cache, Evict(k) PROVE CacheInv'
    <3>1. Keeps(cache') /\ neverRun' = neverRun /\ flight' = flight
      BY <2>0, <2>8, DropKeeps DEF Evict
    <3> QED
      BY <2>0, <3>1 DEF CacheInv, Keeps, Asks, Wanted
  <2>9. CASE UNCHANGED vars
    BY <2>0, <2>9 DEF vars, CacheInv, Keeps, Asks, Wanted
  <2> QED
    BY <2>1, <2>2, <2>3, <2>4, <2>5, <2>6, <2>7, <2>8, <2>9 DEF Next, User, Network
<1> QED
  BY <1>1, <1>2, PTL DEF Spec

\* PathView shows the tree of its view, iteration and branches once it does not wait,
\* for every run and however many requests are left, come late or fail.
THEOREM ShowsWhatIsAsked == Spec => []ShownIsAsked
<1>1. CacheInv => ShownIsAsked
  <2> SUFFICES ASSUME CacheInv, Settled PROVE ShownIsAsked
    BY DEF ShownIsAsked
  <2> DEFINE key == TreeKey(view, iter, neverRun)
  <2>1. key \in DOMAIN cache /\ Own = cache[key] /\ Own # Failed /\ Own # None
    BY DEF Settled, Own, DataOf
  <2>2. Own = Wanted(key)
    BY <2>1 DEF CacheInv, Keeps
  <2>3. Shown = FetchTree(view, iter, neverRun)
    BY <2>1, <2>2, QueriesAsk DEF Shown, CacheInv
  <2> QED
    BY <2>3 DEF ShownIsAsked, FetchTree, CacheInv
<1> QED
  BY <1>1, CacheInductive, PTL

\* A view lists one loop at most, and a loop's items are numbered from 0.
OneLoopEach ==
  /\ Loops \cap (Roles \cup LoopNodes \cup {Main}) = {}
  /\ \A l, m \in Loops : Within[l] = Within[m] => l = m
  /\ \A l \in Loops : Total(l) \in Nat \ {0} /\ Items(l) = 0..(Total(l) - 1)

LEMMA ClampRange ==
  ASSUME NEW i \in Int, NEW top \in Nat
  PROVE  Clamp(i, top) \in 0..top
<1> DEFINE low == Min({top, i})
<1>1. low \in Int /\ low <= top
  <2>1. \E x \in {top, i} : \A y \in {top, i} : x =< y
    OBVIOUS
  <2> QED
    BY <2>1 DEF Min
<1> HIDE DEF low
<1>2. \E x \in {0, low} : \A y \in {0, low} : x >= y
  BY <1>1
<1>3. Max({0, low}) \in {0, low} /\ Max({0, low}) >= 0
  BY <1>1, <1>2 DEF Max
<1> QED
  BY <1>1, <1>3 DEF Clamp, low

\* In a loop the tree on the page, this one's or the one before, is of the loop or of
\* the view that lists it, and so its first item_count is the loop's.
LoopInv ==
  /\ Own \notin {None, Failed} => last = Own
  /\ view \in Loops => /\ iter \in Items(view)
                       /\ last # None => last.of \in {view, Within[view]}

\* A render leaves the last tree, or has the one asked for.
LEMMA RenderShows ==
  ASSUME NEW v, NEW i, NEW nr \in BOOLEAN, NEW sel, NEW c, NEW pending,
         Keeps(c), Render(v, i, nr, sel, c, pending),
         v \in Loops => /\ i \in Items(v)
                        /\ last # None => last.of \in {v, Within[v]}
  PROVE  LoopInv'
<1> DEFINE key  == TreeKey(v, i, nr)
<1>1. view' = v /\ iter' = i /\ neverRun' = nr
  BY DEF Render
<1>2. last' = IF DataOf(c, key) \in {None, Failed} THEN last ELSE DataOf(c, key)
  BY DEF Render
<1>3. DataOf(c, key) \in {None, Failed, FetchTree(v, i, nr)}
  BY QueriesAsk DEF DataOf, Keeps
<1>4. FetchTree(v, i, nr).of = v
  BY DEF FetchTree
<1>5. Own' \in {None, DataOf(c, key)}
  <2>1. PICK gone : cache' = Drop(c, gone)
    BY DEF Render
  <2>2. TreeKey(view, iter, neverRun)' = key
    BY <1>1 DEF TreeKey
  <2> HIDE DEF key
  <2> QED
    BY <2>1, <2>2 DEF Own, DataOf, Drop
<1> HIDE DEF key
<1>6. Own' \notin {None, Failed} => last' = Own'
  BY <1>2, <1>5
<1>7. v \in Loops => (last' # None => last'.of \in {v, Within[v]})
  BY <1>2, <1>3, <1>4
<1> QED
  BY <1>1, <1>6, <1>7 DEF LoopInv, Items

LEMMA LoopInductive == ASSUME OneLoopEach PROVE Spec => []LoopInv
<1>1. Init => LoopInv
  BY DEF Init, LoopInv, Own, DataOf, OneLoopEach
<1>2. ASSUME CacheInv, LoopInv, [Next]_vars PROVE LoopInv'
  <2> USE <1>2
  <2>0. neverRun \in BOOLEAN /\ Keeps(cache)
    BY DEF CacheInv
  <2>1. Shown \in {last, None}
    BY DEF LoopInv, Shown
  <2>2. ASSUME NEW n \in Roles \cup Loops, Enter(n) PROVE LoopInv'
    <3>1. n \in NodesOf(last) /\ Shown = last
      BY <2>1, <2>2 DEF Enter
    <3>2. n \in Loops => last.of = Within[n]
      BY <3>1 DEF NodesOf, OneLoopEach
    <3>3. n \in Loops => 0 \in Items(n)
      BY DEF OneLoopEach
    <3> QED
      BY <2>0, <2>2, <3>2, <3>3, RenderShows DEF Enter
  <2>3. ASSUME ExitToMain PROVE LoopInv'
    <3>1. Main \notin Loops
      BY DEF OneLoopEach
    <3> QED
      BY <2>0, <2>3, <3>1, RenderShows DEF ExitToMain
  <2>4. ASSUME NEW dir \in {-1, 1}, Step(dir) PROVE LoopInv'
    <3>1. view \in Loops /\ Shown = last /\ last # None /\ ItemCount(last) # None
      BY <2>1, <2>4 DEF Step, LoopTotal
    <3>2. last.of \in {view, Within[view]} /\ iter \in Items(view)
      BY <3>1 DEF LoopInv
    <3>3. ItemCount(last) = Total(view)
      <4>1. CASE last.of = view
        BY <3>1, <4>1 DEF ItemCount
      <4>2. CASE last.of = Within[view]
        <5>1. Within[view] \in {Main} \cup Roles
          BY <3>1, PathExplorerAssumption DEF Nodes
        <5>2. last.of \notin Loops
          BY <4>2, <5>1 DEF OneLoopEach
        <5>3. NodesOf(last) \cap Loops \subseteq {view}
          BY <3>1, <4>2, <5>2 DEF NodesOf, OneLoopEach
        <5>4. NodesOf(last) \cap Loops # {}
          BY <3>1, <5>2 DEF ItemCount
        <5>5. NodesOf(last) \cap Loops = {view}
          BY <5>3, <5>4
        <5>6. Counter[view] <= Counter[view]
          BY <3>1, PathExplorerAssumption DEF Nodes
        <5>7. (CHOOSE l \in {view} : \A m \in {view} : Counter[l] <= Counter[m]) = view
          BY <5>6
        <5> QED
          BY <5>2, <5>5, <5>7 DEF ItemCount
      <4> QED
        BY <3>2, <4>1, <4>2
    <3>4. Total(view) \in Nat \ {0} /\ Items(view) = 0..(Total(view) - 1)
      BY <3>1 DEF OneLoopEach
    <3>5. LoopTotal = Total(view)
      BY <3>1, <3>3 DEF LoopTotal
    <3>6. Clamp(iter + dir, LoopTotal - 1) \in Items(view)
      <4>1. iter + dir \in Int /\ LoopTotal - 1 \in Nat
        BY <3>2, <3>4, <3>5
      <4>2. Clamp(iter + dir, LoopTotal - 1) \in 0..(LoopTotal - 1)
        BY <4>1, ClampRange
      <4> QED
        BY <3>4, <3>5, <4>2
    <3>7. Render(view, Clamp(iter + dir, LoopTotal - 1), neverRun, selected, cache, flight)
      BY <2>4 DEF Step
    <3> HIDE DEF LoopTotal
    <3> QED
      BY <2>0, <3>2, <3>6, <3>7, RenderShows
  <2>5. view \in Loops => /\ iter \in Items(view)
                          /\ last # None => last.of \in {view, Within[view]}
    BY DEF LoopInv
  <2>6. ASSUME ToggleNeverRun PROVE LoopInv'
    <3>1. (~neverRun) \in BOOLEAN
      OBVIOUS
    <3> QED
      BY <2>0, <2>5, <2>6, <3>1, RenderShows DEF ToggleNeverRun
  <2>7. ASSUME NEW n \in Nodes \cup LoopNodes, Select(n) PROVE LoopInv'
    BY <2>0, <2>5, <2>7, RenderShows DEF Select
  <2>8. ASSUME Deselect PROVE LoopInv'
    BY <2>0, <2>5, <2>8, RenderShows DEF Deselect
  <2>9. ASSUME NEW q \in flight, Answer(q) \/ RequestFails(q) PROVE LoopInv'
    <3>1. Keeps(Put(cache, q.key, q.want)) /\ Keeps(Put(cache, q.key, Failed))
      BY <2>0, PutKeeps DEF CacheInv, Asks
    <3> QED
      BY <2>0, <2>5, <2>9, <3>1, RenderShows DEF Answer, RequestFails
  <2>10. ASSUME NEW k \in DOMAIN cache, Evict(k) PROVE LoopInv'
    <3>1. UNCHANGED <<view, iter, neverRun, last>> /\ Own' = Own
      BY <2>10 DEF Evict, Own, DataOf, Drop, Observed, TreeKey
    <3> QED
      BY <3>1 DEF LoopInv, Items
  <2>11. CASE UNCHANGED vars
    BY <2>11 DEF vars, LoopInv, Own, DataOf, TreeKey, Items
  <2> QED
    BY <2>2, <2>3, <2>4, <2>6, <2>7, <2>8, <2>9, <2>10, <2>11 DEF Next, User, Network
<1> QED
  BY <1>1, <1>2, CacheInductive, PTL DEF Spec

\* The stepper's clamp (PathView) keeps an iteration that the loop has, whatever tree
\* is still on the page, where no view lists two loops (PathExplorer_loops.cfg).
THEOREM StepperStays ==
  ASSUME OneLoopEach PROVE Spec => []IterationExists
<1>1. LoopInv => IterationExists
  BY DEF LoopInv, IterationExists
<1> QED
  BY <1>1, LoopInductive, PTL

(***************************************************************************)
(* Types of PathExplorer                                                   *)
(***************************************************************************)
LEMMA TotalType == ASSUME NEW l \in Loops PROVE Total(l) \in Nat
<1> DEFINE S == 1..Len(Rows[l])
           f == [n \in S |-> Rows[l][n].item]
<1>1. Len(Rows[l]) \in Nat
  BY PathExplorerAssumption
<1>2. IsFiniteSet(S)
  BY <1>1, FS_Interval
<1>3. f \in Surjection(S, Items(l))
  BY DEF Surjection, Items
<1>4. IsFiniteSet(Items(l))
  BY <1>2, <1>3, FS_Surjection
<1> QED
  BY <1>4, FS_CardinalityType DEF Total

\* Among some loops there is one of the least counter.
LEMMA FirstLoop ==
  ASSUME NEW loops \in SUBSET Loops, loops # {}
  PROVE  (CHOOSE l \in loops : \A m \in loops : Counter[l] <= Counter[m]) \in loops
<1> DEFINE counters == {Counter[l] : l \in loops}
           less == {ss \in Nat \X Nat : ss[1] < ss[2]}
<1>1. \A l \in loops : Counter[l] \in Nat
  BY PathExplorerAssumption DEF Nodes
<1>2. counters \subseteq Nat /\ counters # {}
  BY <1>1
<1>3. OpToRel(<, Nat) = less
  BY DEF OpToRel
<1>4. IsWellFoundedOn(less, Nat)
  BY <1>3, NatLessThanWellFounded
<1>5. PICK x \in counters : \A y \in counters : ~ (<<y, x>> \in less)
  <2> HIDE DEF less, counters
  <2> QED
    BY <1>2, <1>4, WFMin
<1>6. ASSUME NEW y \in counters PROVE x <= y
  <2>1. x \in Nat /\ y \in Nat
    BY <1>2
  <2>2. ~ (y < x)
    BY <1>5, <2>1
  <2> QED
    BY <2>1, <2>2
<1>7. \E l \in loops : \A m \in loops : Counter[l] <= Counter[m]
  BY <1>6
<1> QED
  BY <1>7

LEMMA ItemCountType ==
  ASSUME NEW tree \in Tree, ItemCount(tree) # None
  PROVE  \E l \in Loops : ItemCount(tree) = Total(l)
<1> DEFINE loops == NodesOf(tree) \cap Loops
           first == CHOOSE l \in loops : \A m \in loops : Counter[l] <= Counter[m]
<1>1. CASE tree.of \in Loops
  BY <1>1 DEF ItemCount
<1>2. CASE tree.of \notin Loops
  <2>1. loops # {} /\ ItemCount(tree) = Total(first)
    BY <1>2 DEF ItemCount
  <2>2. first \in Loops
    BY <2>1, FirstLoop
  <2> HIDE DEF first
  <2> QED
    BY <2>1, <2>2
<1> QED
  BY <1>1, <1>2

\* The stepper goes to an iteration that some loop has.
LEMMA ClampType ==
  ASSUME NEW i \in Int, NEW l \in Loops
  PROVE  Clamp(i, Total(l) - 1) \in Iters
<1> DEFINE top == Total(l) - 1
<1>1. Total(l) \in Nat
  BY TotalType
<1>2. CASE top \in Nat
  BY <1>2, ClampRange DEF Iters
<1>3. CASE top = -1
  <2> DEFINE low == Min({-1, i})
  <2>1. \E x \in {-1, i} : \A y \in {-1, i} : x =< y
    OBVIOUS
  <2>2. low \in Int /\ low <= -1
    BY <2>1 DEF Min
  <2> HIDE DEF low
  <2>3. \E x \in {0, low} : \A y \in {0, low} : x >= y
    BY <2>2
  <2>4. Max({0, low}) = 0
    BY <2>2, <2>3 DEF Max
  <2> QED
    BY <1>3, <2>4 DEF Clamp, Iters, low
<1> QED
  BY <1>1, <1>2, <1>3

IsQuery(q) == q.key \in Keys /\ q.want \in Answers

LEMMA TreeQueryType ==
  ASSUME NEW v \in Views, NEW i \in Iters, NEW nr \in BOOLEAN
  PROVE  /\ FetchTree(v, i, nr) \in Tree
         /\ TreeKey(v, i, nr) \in Keys
         /\ IsQuery(TreeQuery(v, i, nr))
<1>1. 0 \in Iters
  BY DEF Iters
<1>2. FetchTree(v, i, nr) \in Tree
  BY <1>1 DEF FetchTree, Tree
<1>3. TreeKey(v, i, nr) \in Keys
  BY DEF Keys
<1> QED
  BY <1>2, <1>3 DEF IsQuery, TreeQuery, Answers

LEMMA LeafQueryType ==
  ASSUME NEW tree \in Tree \cup {None}, NEW sel, NEW i \in Iters
  PROVE  \A q \in LeafQuery(tree, sel, i) : IsQuery(q)
<1> SUFFICES ASSUME tree # None, sel \in {"item", "result"}, sel \in NodesOf(tree)
             PROVE  IsQuery(ResultsQuery(tree.of, i))
  BY DEF LeafQuery
<1>1. tree.of \in Loops
  BY PathExplorerAssumption DEF NodesOf, LoopNodes
<1>2. ResultsKey(tree.of, i) \in Keys
  BY <1>1 DEF Keys
<1>3. RowAt(tree.of, i) \in Answers
  <2>1. Rows[tree.of] \in Seq(Result) /\ i \in Nat
    <3>1. \A l \in Loops : Total(l) \in Nat
      BY TotalType
    <3> QED
      BY <1>1, <3>1, PathExplorerAssumption DEF Result, Iters
  <2>2. i < Len(Rows[tree.of]) => Rows[tree.of][i + 1] \in Result
    BY <2>1, ElementOfSeq
  <2> QED
    BY <2>2 DEF RowAt, ResultsPage, Answers
<1> QED
  BY <1>2, <1>3 DEF IsQuery, ResultsQuery

\* A page that is rendered within the types stays within them.
LEMMA RenderType ==
  ASSUME TypeOK, NEW v \in Views, NEW i \in Iters, NEW nr \in BOOLEAN,
         NEW sel \in Nodes \cup LoopNodes \cup {None}, NEW c, NEW pending,
         Keeps(c), DOMAIN c \subseteq Keys, \A k \in DOMAIN c : c[k] = Failed \/ c[k] \in Answers,
         \A q \in pending : IsQuery(q),
         Render(v, i, nr, sel, c, pending)
  PROVE  TypeOK'
<1> DEFINE key  == TreeKey(v, i, nr)
           data == DataOf(c, key)
           own  == IF data \in {None, Failed} THEN last ELSE data
           tree == IF data = Failed /\ key \in Observed THEN None ELSE own
           asks == {TreeQuery(v, i, nr)} \cup LeafQuery(tree, sel, i)
           kept == {q.key : q \in asks} \cap Observed
           gone == {k \in DOMAIN c \ kept : c[k] = Failed}
<1>1. /\ view' = v /\ iter' = i /\ neverRun' = nr /\ selected' = sel /\ last' = own
      /\ cache' = Drop(c, gone)
      /\ flight' = pending \cup {q \in asks : /\ q.key \notin DOMAIN cache'
                                              /\ \A p \in pending : p.key # q.key}
  BY DEF Render
<1>2. own \in Tree \cup {None}
  <2>1. data \in {None, Failed, FetchTree(v, i, nr)}
    BY QueriesAsk DEF DataOf, Keeps
  <2> QED
    BY <2>1, TreeQueryType DEF TypeOK
<1>3. tree \in Tree \cup {None}
  BY <1>2
<1> HIDE DEF tree, own
<1>4. \A q \in asks : IsQuery(q)
  BY <1>3, TreeQueryType, LeafQueryType
<1> HIDE DEF asks, gone
<1>5. \A q \in flight' : IsQuery(q)
  BY <1>1, <1>4
<1>6. DOMAIN cache' \subseteq Keys /\ \A k \in DOMAIN cache' : cache'[k] = Failed \/ cache'[k] \in Answers
  BY <1>1 DEF Drop
<1>7. /\ view' \in Views /\ iter' \in Iters /\ neverRun' \in BOOLEAN
      /\ selected' \in Nodes \cup LoopNodes \cup {None} /\ last' \in Tree \cup {None}
  BY <1>1, <1>2
<1> QED
  BY <1>5, <1>6, <1>7 DEF TypeOK, IsQuery

\* Every variable stays in its range (PathView.tsx, pathSource.ts): the view is one
\* of the run, the iteration one that some loop has, and what is cached is an answer.
THEOREM TypeCorrect == Spec => []TypeOK
<1>1. Init => TypeOK
  <2>1. IsQuery(TreeQuery(Main, 0, FALSE)) /\ 0 \in Iters
    BY TreeQueryType DEF Views, Iters
  <2>2. DOMAIN << >> = {}
    OBVIOUS
  <2> QED
    BY <2>1, <2>2 DEF Init, TypeOK, Views, IsQuery
<1>2. ASSUME TypeOK, CacheInv, [Next]_vars PROVE TypeOK'
  <2> USE <1>2
  <2>0. /\ Keeps(cache) /\ DOMAIN cache \subseteq Keys
        /\ \A k \in DOMAIN cache : cache[k] = Failed \/ cache[k] \in Answers
        /\ \A q \in flight : IsQuery(q)
        /\ view \in Views /\ iter \in Iters /\ neverRun \in BOOLEAN
        /\ selected \in Nodes \cup LoopNodes \cup {None}
    BY DEF TypeOK, CacheInv, IsQuery
  <2>1. ASSUME NEW n \in Roles \cup Loops, Enter(n) PROVE TypeOK'
    <3>1. n \in Views /\ 0 \in Iters
      BY DEF Views, Iters
    <3> QED
      BY <2>0, <2>1, <3>1, RenderType DEF Enter
  <2>2. ASSUME ExitToMain PROVE TypeOK'
    <3>1. Main \in Views
      BY DEF Views
    <3> QED
      BY <2>0, <2>2, <3>1, RenderType DEF ExitToMain
  <2>3. ASSUME NEW dir \in {-1, 1}, Step(dir) PROVE TypeOK'
    <3>1. Shown \in Tree /\ LoopTotal = ItemCount(Shown) /\ LoopTotal # None
      <4>1. Shown # None /\ LoopTotal = ItemCount(Shown) /\ LoopTotal # None
        BY <2>3 DEF Step, LoopTotal
      <4>2. Own \in {None, Failed, FetchTree(view, iter, neverRun)}
        BY <2>0, QueriesAsk DEF Own, DataOf, Keeps
      <4>3. FetchTree(view, iter, neverRun) \in Tree /\ last \in Tree \cup {None}
        BY <2>0, TreeQueryType DEF TypeOK
      <4> QED
        BY <4>1, <4>2, <4>3 DEF Shown
    <3>2. PICK l \in Loops : LoopTotal = Total(l)
      BY <3>1, ItemCountType
    <3>3. iter + dir \in Int
      <4>1. \A m \in Loops : Total(m) \in Nat
        BY TotalType
      <4> QED
        BY <2>0, <4>1 DEF Iters
    <3>4. Clamp(iter + dir, LoopTotal - 1) \in Iters
      BY <3>2, <3>3, ClampType
    <3> QED
      BY <2>0, <2>3, <3>4, RenderType DEF Step
  <2>4. ASSUME ToggleNeverRun PROVE TypeOK'
    <3>1. (~neverRun) \in BOOLEAN
      BY <2>0
    <3> QED
      BY <2>0, <2>4, <3>1, RenderType DEF ToggleNeverRun
  <2>5. ASSUME NEW n \in Nodes \cup LoopNodes, Select(n) PROVE TypeOK'
    BY <2>0, <2>5, RenderType DEF Select
  <2>6. ASSUME Deselect PROVE TypeOK'
    BY <2>0, <2>6, RenderType DEF Deselect
  <2>7. ASSUME NEW q \in flight, NEW x \in {q.want, Failed},
               Render(view, iter, neverRun, selected, Put(cache, q.key, x), flight \ {q})
        PROVE  TypeOK'
    <3>1. IsQuery(q) /\ q.want = Wanted(q.key)
      BY <2>0 DEF CacheInv, Asks
    <3> DEFINE c == Put(cache, q.key, x)
    <3>2. Keeps(c)
      BY <2>0, <3>1, PutKeeps
    <3>3. DOMAIN c \subseteq Keys /\ \A k \in DOMAIN c : c[k] = Failed \/ c[k] \in Answers
      BY <2>0, <3>1 DEF Put, IsQuery
    <3>4. \A p \in flight \ {q} : IsQuery(p)
      BY <2>0
    <3>5. Render(view, iter, neverRun, selected, c, flight \ {q})
      BY <2>7
    <3> HIDE DEF c
    <3> QED
      BY <2>0, <3>2, <3>3, <3>4, <3>5, RenderType
  <2>8. ASSUME NEW q \in flight, Answer(q) \/ RequestFails(q) PROVE TypeOK'
    BY <2>7, <2>8 DEF Answer, RequestFails
  <2>9. ASSUME NEW k \in DOMAIN cache, Evict(k) PROVE TypeOK'
    BY <2>0, <2>9 DEF Evict, Drop, TypeOK
  <2>10. CASE UNCHANGED vars
    BY <2>10 DEF vars, TypeOK
  <2> QED
    BY <2>1, <2>2, <2>3, <2>4, <2>5, <2>6, <2>8, <2>9, <2>10 DEF Next, User, Network
<1> QED
  BY <1>1, <1>2, CacheInductive, PTL DEF Spec

\* h hosts ran every item of a loop, in order (get_node_results orders the rows by
\* item_index and host).
HostsEach(h) ==
  \A l \in Loops : \A n \in 1..Len(Rows[l]) : Rows[l][n].item = (n - 1) \div h

LEMMA OnlyOneHostCounts ==
  ASSUME NEW h \in Nat \ {0}, NEW i \in Nat
  PROVE  i \div h = i <=> i = 0 \/ h = 1
<1>1. CASE h = 1
  BY <1>1
<1>2. CASE i = 0
  BY <1>2
<1>3. CASE h >= 2 /\ i >= 1
  <2> DEFINE q == i \div h
  <2>1. q \in Nat /\ h * q <= i
    OBVIOUS
  <2>2. ASSUME q = i PROVE FALSE
    <3>1. (h - 1) * i >= 1
      BY <1>3
    <3>2. h * i = (h - 1) * i + i
      OBVIOUS
    <3>3. (h - 1) * i \in Nat
      BY <1>3
    <3> QED
      BY <2>1, <2>2, <3>1, <3>2, <3>3
  <2> QED
    BY <1>3, <2>2
<1> QED
  BY <1>1, <1>2, <1>3

\* What the drawer of a loop's result shows where h hosts ran each item: the row at
\* the offset iter, which is of the item iter \div h.
DrawerCountsRows(h) ==
  view \in Loops =>
    \/ DataOf(cache, ResultsKey(view, iter)) \in {None, Failed}
    \/ \A row \in DataOf(cache, ResultsKey(view, iter)).results :
         /\ row.item = iter \div h
         /\ row.item = iter <=> iter = 0 \/ h = 1

\* For any number of hosts: the drawer of a loop's result (PathDrawer, which asks
\* for "exactly the result for this iteration") is of the item iter \div h, hence of
\* the iteration that the cards show if it is the first or one host ran each item,
\* and of an earlier one otherwise (the run hosts).
THEOREM DrawerIsOfRow ==
  ASSUME NEW h \in Nat \ {0}, HostsEach(h)
  PROVE  Spec => []DrawerCountsRows(h)
<1>1. TypeOK /\ CacheInv => DrawerCountsRows(h)
  <2> SUFFICES ASSUME TypeOK, CacheInv, view \in Loops,
                      DataOf(cache, ResultsKey(view, iter)) \notin {None, Failed},
                      NEW row \in DataOf(cache, ResultsKey(view, iter)).results
               PROVE  /\ row.item = iter \div h
                      /\ row.item = iter <=> iter = 0 \/ h = 1
    BY DEF DrawerCountsRows
  <2> DEFINE key == ResultsKey(view, iter)
  <2>1. Wanted(key) = RowAt(view, iter)
    BY DEF Wanted, ResultsKey
  <2>2. DataOf(cache, key) \in {None, Failed, Wanted(key)}
    BY DEF DataOf, CacheInv, Keeps
  <2>3. row \in RowAt(view, iter).results
    BY <2>1, <2>2
  <2>4. iter \in Nat
    BY TotalType DEF TypeOK, Iters
  <2>5. Len(Rows[view]) \in Nat
    BY PathExplorerAssumption
  <2>6. iter < Len(Rows[view]) /\ row = Rows[view][iter + 1]
    BY <2>3 DEF RowAt, ResultsPage
  <2>7. row.item = iter \div h
    <3> DEFINE m == iter + 1
    <3>1. m \in 1..Len(Rows[view]) /\ m - 1 = iter /\ row = Rows[view][m]
      BY <2>4, <2>5, <2>6
    <3> HIDE DEF m
    <3>2. Rows[view][m].item = (m - 1) \div h
      BY <3>1 DEF HostsEach
    <3> QED
      BY <3>1, <3>2
  <2> QED
    BY <2>4, <2>7, OnlyOneHostCounts
<1> QED
  BY <1>1, TypeCorrect, CacheInductive, PTL

(***************************************************************************)
(* PathCanvas                                                              *)
(***************************************************************************)
\* The signature is empty for the pages that are not drawn, and for these only.
LEMMA KeyOfDrawn ==
  ASSUME NEW p
  PROVE  FitKey(p) = <<>> <=> p \notin Layouts
<1>1. CASE p \in Layouts
  <2>1. FitKey(p) = <<Cardinality(CardsIn[p]), First[p], Size[p]>>
    BY <1>1 DEF FitKey
  <2>2. <<Cardinality(CardsIn[p]), First[p], Size[p]>> # <<>>
    OBVIOUS
  <2> QED
    BY <1>1, <2>1, <2>2
<1>2. CASE p \notin Layouts
  BY <1>2 DEF FitKey
<1> QED
  BY <1>1, <1>2

\* Layouts of one signature are drawn as large.
LEMMA KeyHasSize ==
  ASSUME NEW p \in Layouts, NEW q \in Layouts, FitKey(p) = FitKey(q)
  PROVE  Size[p] = Size[q]
BY DEF FitKey

\* Every variable stays in its range (usePathController.ts, PathView.tsx): a transform
\* that a fit set was made for a layout, and the overlay is of a card with a source.
THEOREM CanvasTypeCorrect == CanvasSpec => []CanvasTypeOK
<1>1. ASSUME CanvasInit PROVE CanvasTypeOK
  <2>1. Drawn \in BOOLEAN
    BY DEF Drawn
  <2>2. {loaded, frame, canvas} \subseteq BOOLEAN
    BY <1>1, <2>1, Zenon DEF CanvasInit
  <2>3. wheel \in {"none", "canvas"}
    BY <1>1 DEF CanvasInit
  <2> QED
    BY <1>1, <2>2, <2>3 DEF CanvasInit, CanvasTypeOK
<1>2. ASSUME CanvasTypeOK, [CanvasNext]_canvasVars PROVE CanvasTypeOK'
  <2> USE <1>2 DEF CanvasTypeOK
  <2>1. ASSUME NEW p \in Layouts \cup {Spinner, Error}, Draw(p)
        PROVE  /\ page' \in Layouts \cup {Spinner, Error}
               /\ wheel' \in {"none", "canvas"}
               /\ {loaded', frame', canvas', fresh'} \subseteq BOOLEAN
               /\ UNCHANGED <<by, to, sized>>
    BY <2>1 DEF Draw, Bind, SameContent
  <2>2. ASSUME NEW p \in Layouts \cup {Spinner, Error}, TreeChanges(p) PROVE CanvasTypeOK'
    BY <2>1, <2>2 DEF TreeChanges
  <2>3. ASSUME NEW p \in Layouts, Navigate(p) PROVE CanvasTypeOK'
    BY <2>1, <2>3 DEF Navigate
  <2>4. ASSUME AnimationFrame PROVE CanvasTypeOK'
    BY <2>4 DEF AnimationFrame, Drawn, stage
  <2>5. ASSUME ByUser, UNCHANGED <<page, loaded, canvas, wheel, selectedId, source>>,
               press' = press, moved' \in BOOLEAN
        PROVE  CanvasTypeOK'
    BY <2>5 DEF ByUser, Drawn
  <2>6. ASSUME Wheel \/ MinimapJump \/ \E b \in BOOLEAN : MouseMove(b) PROVE CanvasTypeOK'
    BY <2>5, <2>6 DEF Wheel, MinimapJump, MouseMove, stage
  <2>7. ASSUME NEW on \in Cards \cup {"background"}, MouseDown(on) PROVE CanvasTypeOK'
    BY <2>7 DEF MouseDown, stage, fit
  <2>8. ASSUME NEW b \in BOOLEAN, MouseUp(b) PROVE CanvasTypeOK'
    <3>1. b => press \in Cards
      BY <2>8, PathCanvasAssumption DEF MouseUp, Drawn
    <3> QED
      BY <2>8, <3>1 DEF MouseUp, stage, fit
  <2>9. ASSUME NEW b \in BOOLEAN, CloseOverlay(b) PROVE CanvasTypeOK'
    BY <2>9 DEF CloseOverlay, stage, fit
  <2>10. ASSUME CloseDrawer \/ ViewSource PROVE CanvasTypeOK'
    BY <2>10 DEF CloseDrawer, ViewSource, stage, fit
  <2>11. ASSUME UNCHANGED canvasVars PROVE CanvasTypeOK'
    BY <2>11 DEF canvasVars, stage, fit
  <2> QED
    BY <1>2, <2>2, <2>3, <2>4, <2>6, <2>7, <2>8, <2>9, <2>10, <2>11 DEF CanvasNext
<1> QED
  BY <1>1, <1>2, PTL DEF CanvasSpec

\* What is not a new layout leaves the page and its listener alone.
LEMMA PageSteps ==
  ASSUME [CanvasNext]_canvasVars
  PROVE  \/ \E p \in Layouts \cup {Spinner, Error} : Draw(p)
         \/ UNCHANGED stage
BY DEF CanvasNext, canvasVars, stage, TreeChanges, AnimationFrame, Navigate, Wheel, MinimapJump, MouseDown,
       MouseMove, MouseUp, CloseOverlay, CloseDrawer, ViewSource

\* The wheel zooms whatever is drawn (PathView.tsx binds the listener by hand, since
\* React's own is passive): the element is there and has the listener.
THEOREM WheelIsBound == CanvasSpec => []WheelWorks
<1>1. CanvasInit => WheelWorks
  BY DEF CanvasInit, WheelWorks, Drawn
<1>2. ASSUME WheelWorks, [CanvasNext]_canvasVars PROVE WheelWorks'
  <2>1. ASSUME NEW p \in Layouts \cup {Spinner, Error}, Draw(p) PROVE WheelWorks'
    BY <1>2, <2>1, PathCanvasAssumption DEF WheelWorks, Draw, Bind, Drawn
  <2>2. ASSUME UNCHANGED stage PROVE WheelWorks'
    BY <1>2, <2>2 DEF WheelWorks, stage, Drawn
  <2> QED
    BY <1>2, <2>1, <2>2, PageSteps
<1> QED
  BY <1>1, <1>2, PTL DEF CanvasSpec

(***************************************************************************)
(* The picture                                                             *)
(***************************************************************************)
\* A gesture counts while no fit waits.
PlacedInv ==
  /\ PictureIsPlaced
  /\ fresh => Drawn /\ ~frame

\* A new layout keeps the invariant: either a fit waits, or the signature is the one
\* of the layout before, and with it what was drawn.
LEMMA DrawPlaces ==
  ASSUME KeyIsFaithful, PlacedInv, NEW p \in Layouts \cup {Spinner, Error}, Draw(p)
  PROVE  PlacedInv'
<1>1. fresh' => Drawn' /\ ~frame'
  <2> SUFFICES ASSUME fresh' PROVE Drawn' /\ ~frame'
    OBVIOUS
  <2>1. fresh /\ SameContent(page, p) /\ page' = p
    BY DEF Draw
  <2>2. page \in Layouts /\ ~frame
    BY <2>1 DEF PlacedInv, Drawn
  <2>3. p \in Layouts
    BY <2>1, <2>2 DEF SameContent
  <2>4. FitKey(p) = FitKey(page)
    BY <2>1, <2>2, <2>3 DEF KeyIsFaithful, SameContent
  <2> QED
    BY <2>1, <2>2, <2>3, <2>4 DEF Draw, Drawn
<1>2. PictureIsPlaced'
  <2> SUFFICES ASSUME p \in Layouts, ~frame'
               PROVE  \/ by' = "fit" /\ Size[to'] = Size[p]
                      \/ by' = "user" /\ fresh'
    BY DEF PictureIsPlaced, Drawn, Draw
  <2>1. FitKey(p) # <<>>
    BY KeyOfDrawn
  <2>2. FitKey(p) = FitKey(page) /\ ~frame
    BY <2>1 DEF Draw
  <2>3. page \in Layouts
    BY <2>1, <2>2, KeyOfDrawn
  <2>4. Size[p] = Size[page]
    BY <2>2, <2>3, KeyHasSize
  <2>5. SameContent(page, p)
    BY <2>2, <2>3 DEF KeyIsFaithful
  <2>6. \/ by = "fit" /\ Size[to] = Size[page]
        \/ by = "user" /\ fresh
    BY <2>2, <2>3 DEF PlacedInv, PictureIsPlaced, Drawn
  <2> QED
    BY <2>4, <2>5, <2>6 DEF Draw
<1> QED
  BY <1>1, <1>2 DEF PlacedInv

LEMMA StepPlaces ==
  ASSUME KeyIsFaithful, PlacedInv, [CanvasNext]_canvasVars
  PROVE  PlacedInv'
<1>1. ASSUME NEW p \in Layouts \cup {Spinner, Error}, TreeChanges(p) PROVE PlacedInv'
  BY <1>1, DrawPlaces DEF TreeChanges
<1>2. ASSUME NEW p \in Layouts, Navigate(p) PROVE PlacedInv'
  BY <1>2, DrawPlaces DEF Navigate
<1>3. ASSUME AnimationFrame PROVE PlacedInv'
  BY <1>3 DEF AnimationFrame, PlacedInv, PictureIsPlaced, Drawn, stage
<1>4. ASSUME ByUser, UNCHANGED page PROVE PlacedInv'
  BY <1>4 DEF ByUser, PlacedInv, PictureIsPlaced, Drawn
<1>5. ASSUME Wheel \/ MinimapJump \/ \E b \in BOOLEAN : MouseMove(b) PROVE PlacedInv'
  BY <1>4, <1>5 DEF Wheel, MinimapJump, MouseMove, stage
<1>6. ASSUME UNCHANGED <<page, by, to, frame, fresh>> PROVE PlacedInv'
  BY <1>6 DEF PlacedInv, PictureIsPlaced, Drawn
<1>7. ASSUME \/ \E on \in Cards \cup {"background"} : MouseDown(on)
             \/ \E b \in BOOLEAN : MouseUp(b) \/ CloseOverlay(b)
             \/ CloseDrawer \/ ViewSource \/ UNCHANGED canvasVars
      PROVE  PlacedInv'
  BY <1>6, <1>7 DEF MouseDown, MouseUp, CloseOverlay, CloseDrawer, ViewSource, canvasVars, stage, fit
<1> QED
  BY <1>1, <1>2, <1>3, <1>5, <1>7 DEF CanvasNext

\* What is drawn is fitted, about to be, or as the user put it, for any layouts whose
\* signature tells them apart.
THEOREM PicturesArePlaced ==
  ASSUME KeyIsFaithful PROVE CanvasSpec => []PictureIsPlaced
<1>1. CanvasInit => PlacedInv
  BY DEF CanvasInit, PlacedInv, PictureIsPlaced, Drawn
<1>2. PlacedInv /\ [CanvasNext]_canvasVars => PlacedInv'
  BY StepPlaces
<1>3. PlacedInv => PictureIsPlaced
  BY DEF PlacedInv
<1> QED
  BY <1>1, <1>2, <1>3, PTL DEF CanvasSpec

\* Only a fit takes a transform from the user, and no fit waits over a picture that
\* the user has moved ("no clobber loop").
THEOREM GesturesStay ==
  ASSUME KeyIsFaithful PROVE CanvasSpec => GestureStays
<1>1. CanvasInit => PlacedInv
  BY DEF CanvasInit, PlacedInv, PictureIsPlaced, Drawn
<1>2. PlacedInv /\ [CanvasNext]_canvasVars => PlacedInv'
  BY StepPlaces
<1>3. PlacedInv /\ [CanvasNext]_canvasVars => [by = "user" /\ fresh => by' = "user"]_canvasVars
  <2> SUFFICES ASSUME PlacedInv, CanvasNext, by = "user", fresh PROVE by' = "user"
    OBVIOUS
  <2>1. ~frame
    BY DEF PlacedInv
  <2> QED
    BY <2>1 DEF CanvasNext, TreeChanges, Draw, AnimationFrame, Navigate, Wheel, MinimapJump, ByUser,
                MouseDown, MouseMove, MouseUp, CloseOverlay, CloseDrawer, ViewSource, stage, fit
<1> QED
  BY <1>1, <1>2, <1>3, PTL DEF CanvasSpec, GestureStays
=============================================================================
