---------------------------- MODULE PathExplorer ----------------------------
(***************************************************************************)
(* The Path Explorer of the web client (frontend/src/path): a user walks   *)
(* through the execution tree of one run, while the tree of each view, and *)
(* the results of a loop's iterations, come from the server (api/path.ts,  *)
(* api/pathSource.ts, backend api/runs.py).                                *)
(*                                                                         *)
(* A step is an event of the page: what the user does, with the render and *)
(* the effects that follow from it (a query that is observed for the first *)
(* time is requested), the answer to a request, or the eviction of what no *)
(* component observes.  Until the tree of a view is there the page shows   *)
(* the last one (keepPreviousData) and the user can act on it.             *)
(*                                                                         *)
(* Abstracted: labels and animations; the canvas (PathCanvas), the scope  *)
(* of hosts, the overlay and the inputs.  The tree of a run does not       *)
(* change; a refetch of stale data brings what was there.                  *)
(***************************************************************************)
EXTENDS Integers, Sequences, FiniteSets, FiniteSetsExt

CONSTANTS
  Roles, Loops, Tasks, \* the nodes of the run: containers, loops, plain tasks
  Ghosts,         \* tasks of the source that never ran
  Within,         \* the view that lists a node: Main or the container
  Counter,        \* order of the nodes (RunNode.counter)
  Rows,           \* results of a loop by (item_index, host): [item, status]
  Main,           \* the view {type: 'main'}
  None,           \* null or undefined
  Failed,         \* a query whose request failed
  MaxInFlight,    \* bound: requests under way when the user acts
  MaxCached       \* bound: answers kept unobserved when the user acts

Nodes     == Roles \cup Loops \cup Tasks \cup Ghosts
Views     == {Main} \cup Roles \cup Loops
LoopNodes == {"loopRoot", "item", "task", "result"}

ASSUME PathExplorerAssumption ==
  /\ Nodes \cap LoopNodes = {}
  /\ Within \in [Nodes -> {Main} \cup Roles]
  /\ Counter \in [Nodes -> Nat]
  /\ Rows \in [Loops -> Seq([item : Nat, status : Nat])]
  /\ MaxInFlight \in Nat /\ MaxCached \in Nat

VARIABLES
  view, iter, neverRun, \* navigation state of PathView
  selected,       \* selectedId
  cache,          \* query cache: data or Failed, by the keys that are in it
  flight,         \* requests under way: their key and what the server is asked
  last            \* the last tree the page had data of

vars == <<view, iter, neverRun, selected, cache, flight, last>>

(***************************************************************************)
(* The server                                                              *)
(***************************************************************************)
Items(l)  == {Rows[l][n].item : n \in 1..Len(Rows[l])}
Total(l)  == Cardinality(Items(l))
Iters     == {0} \cup UNION {0..(Total(l) - 1) : l \in Loops}

\* GET /runs/{id}/tree: what the tree is of.
Tree == [of : Views, iter : Iters, ghosts : BOOLEAN]

\* GET /runs/{id}/nodes/{loop}/results with an offset and limit 1: one row of
\* the loop's results, or none.
Result == [item : Nat, status : Nat]
ResultsPage(rows) == [results |-> rows]
RowAt(l, offset) ==
  ResultsPage(IF offset < Len(Rows[l]) THEN {Rows[l][offset + 1]} ELSE {})

\* The nodes of a tree: of a loop the synthetic path of one iteration, else the
\* nodes that the view lists.
NodesOf(tree) ==
  IF tree.of \in Loops THEN LoopNodes
  ELSE {n \in Nodes : Within[n] = tree.of /\ (n \in Ghosts => tree.ghosts)}

\* The status of the path of one iteration: the worst of its hosts.
WorstStatus(l, i) == Max({r.status : r \in {Rows[l][n] : n \in 1..Len(Rows[l])} \cap [item : {i}, status : Nat]})

\* The first item_count among the nodes of a tree.
ItemCount(tree) ==
  IF tree.of \in Loops THEN Total(tree.of)
  ELSE LET loops == NodesOf(tree) \cap Loops
       IN IF loops = {} THEN None
          ELSE Total(CHOOSE l \in loops : \A m \in loops : Counter[l] <= Counter[m])

(***************************************************************************)
(* Queries                                                                 *)
(***************************************************************************)
\* Mutant: a key that leaves out a flag of the request.
TreeKeyShort(v, i, nr) == <<"tree", v, IF v \in Loops THEN i ELSE 0, FALSE>>

TreeKey(v, i, nr)  == <<"tree", v, IF v \in Loops THEN i ELSE 0, nr>>
ResultsKey(l, i)   == <<"results", l, i>>

FetchTree(v, i, nr) ==
  [of |-> v, iter |-> IF v \in Loops THEN i ELSE 0, ghosts |-> nr /\ v \notin Loops]

TreeQuery(v, i, nr) == [key |-> TreeKey(v, i, nr), want |-> FetchTree(v, i, nr)]
ResultsQuery(l, i)  == [key |-> ResultsKey(l, i), want |-> RowAt(l, i)]

Keys == {TreeKey(v, i, nr) : v \in Views, i \in Iters, nr \in BOOLEAN}
          \cup {ResultsKey(l, i) : l \in Loops, i \in Iters}
Answers == Tree \cup [results : SUBSET Result]
Query   == [key : Keys, want : Answers]

TypeOK ==
  /\ view \in Views /\ iter \in Iters /\ neverRun \in BOOLEAN
  /\ selected \in Nodes \cup LoopNodes \cup {None}
  /\ DOMAIN cache \subseteq Keys
  /\ \A k \in DOMAIN cache : cache[k] = Failed \/ cache[k] \in Answers
  /\ \A q \in flight : q.key \in Keys /\ q.want \in Answers
  /\ last \in Tree \cup {None}

DataOf(c, k) == IF k \in DOMAIN c THEN c[k] ELSE None
Put(c, k, x) == [j \in DOMAIN c \cup {k} |-> IF j = k THEN x ELSE c[j]]
Drop(c, ks)  == [k \in DOMAIN c \ ks |-> c[k]]

Own == DataOf(cache, TreeKey(view, iter, neverRun))

\* What the page shows: the tree of the view, while it is pending the last one,
\* and none when it could not be loaded.
Shown == CASE Own = None -> last [] Own = Failed -> None [] OTHER -> Own

DrawerOpen  == Shown # None /\ selected # None /\ selected \in NodesOf(Shown)

\* The results that the drawer of a loop's item or result asks for.
LeafQuery(tree, sel, i) ==
  IF tree # None /\ sel \in {"item", "result"} /\ sel \in NodesOf(tree)
  THEN {ResultsQuery(tree.of, i)} ELSE {}

Observed == {TreeKey(view, iter, neverRun)} \cup {q.key : q \in LeafQuery(Shown, selected, iter)}

\* Mutant: one request at a time.
RenderInTurn(v, i, nr, sel, c, pending) ==
  LET key == TreeKey(v, i, nr)
  IN /\ view' = v /\ iter' = i /\ neverRun' = nr /\ selected' = sel
     /\ last' = IF DataOf(c, key) \in {None, Failed} THEN last ELSE c[key]
     /\ cache' = Drop(c, {k \in DOMAIN c \ Observed : c[k] = Failed})
     /\ flight' = IF pending = {} /\ key \notin DOMAIN c
                  THEN {TreeQuery(v, i, nr)} ELSE pending

\* The page is rendered for this state with this cache: queries observed anew
\* are requested, unless they have data or are under way.  A failure is
\* forgotten with its last observer: the next one requests again.
Render(v, i, nr, sel, c, pending) ==
  LET key  == TreeKey(v, i, nr)
      data == DataOf(c, key)
      own  == IF data \in {None, Failed} THEN last ELSE data
      tree == IF data = Failed /\ key \in Observed THEN None ELSE own
      asks == {TreeQuery(v, i, nr)} \cup LeafQuery(tree, sel, i)
      kept == {q.key : q \in asks} \cap Observed
  IN /\ view' = v /\ iter' = i /\ neverRun' = nr /\ selected' = sel
     /\ last' = own
     /\ cache' = Drop(c, {k \in DOMAIN c \ kept : c[k] = Failed})
     /\ flight' = pending \cup {q \in asks : /\ q.key \notin DOMAIN cache'
                                             /\ \A p \in pending : p.key # q.key}

Init ==
  /\ view = Main /\ iter = 0 /\ neverRun = FALSE
  /\ selected = None /\ last = None
  /\ cache = <<>>
  /\ flight = {TreeQuery(Main, 0, FALSE)}

(***************************************************************************)
(* The user                                                                *)
(***************************************************************************)
\* Nothing but a spinner is there while the first tree is pending.
Page ==
  /\ Own # None \/ last # None
  /\ Cardinality(flight) <= MaxInFlight
  /\ Cardinality(DOMAIN cache \ Observed) <= MaxCached

\* Mutant: the iteration is kept.
EnterOnward(n) ==
  /\ Page /\ Shown # None
  /\ n \in NodesOf(Shown) \cap (Roles \cup Loops)
  /\ Render(n, iter, neverRun, None, cache, flight)

\* A double click on a card, or a button of the card or the drawer.
Enter(n) ==
  /\ Page /\ Shown # None
  /\ n \in NodesOf(Shown) \cap (Roles \cup Loops)
  /\ Render(n, 0, neverRun, None, cache, flight)

\* The breadcrumb.
ExitToMain ==
  /\ Page /\ view # Main
  /\ Render(Main, iter, neverRun, None, cache, flight)

LoopTotal == IF Shown # None /\ view \in Loops THEN ItemCount(Shown) ELSE None

Clamp(i, max) == Max({0, Min({max, i})})

\* The stepper, whose button is disabled at the first and the last iteration.
Step(dir) ==
  /\ Page /\ LoopTotal # None
  /\ iter # IF dir = 1 THEN LoopTotal - 1 ELSE 0
  /\ Render(view, Clamp(iter + dir, LoopTotal - 1), neverRun, selected, cache, flight)

ToggleNeverRun ==
  /\ Page
  /\ Render(view, iter, ~neverRun, selected, cache, flight)

Select(n) ==
  /\ Page /\ Shown # None /\ n \in NodesOf(Shown)
  /\ Render(view, iter, neverRun, n, cache, flight)

\* A click on the background, the drawer's button or Escape.
Deselect ==
  /\ Page /\ selected # None
  /\ Render(view, iter, neverRun, None, cache, flight)

(***************************************************************************)
(* Requests                                                                *)
(***************************************************************************)
Answer(q) ==
  /\ q \in flight
  /\ Render(view, iter, neverRun, selected, Put(cache, q.key, q.want), flight \ {q})

\* Nothing is retried.
RequestFails(q) ==
  /\ q \in flight
  /\ Render(view, iter, neverRun, selected, Put(cache, q.key, Failed), flight \ {q})

\* What nothing observes is dropped after gcTime.
Evict(k) ==
  /\ k \in DOMAIN cache \ Observed
  /\ cache' = Drop(cache, {k})
  /\ UNCHANGED <<view, iter, neverRun, selected, flight, last>>

User ==
  \/ \E n \in Roles \cup Loops : Enter(n)
  \/ ExitToMain
  \/ \E dir \in {-1, 1} : Step(dir)
  \/ ToggleNeverRun
  \/ \E n \in Nodes \cup LoopNodes : Select(n)
  \/ Deselect

Network ==
  \/ \E q \in flight : Answer(q) \/ RequestFails(q)
  \/ \E k \in DOMAIN cache : Evict(k)

Next == User \/ Network

Spec == Init /\ [][Next]_vars

\* The request for the view that is open ends: fetch answers or throws.
FairSpec ==
  /\ Spec
  /\ WF_vars(\E q \in flight : /\ q.key = TreeKey(view, iter, neverRun)
                               /\ Answer(q) \/ RequestFails(q))

(***************************************************************************)
(* Properties                                                              *)
(***************************************************************************)
Settled == Own \notin {None, Failed}

\* Whatever is asked, left and asked again, and in whatever order the answers
\* come: a page that does not wait shows the tree of its view, of its iteration
\* and with or without the branches that never ran, as its controls say.
ShownIsAsked ==
  Settled => /\ Shown.of = view
             /\ view \in Loops => Shown.iter = iter
             /\ view \notin Loops => Shown.ghosts = neverRun

\* The drawer of a loop's result tells the item and the status of the iteration
\* that the cards under it show (PathDrawer.tsx: "exactly the result for this
\* iteration").  The offset it asks for counts rows, one for each item and host:
\* refuted by the run hosts, in which two hosts ran each item.
DrawerMatchesIteration ==
  /\ Settled /\ DrawerOpen /\ view \in Loops
  /\ selected \in {"item", "result"} /\ iter \in Items(view)
  => DataOf(cache, ResultsKey(view, iter)) \in {None, Failed} \cup
       {ResultsPage({[item |-> iter, status |-> WorstStatus(view, iter)]})}

\* The stepper stays within the items of its loop, also on a tree that belongs
\* to the view before (PathView.tsx: "clamp to real item_count").  With the loops
\* in different views: the clamp is that of the last tree (PathExplorer_loops.cfg).
IterationExists == Settled /\ view \in Loops => iter \in Items(view)

\* A view that stays open is loaded, or said to have failed.
ViewLoads ==
  \/ []<>(Own # None)
  \/ []<><<TreeKey(view, iter, neverRun)' # TreeKey(view, iter, neverRun)>>_vars

=============================================================================
