------------------------------ MODULE LogsView ------------------------------
(***************************************************************************)
(* The list of runs of the web client (frontend/src/dashboard): the state  *)
(* of the view in the address and in localStorage (useLogsState.ts), the   *)
(* controls that change it, the debounced search, and the pages of the     *)
(* list (RunsList.tsx, api/runs.ts), against runs that come and go.        *)
(*                                                                         *)
(* A step is an event of the page with its render and effects, or one page *)
(* of the list read by the server and answered.  The address changes at    *)
(* once, what is rendered follows it (the router renders in a transition). *)
(*                                                                         *)
(* Abstracted: a run is the labels that the controls ask for; cards and    *)
(* table; facets and controllers offered (see ControllersPage); what time  *)
(* makes stale or evicts from the query cache; other tabs of the browser.  *)
(***************************************************************************)
EXTENDS Integers, Sequences, FiniteSets, Functions

CONSTANTS
  Tabs,           \* bound: those of "mine", "shared", "team" that are in use
  SortKeys,       \* columns that sort, "when" among them
  Sources,        \* the controllers and "uploads"
  Facets,         \* conditions of the filter bar, each on a field of its own
  Words,          \* search phrases
  Runs,           \* ids of the runs that there may be, in their order
  Labels,         \* of each its tabs, source, and what it meets of the others
  Column,         \* by the key of a column: what each has there, None for NULL
  Size,           \* runs per page
  Blank,          \* no search
  None,           \* undefined, NULL
  Starts,         \* bound: the sets of runs that there may be at first
  MaxEvents       \* bound: what users, the server and failures do

ASSUME LogsViewAssumption ==
  /\ "mine" \in Tabs /\ Tabs \subseteq {"mine", "shared", "team"} /\ "when" \in SortKeys
  /\ Blank \notin Words /\ None \notin Nat
  /\ Runs \subseteq Nat
  /\ Labels \in [Runs -> SUBSET (Tabs \cup Sources \cup Facets \cup Words)]
  /\ Column \in [SortKeys -> [Runs -> Nat \cup {None}]]
  /\ Starts \subseteq {S \in SUBSET Runs : IsFiniteSet(S)}
  /\ Size \in Nat \ {0} /\ MaxEvents \in Nat

VARIABLES
  runs,           \* the runs there are, which the user may see
  loc,            \* the view that the address tells (kept when the page is left)
  seen,           \* the view that is rendered
  past,           \* views in the history of the tab
  stored,         \* the view in localStorage
  here,           \* the dashboard is mounted
  typed,          \* qDebounced
  cache,          \* of each query asked: its pages, and whether its last fetch failed
  flight,         \* fetches under way: pages read, how many to read
  last,           \* the pages shown last by this list
  events          \* counts what MaxEvents bounds

address == <<loc, past, stored>>
list    == <<seen, here, typed, cache, flight, last>>
vars    == <<runs, address, list, events>>

Sort == [key : SortKeys, dir : {"asc", "desc"}]
View == [tab : Tabs, sort : Sort, src : Sources \cup {"all"}, q : Words \cup {Blank}, filters : SUBSET Facets]

\* A view without parameters.
Bare == [tab |-> "mine", sort |-> [key |-> "when", dir |-> "desc"], src |-> "all", q |-> Blank, filters |-> {}]

Counted == events < MaxEvents /\ events' = events + 1

(***************************************************************************)
(* The server                                                              *)
(***************************************************************************)
\* By the column, NULL last in both directions, then by id.
Before(sort, r, s) ==
  LET a == Column[sort.key][r]
      b == Column[sort.key][s]
  IN IF a = b THEN r < s
     ELSE b = None \/ (a # None /\ IF sort.dir = "asc" THEN a < b ELSE a > b)

Found(want) == {r \in runs : want \subseteq Labels[r]}

\* The runs before r in an order, and the one that has n - 1 before it.
Ahead(S, sort, r) == {s \in S : Before(sort, s, r)}
Nth(S, sort, n)   == CHOOSE r \in S : Cardinality(Ahead(S, sort, r)) = n - 1

\* GET /runs with these conditions: the page at an offset.
ListRuns(key, offset) ==
  LET S     == Found(key.want)
      total == Cardinality(S)
      there == IF offset + Size < total THEN Size ELSE IF offset < total THEN total - offset ELSE 0
  IN [items |-> [i \in 1..there |-> Nth(S, key.sort, offset + i)], total |-> total]

(***************************************************************************)
(* Queries                                                                 *)
(***************************************************************************)
\* Mutant: the stored filters narrow every tab.
RichFiltersOfAll(v) == v.filters \cup (IF v.tab = "team" THEN {v.src} \ {"all"} ELSE {})

\* The filter bar and the sources are of the team's tab.
RichFilters(v) == IF v.tab = "team" THEN v.filters \cup ({v.src} \ {"all"}) ELSE {}

Key(v, q) == [want |-> {v.tab} \cup RichFilters(v) \cup ({q} \ {Blank}), sort |-> v.sort]

\* The pages of a query: their runs, how many they are, the total of the first and the last.
NoPages == [items |-> <<>>, pages |-> 0, total |-> 0, end |-> 0]

AddPage(d, page) ==
  [items |-> d.items \o page.items, pages |-> d.pages + 1,
   total |-> IF d.pages = 0 THEN page.total ELSE d.total, end |-> page.total]

Loaded(d) == Len(d.items)

\* Mutant: the number of the page.
NextOffsetByPage(d) == IF Loaded(d) < d.end THEN d.pages ELSE None

\* The offset of the next page, None when everything is loaded.
NextOffset(d) == IF Loaded(d) < d.end THEN Loaded(d) ELSE None

Query == [data |-> NoPages, failed |-> FALSE, calm |-> TRUE]   \* before its first answer
Fetch(data, goal, next, calm) == [data |-> data, goal |-> goal, next |-> next, calm |-> calm]

HasData(c, k) == k \in DOMAIN c /\ c[k].data.pages # 0
Put(f, k, x)  == [j \in DOMAIN f \cup {k} |-> IF j = k THEN x ELSE f[j]]
Drop(f, k)    == [j \in DOMAIN f \ {k} |-> f[j]]

Current == Key(seen, typed)
Own     == IF HasData(cache, Current) THEN cache[Current].data ELSE None
Error   == Current \in DOMAIN cache /\ cache[Current].failed

\* While a query has no data the list of the one before stays.
Shown == IF Own = None THEN last ELSE Own

\* The list with its header is there.
Page == here /\ ~Error /\ Shown # None

Refetch(c, k) == Fetch(NoPages, c[k].data.pages, FALSE, TRUE)

\* The list is rendered for this view and search.  A query that it begins to
\* observe is fetched if it has no data or if they are stale; another tab is another
\* list, which has shown nothing yet.
Draw(v, q, fresh, stale) ==
  LET k   == Key(v, q)
      new == fresh \/ k # Current
  IN /\ seen' = v /\ typed' = q
     /\ last' = IF HasData(cache, k) THEN cache[k].data ELSE IF fresh THEN None ELSE last
     /\ cache' = IF new /\ k \in DOMAIN cache /\ ~HasData(cache, k) THEN Drop(cache, k) ELSE cache
     /\ flight' = IF ~new \/ k \in DOMAIN flight THEN flight
                  ELSE IF ~HasData(cache, k) THEN Put(flight, k, Fetch(NoPages, 1, FALSE, TRUE))
                  ELSE IF stale THEN Put(flight, k, Refetch(cache, k)) ELSE flight

TypeOK ==
  /\ runs \subseteq Runs
  /\ {loc, seen, stored} \cup past \subseteq View
  /\ here \in BOOLEAN /\ typed \in Words \cup {Blank}
  /\ \A k \in DOMAIN cache : HasData(cache, k) \/ cache[k].failed
  /\ \A k \in DOMAIN flight : /\ flight[k].data.pages < flight[k].goal
                              /\ flight[k].next => HasData(cache, k)

Init ==
  /\ runs \in Starts
  /\ loc = Bare /\ seen = Bare /\ stored = Bare /\ past = {}
  /\ here = FALSE /\ typed = Blank
  /\ cache = <<>> /\ flight = <<>> /\ last = None
  /\ events = 0

(***************************************************************************)
(* Arriving and leaving                                                    *)
(***************************************************************************)
\* Mutant: the effects in the other order: the address is stored, then restored.
RestoredLate(v) == v

\* A view without parameters is replaced by the stored one.
Restored(v) == IF v = Bare THEN stored ELSE v

\* The dashboard is mounted at a bare address, by a link or with Back: the view is
\* restored, and what is rendered meanwhile is stored.
Arrive(v, stale) ==
  /\ ~here /\ v \in past \cup {Bare}
  /\ here' = TRUE
  /\ loc' = Restored(v) /\ stored' = v
  /\ Draw(v, v.q, TRUE, stale)
  /\ UNCHANGED <<runs, past, events>>

\* To another page of the client, or the client is closed or reloaded.
Leave(closed) ==
  /\ Counted /\ here
  /\ here' = FALSE /\ past' = past \cup {loc}
  /\ IF closed THEN cache' = <<>> /\ flight' = <<>> ELSE UNCHANGED <<cache, flight>>
  /\ last' = None
  /\ UNCHANGED <<runs, loc, stored, seen, typed>>

\* The address is rendered and stored.
Render(stale) ==
  /\ here /\ seen # loc
  /\ stored' = loc
  /\ Draw(loc, IF loc.tab = seen.tab THEN typed ELSE loc.q, loc.tab # seen.tab, stale)
  /\ UNCHANGED <<runs, loc, past, here, events>>

(***************************************************************************)
(* Controls                                                                *)
(***************************************************************************)
\* What changes is merged into the address.
Update(v) == loc' = v

Push    == past' = past \cup {loc}
Replace == past' = past

Controls(changed) ==
  /\ Counted /\ here /\ changed
  /\ UNCHANGED <<runs, stored, list>>

SetTab(t) ==
  /\ Controls(t # seen.tab)
  /\ Update([loc EXCEPT !.tab = t]) /\ Push

SetSort(k) ==
  /\ Controls(Page /\ Shown.items # <<>>)
  /\ Update([loc EXCEPT !.sort = [key |-> k, dir |-> IF seen.sort = [key |-> k, dir |-> "desc"] THEN "asc" ELSE "desc"]])
  /\ Push

SetSrc(s) ==
  /\ Controls(Page /\ seen.tab = "team" /\ s # seen.src)
  /\ Update([loc EXCEPT !.src = s]) /\ Push

SetQ(w) ==
  /\ Controls(Page /\ w # seen.q)
  /\ Update([loc EXCEPT !.q = w]) /\ Replace

\* A field of the filter bar, or all of them cleared; the others are as rendered.
SetFilters(fs) ==
  /\ Controls(Page /\ seen.tab = "team")
  /\ \/ \E f \in Facets : fs = IF f \in seen.filters THEN seen.filters \ {f} ELSE seen.filters \cup {f}
     \/ fs = {} /\ seen.filters # {}
  /\ Update([loc EXCEPT !.filters = fs]) /\ Replace

\* Back and forward, and the link to the dashboard.
Go(v) ==
  /\ Counted /\ here /\ v \in (past \cup {Bare}) \ {loc}
  /\ loc' = v /\ Push
  /\ UNCHANGED <<runs, stored, list>>

\* The timer, 250 ms after the search changed.
Debounced(stale) ==
  /\ here /\ typed # seen.q
  /\ Draw(seen, seen.q, FALSE, stale)
  /\ UNCHANGED <<runs, address, here, events>>

(***************************************************************************)
(* Pages                                                                   *)
(***************************************************************************)
\* The end of the list comes into view.  A refetch under way is given up.
NextPage ==
  /\ Page /\ Counted /\ Own # None
  /\ Own.total > Loaded(Own) /\ NextOffset(Own) # None
  /\ ~(Current \in DOMAIN flight /\ flight[Current].next)
  /\ flight' = Put(flight, Current, Fetch(Own, Own.pages + 1, TRUE, cache[Current].calm))
  /\ UNCHANGED <<runs, address, seen, here, typed, cache, last>>

\* The server answers for one page; the query's data change with the last one.
Answer(k) ==
  /\ k \in DOMAIN flight
  /\ LET f      == flight[k]
         offset == IF f.data.pages = 0 THEN 0 ELSE NextOffset(f.data)
         data   == AddPage(f.data, ListRuns(k, offset))
         done   == data.pages = f.goal \/ NextOffset(data) = None
     IN /\ flight' = IF done THEN Drop(flight, k) ELSE [flight EXCEPT ![k].data = data]
        /\ cache' = IF done THEN Put(cache, k, [data |-> data, failed |-> FALSE, calm |-> f.calm]) ELSE cache
        /\ last' = IF done /\ here /\ k = Current THEN data ELSE last
  /\ UNCHANGED <<runs, address, seen, here, typed, events>>

\* Nothing is retried, and what was loaded is kept but not shown.
FetchFails(k) ==
  /\ Counted /\ k \in DOMAIN flight
  /\ flight' = Drop(flight, k)
  /\ cache' = Put(cache, k, [(IF k \in DOMAIN cache THEN cache[k] ELSE Query) EXCEPT !.failed = TRUE])
  /\ UNCHANGED <<runs, address, seen, here, typed, last>>

\* A run was deleted or uploaded here, or a sync ended: the list is fetched anew,
\* whatever is under way, but not before there are any data.
Invalidate ==
  /\ here
  /\ ~(Current \in DOMAIN flight /\ Own = None)
  /\ flight' = Put(flight, Current, IF Own = None THEN Fetch(NoPages, 1, FALSE, TRUE) ELSE Refetch(cache, Current))
  /\ cache' = IF Own = None THEN Drop(cache, Current) ELSE cache
  /\ UNCHANGED <<runs, address, seen, here, typed, last, events>>

\* Of others, of a sync, or of this user elsewhere.
RunsChange(S) ==
  /\ Counted /\ runs' = S
  /\ \E r \in Runs : S = (runs \cup {r}) \ (runs \cap {r})
  /\ cache' = [k \in DOMAIN cache |-> [cache[k] EXCEPT !.calm = FALSE]]
  /\ flight' = [k \in DOMAIN flight |->
                  [flight[k] EXCEPT !.calm = flight[k].calm /\ flight[k].data.pages = 0]]
  /\ UNCHANGED <<address, seen, here, typed, last>>

User ==
  \/ \E v \in past \cup {Bare}, stale \in BOOLEAN : Arrive(v, stale)
  \/ \E closed \in BOOLEAN : Leave(closed)
  \/ \E t \in Tabs : SetTab(t)
  \/ \E k \in SortKeys : SetSort(k)
  \/ \E s \in Sources \cup {"all"} : SetSrc(s)
  \/ \E w \in Words \cup {Blank} : SetQ(w)
  \/ \E fs \in SUBSET Facets : SetFilters(fs)
  \/ \E v \in past \cup {Bare} : Go(v)
  \/ NextPage

Browser == \E stale \in BOOLEAN : Render(stale) \/ Debounced(stale)

Network ==
  \/ \E k \in DOMAIN flight : Answer(k) \/ FetchFails(k)
  \/ Invalidate
  \/ \E S \in SUBSET Runs : RunsChange(S)

Next == User \/ Browser \/ Network

Spec == Init /\ [][Next]_vars

(***************************************************************************)
(* Properties                                                              *)
(***************************************************************************)
\* The list is that of the controls: no search waits, no query is pending, and no
\* run came or went since it was read.
Settled == Page /\ Own # None /\ typed = seen.q /\ cache[Current].calm

\* What the controls on the page say: filters and sources are on the team's tab.
Asked(v) ==
  {r \in runs : /\ v.tab \in Labels[r]
                /\ v.q # Blank => v.q \in Labels[r]
                /\ v.tab = "team" => /\ v.filters \subseteq Labels[r]
                                     /\ v.src # "all" => v.src \in Labels[r]}

\* Whatever was stored, restored, clicked before it was rendered, typed, paged and
\* answered late: the list has the runs that the controls ask for, in their
\* order, each once, and all of them when it says that it shows all.
ListIsOfTheView ==
  Settled => LET items == Own.items
             IN /\ Range(items) \subseteq Asked(seen) /\ IsInjective(items)
                /\ \A m, n \in 1..Len(items) : m < n => Before(seen.sort, items[m], items[n])
                /\ Own.total = Cardinality(Asked(seen))
                /\ NextOffset(Own) = None => Range(items) = Asked(seen)

\* A view comes back as it was left, unless it was left before its last change was
\* rendered: by a link to the dashboard, after a reload, after the client was closed.
ViewReturns == [][~here /\ here' /\ seen' = Bare /\ seen = loc => loc' = loc]_vars
=============================================================================
