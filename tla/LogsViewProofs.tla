--------------------------- MODULE LogsViewProofs ---------------------------
(***************************************************************************)
(* For any runs, columns and page size, and whatever is clicked, typed,    *)
(* paged, answered late or lost: the list is that of the controls, and the *)
(* view comes back as it was left.                                         *)
(***************************************************************************)
EXTENDS LogsView, FiniteSetTheorems, SequenceTheorems, TLAPS

(***************************************************************************)
(* The order of the server                                                 *)
(***************************************************************************)
LEMMA ColumnType ==
  ASSUME NEW sort \in Sort, NEW r \in Runs
  PROVE  Column[sort.key][r] \in Nat \cup {None} /\ r \in Nat
<1>1. sort.key \in SortKeys
  BY DEF Sort
<1> QED
  BY <1>1, LogsViewAssumption

\* Ties are broken by the id: the order is strict and total.
LEMMA BeforeIsStrict ==
  ASSUME NEW sort \in Sort, NEW r \in Runs, NEW s \in Runs
  PROVE  /\ ~Before(sort, r, r)
         /\ r # s => Before(sort, r, s) \/ Before(sort, s, r)
<1> DEFINE a == Column[sort.key][r]
           b == Column[sort.key][s]
<1>1. a \in Nat \cup {None} /\ b \in Nat \cup {None} /\ r \in Nat /\ s \in Nat
  BY ColumnType
<1>2. ~Before(sort, r, r)
  BY <1>1 DEF Before
<1>3. ASSUME r # s PROVE Before(sort, r, s) \/ Before(sort, s, r)
  <2>1. CASE a = b
    BY <1>1, <1>3, <2>1 DEF Before
  <2>2. CASE a # b /\ a # None /\ b # None
    <3>1. a \in Nat /\ b \in Nat
      BY <1>1, <2>2
    <3>2. a < b \/ b < a
      BY <2>2, <3>1
    <3> QED
      BY <2>2, <3>1, <3>2 DEF Before
  <2>3. CASE a # b /\ (a = None \/ b = None)
    BY <2>3 DEF Before
  <2> QED
    BY <2>1, <2>2, <2>3
<1> QED
  BY <1>2, <1>3

LEMMA BeforeIsTransitive ==
  ASSUME NEW sort \in Sort, NEW r \in Runs, NEW s \in Runs, NEW t \in Runs,
         Before(sort, r, s), Before(sort, s, t)
  PROVE  Before(sort, r, t)
<1> DEFINE a == Column[sort.key][r]
           b == Column[sort.key][s]
           c == Column[sort.key][t]
           Less(x, y) == IF sort.dir = "asc" THEN x < y ELSE x > y
<1>1. /\ a \in Nat \cup {None} /\ b \in Nat \cup {None} /\ c \in Nat \cup {None}
      /\ r \in Nat /\ s \in Nat /\ t \in Nat
  BY ColumnType
<1>2. /\ IF a = b THEN r < s ELSE b = None \/ (a # None /\ Less(a, b))
      /\ IF b = c THEN s < t ELSE c = None \/ (b # None /\ Less(b, c))
  BY DEF Before
<1>3. IF a = c THEN r < t ELSE c = None \/ (a # None /\ Less(a, c))
  <2> HIDE DEF a, b, c
  <2>1. CASE a = None
    BY <1>1, <1>2, <2>1
  <2>2. CASE a # None /\ c = None
    BY <2>2
  <2>3. CASE a # None /\ c # None
    <3>1. b # None
      BY <1>2, <2>3
    <3>2. a \in Nat /\ b \in Nat /\ c \in Nat
      BY <1>1, <2>3, <3>1
    <3> QED
      BY <1>1, <1>2, <2>3, <3>1, <3>2
  <2> QED
    BY <2>1, <2>2, <2>3
<1> QED
  BY <1>3 DEF Before

\* What is before a run is before the next.
LEMMA AheadGrows ==
  ASSUME NEW S \in SUBSET Runs, IsFiniteSet(S), NEW sort \in Sort, NEW r \in S, NEW s \in S,
         Before(sort, r, s)
  PROVE  Cardinality(Ahead(S, sort, r)) < Cardinality(Ahead(S, sort, s))
<1> DEFINE A == Ahead(S, sort, r)
           B == Ahead(S, sort, s)
<1>1. A \in SUBSET B
  BY BeforeIsTransitive DEF Ahead
<1>2. r \in B /\ r \notin A
  BY BeforeIsStrict DEF Ahead
<1>3. B \in SUBSET S
  BY DEF Ahead
<1>4. IsFiniteSet(B)
  BY <1>3, FS_Subset
<1> HIDE DEF A, B
<1>5. IsFiniteSet(A) /\ Cardinality(A) <= Cardinality(B) /\ (Cardinality(B) = Cardinality(A) => B = A)
  BY <1>1, <1>4, FS_Subset
<1>6. Cardinality(A) # Cardinality(B)
  BY <1>2, <1>5
<1>7. Cardinality(A) \in Nat /\ Cardinality(B) \in Nat
  BY <1>4, <1>5, FS_CardinalityType
<1>8. Cardinality(A) < Cardinality(B)
  BY <1>5, <1>6, <1>7
<1> QED
  BY <1>8 DEF A, B

\* Each run has a place, no two the same.
LEMMA PlacesDiffer ==
  ASSUME NEW S \in SUBSET Runs, IsFiniteSet(S), NEW sort \in Sort, NEW r \in S
  PROVE  /\ Cardinality(Ahead(S, sort, r)) \in 0..(Cardinality(S) - 1)
         /\ \A s \in S : Cardinality(Ahead(S, sort, s)) = Cardinality(Ahead(S, sort, r)) => s = r
<1>1. Ahead(S, sort, r) \in SUBSET S /\ r \notin Ahead(S, sort, r)
  BY BeforeIsStrict DEF Ahead
<1>2. /\ IsFiniteSet(Ahead(S, sort, r))
      /\ Cardinality(Ahead(S, sort, r)) <= Cardinality(S)
      /\ Cardinality(S) = Cardinality(Ahead(S, sort, r)) => S = Ahead(S, sort, r)
  BY <1>1, FS_Subset
<1>3. Cardinality(S) \in Nat /\ Cardinality(Ahead(S, sort, r)) \in Nat
  BY <1>2, FS_CardinalityType
<1>4. Cardinality(S) # Cardinality(Ahead(S, sort, r))
  BY <1>1, <1>2
<1>5. Cardinality(Ahead(S, sort, r)) \in 0..(Cardinality(S) - 1)
  BY <1>2, <1>3, <1>4
<1>6. ASSUME NEW s \in S, Cardinality(Ahead(S, sort, s)) = Cardinality(Ahead(S, sort, r)), s # r
      PROVE  FALSE
  <2>1. Before(sort, r, s) \/ Before(sort, s, r)
    BY <1>6, BeforeIsStrict
  <2>2. \/ Cardinality(Ahead(S, sort, r)) < Cardinality(Ahead(S, sort, s))
        \/ Cardinality(Ahead(S, sort, s)) < Cardinality(Ahead(S, sort, r))
    BY <2>1, AheadGrows
  <2> QED
    BY <1>3, <1>6, <2>2
<1> QED
  BY <1>5, <1>6

\* Every place is taken: as many places as runs, and none is shared.
LEMMA NthIsThere ==
  ASSUME NEW S \in SUBSET Runs, IsFiniteSet(S), NEW sort \in Sort, NEW n \in 1..Cardinality(S)
  PROVE  /\ Nth(S, sort, n) \in S
         /\ Cardinality(Ahead(S, sort, Nth(S, sort, n))) = n - 1
<1> DEFINE N == Cardinality(S)
           f == [r \in S |-> Cardinality(Ahead(S, sort, r))]
<1>1. N \in Nat
  BY FS_CardinalityType
<1>2. f \in [S -> 0..(N - 1)]
  BY PlacesDiffer
<1>3. \A r, s \in S : f[r] = f[s] => r = s
  BY PlacesDiffer
<1>4. IsInjective(f)
  BY <1>2, <1>3 DEF IsInjective
<1>5. f \in Injection(S, 0..(N - 1))
  BY <1>2, <1>4 DEF Injection
<1>6. IsFiniteSet(0..(N - 1)) /\ Cardinality(0..(N - 1)) = N
  <2> HIDE DEF N
  <2>1. N - 1 \in Int /\ 0 \in Int
    BY <1>1
  <2>2. IsFiniteSet(0..(N - 1)) /\ Cardinality(0..(N - 1)) = IF 0 > N - 1 THEN 0 ELSE (N - 1) - 0 + 1
    BY <2>1, FS_Interval
  <2> QED
    BY <1>1, <2>2
<1>7. f \in Surjection(S, 0..(N - 1))
  <2> HIDE DEF f
  <2> QED
    BY <1>5, <1>6, FS_Injection
<1>8. n - 1 \in 0..(N - 1)
  BY <1>1
<1>9. \E r \in S : f[r] = n - 1
  BY <1>7, <1>8 DEF Surjection
<1> QED
  BY <1>9 DEF Nth

LEMMA NthIsBefore ==
  ASSUME NEW S \in SUBSET Runs, IsFiniteSet(S), NEW sort \in Sort,
         NEW m \in 1..Cardinality(S), NEW n \in 1..Cardinality(S), m < n
  PROVE  Before(sort, Nth(S, sort, m), Nth(S, sort, n))
<1> DEFINE r == Nth(S, sort, m)
           s == Nth(S, sort, n)
<1>1. /\ r \in S /\ Cardinality(Ahead(S, sort, r)) = m - 1
      /\ s \in S /\ Cardinality(Ahead(S, sort, s)) = n - 1
  BY NthIsThere
<1> HIDE DEF r, s
<1>2. m \in Int /\ n \in Int
  OBVIOUS
<1>3. ~(n - 1 < m - 1) /\ m - 1 # n - 1
  BY <1>2
<1>4. ~Before(sort, s, r)
  BY <1>1, <1>3, AheadGrows
<1>5. r # s
  BY <1>1, <1>3
<1>6. Before(sort, r, s)
  BY <1>1, <1>4, <1>5, BeforeIsStrict
<1> QED
  BY <1>6 DEF r, s

\* No run is left out.
LEMMA EachIsNth ==
  ASSUME NEW S \in SUBSET Runs, IsFiniteSet(S), NEW sort \in Sort, NEW r \in S
  PROVE  \E n \in 1..Cardinality(S) : Nth(S, sort, n) = r
<1> DEFINE n == Cardinality(Ahead(S, sort, r)) + 1
<1>1. Cardinality(S) \in Nat /\ Cardinality(Ahead(S, sort, r)) \in 0..(Cardinality(S) - 1)
  BY PlacesDiffer, FS_CardinalityType
<1>2. n \in 1..Cardinality(S) /\ n - 1 = Cardinality(Ahead(S, sort, r))
  BY <1>1
<1> HIDE DEF n
<1>3. Nth(S, sort, n) \in S /\ Cardinality(Ahead(S, sort, Nth(S, sort, n))) = Cardinality(Ahead(S, sort, r))
  BY <1>2, NthIsThere
<1>4. Nth(S, sort, n) = r
  BY <1>3, PlacesDiffer
<1> QED
  BY <1>2, <1>4

(***************************************************************************)
(* The pages of a query                                                    *)
(***************************************************************************)
Data == [items : Seq(Runs), pages : Nat, total : Nat, end : Nat]

Meets(R, want) == {r \in R : want \subseteq Labels[r]}

\* The first so many of the runs R that a query asks for, in their order.
IsOfNow(R, d, k) ==
  LET S == Meets(R, k.want)
  IN /\ Len(d.items) <= Cardinality(S)
     /\ \A n \in 1..Len(d.items) : d.items[n] = Nth(S, k.sort, n)
     /\ IF d.pages = 0 THEN d.items = <<>> ELSE d.total = Cardinality(S) /\ d.end = Cardinality(S)

\* What the cache keeps of a query.
Entry(R, e, k) ==
  /\ k.sort \in Sort
  /\ e \in [data : Data, failed : BOOLEAN, calm : BOOLEAN]
  /\ e.data.pages # 0 \/ e.failed
  /\ e.calm => IsOfNow(R, e.data, k)

\* A fetch under way: a page is asked for only where there is one.
Going(R, f, k) ==
  /\ k.sort \in Sort
  /\ f \in [data : Data, goal : Nat, next : BOOLEAN, calm : BOOLEAN]
  /\ f.data.pages < f.goal
  /\ f.data.pages # 0 => NextOffset(f.data) # None
  /\ f.calm => IsOfNow(R, f.data, k)

Entries(R, c) == \A k \in DOMAIN c : Entry(R, c[k], k)
Fetches(R, f) == \A k \in DOMAIN f : Going(R, f[k], k)
Extends(f, c) == \A k \in DOMAIN f : f[k].next => HasData(c, k)

There   == runs \in SUBSET Runs /\ IsFiniteSet(runs)
Queries == Entries(runs, cache) /\ Fetches(runs, flight) /\ Extends(flight, cache)
Views   == /\ {loc, seen, stored} \cup past \subseteq View
           /\ here \in BOOLEAN /\ typed \in Words \cup {Blank}
           /\ stored = seen

LogsInv == There /\ Views /\ Queries

LEMMA MeetsIsFinite ==
  ASSUME NEW R \in SUBSET Runs, IsFiniteSet(R), NEW want
  PROVE  /\ Meets(R, want) \in SUBSET Runs /\ IsFiniteSet(Meets(R, want))
         /\ Cardinality(Meets(R, want)) \in Nat
<1>1. Meets(R, want) \in SUBSET R
  BY DEF Meets
<1> QED
  BY <1>1, FS_Subset, FS_CardinalityType

\* Nothing has been read: nothing is out of date.
LEMMA NothingRead ==
  ASSUME NEW R \in SUBSET Runs, IsFiniteSet(R), NEW k
  PROVE  NoPages \in Data /\ NoPages.pages = 0 /\ IsOfNow(R, NoPages, k)
<1>1. Cardinality(Meets(R, k.want)) \in Nat
  BY MeetsIsFinite
<1>2. NoPages.items = <<>> /\ NoPages.pages = 0 /\ Len(NoPages.items) = 0
  BY EmptySeq DEF NoPages
<1>3. NoPages \in Data
  BY EmptySeq DEF NoPages, Data
<1>4. IsOfNow(R, NoPages, k)
  BY <1>1, <1>2 DEF IsOfNow
<1> QED
  BY <1>2, <1>3, <1>4

\* A page of the server goes on where it was asked to.
LEMMA PageGoesOn ==
  ASSUME There, NEW k, k.sort \in Sort, NEW offset \in Nat
  PROVE  LET p == ListRuns(k, offset)
             S == Meets(runs, k.want)
         IN /\ p.items \in Seq(Runs) /\ p.total = Cardinality(S)
            /\ offset <= Cardinality(S) => offset + Len(p.items) <= Cardinality(S)
            /\ \A n \in 1..Len(p.items) : p.items[n] = Nth(S, k.sort, offset + n)
<1> DEFINE p == ListRuns(k, offset)
           S == Meets(runs, k.want)
           N == Cardinality(S)
           there == IF offset + Size < N THEN Size ELSE IF offset < N THEN N - offset ELSE 0
<1>1. S \in SUBSET Runs /\ IsFiniteSet(S) /\ N \in Nat
  BY MeetsIsFinite DEF There
<1>2. Size \in Nat
  BY LogsViewAssumption
<1>3. p = [items |-> [i \in 1..there |-> Nth(S, k.sort, offset + i)], total |-> N]
  BY DEF ListRuns, Found, Meets
<1>4. there \in Nat /\ (offset <= N => offset + there <= N) /\ \A i \in 1..there : offset + i \in 1..N
  <2> HIDE DEF N
  <2> QED
    BY <1>1, <1>2
<1> DEFINE e(i) == Nth(S, k.sort, offset + i)
<1>5. \A i \in 1..there : e(i) \in Runs
  <2> SUFFICES ASSUME NEW i \in 1..there PROVE e(i) \in Runs
    OBVIOUS
  <2>1. offset + i \in 1..N
    BY <1>4
  <2>2. Nth(S, k.sort, offset + i) \in S
    BY <1>1, <2>1, NthIsThere
  <2> QED
    BY <1>1, <2>2
<1>6. p.items = [i \in 1..there |-> e(i)] /\ p.total = N
  BY <1>3
<1>7. [i \in 1..there |-> e(i)] \in Seq(Runs)
  <2> HIDE DEF e, there
  <2> QED
    BY <1>4, <1>5, IsASeq
<1>8. Len(p.items) = there
  <2>1. DOMAIN p.items = 1..there
    BY <1>6
  <2>2. p.items \in Seq(Runs)
    BY <1>6, <1>7
  <2> HIDE DEF p, there
  <2> QED
    BY <1>4, <2>1, <2>2
<1>9. \A n \in 1..there : p.items[n] = Nth(S, k.sort, offset + n)
  BY <1>6
<1> HIDE DEF p, S, there
<1>10. /\ p.items \in Seq(Runs) /\ p.total = N
       /\ offset <= N => offset + Len(p.items) <= N
       /\ \A n \in 1..Len(p.items) : p.items[n] = Nth(S, k.sort, offset + n)
  BY <1>4, <1>6, <1>7, <1>8, <1>9
<1> QED
  BY <1>10 DEF p, S

\* A page asked for at the end of what is there leaves no gap and repeats nothing.
LEMMA PagesJoin ==
  ASSUME There, NEW k, k.sort \in Sort, NEW d \in Data, NEW calm \in BOOLEAN,
         calm => IsOfNow(runs, d, k), NEW offset \in Nat,
         offset = IF d.pages = 0 THEN 0 ELSE Loaded(d)
  PROVE  LET data == AddPage(d, ListRuns(k, offset))
         IN /\ data \in Data /\ data.pages = d.pages + 1
            /\ calm => IsOfNow(runs, data, k)
<1> DEFINE p == ListRuns(k, offset)
           S == Meets(runs, k.want)
           N == Cardinality(S)
           data == AddPage(d, p)
<1>1. /\ p.items \in Seq(Runs) /\ p.total = N
      /\ offset <= N => offset + Len(p.items) <= N
      /\ \A n \in 1..Len(p.items) : p.items[n] = Nth(S, k.sort, offset + n)
  BY PageGoesOn
<1>2. N \in Nat
  BY MeetsIsFinite DEF There
<1>3. d.items \in Seq(Runs) /\ d.pages \in Nat /\ d.total \in Nat /\ d.end \in Nat
  BY DEF Data
<1>4. data = [items |-> d.items \o p.items, pages |-> d.pages + 1,
              total |-> IF d.pages = 0 THEN N ELSE d.total, end |-> N]
  BY <1>1 DEF AddPage
<1> HIDE DEF p, N, data
<1>5. /\ d.items \o p.items \in Seq(Runs)
      /\ Len(d.items \o p.items) = Len(d.items) + Len(p.items)
      /\ \A i \in 1 .. Len(d.items) + Len(p.items) :
           (d.items \o p.items)[i] = IF i <= Len(d.items) THEN d.items[i] ELSE p.items[i - Len(d.items)]
  BY <1>1, <1>3, ConcatProperties
<1>6. data \in Data /\ data.pages = d.pages + 1
  BY <1>2, <1>3, <1>4, <1>5 DEF Data
<1>7. ASSUME calm PROVE IsOfNow(runs, data, k)
  <2>1. /\ Len(d.items) <= N
        /\ \A n \in 1..Len(d.items) : d.items[n] = Nth(S, k.sort, n)
        /\ IF d.pages = 0 THEN d.items = <<>> ELSE d.total = N /\ d.end = N
    BY <1>7 DEF IsOfNow, N
  <2>2. Len(d.items) \in Nat /\ Len(p.items) \in Nat
    BY <1>1, <1>3, LenProperties
  <2>3. offset = Len(d.items)
    BY <2>1, EmptySeq DEF Loaded
  <2>4. data.items = d.items \o p.items /\ data.pages # 0 /\ data.total = N /\ data.end = N
    <3>1. d.pages + 1 # 0 /\ (d.pages # 0 => d.total = N)
      BY <1>3, <2>1
    <3>2. /\ data.items = d.items \o p.items /\ data.pages = d.pages + 1 /\ data.end = N
          /\ data.total = IF d.pages = 0 THEN N ELSE d.total
      BY <1>4
    <3> QED
      BY <3>1, <3>2
  <2>5. Len(data.items) <= N
    BY <1>1, <1>2, <1>5, <2>1, <2>2, <2>3, <2>4
  <2>6. ASSUME NEW n \in 1..Len(data.items)
        PROVE  data.items[n] = Nth(S, k.sort, n)
    <3>1. n \in 1..(Len(d.items) + Len(p.items))
      BY <1>5, <2>4
    <3>2. CASE n <= Len(d.items)
      BY <1>5, <2>1, <2>2, <2>4, <3>1, <3>2
    <3>3. CASE ~(n <= Len(d.items))
      <4>1. n - Len(d.items) \in 1..Len(p.items) /\ offset + (n - Len(d.items)) = n
        <5> DEFINE a == Len(d.items)
                   b == Len(p.items)
        <5>1. a \in Nat /\ b \in Nat /\ offset = a
          BY <2>2, <2>3
        <5>2. n \in 1..(a + b) /\ ~(n <= a)
          BY <3>1, <3>3
        <5> HIDE DEF a, b
        <5>3. n - a \in 1..b /\ offset + (n - a) = n
          BY <5>1, <5>2
        <5> QED
          BY <5>3 DEF a, b
      <4>2. data.items[n] = p.items[n - Len(d.items)]
        BY <1>5, <2>4, <3>1, <3>3
      <4>3. p.items[n - Len(d.items)] = Nth(S, k.sort, offset + (n - Len(d.items)))
        BY <1>1, <4>1
      <4> QED
        BY <4>1, <4>2, <4>3
    <3> QED
      BY <3>2, <3>3
  <2> QED
    BY <2>4, <2>5, <2>6 DEF IsOfNow, N
<1> QED
  BY <1>6, <1>7 DEF data, p

(***************************************************************************)
(* The cache                                                               *)
(***************************************************************************)
LEMMA EntriesStay ==
  ASSUME NEW R, NEW c, NEW k, Entries(R, c)
  PROVE  /\ Entries(R, Drop(c, k))
         /\ \A e : Entry(R, e, k) => Entries(R, Put(c, k, e))
<1>1. Entries(R, Drop(c, k))
  <2>1. \A j \in DOMAIN Drop(c, k) : j \in DOMAIN c /\ Drop(c, k)[j] = c[j]
    BY DEF Drop
  <2> QED
    BY <2>1 DEF Entries
<1>2. ASSUME NEW e, Entry(R, e, k) PROVE Entries(R, Put(c, k, e))
  <2>1. \A j \in DOMAIN Put(c, k, e) :
          IF j = k THEN Put(c, k, e)[j] = e ELSE j \in DOMAIN c /\ Put(c, k, e)[j] = c[j]
    BY DEF Put
  <2> QED
    BY <1>2, <2>1 DEF Entries
<1> QED
  BY <1>1, <1>2

LEMMA FetchesStay ==
  ASSUME NEW R, NEW f, NEW k, Fetches(R, f)
  PROVE  /\ Fetches(R, Drop(f, k))
         /\ \A x : Going(R, x, k) => Fetches(R, Put(f, k, x))
<1>1. Fetches(R, Drop(f, k))
  <2>1. \A j \in DOMAIN Drop(f, k) : j \in DOMAIN f /\ Drop(f, k)[j] = f[j]
    BY DEF Drop
  <2> QED
    BY <2>1 DEF Fetches
<1>2. ASSUME NEW x, Going(R, x, k) PROVE Fetches(R, Put(f, k, x))
  <2>1. \A j \in DOMAIN Put(f, k, x) :
          IF j = k THEN Put(f, k, x)[j] = x ELSE j \in DOMAIN f /\ Put(f, k, x)[j] = f[j]
    BY DEF Put
  <2> QED
    BY <1>2, <2>1 DEF Fetches
<1> QED
  BY <1>1, <1>2

\* A fetch from the start, of one page or of as many as there are.
LEMMA FetchStarts ==
  ASSUME NEW R \in SUBSET Runs, IsFiniteSet(R), NEW k, k.sort \in Sort, NEW goal \in Nat \ {0}
  PROVE  Going(R, Fetch(NoPages, goal, FALSE, TRUE), k) /\ ~Fetch(NoPages, goal, FALSE, TRUE).next
<1>1. NoPages \in Data /\ NoPages.pages = 0 /\ IsOfNow(R, NoPages, k)
  BY NothingRead
<1> DEFINE x == Fetch(NoPages, goal, FALSE, TRUE)
<1>2. /\ x \in [data : Data, goal : Nat, next : BOOLEAN, calm : BOOLEAN]
      /\ x.data = NoPages /\ x.goal = goal /\ x.next = FALSE

  <2> QED
    BY <1>1 DEF Fetch
<1> HIDE DEF x
<1>3. x.data.pages = 0 /\ x.data.pages < x.goal
  BY <1>1, <1>2
<1>4. IsOfNow(R, x.data, k)
  BY <1>1, <1>2
<1>5. Going(R, x, k) /\ ~x.next
  BY <1>2, <1>3, <1>4 DEF Going
<1> QED
  BY <1>5 DEF x

LEMMA RefetchStarts ==
  ASSUME NEW R \in SUBSET Runs, IsFiniteSet(R), NEW c, Entries(R, c), NEW k, HasData(c, k)
  PROVE  Going(R, Refetch(c, k), k) /\ ~Refetch(c, k).next
<1>1. k \in DOMAIN c /\ c[k].data.pages # 0 /\ Entry(R, c[k], k)
  BY DEF HasData, Entries
<1>2. k.sort \in Sort /\ c[k].data.pages \in Nat \ {0}
  BY <1>1 DEF Entry, Data
<1> QED
  BY <1>2, FetchStarts DEF Refetch

LEMMA DataStays ==
  ASSUME NEW c, NEW k, NEW e
  PROVE  /\ \A j : j # k /\ HasData(c, j) => HasData(Drop(c, k), j) /\ HasData(Put(c, k, e), j)
         /\ e.data.pages # 0 => HasData(Put(c, k, e), k)
BY DEF HasData, Put, Drop

\* The fetch of a next page is given up before the pages that it goes on from.
LEMMA ExtendsStays ==
  ASSUME NEW f, NEW c, NEW k, NEW c2, Extends(f, c), \A j : j # k /\ HasData(c, j) => HasData(c2, j)
  PROVE  /\ Extends(Drop(f, k), c2)
         /\ \A x : (x.next => HasData(c2, k)) => Extends(Put(f, k, x), c2)
         /\ (HasData(c, k) => HasData(c2, k)) => Extends(f, c2)
<1>1. Extends(Drop(f, k), c2)
  BY DEF Extends, Drop
<1>2. ASSUME NEW x, x.next => HasData(c2, k) PROVE Extends(Put(f, k, x), c2)
  <2>1. \A j \in DOMAIN Put(f, k, x) :
          IF j = k THEN Put(f, k, x)[j] = x ELSE j \in DOMAIN f /\ Put(f, k, x)[j] = f[j]
    BY DEF Put
  <2> QED
    BY <1>2, <2>1 DEF Extends
<1>3. ASSUME HasData(c, k) => HasData(c2, k) PROVE Extends(f, c2)
  BY <1>3 DEF Extends
<1> QED
  BY <1>1, <1>2, <1>3

(***************************************************************************)
(* The steps                                                               *)
(***************************************************************************)
LEMMA KeySort ==
  ASSUME NEW v \in View, NEW q
  PROVE  Key(v, q).sort \in Sort
BY DEF Key, View

LEMMA BareIsView == Bare \in View
<1>1. "mine" \in Tabs /\ "when" \in SortKeys
  BY LogsViewAssumption
<1> QED
  BY <1>1 DEF Bare, View, Sort

\* What a list begins to show, and to fetch.
LEMMA DrawKeeps ==
  ASSUME LogsInv, NEW v \in View, NEW q, NEW fresh \in BOOLEAN, NEW stale \in BOOLEAN,
         Draw(v, q, fresh, stale)
  PROVE  Entries(runs, cache') /\ Fetches(runs, flight') /\ Extends(flight', cache')
<1> DEFINE k == Key(v, q)
<1>1. k.sort \in Sort
  BY KeySort
<1>2. runs \in SUBSET Runs /\ IsFiniteSet(runs)
  BY DEF LogsInv, There
<1>3. Entries(runs, cache) /\ Fetches(runs, flight) /\ Extends(flight, cache)
  BY DEF LogsInv, Queries
<1>4. \/ cache' = cache
      \/ cache' = Drop(cache, k) /\ ~HasData(cache, k)
  BY DEF Draw
<1>5. \/ flight' = flight
      \/ flight' = Put(flight, k, Fetch(NoPages, 1, FALSE, TRUE))
      \/ flight' = Put(flight, k, Refetch(cache, k)) /\ HasData(cache, k)
  BY DEF Draw
<1> HIDE DEF k
<1>6. Entries(runs, cache')
  BY <1>3, <1>4, EntriesStay
<1>7. \A j : HasData(cache, j) => HasData(cache', j)
  BY <1>4, DataStays
<1>8. CASE flight' = flight
  BY <1>3, <1>6, <1>7, <1>8, ExtendsStays
<1>9. ASSUME NEW x, flight' = Put(flight, k, x), Going(runs, x, k), ~x.next
      PROVE  Fetches(runs, flight') /\ Extends(flight', cache')
  BY <1>3, <1>7, <1>9, FetchesStay, ExtendsStays
<1>10. CASE flight' = Put(flight, k, Fetch(NoPages, 1, FALSE, TRUE))
  <2>1. Going(runs, Fetch(NoPages, 1, FALSE, TRUE), k) /\ ~Fetch(NoPages, 1, FALSE, TRUE).next
    <3>1. 1 \in Nat \ {0}
      OBVIOUS
    <3> QED
      BY <1>1, <1>2, <3>1, FetchStarts
  <2> QED
    BY <1>6, <1>9, <1>10, <2>1
<1>11. CASE flight' = Put(flight, k, Refetch(cache, k)) /\ HasData(cache, k)
  <2>1. Going(runs, Refetch(cache, k), k) /\ ~Refetch(cache, k).next
    BY <1>2, <1>3, <1>11, RefetchStarts
  <2> QED
    BY <1>6, <1>9, <1>11, <2>1
<1> QED
  BY <1>5, <1>8, <1>10, <1>11, <1>6

\* A page has come: the fetch goes on, or is the query's data.
LEMMA AnswerKeeps ==
  ASSUME LogsInv, NEW k, Answer(k)
  PROVE  Entries(runs, cache') /\ Fetches(runs, flight') /\ Extends(flight', cache')
<1> DEFINE f      == flight[k]
           offset == IF f.data.pages = 0 THEN 0 ELSE NextOffset(f.data)
           data   == AddPage(f.data, ListRuns(k, offset))
           done   == data.pages = f.goal \/ NextOffset(data) = None
           e      == [data |-> data, failed |-> FALSE, calm |-> f.calm]
           g      == [f EXCEPT !.data = data]
<1>1. k \in DOMAIN flight /\ Going(runs, f, k) /\ (f.next => HasData(cache, k))
  BY DEF Answer, LogsInv, Queries, Fetches, Extends
<1>2. Entries(runs, cache) /\ Fetches(runs, flight) /\ Extends(flight, cache)
  BY DEF LogsInv, Queries
<1>3. /\ flight' = IF done THEN Drop(flight, k) ELSE [flight EXCEPT ![k].data = data]
      /\ cache' = IF done THEN Put(cache, k, e) ELSE cache
  BY DEF Answer
<1> HIDE DEF f
<1>4. /\ k.sort \in Sort /\ f \in [data : Data, goal : Nat, next : BOOLEAN, calm : BOOLEAN]
      /\ f.data.pages < f.goal /\ (f.data.pages # 0 => NextOffset(f.data) # None)
      /\ f.calm => IsOfNow(runs, f.data, k)
  BY <1>1 DEF Going
<1>5. f.data \in Data /\ f.calm \in BOOLEAN /\ f.goal \in Nat /\ f.data.pages \in Nat
  BY <1>4 DEF Data
<1>6. offset = (IF f.data.pages = 0 THEN 0 ELSE Loaded(f.data)) /\ offset \in Nat
  <2>1. Loaded(f.data) \in Nat
    BY <1>5, LenProperties DEF Loaded, Data
  <2> QED
    BY <1>4, <2>1 DEF NextOffset
<1>7. There
  BY DEF LogsInv
<1>8. data \in Data /\ data.pages = f.data.pages + 1 /\ (f.calm => IsOfNow(runs, data, k))
  <2> HIDE DEF offset
  <2> QED
    BY <1>4, <1>5, <1>6, <1>7, PagesJoin
<1> HIDE DEF data, offset
<1>9. CASE done
  <2>2. e \in [data : Data, failed : BOOLEAN, calm : BOOLEAN] /\ e.data = data /\ e.calm = f.calm
    BY <1>5, <1>8
  <2> HIDE DEF e
  <2>3. e.data.pages # 0
    BY <1>5, <1>8, <2>2
  <2>4. Entry(runs, e, k)
    BY <1>4, <1>8, <2>2, <2>3 DEF Entry
  <2>5. cache' = Put(cache, k, e) /\ flight' = Drop(flight, k)
    BY <1>3, <1>9
  <2>6. Entries(runs, cache') /\ Fetches(runs, flight')
    BY <1>2, <2>4, <2>5, EntriesStay, FetchesStay
  <2>7. Extends(Drop(flight, k), Put(cache, k, e))
    BY <1>2, DataStays, ExtendsStays
  <2> QED
    BY <2>5, <2>6, <2>7
<1>10. CASE ~done
  <2>1. g = [data |-> data, goal |-> f.goal, next |-> f.next, calm |-> f.calm]
    BY <1>4
  <2>2. /\ g \in [data : Data, goal : Nat, next : BOOLEAN, calm : BOOLEAN]
        /\ g.data = data /\ g.goal = f.goal /\ g.next = f.next /\ g.calm = f.calm
    BY <1>4, <1>8, <2>1
  <2> HIDE DEF g
  <2>3. data.pages < f.goal /\ NextOffset(data) # None
    BY <1>4, <1>5, <1>8, <1>10
  <2>4. Going(runs, g, k)
    BY <1>4, <1>8, <2>2, <2>3 DEF Going
  <2>5. cache' = cache /\ flight' = [flight EXCEPT ![k] = g]
    BY <1>3, <1>10 DEF f, g
  <2>6. Fetches(runs, flight')
    BY <1>2, <2>4, <2>5 DEF Fetches
  <2>7. Extends(flight', cache')
    BY <1>1, <1>2, <2>2, <2>5 DEF Extends
  <2> QED
    BY <1>2, <2>5, <2>6, <2>7
<1> QED
  BY <1>9, <1>10

LEMMA FetchFailsKeeps ==
  ASSUME LogsInv, NEW k, FetchFails(k)
  PROVE  Entries(runs, cache') /\ Fetches(runs, flight') /\ Extends(flight', cache')
<1> DEFINE old == IF k \in DOMAIN cache THEN cache[k] ELSE Query
           e   == [old EXCEPT !.failed = TRUE]
<1>1. Entries(runs, cache) /\ Fetches(runs, flight) /\ Extends(flight, cache)
  BY DEF LogsInv, Queries
<1>2. runs \in SUBSET Runs /\ IsFiniteSet(runs)
  BY DEF LogsInv, There
<1>3. k \in DOMAIN flight /\ flight' = Drop(flight, k) /\ cache' = Put(cache, k, e)
  BY DEF FetchFails
<1>4. k.sort \in Sort
  BY <1>1, <1>3 DEF Fetches, Going
<1>5. old \in [data : Data, failed : BOOLEAN, calm : BOOLEAN] /\ (old.calm => IsOfNow(runs, old.data, k))
  <2>1. CASE k \in DOMAIN cache
    BY <1>1, <2>1 DEF Entries, Entry
  <2>2. CASE k \notin DOMAIN cache
    BY <1>2, <2>2, NothingRead DEF Query
  <2> QED
    BY <2>1, <2>2
<1> HIDE DEF old
<1>6. e \in [data : Data, failed : BOOLEAN, calm : BOOLEAN] /\ e.failed /\ e.data = old.data /\ e.calm = old.calm
  BY <1>5
<1> HIDE DEF e
<1>7. Entry(runs, e, k)
  BY <1>4, <1>5, <1>6 DEF Entry
<1>8. Entries(runs, cache') /\ Fetches(runs, flight')
  BY <1>1, <1>3, <1>7, EntriesStay, FetchesStay
<1>9. Extends(Drop(flight, k), Put(cache, k, e))
  BY <1>1, DataStays, ExtendsStays
<1> QED
  BY <1>3, <1>8, <1>9

LEMMA InvalidateKeeps ==
  ASSUME LogsInv, Invalidate
  PROVE  Entries(runs, cache') /\ Fetches(runs, flight') /\ Extends(flight', cache')
<1> DEFINE k == Current
<1>1. Entries(runs, cache) /\ Fetches(runs, flight) /\ Extends(flight, cache)
  BY DEF LogsInv, Queries
<1>2. runs \in SUBSET Runs /\ IsFiniteSet(runs)
  BY DEF LogsInv, There
<1>3. k.sort \in Sort
  BY KeySort DEF Current, LogsInv, Views
<1>4. CASE Own = None
  <2>1. flight' = Put(flight, k, Fetch(NoPages, 1, FALSE, TRUE)) /\ cache' = Drop(cache, k)
    BY <1>4 DEF Invalidate
  <2> HIDE DEF k
  <2>2. Going(runs, Fetch(NoPages, 1, FALSE, TRUE), k) /\ ~Fetch(NoPages, 1, FALSE, TRUE).next
    <3>1. 1 \in Nat \ {0}
      OBVIOUS
    <3> QED
      BY <1>2, <1>3, <3>1, FetchStarts
  <2>3. Entries(runs, cache') /\ Fetches(runs, flight')
    BY <1>1, <2>1, <2>2, EntriesStay, FetchesStay
  <2>4. \A j : j # k /\ HasData(cache, j) => HasData(cache', j)
    BY <2>1, DataStays
  <2> QED
    BY <1>1, <2>1, <2>2, <2>3, <2>4, ExtendsStays
<1>5. CASE Own # None
  <2>1. HasData(cache, k)
    BY <1>5 DEF Own
  <2>2. flight' = Put(flight, k, Refetch(cache, k)) /\ cache' = cache
    BY <1>5 DEF Invalidate
  <2> HIDE DEF k
  <2>3. Going(runs, Refetch(cache, k), k) /\ ~Refetch(cache, k).next
    BY <1>1, <1>2, <2>1, RefetchStarts
  <2>4. Fetches(runs, flight')
    BY <1>1, <2>2, <2>3, FetchesStay
  <2>5. \A j : j # k /\ HasData(cache, j) => HasData(cache', j)
    BY <2>2
  <2> QED
    BY <1>1, <2>2, <2>3, <2>4, <2>5, ExtendsStays
<1> QED
  BY <1>4, <1>5

\* The next page goes on from what the query has.
LEMMA NextPageKeeps ==
  ASSUME LogsInv, NextPage
  PROVE  Entries(runs, cache') /\ Fetches(runs, flight') /\ Extends(flight', cache')
<1> DEFINE k == Current
           d == cache[k].data
           x == Fetch(d, d.pages + 1, TRUE, cache[k].calm)
<1>1. Entries(runs, cache) /\ Fetches(runs, flight) /\ Extends(flight, cache)
  BY DEF LogsInv, Queries
<1>2. HasData(cache, k) /\ Own = d
  BY DEF NextPage, Own
<1>3. flight' = Put(flight, k, x) /\ cache' = cache /\ NextOffset(d) # None
  BY <1>2 DEF NextPage
<1> HIDE DEF k, d
<1>4. k \in DOMAIN cache /\ Entry(runs, cache[k], k)
  BY <1>1, <1>2 DEF HasData, Entries
<1>5. /\ k.sort \in Sort /\ cache[k].calm \in BOOLEAN /\ d \in Data /\ d.pages \in Nat
      /\ cache[k].calm => IsOfNow(runs, d, k)
  BY <1>4 DEF Entry, Data, d
<1>6. /\ x \in [data : Data, goal : Nat, next : BOOLEAN, calm : BOOLEAN]
      /\ x.data = d /\ x.goal = d.pages + 1 /\ x.calm = cache[k].calm
  BY <1>5 DEF Fetch
<1> HIDE DEF x
<1>7. x.data.pages < x.goal
  BY <1>5, <1>6
<1>8. Going(runs, x, k)
  BY <1>3, <1>5, <1>6, <1>7 DEF Going
<1>9. Fetches(runs, flight')
  BY <1>1, <1>3, <1>8, FetchesStay
<1>10. Extends(Put(flight, k, x), cache)
  BY <1>1, <1>2, ExtendsStays
<1> QED
  BY <1>1, <1>3, <1>9, <1>10

\* Those who come and go make what was read one of another time.
LEMMA RunsChangeKeeps ==
  ASSUME LogsInv, NEW S \in SUBSET Runs, RunsChange(S)
  PROVE  There' /\ Queries'
<1>1. Entries(runs, cache) /\ Fetches(runs, flight) /\ Extends(flight, cache)
  BY DEF LogsInv, Queries
<1>2. There'
  <2>1. PICK r \in Runs : S = (runs \cup {r}) \ (runs \cap {r})
    BY DEF RunsChange
  <2>2. IsFiniteSet(runs \cup {r})
    BY FS_AddElement DEF LogsInv, There
  <2>3. S \in SUBSET (runs \cup {r})
    BY <2>1
  <2>4. IsFiniteSet(S)
    BY <2>2, <2>3, FS_Subset
  <2> QED
    BY <2>4 DEF RunsChange, There
<1>3. Entries(runs', cache')
  <2>1. cache' = [k \in DOMAIN cache |-> [cache[k] EXCEPT !.calm = FALSE]]
    BY DEF RunsChange
  <2>2. ASSUME NEW k \in DOMAIN cache PROVE Entry(runs', cache'[k], k)
    <3>1. Entry(runs, cache[k], k)
      BY <1>1 DEF Entries
    <3>2. cache'[k] = [cache[k] EXCEPT !.calm = FALSE]
      BY <2>1
    <3>3. cache[k] \in [data : Data, failed : BOOLEAN, calm : BOOLEAN]
      BY <3>1 DEF Entry
    <3>4. /\ cache'[k] \in [data : Data, failed : BOOLEAN, calm : BOOLEAN]
          /\ cache'[k].data = cache[k].data /\ cache'[k].failed = cache[k].failed /\ ~cache'[k].calm
      BY <3>2, <3>3
    <3> QED
      BY <3>1, <3>4 DEF Entry
  <2> QED
    BY <2>1, <2>2 DEF Entries
<1>4. flight' = [k \in DOMAIN flight |->
                   [flight[k] EXCEPT !.calm = flight[k].calm /\ flight[k].data.pages = 0]]
  BY DEF RunsChange
<1>5. ASSUME NEW k \in DOMAIN flight
      PROVE  Going(runs', flight'[k], k) /\ (flight'[k].next => HasData(cache', k))
  <2> DEFINE f == flight[k]
             g == flight'[k]
  <2>1. Going(runs, f, k) /\ (f.next => HasData(cache, k))
    BY <1>1 DEF Fetches, Extends
  <2>2. g = [f EXCEPT !.calm = f.calm /\ f.data.pages = 0]
    BY <1>4
  <2> HIDE DEF f, g
  <2>3. f \in [data : Data, goal : Nat, next : BOOLEAN, calm : BOOLEAN]
    BY <2>1 DEF Going
  <2>4. /\ g \in [data : Data, goal : Nat, next : BOOLEAN, calm : BOOLEAN]
        /\ g.data = f.data /\ g.goal = f.goal /\ g.next = f.next
        /\ g.calm => f.calm /\ f.data.pages = 0
    BY <2>2, <2>3
  <2>5. ASSUME g.calm PROVE IsOfNow(runs', g.data, k)
    <3>1. f.data.items = <<>> /\ f.data.pages = 0
      BY <2>1, <2>4, <2>5 DEF Going, IsOfNow
    <3>2. Len(f.data.items) = 0
      BY <3>1, EmptySeq
    <3>3. Cardinality(Meets(runs', k.want)) \in Nat
      BY <1>2, MeetsIsFinite DEF There
    <3>4. IsOfNow(runs', f.data, k)
      BY <3>1, <3>2, <3>3 DEF IsOfNow
    <3> QED
      BY <2>4, <3>4
  <2>6. Going(runs', g, k)
    BY <2>1, <2>4, <2>5 DEF Going
  <2>7. HasData(cache, k) => HasData(cache', k)
    <3>1. cache' = [j \in DOMAIN cache |-> [cache[j] EXCEPT !.calm = FALSE]]
      BY DEF RunsChange
    <3>2. ASSUME k \in DOMAIN cache PROVE k \in DOMAIN cache' /\ cache'[k].data = cache[k].data
      <4>1. cache[k] \in [data : Data, failed : BOOLEAN, calm : BOOLEAN]
        BY <1>1, <3>2 DEF Entries, Entry
      <4> QED
        BY <3>1, <3>2, <4>1
    <3> QED
      BY <3>2 DEF HasData
  <2> QED
    BY <2>1, <2>4, <2>6, <2>7 DEF g
<1>6. Fetches(runs', flight') /\ Extends(flight', cache')
  BY <1>4, <1>5 DEF Fetches, Extends
<1> QED
  BY <1>2, <1>3, <1>6 DEF Queries

LEMMA ViewsStay ==
  ASSUME Views, UNCHANGED <<address, seen, here, typed>>
  PROVE  Views'
BY DEF Views, address

\* A control changes one parameter of the address.
LEMMA ControlKeeps ==
  ASSUME LogsInv, UNCHANGED <<runs, stored, list>>, loc' \in View, past' \subseteq past \cup {loc}
  PROVE  LogsInv'
<1>1. UNCHANGED <<runs, stored, seen, here, typed, cache, flight>>
  BY DEF list
<1>2. Views'
  BY <1>1 DEF LogsInv, Views
<1>3. There' /\ Queries'
  BY <1>1 DEF LogsInv, There, Queries
<1> QED
  BY <1>2, <1>3 DEF LogsInv

LEMMA LogsInit == Init => LogsInv
<1> SUFFICES ASSUME Init PROVE LogsInv
  OBVIOUS
<1>1. There
  <2>1. Starts \subseteq {S \in SUBSET Runs : IsFiniteSet(S)}
    BY LogsViewAssumption
  <2> QED
    BY <2>1 DEF Init, There
<1>2. Views
  BY BareIsView DEF Init, Views
<1>3. Queries
  <2>1. DOMAIN << >> = {}
    OBVIOUS
  <2> QED
    BY <2>1 DEF Init, Queries, Entries, Fetches, Extends
<1> QED
  BY <1>1, <1>2, <1>3 DEF LogsInv

LEMMA LogsStep == LogsInv /\ [Next]_vars => LogsInv'
<1> SUFFICES ASSUME LogsInv, [Next]_vars PROVE LogsInv'
  OBVIOUS
<1>1. /\ loc \in View /\ seen \in View /\ stored = seen /\ past \subseteq View
      /\ here \in BOOLEAN /\ typed \in Words \cup {Blank}
  BY DEF LogsInv, Views
<1>2. There /\ Queries /\ Views
  BY DEF LogsInv
<1>3. ASSUME runs' = runs, Views', Entries(runs, cache') /\ Fetches(runs, flight') /\ Extends(flight', cache')
      PROVE  LogsInv'
  BY <1>2, <1>3 DEF LogsInv, There, Queries
<1>4. ASSUME runs' = runs, UNCHANGED <<address, seen, here, typed>>,
             Entries(runs, cache') /\ Fetches(runs, flight') /\ Extends(flight', cache')
      PROVE  LogsInv'
  BY <1>2, <1>3, <1>4, ViewsStay
<1>5. ASSUME NEW v \in past \cup {Bare}, NEW stale \in BOOLEAN, Arrive(v, stale) PROVE LogsInv'
  <2>1. v \in View
    BY <1>1, BareIsView
  <2>2. v.q \in Words \cup {Blank}
    BY <2>1 DEF View
  <2>3. Views'
    BY <1>1, <1>5, <2>1, <2>2 DEF Arrive, Draw, Restored, Views
  <2>4. Draw(v, v.q, TRUE, stale) /\ runs' = runs
    BY <1>5 DEF Arrive
  <2> QED
    BY <1>3, <2>1, <2>3, <2>4, DrawKeeps
<1>6. ASSUME NEW closed \in BOOLEAN, Leave(closed) PROVE LogsInv'
  <2>1. Views'
    BY <1>1, <1>6 DEF Leave, Views
  <2>2. CASE closed
    <3>1. DOMAIN << >> = {} /\ cache' = << >> /\ flight' = << >> /\ runs' = runs
      BY <1>6, <2>2 DEF Leave
    <3>2. Entries(runs, cache') /\ Fetches(runs, flight') /\ Extends(flight', cache')
      BY <3>1 DEF Entries, Fetches, Extends
    <3> QED
      BY <1>3, <2>1, <3>1, <3>2
  <2>3. CASE ~closed
    <3>1. UNCHANGED <<runs, cache, flight>>
      BY <1>6, <2>3 DEF Leave
    <3> QED
      BY <1>2, <1>3, <2>1, <3>1 DEF Queries
  <2> QED
    BY <2>2, <2>3
<1>7. ASSUME NEW stale \in BOOLEAN, Render(stale) PROVE LogsInv'
  <2> DEFINE q == IF loc.tab = seen.tab THEN typed ELSE loc.q
  <2>1. q \in Words \cup {Blank}
    BY <1>1 DEF View
  <2>2. Draw(loc, q, loc.tab # seen.tab, stale) /\ runs' = runs /\ UNCHANGED <<loc, past, here>> /\ stored' = loc
    BY <1>7 DEF Render
  <2> HIDE DEF q
  <2>3. Views'
    BY <1>1, <2>1, <2>2 DEF Draw, Views
  <2>4. (loc.tab # seen.tab) \in BOOLEAN
    OBVIOUS
  <2> QED
    BY <1>1, <1>3, <2>2, <2>3, <2>4, DrawKeeps
<1>8. ASSUME NEW stale \in BOOLEAN, Debounced(stale) PROVE LogsInv'
  <2>1. seen.q \in Words \cup {Blank}
    BY <1>1 DEF View
  <2>2. Draw(seen, seen.q, FALSE, stale) /\ UNCHANGED <<runs, address, here>>
    BY <1>8 DEF Debounced
  <2>3. Views'
    BY <1>1, <2>1, <2>2 DEF Draw, Views, address
  <2> QED
    BY <1>1, <1>3, <2>2, <2>3, DrawKeeps
<1>9. ASSUME NEW t \in Tabs, SetTab(t) PROVE LogsInv'
  <2>1. [loc EXCEPT !.tab = t] \in View
    BY <1>1 DEF View
  <2> QED
    BY <1>9, <2>1, ControlKeeps DEF SetTab, Controls, Update, Push
<1>10. ASSUME NEW k \in SortKeys, SetSort(k) PROVE LogsInv'
  <2> DEFINE dir == IF seen.sort = [key |-> k, dir |-> "desc"] THEN "asc" ELSE "desc"
  <2>1. [key |-> k, dir |-> dir] \in Sort
    BY DEF Sort
  <2>2. loc' = [loc EXCEPT !.sort = [key |-> k, dir |-> dir]]
    BY <1>10 DEF SetSort, Update
  <2> HIDE DEF dir
  <2>3. loc' \in View
    BY <1>1, <2>1, <2>2 DEF View
  <2> QED
    BY <1>10, <2>3, ControlKeeps DEF SetSort, Controls, Push
<1>11. ASSUME NEW s \in Sources \cup {"all"}, SetSrc(s) PROVE LogsInv'
  <2>1. [loc EXCEPT !.src = s] \in View
    BY <1>1 DEF View
  <2> QED
    BY <1>11, <2>1, ControlKeeps DEF SetSrc, Controls, Update, Push
<1>12. ASSUME NEW w \in Words \cup {Blank}, SetQ(w) PROVE LogsInv'
  <2>1. [loc EXCEPT !.q = w] \in View
    BY <1>1 DEF View
  <2> QED
    BY <1>12, <2>1, ControlKeeps DEF SetQ, Controls, Update, Replace
<1>13. ASSUME NEW fs \in SUBSET Facets, SetFilters(fs) PROVE LogsInv'
  <2>1. [loc EXCEPT !.filters = fs] \in View
    BY <1>1 DEF View
  <2> QED
    BY <1>13, <2>1, ControlKeeps DEF SetFilters, Controls, Update, Replace
<1>14. ASSUME NEW v \in past \cup {Bare}, Go(v) PROVE LogsInv'
  <2>1. v \in View
    BY <1>1, BareIsView
  <2> QED
    BY <1>14, <2>1, ControlKeeps DEF Go, Push
<1>15. ASSUME NextPage PROVE LogsInv'
  BY <1>4, <1>15, NextPageKeeps DEF NextPage
<1>16. ASSUME NEW k, Answer(k) PROVE LogsInv'
  BY <1>4, <1>16, AnswerKeeps DEF Answer
<1>17. ASSUME NEW k, FetchFails(k) PROVE LogsInv'
  BY <1>4, <1>17, FetchFailsKeeps DEF FetchFails
<1>18. ASSUME Invalidate PROVE LogsInv'
  BY <1>4, <1>18, InvalidateKeeps DEF Invalidate
<1>19. ASSUME NEW S \in SUBSET Runs, RunsChange(S) PROVE LogsInv'
  <2>1. Views'
    BY <1>2, <1>19, ViewsStay DEF RunsChange
  <2> QED
    BY <1>19, <2>1, RunsChangeKeeps DEF LogsInv
<1>20. CASE UNCHANGED vars
  BY <1>2, <1>20 DEF vars, address, list, LogsInv, There, Views, Queries
<1>21. ASSUME User PROVE LogsInv'
  BY <1>5, <1>6, <1>9, <1>10, <1>11, <1>12, <1>13, <1>14, <1>15, <1>21 DEF User
<1>22. ASSUME Browser PROVE LogsInv'
  BY <1>7, <1>8, <1>22 DEF Browser
<1>23. ASSUME Network PROVE LogsInv'
  BY <1>16, <1>17, <1>18, <1>19, <1>23 DEF Network
<1> QED
  BY <1>20, <1>21, <1>22, <1>23 DEF Next

LEMMA LogsInductive == Spec => []LogsInv
  BY LogsInit, LogsStep, PTL DEF Spec

(***************************************************************************)
(* The theorems                                                            *)
(***************************************************************************)
\* Every variable stays in its range: the views are ones that the controls can make, a
\* query that is kept has data or failed, a fetch has a page left to read, and goes on
\* from pages that are there (useLogsState.ts, api/runs.ts).
THEOREM TypeCorrect == Spec => []TypeOK
<1>1. LogsInv => TypeOK
  <2> SUFFICES ASSUME LogsInv PROVE TypeOK
    OBVIOUS
  <2>1. runs \subseteq Runs /\ {loc, seen, stored} \cup past \subseteq View
        /\ here \in BOOLEAN /\ typed \in Words \cup {Blank}
    BY DEF LogsInv, There, Views
  <2>2. \A k \in DOMAIN cache : HasData(cache, k) \/ cache[k].failed
    BY DEF LogsInv, Queries, Entries, Entry, HasData
  <2>3. \A k \in DOMAIN flight : /\ flight[k].data.pages < flight[k].goal
                                 /\ flight[k].next => HasData(cache, k)
    BY DEF LogsInv, Queries, Fetches, Going, Extends
  <2> QED
    BY <2>1, <2>2, <2>3 DEF TypeOK
<1> QED
  BY <1>1, LogsInductive, PTL

\* What the query of the view asks for is what its controls ask for.
LEMMA AsksAsShown ==
  ASSUME seen \in View, typed = seen.q
  PROVE  Meets(runs, Current.want) = Asked(seen) /\ Current.sort = seen.sort
<1>1. Current = [want |-> {seen.tab} \cup RichFilters(seen) \cup ({typed} \ {Blank}), sort |-> seen.sort]
  BY DEF Current, Key
<1>2. Current.want = {seen.tab} \cup RichFilters(seen) \cup ({seen.q} \ {Blank}) /\ Current.sort = seen.sort
  BY <1>1
<1>3. ASSUME NEW r PROVE Current.want \subseteq Labels[r] <=>
        /\ seen.tab \in Labels[r]
        /\ seen.q # Blank => seen.q \in Labels[r]
        /\ RichFilters(seen) \subseteq Labels[r]
  BY <1>2
<1>4. ASSUME NEW r PROVE RichFilters(seen) \subseteq Labels[r] <=>
        (seen.tab = "team" => /\ seen.filters \subseteq Labels[r]
                              /\ seen.src # "all" => seen.src \in Labels[r])
  BY DEF RichFilters
<1>5. \A r : Current.want \subseteq Labels[r] <=>
        /\ seen.tab \in Labels[r]
        /\ seen.q # Blank => seen.q \in Labels[r]
        /\ seen.tab = "team" => /\ seen.filters \subseteq Labels[r]
                                /\ seen.src # "all" => seen.src \in Labels[r]
  BY <1>3, <1>4
<1> QED
  BY <1>2, <1>5 DEF Meets, Asked

\* Whatever was stored, restored, clicked before it was rendered, typed, paged, answered
\* late or lost, and whatever runs came and went before: where the list is at rest it has
\* the runs that the controls ask for, in their order, each once, and all of them when it
\* says so (RunsList.tsx, api/runs.ts, backend/app/api/runs.py list_runs).
THEOREM ListIsRight == Spec => []ListIsOfTheView
<1>1. LogsInv => ListIsOfTheView
  <2> SUFFICES ASSUME LogsInv, Settled PROVE
        /\ Range(Own.items) \subseteq Asked(seen) /\ IsInjective(Own.items)
        /\ \A m, n \in 1..Len(Own.items) : m < n => Before(seen.sort, Own.items[m], Own.items[n])
        /\ Own.total = Cardinality(Asked(seen))
        /\ NextOffset(Own) = None => Range(Own.items) = Asked(seen)
    BY DEF ListIsOfTheView
  <2> DEFINE d == cache[Current].data
             S == Asked(seen)
             N == Cardinality(S)
  <2>1. Own = d /\ HasData(cache, Current) /\ typed = seen.q /\ cache[Current].calm
    BY DEF Settled, Own
  <2>2. seen \in View /\ runs \in SUBSET Runs /\ IsFiniteSet(runs)
    BY DEF LogsInv, Views, There
  <2>3. Meets(runs, Current.want) = S /\ Current.sort = seen.sort
    BY <2>1, <2>2, AsksAsShown
  <2>4. S \in SUBSET Runs /\ IsFiniteSet(S) /\ N \in Nat
    BY <2>2, <2>3, MeetsIsFinite
  <2>5. Current \in DOMAIN cache /\ Entry(runs, cache[Current], Current) /\ d.pages # 0
    BY <2>1 DEF LogsInv, Queries, Entries, HasData
  <2>6. d \in Data /\ IsOfNow(runs, d, Current)
    BY <2>1, <2>5 DEF Entry
  <2>7. seen.sort \in Sort
    BY <2>2 DEF View
  <2> HIDE DEF d, S
  <2> DEFINE items == d.items
             L == Len(items)
  <2>8. /\ L <= N /\ \A n \in 1..L : items[n] = Nth(S, seen.sort, n)
        /\ d.total = N /\ d.end = N
    BY <2>3, <2>5, <2>6 DEF IsOfNow
  <2>9. items \in Seq(Runs) /\ L \in Nat /\ DOMAIN items = 1..L
    BY <2>6, LenProperties DEF Data
  <2> HIDE DEF items
  <2>10. \A n \in 1..L : n \in 1..N
    BY <2>4, <2>8, <2>9
  <2>11. \A n \in 1..L : items[n] \in S
    BY <2>4, <2>7, <2>8, <2>10, NthIsThere
  <2>12. ASSUME NEW m \in 1..L, NEW n \in 1..L, m < n
         PROVE  Before(seen.sort, items[m], items[n])
    BY <2>4, <2>7, <2>8, <2>10, <2>12, NthIsBefore
  <2>13. \A r \in Runs : ~Before(seen.sort, r, r)
    BY <2>7, BeforeIsStrict
  <2>14. ASSUME NEW m \in 1..L, NEW n \in 1..L, items[m] = items[n] PROVE m = n
    <3>1. m \in Nat /\ n \in Nat
      BY <2>9
    <3>2. ~(m < n) /\ ~(n < m)
      BY <2>4, <2>11, <2>12, <2>13, <2>14
    <3> QED
      BY <3>1, <3>2
  <2>15. Range(items) \subseteq S
    BY <2>9, <2>11 DEF Range
  <2>16. IsInjective(items)
    BY <2>9, <2>14 DEF IsInjective
  <2>17. ASSUME NextOffset(d) = None PROVE Range(items) = S
    <3>1. ~(L < d.end)
      <4>1. CASE L < d.end
        <5>1. NextOffset(d) = L
          BY <4>1 DEF NextOffset, Loaded, items
        <5>2. None \notin Nat
          BY LogsViewAssumption
        <5> QED
          BY <2>9, <2>17, <5>1, <5>2
      <4> QED
        BY <4>1
    <3>2. L = N
      BY <2>4, <2>8, <2>9, <3>1
    <3>3. ASSUME NEW r \in S PROVE r \in Range(items)
      <4>1. PICK n \in 1..N : Nth(S, seen.sort, n) = r
        BY <2>4, <2>7, EachIsNth
      <4>2. n \in DOMAIN items /\ items[n] = r
        BY <2>8, <2>9, <3>2, <4>1
      <4> QED
        BY <4>2 DEF Range
    <3> QED
      BY <2>15, <3>3
  <2> QED
    BY <2>1, <2>8, <2>12, <2>15, <2>16, <2>17 DEF items, d, S
<1> QED
  BY <1>1, LogsInductive, PTL

\* Wherever the client is left by a link, closed or reloaded, the view comes back as it
\* was rendered last, and the address with it: what is stored is what is seen
\* (useLogsPersistence).
THEOREM ViewComesBack == Spec => ViewReturns
<1>1. ASSUME LogsInv, [Next]_vars
      PROVE  [~here /\ here' /\ seen' = Bare /\ seen = loc => loc' = loc]_vars
  <2>1. stored = seen
    BY <1>1 DEF LogsInv, Views
  <2>2. ASSUME NEW v, NEW stale, Arrive(v, stale), seen' = Bare, seen = loc PROVE loc' = loc
    BY <2>1, <2>2 DEF Arrive, Draw, Restored
  <2>3. ASSUME ~here, here', Next PROVE \E v, stale : Arrive(v, stale)
    <3>1. ~\E closed \in BOOLEAN : Leave(closed)
      BY <2>3 DEF Leave
    <3>2. CASE UNCHANGED list
      BY <2>3, <3>2 DEF list
    <3>3. CASE UNCHANGED here
      BY <2>3, <3>3
    <3>4. ASSUME User PROVE \E v, stale : Arrive(v, stale)
      BY <3>1, <3>2, <3>3, <3>4 DEF User, SetTab, SetSort, SetSrc, SetQ, SetFilters, Controls, Go, NextPage
    <3>5. Browser => here' = here
      BY DEF Browser, Render, Debounced
    <3>6. Network => here' = here
      BY DEF Network, Answer, FetchFails, Invalidate, RunsChange
    <3> QED
      BY <2>3, <3>3, <3>4, <3>5, <3>6 DEF Next
  <2> QED
    BY <1>1, <2>2, <2>3
<1> QED
  BY <1>1, LogsInductive, PTL DEF Spec, ViewReturns
=============================================================================
