---------------------------- MODULE Storage_proofs ----------------------------
(***************************************************************************)
(* What the two storages keep.  Whatever is observed and activated, a      *)
(* SQLite corpus's tables hold, row for row, what a memory corpus would:   *)
(* so they read back as it, export as it, and count as its log does.  Each *)
(* proof folds a list into the tables and the same list into memory's, and *)
(* relates the two step by step (FoldSteps).                               *)
(*                                                                         *)
(* The canonical form of what was read, which a log keeps and replays,     *)
(* reads back as it: what a path, a query or a host is cut at is in none   *)
(* of the parts it is written of.                                          *)
(*                                                                         *)
(* Saves to one JSON file (JsonFile) never see each other's temp files,    *)
(* for any number of corpora, processes and saves, whatever fails, dies or *)
(* is reset: the file is always a whole dump, and a corpus alone on its    *)
(* file loses nothing.                                                     *)
(***************************************************************************)
EXTENDS SqliteViews, JsonFile, FiniteSetTheorems, TLAPS

-----------------------------------------------------------------------------
(* What the folds below are related by. *)

LEMMA LeastNumber ==
    ASSUME NEW S, S \subseteq Nat, NEW k \in S
    PROVE  \E i \in S : \A j \in S : i <= j
<1>1. PICK x \in S : \A y \in S : ~ (<<y, x>> \in OpToRel(<, Nat))
  BY Zenon, NatLessThanWellFounded, WFMin
<1>2. \A y \in S : ~ (y < x)
  BY Zenon, <1>1, Zenon DEF OpToRel
<1>3. x \in Nat /\ \A y \in S : y \in Nat
  OBVIOUS
<1>4. QED BY <1>2, <1>3

\* As the folds have it.
LEMMA NaturalsOrdered == \A N \in SUBSET Nat : N # {} => \E i \in N : \A j \in N : i <= j
<1> SUFFICES ASSUME NEW N \in SUBSET Nat, NEW k \in N PROVE \E i \in N : \A j \in N : i <= j
  BY Zenon
<1>1. N \subseteq Nat
  OBVIOUS
<1>2. QED BY ONLY Zenon, <1>1, k \in N, LeastNumber

LEMMA LargestNumber ==
    ASSUME NEW n \in Nat, NEW s \in SUBSET (1..n), s # {}
    PROVE  \E x \in s : \A y \in s : x >= y
<1> DEFINE T == {n - x : x \in s}
<1>1. PICK k \in T : TRUE
  BY Zenon
<1>2. T \subseteq Nat
  OBVIOUS
<1>3. PICK i \in T : \A j \in T : i <= j
  BY Zenon, <1>1, <1>2, LeastNumber
<1>4. PICK x \in s : i = n - x
  BY <1>3
<1>5. \A y \in s : n - x <= n - y
  BY <1>3, <1>4
<1>6. QED BY <1>4, <1>5

\* The parts of a finite set are sized by their members.
LEMMA PartsCounted ==
    ASSUME NEW S, IsFiniteSet(S)
    PROVE  \E size : \A s \in SUBSET S :
               size[s] \in Nat /\ size[s] <= size[S] /\ \A x \in s : size[s \ {x}] < size[s]
<1> DEFINE size == [s \in SUBSET S |-> Cardinality(s)]
<1>1. \A s \in SUBSET S : /\ IsFiniteSet(s) /\ Cardinality(s) \in Nat
                          /\ Cardinality(s) <= Cardinality(S)
  BY FS_Subset, FS_CardinalityType
<1>2. ASSUME NEW s \in SUBSET S, NEW x \in s PROVE size[s \ {x}] < size[s]
  <2>1. Cardinality(s \ {x}) = Cardinality(s) - 1
    BY <1>1, FS_RemoveElement
  <2>2. QED BY <1>1, <2>1
<1>3. \A s \in SUBSET S : size[s] \in Nat /\ size[s] <= size[S]
  BY <1>1
<1> HIDE DEF size
<1>4. QED BY <1>2, <1>3

-----------------------------------------------------------------------------
(* Rows grouped by the first part of their key. *)

\* Every key is a pair.
Pairs(t) == \A row \in DOMAIN t : row = <<row[1], row[2]>>

\* The rows of a key are those whose key begins with it.
LEMMA WhereRows ==
    ASSUME NEW t, NEW k, Pairs(t)
    PROVE  /\ \A v : v \in DOMAIN Where(t, k) <=> <<k, v>> \in DOMAIN t
           /\ \A v \in DOMAIN Where(t, k) : Where(t, k)[v] = t[<<k, v>>]
           /\ Where(t, k) = [v \in DOMAIN Where(t, k) |-> t[<<k, v>>]]
<1>1. \A v : v \in DOMAIN Where(t, k) <=> <<k, v>> \in DOMAIN t
  <2>1. ASSUME NEW v PROVE v \in DOMAIN Where(t, k) <=> \E row \in DOMAIN t : row[1] = k /\ row[2] = v
    BY DEF Where
  <2>2. QED BY <2>1 DEF Pairs
<1>2. QED BY <1>1 DEF Where

\* The group is what its rows make it.
LEMMA WhereIs ==
    ASSUME NEW t, NEW k, Pairs(t), NEW f, f = [v \in DOMAIN f |-> f[v]],
           \A v : v \in DOMAIN f <=> <<k, v>> \in DOMAIN t,
           \A v \in DOMAIN f : f[v] = t[<<k, v>>]
    PROVE  Where(t, k) = f
<1>1. DOMAIN Where(t, k) = DOMAIN f
  <2>1. \A v : v \in DOMAIN Where(t, k) <=> v \in DOMAIN f
    BY Zenon, WhereRows
  <2>2. QED BY <2>1
<1>2. Where(t, k) = [v \in DOMAIN f |-> t[<<k, v>>]]
  BY <1>1, WhereRows
<1>3. QED BY <1>2

\* Writing one row changes the group of its own key, and no other.
LEMMA WhereWith ==
    ASSUME NEW t, NEW k, NEW v, NEW n, Pairs(t)
    PROVE  LET u == With(t, <<k, v>>, n)
           IN  /\ Pairs(u)
               /\ Where(u, k) = With(Where(t, k), v, n)
               /\ \A j : j # k => Where(u, j) = Where(t, j)
<1> DEFINE u == With(t, <<k, v>>, n)
           f == With(Where(t, k), v, n)
<1>1. Pairs(u)
  BY DEF With, Pairs
<1>2. DOMAIN u = DOMAIN t \union {<<k, v>>} /\ u[<<k, v>>] = n
      /\ \A row \in DOMAIN t : row # <<k, v>> => u[row] = t[row]
  BY DEF With
<1>3. f = [w \in DOMAIN f |-> f[w]] /\ DOMAIN f = DOMAIN Where(t, k) \union {v}
      /\ \A w \in DOMAIN f : f[w] = IF w = v THEN n ELSE Where(t, k)[w]
  BY DEF With
<1> HIDE DEF u, f
<1>4. Where(u, k) = f
  <2>1. \A w : w \in DOMAIN f <=> <<k, w>> \in DOMAIN u
    <3>1. \A w : w \in DOMAIN Where(t, k) <=> <<k, w>> \in DOMAIN t
      BY WhereRows
    <3>2. QED BY <1>2, <1>3, <3>1
  <2>2. \A w \in DOMAIN f : f[w] = u[<<k, w>>]
    <3>1. \A w \in DOMAIN Where(t, k) : Where(t, k)[w] = t[<<k, w>>] /\ <<k, w>> \in DOMAIN t
      BY WhereRows
    <3>2. QED BY <1>2, <1>3, <3>1
  <2>3. QED BY <1>1, <1>3, <2>1, <2>2, WhereIs
<1>5. ASSUME NEW j, j # k PROVE Where(u, j) = Where(t, j)
  <2> DEFINE g == Where(t, j)
  <2>1. g = [w \in DOMAIN g |-> g[w]]
    BY DEF Where
  <2>2. \A w : w \in DOMAIN g <=> <<j, w>> \in DOMAIN t
    BY WhereRows
  <2>3. \A w \in DOMAIN g : g[w] = t[<<j, w>>] /\ <<j, w>> \in DOMAIN t
    BY WhereRows
  <2> HIDE DEF g
  <2>4. \A w : w \in DOMAIN g <=> <<j, w>> \in DOMAIN u
    BY <1>2, <1>5, <2>2
  <2>5. \A w \in DOMAIN g : g[w] = u[<<j, w>>]
    BY <1>2, <1>5, <2>3
  <2>6. QED BY <1>1, <2>1, <2>4, <2>5, WhereIs DEF g
<1>6. QED BY <1>1, <1>4, <1>5 DEF u, f

\* Counting one row adds one to its count in the group of its key.
LEMMA WhereUpsert ==
    ASSUME NEW t, NEW k, NEW v, Pairs(t)
    PROVE  LET u == UpsertCount(t, <<k, v>>)
           IN  /\ Pairs(u)
               /\ Where(u, k) = Increment(Where(t, k), v)
               /\ \A j : j # k => Where(u, j) = Where(t, j)
<1> DEFINE n == IF <<k, v>> \in DOMAIN t THEN t[<<k, v>>] + 1 ELSE 1
<1>1. UpsertCount(t, <<k, v>>) = With(t, <<k, v>>, n)
  BY DEF UpsertCount, Increment
<1>2. Increment(Where(t, k), v) = With(Where(t, k), v, n)
  <2>1. v \in DOMAIN Where(t, k) <=> <<k, v>> \in DOMAIN t
    BY WhereRows
  <2>2. v \in DOMAIN Where(t, k) => Where(t, k)[v] = t[<<k, v>>]
    BY WhereRows
  <2>3. QED BY <2>1, <2>2 DEF Increment
<1> HIDE DEF n
<1>3. QED BY <1>1, <1>2, WhereWith

LEMMA SameCardinality == \A S : Memory!Cardinality(S) = Cardinality(S)
BY DEF Cardinality, Memory!Cardinality

LEMMA SameIncrement == \A f, k : Memory!Increment(f, k) = Increment(f, k)
BY DEF Increment, Memory!Increment, With, Memory!With

LEMMA WhereObserve ==
    ASSUME NEW t, NEW k, NEW v, Pairs(t)
    PROVE  LET u == ObserveValue(t, k, v)
           IN  /\ Pairs(u)
               /\ Where(u, k) = IF Memory!Capped(Where(t, k), v) THEN Increment(Where(t, k), v)
                                ELSE Where(t, k)
               /\ \A j : j # k => Where(u, j) = Where(t, j)
<1>1. v \in DOMAIN Where(t, k) <=> <<k, v>> \in DOMAIN t
  BY WhereRows
<1>0. Memory!Capped(Where(t, k), v) <=>
        <<k, v>> \in DOMAIN t \/ Cardinality(DOMAIN Where(t, k)) < MaxValues
  BY <1>1, SameCardinality DEF Memory!Capped
<1>2. CASE Memory!Capped(Where(t, k), v)
  <2>1. ObserveValue(t, k, v) = UpsertCount(t, <<k, v>>)
    BY <1>0, <1>2 DEF ObserveValue
  <2>2. QED BY <1>2, <2>1, WhereUpsert
<1>3. CASE ~Memory!Capped(Where(t, k), v)
  <2>1. ObserveValue(t, k, v) = t
    BY <1>0, <1>3 DEF ObserveValue
  <2>2. QED BY <1>3, <2>1
<1>4. QED BY <1>2, <1>3

-----------------------------------------------------------------------------
(* Lists. *)

\* A list, whatever its elements.
Listed(u) == \E S : u \in Seq(S)

LEMMA ListedDomain ==
    ASSUME NEW u, Listed(u)
    PROVE  Len(u) \in Nat /\ DOMAIN u = 1..Len(u) /\ u = [i \in 1..Len(u) |-> u[i]]
BY DEF Listed

\* Appending keeps a list one, its earlier elements where they were.
LEMMA ListedAppend ==
    ASSUME NEW u, NEW x, Listed(u)
    PROVE  LET w == Append(u, x)
           IN  /\ Listed(w) /\ Len(w) = Len(u) + 1 /\ w[Len(u) + 1] = x
               /\ \A i \in 1..Len(u) : w[i] = u[i]
<1>1. PICK S : u \in Seq(S)
  BY DEF Listed
<1>2. u \in Seq(S \union {x}) /\ x \in S \union {x}
  BY <1>1
<1>3. Append(u, x) \in Seq(S \union {x})
  BY <1>2
<1>4. QED BY <1>1, <1>2, <1>3 DEF Listed

LEMMA ListedIs ==
    ASSUME NEW n \in Nat, NEW u, u = [i \in 1..n |-> u[i]]
    PROVE  Listed(u) /\ Len(u) = n
<1> DEFINE S == {u[i] : i \in 1..n}
<1>1. u \in [1..n -> S]
  OBVIOUS
<1>2. u \in Seq(S) /\ Len(u) = n
  BY <1>1
<1>3. QED BY Zenon, <1>2 DEF Listed

LEMMA ListedExcept ==
    ASSUME NEW u, NEW i, NEW x, Listed(u), i \in 1..Len(u)
    PROVE  LET w == [u EXCEPT ![i] = x]
           IN  /\ Listed(w) /\ Len(w) = Len(u) /\ w[i] = x
               /\ \A j \in 1..Len(u) : j # i => w[j] = u[j]
<1> DEFINE w == [u EXCEPT ![i] = x]
<1>1. Len(u) \in Nat /\ DOMAIN u = 1..Len(u)
  BY ListedDomain
<1>2. w = [j \in 1..Len(u) |-> w[j]] /\ w[i] = x /\ \A j \in 1..Len(u) : j # i => w[j] = u[j]
  BY Zenon, <1>1
<1> HIDE DEF w
<1>3. QED BY <1>1, <1>2, ListedIs DEF w

\* The only entry with a key.
LEMMA OnlyIndex ==
    ASSUME NEW u, Listed(u), NEW i \in 1..Len(u),
           \A j \in 1..Len(u) : u[j].key = u[i].key => j = i
    PROVE  Memory!IndexOf(u, u[i].key) = {i} /\ Memory!Min({i}) = i
<1>1. DOMAIN u = 1..Len(u) /\ Len(u) \in Nat
  BY ListedDomain
<1>2. Memory!IndexOf(u, u[i].key) = {i}
  BY <1>1 DEF Memory!IndexOf
<1>3. Memory!Min({i}) = i
  BY <1>1 DEF Memory!Min
<1>4. QED BY <1>2, <1>3

-----------------------------------------------------------------------------
(* Positions. *)

\* The tables there are.
IsDb(d) ==
    d = [host_counts |-> d.host_counts, path_length_counts |-> d.path_length_counts,
         raw_shape_counts |-> d.raw_shape_counts, fingerprint_counts |-> d.fingerprint_counts,
         position_stats |-> d.position_stats, position_types |-> d.position_types,
         position_values |-> d.position_values, clusters |-> d.clusters,
         cluster_examples |-> d.cluster_examples, cluster_segments |-> d.cluster_segments,
         cluster_params |-> d.cluster_params, cluster_param_types |-> d.cluster_param_types,
         cluster_param_values |-> d.cluster_param_values]

\* Entry `i` of the list is what the rows of its key hold.
PositionHeld(d, entry, i) ==
    /\ entry.key \in DOMAIN d.position_stats
    /\ d.position_stats[entry.key] = [total |-> entry.stats.total, rowid |-> i]
    /\ entry = [key |-> entry.key,
                stats |-> [total |-> entry.stats.total,
                           types |-> Where(d.position_types, entry.key),
                           values |-> Where(d.position_values, entry.key)]]

\* The rows hold the entries of the list, at the rowids of their places, and no others.
PositionsHeld(d, positions) ==
    /\ Listed(positions)
    /\ IsFiniteSet(DOMAIN d.position_stats)
    /\ Cardinality(DOMAIN d.position_stats) = Len(positions)
    /\ \A i \in 1..Len(positions) : PositionHeld(d, positions[i], i)
    /\ \A k \in DOMAIN d.position_stats : \E i \in 1..Len(positions) : positions[i].key = k
    /\ Pairs(d.position_types) /\ Pairs(d.position_values)
    /\ \A k : k \notin DOMAIN d.position_stats =>
           Where(d.position_types, k) = EmptyBag /\ Where(d.position_values, k) = EmptyBag

LEMMA SameEmptyBag == Memory!EmptyBag = EmptyBag
BY DEF EmptyBag, Memory!EmptyBag, SetToBag, Memory!SetToBag

\* Two states of the tables agree on the positions, the clusters or the counts.
SamePositions(d, e) ==
    /\ d.position_stats = e.position_stats
    /\ d.position_types = e.position_types
    /\ d.position_values = e.position_values

SameClusters(d, e) ==
    /\ d.clusters = e.clusters /\ d.cluster_examples = e.cluster_examples
    /\ d.cluster_segments = e.cluster_segments
    /\ d.cluster_params = e.cluster_params
    /\ d.cluster_param_types = e.cluster_param_types
    /\ d.cluster_param_values = e.cluster_param_values

SameCounts(d, e) ==
    /\ d.host_counts = e.host_counts /\ d.path_length_counts = e.path_length_counts
    /\ d.raw_shape_counts = e.raw_shape_counts
    /\ d.fingerprint_counts = e.fingerprint_counts

\* An observation of a position writes the rows of the entry memory makes.
LEMMA PositionStep ==
    ASSUME NEW d, NEW u, NEW p, IsDb(d), PositionsHeld(d, u)
    PROVE  LET e == ObservePosition(d, p)
           IN  /\ IsDb(e) /\ SameClusters(e, d) /\ SameCounts(e, d)
               /\ PositionsHeld(e, Memory!ObservePosition(u, p))
<1> DEFINE e == ObservePosition(d, p)
           known == p.at \in DOMAIN d.position_stats
           row == IF known THEN d.position_stats[p.at]
                  ELSE [total |-> 0, rowid |-> Cardinality(DOMAIN d.position_stats) + 1]
           w == Memory!ObservePosition(u, p)
           types == Where(d.position_types, p.at)
           values == Where(d.position_values, p.at)
           stats == [total |-> row.total, types |-> types, values |-> values]
           entry == [key |-> p.at, stats |-> Memory!Observed(stats, p.value, p.type)]
<1>1. /\ IsDb(e) /\ SameClusters(e, d) /\ SameCounts(e, d)
      /\ e.position_stats = With(d.position_stats, p.at, [row EXCEPT !.total = @ + 1])
      /\ e.position_types = UpsertCount(d.position_types, <<p.at, p.type>>)
      /\ e.position_values = ObserveValue(d.position_values, p.at, p.value)
  <2> DEFINE f == With(d.position_stats, p.at, [row EXCEPT !.total = @ + 1])
             g == UpsertCount(d.position_types, <<p.at, p.type>>)
             h == ObserveValue(d.position_values, p.at, p.value)
  <2>1. e = [d EXCEPT !.position_stats = f, !.position_types = g, !.position_values = h]
    BY DEF ObservePosition
  <2> HIDE DEF f, g, h, e
  <2>2. e = [[[d EXCEPT !.position_stats = f] EXCEPT !.position_types = g]
                EXCEPT !.position_values = h]
    BY <2>1
  <2>3. /\ IsDb(e) /\ SameClusters(e, d) /\ SameCounts(e, d)
        /\ e.position_stats = f /\ e.position_types = g /\ e.position_values = h
    BY Zenon, <2>2 DEF IsDb, SameClusters, SameCounts
  <2>4. QED BY <2>3 DEF f, g, h
<1>2. /\ Pairs(e.position_types) /\ Pairs(e.position_values)
      /\ Where(e.position_types, p.at) = Increment(types, p.type)
      /\ Where(e.position_values, p.at) =
             IF Memory!Capped(values, p.value) THEN Increment(values, p.value) ELSE values
      /\ \A k : k # p.at => /\ Where(e.position_types, k) = Where(d.position_types, k)
                            /\ Where(e.position_values, k) = Where(d.position_values, k)
  BY <1>1, WhereUpsert, WhereObserve DEF PositionsHeld
<1>3. entry = [key |-> p.at,
               stats |-> [total |-> row.total + 1,
                          types |-> Where(e.position_types, p.at),
                          values |-> Where(e.position_values, p.at)]]
  BY <1>2, SameIncrement DEF Memory!Observed
<1>4. /\ Listed(u) /\ Len(u) \in Nat /\ DOMAIN u = 1..Len(u)
      /\ \A i \in 1..Len(u) : PositionHeld(d, u[i], i)
      /\ \A k \in DOMAIN d.position_stats : \E i \in 1..Len(u) : u[i].key = k
  BY ListedDomain DEF PositionsHeld
<1>5. \A i, j \in 1..Len(u) : u[i].key = u[j].key => i = j
  <2> SUFFICES ASSUME NEW i \in 1..Len(u), NEW j \in 1..Len(u), u[i].key = u[j].key
               PROVE  i = j
    OBVIOUS
  <2>1. PositionHeld(d, u[i], i) /\ PositionHeld(d, u[j], j)
    BY <1>4
  <2>2. d.position_stats[u[i].key].rowid = i /\ d.position_stats[u[j].key].rowid = j
    BY <2>1 DEF PositionHeld
  <2>3. QED BY <2>2
<1> HIDE DEF e, w, entry
<1>6. CASE known
  <2>1. PICK i \in 1..Len(u) : u[i].key = p.at
    BY <1>4, <1>6
  <2>2. Memory!IndexOf(u, p.at) = {i} /\ Memory!Min({i}) = i
    BY Zenon, <1>4, <1>5, <2>1, OnlyIndex
  <2>3. row = [total |-> u[i].stats.total, rowid |-> i] /\ u[i].stats = stats
    BY <1>4, <1>6, <2>1 DEF PositionHeld
  <2>4. w = [u EXCEPT ![i] = entry]
    BY Zenon, <2>2, <2>3 DEF Memory!ObservePosition, w, entry
  <2>5. /\ Listed(w) /\ Len(w) = Len(u) /\ w[i] = entry
        /\ \A j \in 1..Len(u) : j # i => w[j] = u[j]
    BY Zenon, <1>4, <2>4, ListedExcept
  <2>6. /\ DOMAIN e.position_stats = DOMAIN d.position_stats
        /\ e.position_stats[p.at] = [total |-> row.total + 1, rowid |-> i]
        /\ \A k \in DOMAIN d.position_stats : k # p.at =>
               e.position_stats[k] = d.position_stats[k]
    BY <1>1, <1>6, <2>3 DEF With
  <2>7. ASSUME NEW j \in 1..Len(w) PROVE PositionHeld(e, w[j], j)
    <3>1. CASE j = i
      BY <3>1, <2>5, <2>6, <1>3, <1>6 DEF PositionHeld
    <3>2. CASE j # i
      <4>1. w[j] = u[j] /\ u[j].key # p.at /\ PositionHeld(d, u[j], j)
        BY <3>2, <2>1, <2>5, <1>4, <1>5
      <4>2. QED BY <4>1, <2>6, <1>2 DEF PositionHeld
    <3>3. QED BY <3>1, <3>2
  <2>8. \A k \in DOMAIN e.position_stats : \E j \in 1..Len(w) : w[j].key = k
    <3>1. \A j \in 1..Len(w) : w[j].key = u[j].key
      BY <2>1, <2>5, <1>3
    <3>2. QED BY <3>1, <1>4, <2>5, <2>6
  <2>9. PositionsHeld(e, w)
    BY <1>2, <1>6, <2>5, <2>6, <2>7, <2>8 DEF PositionsHeld
  <2>10. QED BY <1>1, <2>9 DEF e, w
<1>7. CASE ~known
  <2>1. Memory!IndexOf(u, p.at) = {}
    <3>1. \A i \in 1..Len(u) : u[i].key # p.at
      BY Zenon, <1>4, <1>7 DEF PositionHeld
    <3>2. QED BY <1>4, <3>1 DEF Memory!IndexOf
  <2>2. /\ row = [total |-> 0, rowid |-> Len(u) + 1] /\ stats = Memory!EmptyStats
    BY <1>7, SameEmptyBag DEF PositionsHeld, Memory!EmptyStats
  <2>4. w = Append(u, entry)
    BY <2>1, <2>2 DEF Memory!ObservePosition, w, entry
  <2>5. /\ Listed(w) /\ Len(w) = Len(u) + 1 /\ w[Len(u) + 1] = entry
        /\ \A j \in 1..Len(u) : w[j] = u[j]
    BY <1>4, <2>4, ListedAppend
  <2>6. /\ DOMAIN e.position_stats = DOMAIN d.position_stats \union {p.at}
        /\ e.position_stats[p.at] = [total |-> row.total + 1, rowid |-> Len(u) + 1]
        /\ \A k \in DOMAIN d.position_stats : e.position_stats[k] = d.position_stats[k]
    BY <1>1, <1>7, <2>2 DEF With
  <2>7. ASSUME NEW j \in 1..Len(w) PROVE PositionHeld(e, w[j], j)
    <3>1. CASE j = Len(u) + 1
      BY <3>1, <2>5, <2>6, <1>3, <1>7 DEF PositionHeld
    <3>2. CASE j \in 1..Len(u)
      <4>1. w[j] = u[j] /\ PositionHeld(d, u[j], j) /\ u[j].key \in DOMAIN d.position_stats
            /\ u[j].key # p.at
        BY <3>2, <2>5, <1>4, <1>7 DEF PositionHeld
      <4>2. QED BY <4>1, <2>6, <1>2 DEF PositionHeld
    <3>3. QED BY <3>1, <3>2, <2>5, <1>4
  <2>8. \A k \in DOMAIN e.position_stats : \E j \in 1..Len(w) : w[j].key = k
    <3>1. \A j \in 1..Len(u) : w[j].key = u[j].key /\ j \in 1..Len(w)
      BY <2>5, <1>4
    <3>2. w[Len(u) + 1].key = p.at /\ Len(u) + 1 \in 1..Len(w)
      BY <2>5, <1>3, <1>4
    <3>3. QED BY <3>1, <3>2, <1>4, <2>6
  <2>9. /\ IsFiniteSet(DOMAIN e.position_stats)
        /\ Cardinality(DOMAIN e.position_stats) = Len(w)
    BY Zenon, <1>7, <2>5, <2>6, FS_AddElement DEF PositionsHeld
  <2>10. \A k : k \notin DOMAIN e.position_stats =>
           Where(e.position_types, k) = EmptyBag /\ Where(e.position_values, k) = EmptyBag
    BY <1>2, <2>6 DEF PositionsHeld
  <2>11. PositionsHeld(e, w)
    BY <1>2, <2>5, <2>7, <2>8, <2>9, <2>10 DEF PositionsHeld
  <2>12. QED BY <1>1, <2>11 DEF e, w
<1>8. QED BY <1>6, <1>7

-----------------------------------------------------------------------------
(* The positions of one observation. *)

\* The positions of an observation, one by one, into the tables and into memory.
PlaceRow(a, d, p) == ObservePosition(d, p)
PlaceEntry(b, u, p) == Memory!ObservePosition(u, p)
Placed(a, b, i, d, u) ==
    IsDb(d) /\ SameClusters(d, a) /\ SameCounts(d, a) /\ PositionsHeld(d, u)

Positions == INSTANCE FoldSteps WITH OpA <- PlaceRow, OpB <- PlaceEntry, Rel <- Placed
LEMMA PositionsOrdered == Positions!WellOrdered
BY NaturalsOrdered DEF Positions!WellOrdered

\* All the positions of an observation.
LEMMA PositionsKeepStep ==
    ASSUME NEW d, NEW u, NEW seen, Listed(seen), IsDb(d), PositionsHeld(d, u)
    PROVE  LET e == ObservePositions(d, seen)
           IN  /\ IsDb(e) /\ SameClusters(e, d) /\ SameCounts(e, d)
               /\ PositionsHeld(e, Memory!ObservePositions(u, seen))
<1>1. ObservePositions(d, seen) = Positions!SeqA(d, d, seen)
  BY DEF ObservePositions, FoldLeft, MapThenFoldSet, Max, Positions!SeqA, PlaceRow
<1>2. Memory!ObservePositions(u, seen) = Positions!SeqB(u, u, seen)
  BY DEF Memory!ObservePositions, Memory!FoldLeft, Memory!MapThenFoldSet, Memory!Max,
         Positions!SeqB, PlaceEntry
<1>3. Placed(d, u, 0, d, u)
  BY DEF Placed, SameClusters, SameCounts
<1>4. \A i \in 1..Len(seen) : \A t, v :
        Placed(d, u, i - 1, t, v) => Placed(d, u, i, PlaceRow(d, t, seen[i]), PlaceEntry(u, v, seen[i]))
  <2> SUFFICES ASSUME NEW i \in 1..Len(seen), NEW t, NEW v, Placed(d, u, i - 1, t, v)
               PROVE  Placed(d, u, i, PlaceRow(d, t, seen[i]), PlaceEntry(u, v, seen[i]))
    OBVIOUS
  <2>1. IsDb(t) /\ PositionsHeld(t, v) /\ SameClusters(t, d) /\ SameCounts(t, d)
    BY DEF Placed
  <2> DEFINE e == ObservePosition(t, seen[i])
  <2>2. /\ IsDb(e) /\ SameClusters(e, t) /\ SameCounts(e, t)
        /\ PositionsHeld(e, Memory!ObservePosition(v, seen[i]))
    BY <2>1, PositionStep
  <2>3. SameClusters(e, d) /\ SameCounts(e, d)
    BY <2>1, <2>2 DEF SameClusters, SameCounts
  <2>4. QED BY <2>2, <2>3 DEF Placed, PlaceRow, PlaceEntry
<1>5. Len(seen) \in Nat /\ DOMAIN seen = 1..Len(seen)
  BY ListedDomain
<1>6. Placed(d, u, Len(seen), Positions!SeqA(d, d, seen), Positions!SeqB(u, u, seen))
  BY <1>3, <1>4, <1>5, PositionsOrdered, Positions!SequenceFolds
<1>7. QED BY <1>1, <1>2, <1>6 DEF Placed

-----------------------------------------------------------------------------
(* The parameters of a cluster. *)

\* The slots of a cluster, read off its rows.
SlotsOf(d, key) ==
    LET totals == Where(d.cluster_params, key)
    IN  [name \in DOMAIN totals |->
            LoadStats(totals[name], Where(d.cluster_param_types, <<key, name>>),
                      Where(d.cluster_param_values, <<key, name>>))]

\* No parameter has a count of a type or a value without its row.
ParamTables(d) ==
    /\ Pairs(d.cluster_params) /\ Pairs(d.cluster_param_types) /\ Pairs(d.cluster_param_values)
    /\ \A k, name : <<k, name>> \notin DOMAIN d.cluster_params =>
           /\ Where(d.cluster_param_types, <<k, name>>) = EmptyBag
           /\ Where(d.cluster_param_values, <<k, name>>) = EmptyBag

\* Two states of the tables agree on the parameters, or on all else.
SameParams(d, e) ==
    /\ d.cluster_params = e.cluster_params
    /\ d.cluster_param_types = e.cluster_param_types
    /\ d.cluster_param_values = e.cluster_param_values

SameOthers(d, e) ==
    /\ SamePositions(d, e) /\ SameCounts(d, e)
    /\ d.clusters = e.clusters /\ d.cluster_examples = e.cluster_examples
    /\ d.cluster_segments = e.cluster_segments

\* One parameter observed is the slot memory makes of it.
LEMMA ParamStep ==
    ASSUME NEW d, NEW key, NEW p, IsDb(d), ParamTables(d)
    PROVE  LET e == ObserveParam(d, key, p)
           IN  /\ IsDb(e) /\ SameOthers(e, d) /\ ParamTables(e)
               /\ SlotsOf(e, key) = Memory!AddParam(SlotsOf(d, key), p)
               /\ \A k : k # key => SlotsOf(e, k) = SlotsOf(d, k)
<1> DEFINE e == ObserveParam(d, key, p)
           v == ParamValue(p)
           slot == <<key, p.key>>
           f == UpsertCount(d.cluster_params, slot)
           g == UpsertCount(d.cluster_param_types, <<slot, TypeOf(v)>>)
           h == ObserveValue(d.cluster_param_values, slot, v)
<1>1. /\ IsDb(e) /\ SameOthers(e, d)
      /\ e.cluster_params = f /\ e.cluster_param_types = g /\ e.cluster_param_values = h
  <2>1. e = [d EXCEPT !.cluster_params = f, !.cluster_param_types = g, !.cluster_param_values = h]
    BY DEF ObserveParam
  <2> HIDE DEF f, g, h, e
  <2>2. e = [[[d EXCEPT !.cluster_params = f] EXCEPT !.cluster_param_types = g]
                EXCEPT !.cluster_param_values = h]
    BY <2>1
  <2>3. QED BY Zenon, <2>2 DEF IsDb, SameOthers, SamePositions, SameCounts
<1> DEFINE totals == Where(d.cluster_params, key)
           types(k, name) == Where(d.cluster_param_types, <<k, name>>)
           values(k, name) == Where(d.cluster_param_values, <<k, name>>)
<1>2. /\ Pairs(f) /\ Where(f, key) = Increment(totals, p.key)
      /\ \A k : k # key => Where(f, k) = Where(d.cluster_params, k)
  BY WhereUpsert DEF ParamTables
<1>3. /\ Pairs(g) /\ Where(g, slot) = Increment(types(key, p.key), TypeOf(v))
      /\ \A j : j # slot => Where(g, j) = Where(d.cluster_param_types, j)
  BY WhereUpsert DEF ParamTables
<1>4. /\ Pairs(h)
      /\ Where(h, slot) = IF Memory!Capped(values(key, p.key), v)
                          THEN Increment(values(key, p.key), v) ELSE values(key, p.key)
      /\ \A j : j # slot => Where(h, j) = Where(d.cluster_param_values, j)
  BY WhereObserve DEF ParamTables
<1>5. DOMAIN f = DOMAIN d.cluster_params \union {slot}
  BY DEF UpsertCount, Increment, With
<1> DEFINE stats == IF p.key \in DOMAIN totals
                    THEN [total |-> totals[p.key], types |-> types(key, p.key),
                          values |-> values(key, p.key)]
                    ELSE Memory!EmptyStats
<1>6. /\ p.key \in DOMAIN totals <=> slot \in DOMAIN d.cluster_params
  BY WhereRows DEF ParamTables
<1>7. /\ stats.types = types(key, p.key) /\ stats.values = values(key, p.key)
      /\ stats.total = IF p.key \in DOMAIN totals THEN totals[p.key] ELSE 0
  BY <1>6, SameEmptyBag DEF ParamTables, Memory!EmptyStats
<1>8. ParamTables(e)
  <2> HIDE DEF f, g, h, e
  <2>1. ASSUME NEW k, NEW name, <<k, name>> \notin DOMAIN e.cluster_params
        PROVE  /\ Where(e.cluster_param_types, <<k, name>>) = EmptyBag
               /\ Where(e.cluster_param_values, <<k, name>>) = EmptyBag
    <3>1. <<k, name>> # slot /\ <<k, name>> \notin DOMAIN d.cluster_params
      BY <2>1, <1>1, <1>5
    <3>2. QED BY <3>1, <1>1, <1>3, <1>4 DEF ParamTables
  <2>2. QED BY <2>1, <1>1, <1>2, <1>3, <1>4 DEF ParamTables
<1> DEFINE new == Memory!Observed(stats, v, TypeOf(v))
<1>9. new = LoadStats(Where(f, key)[p.key], Where(g, slot), Where(h, slot))
  <2>1. Where(f, key)[p.key] = stats.total + 1
    BY <1>2, <1>7 DEF Increment, With
  <2> HIDE DEF stats, f, g, h
  <2>2. QED BY <2>1, <1>3, <1>4, <1>7, SameIncrement DEF Memory!Observed, LoadStats
<1>10. SlotsOf(e, key) = With(SlotsOf(d, key), p.key, new)
  <2>1. DOMAIN Where(f, key) = DOMAIN totals \union {p.key}
        /\ \A name \in DOMAIN totals : name # p.key => Where(f, key)[name] = totals[name]
    BY <1>2 DEF Increment, With
  <2>2. \A name : name # p.key => /\ Where(g, <<key, name>>) = types(key, name)
                                  /\ Where(h, <<key, name>>) = values(key, name)
    BY <1>3, <1>4
  <2> DEFINE loaded(name) == LoadStats(Where(f, key)[name], Where(g, <<key, name>>),
                                       Where(h, <<key, name>>))
             before(name) == LoadStats(totals[name], types(key, name), values(key, name))
  <2>3. \A name \in DOMAIN totals : name # p.key => loaded(name) = before(name)
    BY <2>1, <2>2
  <2>4. loaded(p.key) = new
    BY <1>9
  <2>5. SlotsOf(e, key) = [name \in DOMAIN totals \union {p.key} |-> loaded(name)]
    BY <1>1, <2>1 DEF SlotsOf
  <2>6. SlotsOf(d, key) = [name \in DOMAIN totals |-> before(name)]
    BY DEF SlotsOf
  <2> HIDE DEF loaded, before, totals, new, e
  <2>7. QED BY <2>3, <2>4, <2>5, <2>6 DEF With
<1>11. SlotsOf(e, key) = Memory!AddParam(SlotsOf(d, key), p)
  <2>1. DOMAIN SlotsOf(d, key) = DOMAIN totals
        /\ (p.key \in DOMAIN totals => SlotsOf(d, key)[p.key] = stats)
    BY DEF SlotsOf, LoadStats
  <2> DEFINE held == IF p.key \in DOMAIN SlotsOf(d, key) THEN SlotsOf(d, key)[p.key]
                     ELSE Memory!EmptyStats
  <2>2. held = stats
    BY <2>1
  <2>3. Memory!AddParam(SlotsOf(d, key), p) =
            With(SlotsOf(d, key), p.key, Memory!Observed(held, v, TypeOf(v)))
    BY DEF Memory!AddParam, Memory!With, With
  <2> HIDE DEF held, stats
  <2>4. QED BY <1>10, <2>2, <2>3
<1>12. ASSUME NEW k, k # key PROVE SlotsOf(e, k) = SlotsOf(d, k)
  <2>1. \A name : <<k, name>> # slot
    BY <1>12
  <2>2. Where(f, k) = Where(d.cluster_params, k)
        /\ \A name : /\ Where(g, <<k, name>>) = types(k, name)
                     /\ Where(h, <<k, name>>) = values(k, name)
    BY <2>1, <1>2, <1>3, <1>4, <1>12
  <2> HIDE DEF f, g, h, e
  <2>3. QED BY <1>1, <2>2 DEF SlotsOf
<1>13. QED BY <1>1, <1>8, <1>11, <1>12

\* The parameters of an observation, one by one, counted in the tables and in memory.
CountParam(a, d, p) == ObserveParam(d, a.key, p)
HoldParam(b, params, p) == Memory!AddParam(params, p)
ParamsCounted(a, b, i, d, params) ==
    /\ IsDb(d) /\ SameOthers(d, a.db) /\ ParamTables(d)
    /\ SlotsOf(d, a.key) = params
    /\ \A k : k # a.key => SlotsOf(d, k) = SlotsOf(a.db, k)

Params == INSTANCE FoldSteps WITH OpA <- CountParam, OpB <- HoldParam, Rel <- ParamsCounted
LEMMA ParamsOrdered == Params!WellOrdered
BY NaturalsOrdered DEF Params!WellOrdered

\* All the parameters of an observation; those of other clusters are left alone.
LEMMA ParamsKeepStep ==
    ASSUME NEW d, NEW key, NEW list, Listed(list), IsDb(d), ParamTables(d)
    PROVE  LET e == ObserveParams(d, key, list)
           IN  /\ IsDb(e) /\ SameOthers(e, d) /\ ParamTables(e)
               /\ SlotsOf(e, key) = Memory!AddParams(SlotsOf(d, key), list)
               /\ \A k : k # key => SlotsOf(e, k) = SlotsOf(d, k)
<1> DEFINE a == [db |-> d, key |-> key]
           u == SlotsOf(d, key)
<1>1. ObserveParams(d, key, list) = Params!SeqA(a, d, list)
  BY DEF ObserveParams, FoldLeft, MapThenFoldSet, Max, Params!SeqA, CountParam
<1>2. Memory!AddParams(u, list) = Params!SeqB(u, u, list)
  BY DEF Memory!AddParams, Memory!FoldLeft, Memory!MapThenFoldSet, Memory!Max,
         Params!SeqB, HoldParam
<1>3. ParamsCounted(a, u, 0, d, u)
  BY DEF ParamsCounted, SameOthers, SamePositions, SameCounts
<1>4. \A i \in 1..Len(list) : \A t, v :
        ParamsCounted(a, u, i - 1, t, v) =>
        ParamsCounted(a, u, i, CountParam(a, t, list[i]), HoldParam(u, v, list[i]))
  <2> SUFFICES ASSUME NEW i \in 1..Len(list), NEW t, NEW v, ParamsCounted(a, u, i - 1, t, v)
               PROVE  ParamsCounted(a, u, i, CountParam(a, t, list[i]), HoldParam(u, v, list[i]))
    OBVIOUS
  <2>1. IsDb(t) /\ SameOthers(t, d) /\ ParamTables(t) /\ SlotsOf(t, key) = v
        /\ \A k : k # key => SlotsOf(t, k) = SlotsOf(d, k)
    BY DEF ParamsCounted
  <2> DEFINE e == ObserveParam(t, key, list[i])
  <2>2. /\ IsDb(e) /\ SameOthers(e, t) /\ ParamTables(e)
        /\ SlotsOf(e, key) = Memory!AddParam(SlotsOf(t, key), list[i])
        /\ \A k : k # key => SlotsOf(e, k) = SlotsOf(t, k)
    BY <2>1, ParamStep
  <2>3. SameOthers(e, d)
    BY <2>1, <2>2 DEF SameOthers, SamePositions, SameCounts
  <2> HIDE DEF e
  <2>4. ParamsCounted(a, u, i, e, Memory!AddParam(v, list[i]))
    BY <2>1, <2>2, <2>3 DEF ParamsCounted
  <2>5. QED BY <2>4 DEF CountParam, HoldParam, e
<1>5. Len(list) \in Nat /\ DOMAIN list = 1..Len(list)
  BY ListedDomain
<1>6. ParamsCounted(a, u, Len(list), Params!SeqA(a, d, list), Params!SeqB(u, u, list))
  <2> HIDE DEF a, u
  <2>1. QED BY <1>3, <1>4, <1>5, ParamsOrdered, Params!SequenceFolds
<1>7. QED BY <1>1, <1>2, <1>6 DEF ParamsCounted

-----------------------------------------------------------------------------
(* The path segments of a cluster. *)

\* The rows hold the counts at each place of the path, and no others.
SegmentsHeld(rows, segments) ==
    /\ Listed(segments) /\ Pairs(rows)
    /\ \A i \in 1..Len(segments) : segments[i] = Where(rows, i) /\ DOMAIN segments[i] # {}
    /\ \A row \in DOMAIN rows : row[1] \in 1..Len(segments)

\* The segments of an observation, one by one: the first `n` are counted.
CountSegment(a, t, i) == UpsertCount(t, <<a.key, <<i, a.segments[i]>>>>)
CountNothing(b, u, i) == u
SegmentsCounted(a, b, n, t, u) ==
    LET rows == Where(t, a.key)
        before == Where(a.table, a.key)
    IN  /\ Pairs(t) /\ Pairs(rows)
        /\ \A k : k # a.key => Where(t, k) = Where(a.table, k)
        /\ \A i \in 1..n : Where(rows, i) = Increment(Where(before, i), a.segments[i])
        /\ \A i : i \notin 1..n => Where(rows, i) = Where(before, i)
        /\ \A row \in DOMAIN rows : row \in DOMAIN before \/ row[1] \in 1..n

Segments == INSTANCE FoldSteps WITH
    OpA <- CountSegment, OpB <- CountNothing, Rel <- SegmentsCounted
LEMMA SegmentsOrdered == Segments!WellOrdered
BY NaturalsOrdered DEF Segments!WellOrdered

\* All the segments of an observation are counted, those of other clusters left alone.
LEMMA SegmentsCountedAll ==
    ASSUME NEW table, NEW key, NEW segments, Listed(segments),
           Pairs(table), Pairs(Where(table, key))
    PROVE  SegmentsCounted([table |-> table, key |-> key, segments |-> segments], 0,
                           Len(segments), CountSegments(table, key, segments), 0)
<1> DEFINE a == [table |-> table, key |-> key, segments |-> segments]
           order == [i \in DOMAIN segments |-> i]
           n == Len(segments)
<1>1. n \in Nat /\ DOMAIN order = 1..n
  BY ListedDomain
<1>2. CountSegments(table, key, segments) = Segments!SeqA(a, table, order)
  BY DEF CountSegments, FoldLeft, MapThenFoldSet, Max, Segments!SeqA, CountSegment
<1>3. SegmentsCounted(a, 0, 0, table, 0)
  BY DEF SegmentsCounted
<1>4. \A i \in 1..n : \A t, u :
        SegmentsCounted(a, 0, i - 1, t, u) =>
        SegmentsCounted(a, 0, i, CountSegment(a, t, order[i]), CountNothing(0, u, order[i]))
  <2> SUFFICES ASSUME NEW i \in 1..n, NEW t, NEW u, SegmentsCounted(a, 0, i - 1, t, u)
               PROVE  SegmentsCounted(a, 0, i, CountSegment(a, t, order[i]),
                                      CountNothing(0, u, order[i]))
    OBVIOUS
  <2> DEFINE w == UpsertCount(t, <<key, <<i, segments[i]>>>>)
             before == Where(table, key)
             rows == Where(w, key)
             held == Where(t, key)
  <2>1. i \in Nat /\ order[i] = i /\ \A j : j \in 1..i <=> (j = i \/ j \in 1..(i - 1))
    BY <1>1
  <2>2. /\ Pairs(t) /\ Pairs(held)
        /\ \A k : k # key => Where(t, k) = Where(table, k)
        /\ \A j \in 1..(i - 1) : Where(held, j) = Increment(Where(before, j), segments[j])
        /\ \A j : j \notin 1..(i - 1) => Where(held, j) = Where(before, j)
        /\ \A row \in DOMAIN held : row \in DOMAIN before \/ row[1] \in 1..(i - 1)
    BY DEF SegmentsCounted
  <2>3. /\ Pairs(w) /\ rows = Increment(held, <<i, segments[i]>>)
        /\ \A k : k # key => Where(w, k) = Where(t, k)
    BY <2>2, WhereUpsert
  <2>4. rows = UpsertCount(held, <<i, segments[i]>>)
    BY <2>3 DEF UpsertCount
  <2>5. /\ Pairs(rows) /\ Where(rows, i) = Increment(Where(held, i), segments[i])
        /\ \A j : j # i => Where(rows, j) = Where(held, j)
    <3> HIDE DEF rows, held
    <3>1. QED BY <2>2, <2>4, WhereUpsert
  <2>6. DOMAIN rows = DOMAIN held \union {<<i, segments[i]>>}
    BY Zenon, <2>3 DEF Increment, With
  <2> HIDE DEF rows, held, before, w
  <2>7. \A j \in 1..i : Where(rows, j) = Increment(Where(before, j), segments[j])
    BY <2>1, <2>2, <2>5
  <2>8. \A j : j \notin 1..i => Where(rows, j) = Where(before, j)
    BY <2>1, <2>2, <2>5
  <2>9. \A row \in DOMAIN rows : row \in DOMAIN before \/ row[1] \in 1..i
    BY <2>1, <2>2, <2>6
  <2>10. SegmentsCounted(a, 0, i, w, u)
    BY <2>2, <2>3, <2>5, <2>7, <2>8, <2>9 DEF SegmentsCounted, rows, before
  <2>11. QED BY Zenon, <2>1, <2>10 DEF CountSegment, CountNothing, w
<1>5. SegmentsCounted(a, 0, n, Segments!SeqA(a, table, order), Segments!SeqB(0, 0, order))
  <2> HIDE DEF a, order
  <2>1. QED BY <1>1, <1>3, <1>4, SegmentsOrdered, Segments!SequenceFolds
<1>6. QED BY <1>2, <1>5 DEF SegmentsCounted

\* And the rows they are counted in hold the counts memory keeps.
LEMMA SegmentsStep ==
    ASSUME NEW table, NEW key, NEW segments, Listed(segments), NEW held,
           Pairs(table), SegmentsHeld(Where(table, key), held)
    PROVE  LET t == CountSegments(table, key, segments)
           IN  /\ Pairs(t)
               /\ SegmentsHeld(Where(t, key), Memory!AddSegments(held, segments))
               /\ \A k : k # key => Where(t, k) = Where(table, k)
<1> DEFINE t == CountSegments(table, key, segments)
           rows == Where(t, key)
           before == Where(table, key)
           n == Len(segments)
           m == Len(held)
           top == IF m >= n THEN m ELSE n
           w == Memory!AddSegments(held, segments)
           bag(i) == IF i <= m THEN held[i] ELSE Memory!EmptyBag
           entry(i) == IF i <= n THEN Memory!Increment(bag(i), segments[i]) ELSE bag(i)
<1>1. /\ n \in Nat /\ m \in Nat /\ top \in Nat
      /\ top = m \/ top = n
      /\ m <= top /\ n <= top
  BY ListedDomain DEF SegmentsHeld
<1>2. /\ Pairs(t) /\ Pairs(rows)
      /\ \A k : k # key => Where(t, k) = Where(table, k)
      /\ \A i \in 1..n : Where(rows, i) = Increment(Where(before, i), segments[i])
      /\ \A i : i \notin 1..n => Where(rows, i) = Where(before, i)
      /\ \A row \in DOMAIN rows : row \in DOMAIN before \/ row[1] \in 1..n
  BY SegmentsCountedAll DEF SegmentsCounted, SegmentsHeld
<1>3. w = [i \in 1..top |-> entry(i)]
  <2>1. Memory!Max({Len(held), Len(segments)}) = top
    BY <1>1 DEF Memory!Max
  <2>2. QED BY <2>1 DEF Memory!AddSegments
<1> HIDE DEF t, w
<1>4. ASSUME NEW i \in 1..top PROVE Where(before, i) = bag(i)
  <2>1. CASE i <= m
    BY <1>1, <2>1 DEF SegmentsHeld
  <2>2. CASE ~(i <= m)
    <3>1. \A row \in DOMAIN before : row[1] # i
      BY <1>1, <2>2 DEF SegmentsHeld
    <3>2. Where(before, i) = [v \in {} |-> 0]
      BY <3>1 DEF Where
    <3>3. QED BY <2>2, <3>2, SameEmptyBag DEF EmptyBag, SetToBag
  <2>3. QED BY <2>1, <2>2
<1>5. ASSUME NEW i \in 1..top PROVE entry(i) = Where(rows, i) /\ DOMAIN entry(i) # {}
  <2>1. CASE i <= n
    <3>1. Where(rows, i) = Increment(bag(i), segments[i])
      BY <1>1, <1>2, <1>4, <2>1
    <3>2. \A f, k : DOMAIN Increment(f, k) # {}
      BY DEF Increment, With
    <3> HIDE DEF bag, rows
    <3>3. QED BY <2>1, <3>1, <3>2, SameIncrement
  <2>2. CASE ~(i <= n)
    <3>1. Where(rows, i) = bag(i) /\ i <= m
      BY <1>1, <1>2, <1>4, <2>2
    <3>2. DOMAIN held[i] # {}
      BY <3>1, <1>1 DEF SegmentsHeld
    <3>3. QED BY <2>2, <3>1, <3>2
  <2>3. QED BY <2>1, <2>2
<1>6. Listed(w) /\ Len(w) = top
  <2> HIDE DEF entry
  <2>1. w = [i \in 1..top |-> w[i]]
    BY <1>3
  <2>2. QED BY <1>1, <2>1, ListedIs
<1>7. \A row \in DOMAIN rows : row[1] \in 1..top
  BY <1>1, <1>2 DEF SegmentsHeld
<1>8. \A i \in 1..top : w[i] = Where(rows, i) /\ DOMAIN w[i] # {}
  <2> HIDE DEF entry, rows
  <2>1. QED BY <1>3, <1>5
<1>9. SegmentsHeld(rows, w)
  BY <1>2, <1>6, <1>7, <1>8 DEF SegmentsHeld
<1>10. QED BY <1>2, <1>9 DEF t, w

-----------------------------------------------------------------------------
(* The examples of a cluster. *)

\* An identifier as observed: its canonical form names it again.
Fit(iri) ==
    /\ iri # Error /\ Canonical(iri) \in DOMAIN Parsed /\ Parsed[Canonical(iri)] = iri
    /\ Listed(iri.segments) /\ Listed(iri.params)

\* The rows hold the examples of the list, each at its place, and no others.
ExamplesHeld(rows, examples) ==
    /\ Listed(examples) /\ IsFiniteSet(DOMAIN rows) /\ Cardinality(DOMAIN rows) = Len(examples)
    /\ \A i \in 1..Len(examples) :
           LET c == Canonical(examples[i])
           IN  /\ c \in DOMAIN rows /\ rows[c] = i - 1
               /\ c \in DOMAIN Parsed /\ Parsed[c] = examples[i] /\ examples[i] # Error
    /\ \A c \in DOMAIN rows : \E i \in 1..Len(examples) : Canonical(examples[i]) = c

\* Two states of the tables agree on all but the examples.
SameButExamples(d, e) ==
    /\ SamePositions(d, e) /\ SameCounts(d, e) /\ SameParams(d, e)
    /\ d.clusters = e.clusters /\ d.cluster_segments = e.cluster_segments

\* An example is stored where memory keeps it, or in neither.
LEMMA ExampleStep ==
    ASSUME NEW d, NEW key, NEW iri, NEW examples, Fit(iri), IsDb(d), Pairs(d.cluster_examples),
           ExamplesHeld(Where(d.cluster_examples, key), examples)
    PROVE  LET e == InsertExample(d, key, iri)
           IN  /\ IsDb(e) /\ SameButExamples(e, d) /\ Pairs(e.cluster_examples)
               /\ ExamplesHeld(Where(e.cluster_examples, key), Memory!AddExample(examples, iri))
               /\ \A k : k # key => Where(e.cluster_examples, k) = Where(d.cluster_examples, k)
<1> DEFINE e == InsertExample(d, key, iri)
           rows == Where(d.cluster_examples, key)
           c == Canonical(iri)
           n == Len(examples)
           kept == n < MaxExamples /\ c \notin DOMAIN rows
           w == Memory!AddExample(examples, iri)
<1>1. n \in Nat /\ DOMAIN examples = 1..n /\ Cardinality(DOMAIN rows) = n
  BY ListedDomain DEF ExamplesHeld
<1>2. w = IF kept THEN Append(examples, iri) ELSE examples
  <2>1. (\A i \in DOMAIN examples : Canonical(examples[i]) # Canonical(iri)) <=> c \notin DOMAIN rows
    BY <1>1 DEF ExamplesHeld
  <2> HIDE DEF rows
  <2>2. QED BY <2>1, <1>1 DEF Memory!AddExample
<1>3. CASE kept
  <2> DEFINE t == With(d.cluster_examples, <<key, c>>, n)
             after == Where(t, key)
  <2>1. e = [d EXCEPT !.cluster_examples = t]
    BY <1>1, <1>3 DEF InsertExample
  <2>2. IsDb(e) /\ SameButExamples(e, d) /\ e.cluster_examples = t
    <3> HIDE DEF t, e
    <3>1. QED BY <2>1 DEF IsDb, SameButExamples, SamePositions, SameCounts, SameParams
  <2>3. /\ Pairs(t) /\ after = With(rows, c, n)
        /\ \A k : k # key => Where(t, k) = Where(d.cluster_examples, k)
    BY WhereWith
  <2>4. /\ DOMAIN after = DOMAIN rows \union {c} /\ after[c] = n
        /\ \A x \in DOMAIN rows : after[x] = rows[x]
    BY Zenon, <2>3, <1>3 DEF With
  <2> HIDE DEF after, rows, t, e, c, w
  <2>5. /\ w = Append(examples, iri) /\ Listed(w) /\ Len(w) = n + 1 /\ w[n + 1] = iri
        /\ \A i \in 1..n : w[i] = examples[i]
    BY <1>2, <1>3, ListedAppend DEF ExamplesHeld
  <2>6. IsFiniteSet(DOMAIN after) /\ Cardinality(DOMAIN after) = n + 1
    BY <1>1, <1>3, <2>4, FS_AddElement DEF ExamplesHeld, rows
  <2>7. ASSUME NEW i \in 1..Len(w)
        PROVE  LET x == Canonical(w[i])
               IN  /\ x \in DOMAIN after /\ after[x] = i - 1
                   /\ x \in DOMAIN Parsed /\ Parsed[x] = w[i] /\ w[i] # Error
    <3>1. CASE i = n + 1
      BY <3>1, <2>4, <2>5, <1>1 DEF Fit, c
    <3>2. CASE i \in 1..n
      BY <3>2, <2>4, <2>5 DEF ExamplesHeld, rows
    <3>3. QED BY <3>1, <3>2, <2>5, <1>1
  <2>8. ASSUME NEW x \in DOMAIN after PROVE \E i \in 1..Len(w) : Canonical(w[i]) = x
    <3>1. CASE x = c
      <4>1. n + 1 \in 1..Len(w) /\ Canonical(w[n + 1]) = x
        BY <3>1, <2>5, <1>1 DEF c
      <4>2. QED BY <4>1
    <3>2. CASE x \in DOMAIN rows
      <4>1. PICK i \in 1..n : Canonical(examples[i]) = x
        BY <3>2 DEF ExamplesHeld, rows
      <4>2. i \in 1..Len(w) /\ Canonical(w[i]) = x
        BY <4>1, <2>5, <1>1
      <4>3. QED BY <4>2
    <3>3. QED BY <3>1, <3>2, <2>4
  <2>9. ExamplesHeld(after, w)
    BY Zenon, <2>5, <2>6, <2>7, <2>8 DEF ExamplesHeld
  <2>10. QED BY <2>2, <2>3, <2>9 DEF e, w, after
<1>4. CASE ~kept
  <2>1. e = d
    BY <1>1, <1>4 DEF InsertExample
  <2>2. w = examples
    BY <1>2, <1>4
  <2> HIDE DEF e, w
  <2>3. SameButExamples(e, d)
    BY <2>1 DEF SameButExamples, SamePositions, SameCounts, SameParams
  <2>4. QED BY <2>1, <2>2, <2>3 DEF e, w
<1>5. QED BY <1>3, <1>4

-----------------------------------------------------------------------------
(* Clusters. *)

\* The rows hold the examples, counts and slots of one cluster.
PartsHeld(d, key, examples, segments, params) ==
    /\ ExamplesHeld(Where(d.cluster_examples, key), examples)
    /\ SegmentsHeld(Where(d.cluster_segments, key), segments)
    /\ params = SlotsOf(d, key)

\* And the cluster is what its rows make it, at its place in the order of clusters.
ClusterHeld(d, c, i) ==
    /\ c = [key |-> c.key, host |-> c.host, scheme |-> c.scheme, shape |-> c.shape,
            count |-> c.count, examples |-> c.examples, segments |-> c.segments,
            params |-> c.params]
    /\ c.key \in DOMAIN d.clusters
    /\ d.clusters[c.key] = [host |-> c.host, scheme |-> c.scheme, shape |-> c.shape,
                            count |-> c.count, ord |-> i]
    /\ PartsHeld(d, c.key, c.examples, c.segments, c.params)

\* The tables of clusters have the keys they should.
ClusterTables(d) ==
    /\ Pairs(d.cluster_examples) /\ Pairs(d.cluster_segments) /\ ParamTables(d)

\* The rows hold the clusters of the list, and no others.
ClustersHeld(d, u) ==
    /\ Listed(u)
    /\ IsFiniteSet(DOMAIN d.clusters) /\ Cardinality(DOMAIN d.clusters) = Len(u)
    /\ \A i \in 1..Len(u) : ClusterHeld(d, u[i], i)
    /\ \A k \in DOMAIN d.clusters : \E i \in 1..Len(u) : u[i].key = k
    /\ \A k : k \notin DOMAIN d.clusters => PartsHeld(d, k, <<>>, <<>>, <<>>)
    /\ ClusterTables(d)

\* The rows of one observation but those that count the cluster.
AddParts(d, key, iri) ==
    LET kept == InsertExample(d, key, iri)
        placed == [kept EXCEPT !.cluster_segments = CountSegments(@, key, iri.segments)]
    IN  ObserveParams(placed, key, iri.params)

\* An observation writes the rows of the examples, counts and slots memory makes.
LEMMA PartsStep ==
    ASSUME NEW d, NEW key, NEW iri, NEW examples, NEW segments, NEW params,
           Fit(iri), IsDb(d), ClusterTables(d), PartsHeld(d, key, examples, segments, params)
    PROVE  LET e == AddParts(d, key, iri)
           IN  /\ IsDb(e) /\ SamePositions(e, d) /\ SameCounts(e, d) /\ e.clusters = d.clusters
               /\ ClusterTables(e)
               /\ PartsHeld(e, key, Memory!AddExample(examples, iri),
                            Memory!AddSegments(segments, iri.segments),
                            Memory!AddParams(params, iri.params))
               /\ \A k, x, s, p : k # key /\ PartsHeld(d, k, x, s, p) => PartsHeld(e, k, x, s, p)
<1> DEFINE kept == InsertExample(d, key, iri)
           t == CountSegments(kept.cluster_segments, key, iri.segments)
           placed == [kept EXCEPT !.cluster_segments = t]
           e == ObserveParams(placed, key, iri.params)
<1>0. AddParts(d, key, iri) = e
  BY DEF AddParts
<1>1. /\ IsDb(kept) /\ SameButExamples(kept, d) /\ Pairs(kept.cluster_examples)
      /\ ExamplesHeld(Where(kept.cluster_examples, key), Memory!AddExample(examples, iri))
      /\ \A k : k # key => Where(kept.cluster_examples, k) = Where(d.cluster_examples, k)
  BY ExampleStep DEF ClusterTables, PartsHeld
<1> HIDE DEF kept
<1>2. /\ Pairs(t)
      /\ SegmentsHeld(Where(t, key), Memory!AddSegments(segments, iri.segments))
      /\ \A k : k # key => Where(t, k) = Where(d.cluster_segments, k)
  <2>1. kept.cluster_segments = d.cluster_segments
    BY <1>1 DEF SameButExamples
  <2>2. Pairs(kept.cluster_segments) /\ SegmentsHeld(Where(kept.cluster_segments, key), segments)
    BY <2>1 DEF ClusterTables, PartsHeld
  <2>3. Listed(iri.segments)
    BY DEF Fit
  <2>4. QED BY <2>1, <2>2, <2>3, SegmentsStep
<1> HIDE DEF t
<1>3. /\ IsDb(placed) /\ placed.cluster_segments = t
      /\ placed.cluster_examples = kept.cluster_examples
      /\ SamePositions(placed, d) /\ SameCounts(placed, d) /\ SameParams(placed, d)
      /\ placed.clusters = d.clusters
  BY <1>1 DEF IsDb, SameButExamples, SamePositions, SameCounts, SameParams
<1> HIDE DEF placed
<1>4. ParamTables(placed) /\ \A k : SlotsOf(placed, k) = SlotsOf(d, k)
  BY <1>3 DEF ClusterTables, ParamTables, SameParams, SlotsOf
<1>5. /\ IsDb(e) /\ SameOthers(e, placed) /\ ParamTables(e)
      /\ SlotsOf(e, key) = Memory!AddParams(SlotsOf(placed, key), iri.params)
      /\ \A k : k # key => SlotsOf(e, k) = SlotsOf(placed, k)
  BY <1>3, <1>4, ParamsKeepStep DEF Fit
<1> HIDE DEF e
<1>6. /\ SamePositions(e, d) /\ SameCounts(e, d) /\ e.clusters = d.clusters
      /\ e.cluster_examples = kept.cluster_examples /\ e.cluster_segments = t
  BY <1>3, <1>5 DEF SameOthers, SamePositions, SameCounts
<1>7. ClusterTables(e)
  BY <1>1, <1>2, <1>5, <1>6 DEF ClusterTables
<1>8. PartsHeld(e, key, Memory!AddExample(examples, iri),
                Memory!AddSegments(segments, iri.segments), Memory!AddParams(params, iri.params))
  <2>1. params = SlotsOf(placed, key)
    BY <1>4 DEF PartsHeld
  <2>2. QED BY <2>1, <1>1, <1>2, <1>5, <1>6 DEF PartsHeld
<1>9. ASSUME NEW k, NEW x, NEW s, NEW p, k # key, PartsHeld(d, k, x, s, p)
      PROVE  PartsHeld(e, k, x, s, p)
  BY <1>1, <1>2, <1>4, <1>5, <1>6, <1>9 DEF PartsHeld
<1>10. QED BY <1>0, <1>5, <1>6, <1>7, <1>8, <1>9

\* A new cluster comes after all there are.
LEMMA NextInOrder ==
    ASSUME NEW d, NEW u, ClustersHeld(d, u)
    PROVE  NextOrd(d) = Len(u) + 1
<1>1. Len(u) \in Nat
  BY ListedDomain DEF ClustersHeld
<1> DEFINE ords == {d.clusters[k].ord : k \in DOMAIN d.clusters} \union {0}
           n == Len(u)
<1>2. ASSUME NEW x \in ords PROVE x \in 0..n
  <2> SUFFICES ASSUME NEW k \in DOMAIN d.clusters, x = d.clusters[k].ord PROVE x \in 0..n
    BY <1>1
  <2>1. PICK i \in 1..n : u[i].key = k
    BY DEF ClustersHeld
  <2>2. ClusterHeld(d, u[i], i)
    BY DEF ClustersHeld
  <2>3. x = i
    BY <2>1, <2>2 DEF ClusterHeld
  <2>4. QED BY <2>3, <1>1
<1>3. n \in ords
  <2>1. CASE n = 0
    BY <2>1
  <2>2. CASE n # 0
    <3>1. n \in 1..n
      BY <1>1, <2>2
    <3>2. ClusterHeld(d, u[n], n)
      BY <3>1 DEF ClustersHeld
    <3>3. u[n].key \in DOMAIN d.clusters /\ d.clusters[u[n].key].ord = n
      BY <3>2 DEF ClusterHeld
    <3>4. QED BY <3>3
  <2>3. QED BY <2>1, <2>2
<1>4. Max(ords) = n
  <2> HIDE DEF ords
  <2>1. \A x \in ords : x \in Nat /\ n >= x
    BY <1>1, <1>2
  <2>2. QED BY <1>1, <1>3, <2>1 DEF Max
<1>5. NextOrd(d) = Max(ords) + 1
  BY DEF NextOrd
<1>6. QED BY <1>4, <1>5

\* The cluster counted once more, its other rows as they were.
LEMMA BumpStep ==
    ASSUME NEW d, NEW u, NEW k, IsDb(d), ClustersHeld(d, u)
    PROVE  LET e == BumpCluster(d, k)
               known == k.key \in DOMAIN d.clusters
           IN  /\ IsDb(e) /\ SamePositions(e, d) /\ SameCounts(e, d)
               /\ e.cluster_examples = d.cluster_examples
               /\ e.cluster_segments = d.cluster_segments /\ SameParams(e, d)
               /\ e.clusters =
                    With(d.clusters, k.key,
                         IF known THEN [d.clusters[k.key] EXCEPT !.count = @ + 1]
                         ELSE [host |-> k.host, scheme |-> k.scheme, shape |-> k.shape,
                               count |-> 1, ord |-> Len(u) + 1])
<1> DEFINE e == BumpCluster(d, k)
           row == IF k.key \in DOMAIN d.clusters THEN [d.clusters[k.key] EXCEPT !.count = @ + 1]
                  ELSE [host |-> k.host, scheme |-> k.scheme, shape |-> k.shape,
                        count |-> 1, ord |-> Len(u) + 1]
           t == With(d.clusters, k.key, row)
<1>1. e = [d EXCEPT !.clusters = t]
  <2>1. CASE k.key \in DOMAIN d.clusters
    <3>1. e = [d EXCEPT !.clusters = [d.clusters EXCEPT ![k.key] = [d.clusters[k.key] EXCEPT !.count = @ + 1]]]
      BY <2>1 DEF BumpCluster
    <3>2. t = [d.clusters EXCEPT ![k.key] = row]
      BY <2>1 DEF With
    <3>3. QED BY <3>1, <3>2, <2>1
  <2>2. CASE k.key \notin DOMAIN d.clusters
    BY <2>2, NextInOrder DEF BumpCluster
  <2>3. QED BY <2>1, <2>2
<1> HIDE DEF t, e
<1>2. /\ IsDb(e) /\ SamePositions(e, d) /\ SameCounts(e, d)
      /\ e.cluster_examples = d.cluster_examples
      /\ e.cluster_segments = d.cluster_segments /\ SameParams(e, d)
      /\ e.clusters = t
  BY <1>1 DEF IsDb, SamePositions, SameCounts, SameParams
<1>3. QED BY <1>2 DEF e, t

\* An observation writes the rows of the cluster memory makes, and of no other.
LEMMA ClusterStep ==
    ASSUME NEW d, NEW u, NEW k, NEW iri, Fit(iri), IsDb(d), ClustersHeld(d, u)
    PROVE  LET e == AddToCluster(d, k, iri)
           IN  /\ IsDb(e) /\ SamePositions(e, d) /\ SameCounts(e, d)
               /\ ClustersHeld(e, Memory!AddToCluster(u, k, iri))
<1> DEFINE b == BumpCluster(d, k)
           e == AddParts(b, k.key, iri)
           known == k.key \in DOMAIN d.clusters
           row == IF known THEN [d.clusters[k.key] EXCEPT !.count = @ + 1]
                  ELSE [host |-> k.host, scheme |-> k.scheme, shape |-> k.shape,
                        count |-> 1, ord |-> Len(u) + 1]
           w == Memory!AddToCluster(u, k, iri)
<1>0. AddToCluster(d, k, iri) = e
  BY DEF AddToCluster, AddParts
<1>1. /\ Listed(u) /\ Len(u) \in Nat /\ DOMAIN u = 1..Len(u)
      /\ \A i \in 1..Len(u) : ClusterHeld(d, u[i], i)
      /\ \A j \in DOMAIN d.clusters : \E i \in 1..Len(u) : u[i].key = j
      /\ \A j : j \notin DOMAIN d.clusters => PartsHeld(d, j, <<>>, <<>>, <<>>)
  BY ListedDomain DEF ClustersHeld
<1>2. /\ IsDb(b) /\ SamePositions(b, d) /\ SameCounts(b, d) /\ SameParams(b, d)
      /\ b.cluster_examples = d.cluster_examples
      /\ b.cluster_segments = d.cluster_segments
      /\ b.clusters = With(d.clusters, k.key, row)
  BY BumpStep
<1> HIDE DEF b
<1>3. /\ ClusterTables(b)
      /\ \A j, x, s, p : PartsHeld(d, j, x, s, p) <=> PartsHeld(b, j, x, s, p)
  BY <1>2 DEF ClustersHeld, ClusterTables, ParamTables, PartsHeld, SlotsOf, SameParams
\* The entry before and after.
<1> DEFINE Grown(c) == Memory!Add(c, iri)
<1>4. ASSUME NEW x, NEW s, NEW p, PartsHeld(d, k.key, x, s, p)
      PROVE  /\ IsDb(e) /\ SamePositions(e, d) /\ SameCounts(e, d)
             /\ e.clusters = With(d.clusters, k.key, row)
             /\ ClusterTables(e)
             /\ PartsHeld(e, k.key, Memory!AddExample(x, iri),
                          Memory!AddSegments(s, iri.segments), Memory!AddParams(p, iri.params))
             /\ \A j, x2, s2, p2 : j # k.key /\ PartsHeld(d, j, x2, s2, p2)
                                   => PartsHeld(e, j, x2, s2, p2)
  <2>1. PartsHeld(b, k.key, x, s, p)
    BY <1>3, <1>4
  <2>2. /\ IsDb(e) /\ SamePositions(e, b) /\ SameCounts(e, b) /\ e.clusters = b.clusters
        /\ ClusterTables(e)
        /\ PartsHeld(e, k.key, Memory!AddExample(x, iri),
                     Memory!AddSegments(s, iri.segments), Memory!AddParams(p, iri.params))
        /\ \A j, x2, s2, p2 : j # k.key /\ PartsHeld(b, j, x2, s2, p2)
                              => PartsHeld(e, j, x2, s2, p2)
    <3> HIDE DEF e
    <3>1. QED BY <1>2, <1>3, <2>1, PartsStep DEF e
  <2> HIDE DEF e, row
  <2>3. SamePositions(e, d) /\ SameCounts(e, d)
    BY <1>2, <2>2 DEF SamePositions, SameCounts
  <2>4. QED BY <1>2, <1>3, <2>2, <2>3
<1> HIDE DEF e, w
<1>5. \A i, j \in 1..Len(u) : u[i].key = u[j].key => i = j
  <2> SUFFICES ASSUME NEW i \in 1..Len(u), NEW j \in 1..Len(u), u[i].key = u[j].key
               PROVE  i = j
    OBVIOUS
  <2>1. ClusterHeld(d, u[i], i) /\ ClusterHeld(d, u[j], j)
    BY <1>1
  <2>2. d.clusters[u[i].key].ord = i /\ d.clusters[u[j].key].ord = j
    BY <2>1 DEF ClusterHeld
  <2>3. QED BY <2>2
<1>6. CASE known
  <2>1. PICK i \in 1..Len(u) : u[i].key = k.key
    BY <1>1, <1>6
  <2>2. Memory!IndexOf(u, k.key) = {i} /\ Memory!Min({i}) = i
    <3>1. Listed(u) /\ i \in 1..Len(u)
      BY <1>1, <2>1
    <3>2. \A j \in 1..Len(u) : u[j].key = u[i].key => j = i
      BY ONLY Zenon, <1>5, <3>1
    <3>3. QED BY ONLY Zenon, <2>1, <3>1, <3>2, OnlyIndex
  <2> DEFINE c == u[i]
             entry == Memory!Add(c, iri)
  <2>3. ClusterHeld(d, c, i)
    BY <1>1
  <2>4. w = [u EXCEPT ![i] = entry]
    BY Zenon, <2>2 DEF Memory!AddToCluster, w
  <2>5. entry = [key |-> c.key, host |-> c.host, scheme |-> c.scheme, shape |-> c.shape,
                 count |-> c.count + 1, examples |-> Memory!AddExample(c.examples, iri),
                 segments |-> Memory!AddSegments(c.segments, iri.segments),
                 params |-> Memory!AddParams(c.params, iri.params)]
    <3> DEFINE x == Memory!AddExample(c.examples, iri)
               s == Memory!AddSegments(c.segments, iri.segments)
               p == Memory!AddParams(c.params, iri.params)
    <3>1. entry = [c EXCEPT !.count = c.count + 1, !.examples = x, !.segments = s, !.params = p]
      BY DEF Memory!Add
    <3>2. c = [key |-> c.key, host |-> c.host, scheme |-> c.scheme, shape |-> c.shape,
               count |-> c.count, examples |-> c.examples, segments |-> c.segments,
               params |-> c.params]
      BY <2>3 DEF ClusterHeld
    <3> HIDE DEF x, s, p, c, entry
    <3>3. entry = [[[[c EXCEPT !.count = c.count + 1] EXCEPT !.examples = x]
                      EXCEPT !.segments = s] EXCEPT !.params = p]
      BY <3>1
    <3>4. QED BY Zenon, <3>2, <3>3 DEF x, s, p
  <2> HIDE DEF entry
  <2>6. /\ Listed(w) /\ Len(w) = Len(u) /\ w[i] = entry
        /\ \A j \in 1..Len(u) : j # i => w[j] = u[j]
    BY Zenon, <1>1, <2>4, ListedExcept
  <2>7. PartsHeld(d, k.key, c.examples, c.segments, c.params)
    BY <2>1, <2>3 DEF ClusterHeld
  <2>8. /\ IsDb(e) /\ SamePositions(e, d) /\ SameCounts(e, d) /\ ClusterTables(e)
        /\ e.clusters = With(d.clusters, k.key, row)
        /\ PartsHeld(e, k.key, entry.examples, entry.segments, entry.params)
        /\ \A j, x2, s2, p2 : j # k.key /\ PartsHeld(d, j, x2, s2, p2)
                              => PartsHeld(e, j, x2, s2, p2)
    <3> HIDE DEF row
    <3>1. QED BY <1>4, <2>5, <2>7
  <2>9. row = [host |-> c.host, scheme |-> c.scheme, shape |-> c.shape,
               count |-> c.count + 1, ord |-> i]
    BY <2>1, <2>3, <1>6 DEF ClusterHeld
  <2>10. /\ DOMAIN e.clusters = DOMAIN d.clusters /\ e.clusters[k.key] = row
         /\ \A j \in DOMAIN d.clusters : j # k.key => e.clusters[j] = d.clusters[j]
    <3> HIDE DEF row
    <3>1. QED BY <2>8, <1>6 DEF With
  <2> HIDE DEF row
  <2>11. ASSUME NEW j \in 1..Len(w) PROVE ClusterHeld(e, w[j], j)
    <3>1. CASE j = i
      BY <3>1, <2>1, <2>5, <2>6, <2>8, <2>9, <2>10, <1>6 DEF ClusterHeld
    <3>2. CASE j # i
      <4>1. w[j] = u[j] /\ u[j].key # k.key /\ ClusterHeld(d, u[j], j)
        BY <3>2, <2>1, <2>6, <1>1, <1>5
      <4>2. QED BY <4>1, <2>8, <2>10 DEF ClusterHeld
    <3>3. QED BY <3>1, <3>2
  <2>12. \A j \in DOMAIN e.clusters : \E m \in 1..Len(w) : w[m].key = j
    <3>1. \A m \in 1..Len(w) : w[m].key = u[m].key
      BY <2>1, <2>5, <2>6
    <3>2. QED BY <3>1, <1>1, <2>6, <2>10
  <2>13. \A j : j \notin DOMAIN e.clusters => PartsHeld(e, j, <<>>, <<>>, <<>>)
    BY <1>1, <1>6, <2>8, <2>10
  <2>14. ClustersHeld(e, w)
    BY <2>6, <2>8, <2>10, <2>11, <2>12, <2>13 DEF ClustersHeld
  <2>15. QED BY <1>0, <2>8, <2>14 DEF w
<1>7. CASE ~known
  <2>1. Memory!IndexOf(u, k.key) = {}
    <3>1. \A i \in 1..Len(u) : u[i].key # k.key
      BY Zenon, <1>1, <1>7 DEF ClusterHeld
    <3>2. QED BY <1>1, <3>1 DEF Memory!IndexOf
  <2> DEFINE entry == Memory!Add(Memory!NewCluster(k), iri)
             n == Len(u) + 1
  <2>2. w = Append(u, entry)
    BY <2>1 DEF Memory!AddToCluster, w
  <2>3. entry = [key |-> k.key, host |-> k.host, scheme |-> k.scheme, shape |-> k.shape,
                 count |-> 1, examples |-> Memory!AddExample(<<>>, iri),
                 segments |-> Memory!AddSegments(<<>>, iri.segments),
                 params |-> Memory!AddParams(<<>>, iri.params)]
    <3> DEFINE c == Memory!NewCluster(k)
               x == Memory!AddExample(c.examples, iri)
               s == Memory!AddSegments(c.segments, iri.segments)
               p == Memory!AddParams(c.params, iri.params)
    <3>1. entry = [c EXCEPT !.count = c.count + 1, !.examples = x, !.segments = s, !.params = p]
      BY DEF Memory!Add
    <3>2. c = [key |-> k.key, host |-> k.host, scheme |-> k.scheme, shape |-> k.shape,
               count |-> 0, examples |-> <<>>, segments |-> <<>>, params |-> <<>>]
      BY DEF Memory!NewCluster
    <3> HIDE DEF x, s, p, c, entry
    <3>3. entry = [[[[c EXCEPT !.count = c.count + 1] EXCEPT !.examples = x]
                      EXCEPT !.segments = s] EXCEPT !.params = p]
      BY <3>1
    <3>4. entry = [key |-> k.key, host |-> k.host, scheme |-> k.scheme, shape |-> k.shape,
                   count |-> 0 + 1, examples |-> x, segments |-> s, params |-> p]
      BY Zenon, <3>2, <3>3
    <3>5. /\ x = Memory!AddExample(<<>>, iri) /\ s = Memory!AddSegments(<<>>, iri.segments)
          /\ p = Memory!AddParams(<<>>, iri.params)
      BY <3>2 DEF x, s, p
    <3>6. QED BY <3>4, <3>5
  <2> HIDE DEF entry
  <2>4. /\ Listed(w) /\ Len(w) = n /\ w[n] = entry
        /\ \A j \in 1..Len(u) : w[j] = u[j]
    BY <1>1, <2>2, ListedAppend
  <2>5. PartsHeld(d, k.key, <<>>, <<>>, <<>>)
    BY <1>1, <1>7
  <2>6. /\ IsDb(e) /\ SamePositions(e, d) /\ SameCounts(e, d) /\ ClusterTables(e)
        /\ e.clusters = With(d.clusters, k.key, row)
        /\ PartsHeld(e, k.key, entry.examples, entry.segments, entry.params)
        /\ \A j, x2, s2, p2 : j # k.key /\ PartsHeld(d, j, x2, s2, p2)
                              => PartsHeld(e, j, x2, s2, p2)
    <3> HIDE DEF row
    <3>1. QED BY <1>4, <2>3, <2>5
  <2>7. /\ DOMAIN e.clusters = DOMAIN d.clusters \union {k.key} /\ e.clusters[k.key] = row
        /\ \A j \in DOMAIN d.clusters : e.clusters[j] = d.clusters[j]
    <3> HIDE DEF row
    <3>1. QED BY <2>6, <1>7 DEF With
  <2>8. ASSUME NEW j \in 1..Len(w) PROVE ClusterHeld(e, w[j], j)
    <3>1. CASE j = n
      BY <3>1, <2>3, <2>4, <2>6, <2>7, <1>7 DEF ClusterHeld
    <3>2. CASE j \in 1..Len(u)
      <4>1. w[j] = u[j] /\ ClusterHeld(d, u[j], j) /\ u[j].key \in DOMAIN d.clusters
            /\ u[j].key # k.key
        BY <3>2, <2>4, <1>1, <1>7 DEF ClusterHeld
      <4>2. QED BY <4>1, <2>6, <2>7 DEF ClusterHeld
    <3>3. QED BY <3>1, <3>2, <2>4, <1>1
  <2>9. \A j \in DOMAIN e.clusters : \E m \in 1..Len(w) : w[m].key = j
    <3>1. \A m \in 1..Len(u) : w[m].key = u[m].key /\ m \in 1..Len(w)
      BY <2>4, <1>1
    <3>2. w[n].key = k.key /\ n \in 1..Len(w)
      BY <2>3, <2>4, <1>1
    <3>3. QED BY <3>1, <3>2, <1>1, <2>7
  <2>10. \A j : j \notin DOMAIN e.clusters => PartsHeld(e, j, <<>>, <<>>, <<>>)
    BY <1>1, <2>6, <2>7
  <2>11. IsFiniteSet(DOMAIN e.clusters) /\ Cardinality(DOMAIN e.clusters) = Len(w)
    <3> HIDE DEF row
    <3>1. QED BY <1>7, <2>4, <2>7, FS_AddElement DEF ClustersHeld
  <2>12. ClustersHeld(e, w)
    BY Zenon, <2>4, <2>6, <2>8, <2>9, <2>10, <2>11 DEF ClustersHeld
  <2>13. QED BY <1>0, <2>6, <2>12 DEF w
<1>8. QED BY <1>6, <1>7

-----------------------------------------------------------------------------
(* One observation. *)

\* The tables hold the views, row for row.
Mirrors(d, v) ==
    /\ IsDb(d) /\ PositionsHeld(d, v.positions) /\ ClustersHeld(d, v.clusters)
    /\ v = [hosts |-> d.host_counts, lengths |-> d.path_length_counts,
            raw_shapes |-> d.raw_shape_counts, fingerprints |-> d.fingerprint_counts,
            positions |-> v.positions, clusters |-> v.clusters]

\* Nothing else matters to the positions and to the clusters than their own tables.
LEMMA PositionsOf ==
    ASSUME NEW d, NEW e, NEW u, SamePositions(d, e), PositionsHeld(d, u)
    PROVE  PositionsHeld(e, u)
BY DEF PositionsHeld, PositionHeld, SamePositions

LEMMA ClustersOf ==
    ASSUME NEW d, NEW e, NEW u, SameClusters(d, e), ClustersHeld(d, u)
    PROVE  ClustersHeld(e, u)
<1>1. \A k, x, s, p : PartsHeld(d, k, x, s, p) <=> PartsHeld(e, k, x, s, p)
  BY DEF SameClusters, PartsHeld, SlotsOf
<1>2. ClusterTables(e)
  BY DEF SameClusters, ClustersHeld, ClusterTables, ParamTables
<1>3. QED BY <1>1, <1>2 DEF SameClusters, ClustersHeld, ClusterHeld

\* One observation, applied to the tables and to the views.
LEMMA ApplyStep ==
    ASSUME NEW d, NEW v, NEW e, Mirrors(d, v), Fit(e.iri), Listed(e.positions)
    PROVE  Mirrors(Apply(d, e), Memory!Apply(v, e))
<1> DEFINE h == UpsertCount(d.host_counts, e.host)
           l == UpsertCount(d.path_length_counts, e.length)
           r == UpsertCount(d.raw_shape_counts, e.raw_shape)
           f == UpsertCount(d.fingerprint_counts, e.fingerprint)
           counted == [d EXCEPT !.host_counts = h, !.path_length_counts = l,
                                !.raw_shape_counts = r, !.fingerprint_counts = f]
           placed == ObservePositions(counted, e.positions)
           new == AddToCluster(placed, e.cluster, e.iri)
           positions == Memory!ObservePositions(v.positions, e.positions)
           clusters == Memory!AddToCluster(v.clusters, e.cluster, e.iri)
<1>0. Apply(d, e) = new
  BY DEF Apply
<1>1. /\ IsDb(counted) /\ SamePositions(d, counted) /\ SameClusters(d, counted)
      /\ counted.host_counts = h /\ counted.path_length_counts = l
      /\ counted.raw_shape_counts = r /\ counted.fingerprint_counts = f
  <2> HIDE DEF h, l, r, f, counted
  <2>1. counted = [[[[d EXCEPT !.host_counts = h] EXCEPT !.path_length_counts = l]
                     EXCEPT !.raw_shape_counts = r] EXCEPT !.fingerprint_counts = f]
    BY DEF counted
  <2>2. QED BY Zenon, <2>1 DEF Mirrors, IsDb, SamePositions, SameClusters
<1> HIDE DEF counted, placed, new, positions, clusters
<1>2. PositionsHeld(counted, v.positions) /\ ClustersHeld(counted, v.clusters)
  BY <1>1, PositionsOf, ClustersOf DEF Mirrors
<1>3. /\ IsDb(placed) /\ SameClusters(placed, counted) /\ SameCounts(placed, counted)
      /\ PositionsHeld(placed, positions)
  BY <1>1, <1>2, PositionsKeepStep DEF placed, positions
<1>4. ClustersHeld(placed, v.clusters)
  <2>1. SameClusters(counted, placed)
    BY <1>3 DEF SameClusters
  <2>2. QED BY <1>2, <2>1, ClustersOf
<1>5. /\ IsDb(new) /\ SamePositions(new, placed) /\ SameCounts(new, placed)
      /\ ClustersHeld(new, clusters)
  BY <1>3, <1>4, ClusterStep DEF new, clusters
<1>6. PositionsHeld(new, positions)
  <2>1. SamePositions(placed, new)
    BY <1>5 DEF SamePositions
  <2>2. QED BY <1>3, <2>1, PositionsOf
<1>7. /\ new.host_counts = h /\ new.path_length_counts = l
      /\ new.raw_shape_counts = r /\ new.fingerprint_counts = f
  BY <1>1, <1>3, <1>5 DEF SameCounts
<1>8. Memory!Apply(v, e) =
        [hosts |-> h, lengths |-> l, raw_shapes |-> r, fingerprints |-> f,
         positions |-> positions, clusters |-> clusters]
  <2>1. /\ v.hosts = d.host_counts /\ v.lengths = d.path_length_counts
        /\ v.raw_shapes = d.raw_shape_counts /\ v.fingerprints = d.fingerprint_counts
    BY DEF Mirrors
  <2>2. QED BY <2>1, SameIncrement DEF Memory!Apply, UpsertCount, positions, clusters
<1> HIDE DEF h, l, r, f
<1>9. QED BY <1>0, <1>5, <1>6, <1>7, <1>8 DEF Mirrors

\* Empty tables hold the empty views.
LEMMA EmptyTable == \A k : Where(NoRows, k) = EmptyBag /\ Where(NoRows, k) = NoRows
BY DEF Where, NoRows, EmptyBag, SetToBag

LEMMA EmptyMirrors == Mirrors(EmptyTables, Memory!EmptyViews)
<1> DEFINE d == EmptyTables
<1>1. /\ IsDb(d) /\ Pairs(NoRows) /\ DOMAIN NoRows = {}
      /\ \A k : Where(NoRows, k) = EmptyBag /\ Where(NoRows, k) = NoRows
  BY EmptyTable DEF EmptyTables, IsDb, Pairs, NoRows
<1>2. Listed(<<>>) /\ Len(<<>>) = 0 /\ IsFiniteSet({}) /\ Cardinality({}) = 0
  BY FS_EmptySet DEF Listed
<1>3. PositionsHeld(d, <<>>)
  BY <1>1, <1>2 DEF PositionsHeld, EmptyTables
<1>4. \A k : PartsHeld(d, k, <<>>, <<>>, <<>>)
  <2> SUFFICES ASSUME NEW k PROVE PartsHeld(d, k, <<>>, <<>>, <<>>)
    OBVIOUS
  <2>1. SlotsOf(d, k) = <<>>
    BY <1>1 DEF SlotsOf, EmptyTables
  <2>2. ExamplesHeld(NoRows, <<>>) /\ SegmentsHeld(NoRows, <<>>)
    BY <1>1, <1>2 DEF ExamplesHeld, SegmentsHeld
  <2>3. QED BY <1>1, <2>1, <2>2 DEF PartsHeld, EmptyTables
<1>5. ClusterTables(d)
  BY <1>1 DEF ClusterTables, ParamTables, EmptyTables
<1>6. ClustersHeld(d, <<>>)
  BY <1>1, <1>2, <1>4, <1>5 DEF ClustersHeld, EmptyTables
<1>7. Memory!EmptyViews = [hosts |-> NoRows, lengths |-> NoRows, raw_shapes |-> NoRows,
                           fingerprints |-> NoRows, positions |-> <<>>, clusters |-> <<>>]
  BY <1>1, SameEmptyBag DEF Memory!EmptyViews
<1>8. QED BY <1>1, <1>3, <1>6, <1>7 DEF Mirrors, EmptyTables

-----------------------------------------------------------------------------
(* The tables read back. *)

\* Keys ranked 1, 2, 3... are listed by rank.
LEMMA InOrderIs ==
    ASSUME NEW n \in Nat, NEW s, NEW order,
           s = [i \in 1..n |-> s[i]], DOMAIN order = {s[i] : i \in 1..n},
           \A i, j \in 1..n : order[s[i]] < order[s[j]] <=> i < j
    PROVE  InOrder(order) = s
<1> DEFINE keys == DOMAIN order
           Earlier(k) == {j \in keys : order[j] < order[k]}
<1>1. \A m \in 0..n : Cardinality({s[j] : j \in 1..m}) = m
  <2> SUFFICES ASSUME NEW m \in 0..n PROVE Cardinality({s[j] : j \in 1..m}) = m
    OBVIOUS
  <2> DEFINE T == {s[j] : j \in 1..m}
             f == [j \in 1..m |-> s[j]]
  <2>1. f \in Bijection(1..m, T)
    <3>1. \A i, j \in 1..m : s[i] = s[j] => i = j
      <4> SUFFICES ASSUME NEW i \in 1..m, NEW j \in 1..m, s[i] = s[j] PROVE i = j
        BY Zenon
      <4>1. ~(i < j) /\ ~(j < i)
        OBVIOUS
      <4>2. QED BY <4>1
    <3>2. f \in [1..m -> T]
      OBVIOUS
    <3>3. f \in Injection(1..m, T)
      BY Zenon, <3>1, <3>2 DEF Injection, IsInjective
    <3>4. f \in Surjection(1..m, T)
      BY Zenon, <3>2 DEF Surjection
    <3>5. QED BY <3>3, <3>4 DEF Bijection
  <2>2. ExistsBijection(1..m, T)
    BY <2>1 DEF ExistsBijection
  <2>3. m \in Nat
    OBVIOUS
  <2> HIDE DEF T
  <2>4. Cardinality(T) = m
    BY <2>2, <2>3, FS_CountingElements
  <2>5. QED BY <2>4 DEF T
<1>2. Cardinality(keys) = n
  BY <1>1
<1>3. ASSUME NEW i \in 1..n PROVE Cardinality(Earlier(s[i])) = i - 1
  <2>1. Earlier(s[i]) = {s[j] : j \in 1..(i - 1)}
    <3>1. \A j \in 1..n : order[s[j]] < order[s[i]] <=> j \in 1..(i - 1)
      <4> SUFFICES ASSUME NEW j \in 1..n
                   PROVE  order[s[j]] < order[s[i]] <=> j \in 1..(i - 1)
        OBVIOUS
      <4>1. order[s[j]] < order[s[i]] <=> j < i
        OBVIOUS
      <4>2. QED BY <4>1
    <3>2. \A x \in Earlier(s[i]) : x \in {s[j] : j \in 1..(i - 1)}
      BY <3>1
    <3>3. \A j \in 1..(i - 1) : s[j] \in Earlier(s[i])
      <4> SUFFICES ASSUME NEW j \in 1..(i - 1) PROVE s[j] \in Earlier(s[i])
        BY Zenon
      <4>1. j \in 1..n
        OBVIOUS
      <4>2. QED BY <3>1, <4>1
    <3> DEFINE A == Earlier(s[i])
               B == {s[j] : j \in 1..(i - 1)}
    <3>4. \A x \in A : x \in B
      BY Zenon, <3>2
    <3>5. \A x \in B : x \in A
      <4> SUFFICES ASSUME NEW x \in B PROVE x \in A
        BY Zenon
      <4>1. PICK j \in 1..(i - 1) : x = s[j]
        OBVIOUS
      <4> HIDE DEF Earlier
      <4>2. QED BY Zenon, <4>1, <3>3
    <3> HIDE DEF A, B
    <3>7. A = B
      BY Zenon, <3>4, <3>5
    <3>8. QED BY Zenon, <3>7 DEF A, B
  <2>2. i - 1 \in 0..n
    OBVIOUS
  <2>3. QED BY Zenon, <1>1, <2>1, <2>2
<1>4. ASSUME NEW i \in 1..n PROVE (CHOOSE k \in keys : Cardinality(Earlier(k)) = i - 1) = s[i]
  <2>1. s[i] \in keys
    OBVIOUS
  <2>2. ASSUME NEW k \in keys, Cardinality(Earlier(k)) = i - 1 PROVE k = s[i]
    <3>1. PICK j \in 1..n : k = s[j]
      BY <2>2
    <3>2. Cardinality(Earlier(k)) = j - 1
      BY Zenon, <1>3, <3>1
    <3>3. QED BY <2>2, <3>1, <3>2
  <2> HIDE DEF keys, Earlier
  <2>3. Cardinality(Earlier(s[i])) = i - 1
    BY <1>3
  <2>4. QED BY <2>1, <2>2, <2>3
<1>5. InOrder(order) =
        [i \in 1..Cardinality(keys) |-> CHOOSE k \in keys : Cardinality(Earlier(k)) = i - 1]
  BY DEF InOrder
<1> HIDE DEF keys, Earlier
<1>6. QED BY <1>2, <1>4, <1>5

\* The positions, examples, segments and clusters read back are those held.
LEMMA PositionsRead ==
    ASSUME NEW u, PositionsHeld(db, u)
    PROVE  LoadPositions = u
<1>1. /\ Len(u) \in Nat /\ u = [i \in 1..Len(u) |-> u[i]]
      /\ \A i \in 1..Len(u) : PositionHeld(db, u[i], i)
      /\ \A k \in DOMAIN db.position_stats : \E i \in 1..Len(u) : u[i].key = k
  BY ListedDomain DEF PositionsHeld
<1> DEFINE n == Len(u)
           s == [i \in 1..n |-> u[i].key]
           order == [k \in DOMAIN db.position_stats |-> db.position_stats[k].rowid]
<1>2. ASSUME NEW i \in 1..n
      PROVE  /\ u[i].key \in DOMAIN db.position_stats
             /\ db.position_stats[u[i].key].rowid = i
             /\ db.position_stats[u[i].key].total = u[i].stats.total
             /\ u[i] = [key |-> u[i].key,
                        stats |-> [total |-> u[i].stats.total,
                                   types |-> Where(db.position_types, u[i].key),
                                   values |-> Where(db.position_values, u[i].key)]]
  <2>1. PositionHeld(db, u[i], i)
    BY <1>1
  <2>2. QED BY <2>1 DEF PositionHeld
<1>3. DOMAIN order = {s[i] : i \in 1..n}
  BY <1>1, <1>2
<1>4. \A i \in 1..n : order[s[i]] = i
  <2> SUFFICES ASSUME NEW i \in 1..n PROVE order[s[i]] = i
    BY Zenon
  <2>1. s[i] = u[i].key
    OBVIOUS
  <2>3. u[i].key \in DOMAIN db.position_stats /\ db.position_stats[u[i].key].rowid = i
    BY Zenon, <1>2
  <2> HIDE DEF s
  <2>2. QED BY <2>1, <2>3
<1> HIDE DEF order
<1>5. InOrder(order) = s
  <2> DEFINE r == s
  <2>1. n \in Nat /\ r = [i \in 1..n |-> r[i]]
    BY <1>1
  <2>2. DOMAIN order = {r[i] : i \in 1..n}
    BY <1>3
  <2>3. \A i, j \in 1..n : order[r[i]] < order[r[j]] <=> i < j
    <3> HIDE DEF s
    <3>1. QED BY <1>4
  <2> HIDE DEF r, n
  <2>4. InOrder(order) = r
    BY Zenon, <2>1, <2>2, <2>3, InOrderIs
  <2>5. QED BY <2>4 DEF r
<1> DEFINE entry(k) == [key |-> k,
                        stats |-> LoadStats(db.position_stats[k].total,
                                            Where(db.position_types, k),
                                            Where(db.position_values, k))]
<1>6. LoadPositions = [i \in DOMAIN s |-> entry(s[i])]
  BY Zenon, <1>5 DEF LoadPositions, order
<1>7. ASSUME NEW i \in 1..n PROVE entry(s[i]) = u[i]
  <2>1. s[i] = u[i].key
    OBVIOUS
  <2> HIDE DEF s
  <2>2. entry(u[i].key) = [key |-> u[i].key,
                           stats |-> [total |-> u[i].stats.total,
                                      types |-> Where(db.position_types, u[i].key),
                                      values |-> Where(db.position_values, u[i].key)]]
    BY <1>2 DEF LoadStats
  <2> HIDE DEF entry
  <2>3. QED BY <2>1, <2>2, <1>2
<1>8. DOMAIN s = 1..n
  OBVIOUS
<1> HIDE DEF entry, s
<1>9. QED BY <1>1, <1>6, <1>7, <1>8

LEMMA ExamplesRead ==
    ASSUME NEW rows, NEW examples, ExamplesHeld(rows, examples)
    PROVE  LoadExamples(rows) = examples
<1> DEFINE n == Len(examples)
           s == [i \in 1..n |-> Canonical(examples[i])]
           parsing == {c \in DOMAIN rows : Parsed[c] # Error}
           order == [c \in parsing |-> rows[c]]
<1>1. n \in Nat /\ examples = [i \in 1..n |-> examples[i]]
  BY ListedDomain DEF ExamplesHeld
<1>2. \A i \in 1..n : /\ s[i] \in DOMAIN rows /\ rows[s[i]] = i - 1
                      /\ Parsed[s[i]] = examples[i] /\ examples[i] # Error
  BY DEF ExamplesHeld
<1>3. \A c \in DOMAIN rows : \E i \in 1..n : s[i] = c
  BY DEF ExamplesHeld
<1> DEFINE r == s
<1>4. /\ r = [i \in 1..n |-> r[i]] /\ DOMAIN order = {r[i] : i \in 1..n}
      /\ \A i, j \in 1..n : order[r[i]] < order[r[j]] <=> i < j
  <2>1. DOMAIN order = parsing
    OBVIOUS
  <2>2. r = [i \in 1..n |-> r[i]]
    OBVIOUS
  <2> HIDE DEF s
  <2>3. \A i \in 1..n : s[i] \in parsing
    BY <1>2
  <2>4. \A c \in parsing : \E i \in 1..n : s[i] = c
    BY <1>3
  <2>5. \A i \in 1..n : order[s[i]] = i - 1
    BY <1>1, <1>2, <2>3
  <2> HIDE DEF parsing, order
  <2>7. \A i, j \in 1..n : order[s[i]] < order[s[j]] <=> i < j
    BY <1>1, <2>5
  <2>8. QED BY <2>1, <2>2, <2>3, <2>4, <2>7
<1>5. InOrder(order) = r
  <2> HIDE DEF n, order, r
  <2>1. QED BY Zenon, <1>1, <1>4, InOrderIs
<1>6. LoadExamples(rows) = [i \in DOMAIN r |-> Parsed[r[i]]]
  BY <1>5 DEF LoadExamples
<1>7. QED BY <1>1, <1>2, <1>6

LEMMA SegmentsRead ==
    ASSUME NEW rows, NEW segments, SegmentsHeld(rows, segments)
    PROVE  LoadSegments(rows) = segments
<1> DEFINE n == Len(segments)
           places == {row[1] : row \in DOMAIN rows} \union {0}
<1>1. n \in Nat /\ segments = [i \in 1..n |-> segments[i]]
  BY ListedDomain DEF SegmentsHeld
<1>2. \A x \in places : x \in 0..n
  BY <1>1 DEF SegmentsHeld
<1>3. n \in places
  <2>1. CASE n = 0
    BY <2>1
  <2>2. CASE n # 0
    <3>1. n \in 1..n
      BY <1>1, <2>2
    <3>2. PICK v : v \in DOMAIN Where(rows, n)
      BY <3>1 DEF SegmentsHeld
    <3>3. <<n, v>> \in DOMAIN rows
      BY <3>2, WhereRows DEF SegmentsHeld
    <3>4. QED BY <3>3
  <2>3. QED BY <2>1, <2>2
<1>4. Max(places) = n
  <2> HIDE DEF places
  <2>1. \A x \in places : x \in Nat /\ n >= x
    BY <1>1, <1>2
  <2>2. QED BY <1>1, <1>3, <2>1 DEF Max
<1>5. LoadSegments(rows) = [i \in 1..Max(places) |-> Where(rows, i)]
  BY DEF LoadSegments, Where
<1>6. \A i \in 1..n : segments[i] = Where(rows, i)
  BY DEF SegmentsHeld
<1> HIDE DEF places
<1>7. QED BY <1>1, <1>4, <1>5, <1>6

LEMMA ClustersRead ==
    ASSUME NEW u, ClustersHeld(db, u)
    PROVE  LoadClusters = u
<1> DEFINE n == Len(u)
           s == [i \in 1..n |-> u[i].key]
           order == [k \in DOMAIN db.clusters |-> db.clusters[k].ord]
<1>1. /\ n \in Nat /\ u = [i \in 1..n |-> u[i]]
      /\ \A i \in 1..n : ClusterHeld(db, u[i], i)
      /\ \A k \in DOMAIN db.clusters : \E i \in 1..n : u[i].key = k
  BY ListedDomain DEF ClustersHeld
<1>2. ASSUME NEW i \in 1..n
      PROVE  u[i].key \in DOMAIN db.clusters /\ db.clusters[u[i].key].ord = i
  <2>1. ClusterHeld(db, u[i], i)
    BY <1>1
  <2>2. QED BY <2>1 DEF ClusterHeld
<1> DEFINE r == s
<1>3. r = [i \in 1..n |-> r[i]] /\ DOMAIN r = 1..n /\ \A i \in 1..n : r[i] = u[i].key
  OBVIOUS
<1>4. InOrder(order) = r
  <2>1. DOMAIN order = {r[i] : i \in 1..n}
    BY <1>1, <1>2
  <2>2. \A i, j \in 1..n : order[r[i]] < order[r[j]] <=> i < j
    <3>1. \A i \in 1..n : order[r[i]] = i
      BY <1>1, <1>2
    <3> HIDE DEF order, r
    <3>2. QED BY <1>1, <3>1
  <2> HIDE DEF n, order, r
  <2>3. n \in Nat /\ r = [i \in 1..n |-> r[i]]
    BY Zenon, <1>1, <1>3
  <2>4. QED BY ONLY Zenon, <2>1, <2>2, <2>3, InOrderIs
<1>5. LoadClusters = [i \in DOMAIN r |-> LoadCluster(r[i])]
  BY Zenon, <1>4 DEF LoadClusters
<1> HIDE DEF r
<1>6. ASSUME NEW i \in 1..n PROVE LoadCluster(r[i]) = u[i]
  <2> DEFINE c == u[i]
  <2>1. ClusterHeld(db, c, i)
    BY <1>1
  <2>2. /\ LoadExamples(Where(db.cluster_examples, c.key)) = c.examples
        /\ LoadSegments(Where(db.cluster_segments, c.key)) = c.segments
        /\ SlotsOf(db, c.key) = c.params
    BY <2>1, ExamplesRead, SegmentsRead DEF ClusterHeld, PartsHeld
  <2>3. LoadCluster(c.key) =
          [key |-> c.key, host |-> db.clusters[c.key].host, scheme |-> db.clusters[c.key].scheme,
           shape |-> db.clusters[c.key].shape, count |-> db.clusters[c.key].count,
           examples |-> LoadExamples(Where(db.cluster_examples, c.key)),
           segments |-> LoadSegments(Where(db.cluster_segments, c.key)),
           params |-> SlotsOf(db, c.key)]
    BY DEF LoadCluster, SlotsOf
  <2>4. QED BY <1>3, <2>1, <2>2, <2>3 DEF ClusterHeld
<1>7. QED BY <1>1, <1>3, <1>5, <1>6

\* The tables determine the views they hold.
LEMMA ReadsBack ==
    ASSUME NEW v, Mirrors(db, v)
    PROVE  MirrorIntoMemory = v
<1>1. LoadPositions = v.positions /\ LoadClusters = v.clusters
  BY PositionsRead, ClustersRead DEF Mirrors
<1>2. QED BY <1>1 DEF Mirrors, MirrorIntoMemory

-----------------------------------------------------------------------------
(* A log replayed. *)

\* The events of an identifier fit to observe are lists of positions and one cluster.
LEMMA EventsFit ==
    ASSUME NEW iri, NEW recognizers, Fit(iri)
    PROVE  LET e == EventsUnder(iri, recognizers) IN Fit(e.iri) /\ Listed(e.positions)
<1> DEFINE list == SetToSeq(recognizers)
           e == Events(iri, list)
           n == Len(iri.segments)
<1>1. n \in Nat /\ DOMAIN iri.segments = 1..n
  BY ListedDomain DEF Fit
<1>2. e.iri = iri
  BY DEF Events
<1>3. e.positions = [i \in 1..n |-> e.positions[i]]
  BY <1>1 DEF Events, DeriveHints
<1>4. Listed(e.positions)
  <2> DEFINE u == e.positions
  <2>1. u = [i \in 1..n |-> u[i]]
    BY <1>3
  <2> HIDE DEF u
  <2>2. Listed(u)
    BY <1>1, <2>1, ListedIs
  <2>3. QED BY <2>2 DEF u
<1>5. EventsUnder(iri, recognizers) = e
  BY DEF EventsUnder
<1>6. QED BY <1>2, <1>4, <1>5

\* Entries of a log, applied one by one to the tables and to the views.
ReplayRows(a, d, c) == Apply(d, EventsUnder(Parse(c), a))
ReplayViews(b, v, c) == Memory!Apply(v, EventsUnder(Parse(c), b))
ReplayMirrors(a, b, i, d, v) == Mirrors(d, v)

Replay == INSTANCE FoldSteps WITH
    OpA <- ReplayRows, OpB <- ReplayViews, Rel <- ReplayMirrors
LEMMA ReplayOrdered == Replay!WellOrdered
BY NaturalsOrdered DEF Replay!WellOrdered

\* A log replayed into empty tables and into empty views.
LEMMA ReplayedMirrors ==
    ASSUME NEW entries, NEW recognizers, Listed(entries),
           \A i \in 1..Len(entries) : Fit(Parse(entries[i]))
    PROVE  Mirrors(Replayed(entries, recognizers), Memory!Replayed(entries, recognizers))
<1> DEFINE n == Len(entries)
           r == recognizers
<1>1. n \in Nat /\ DOMAIN entries = 1..n
  BY ListedDomain
<1>2. Replayed(entries, r) = Replay!SeqA(r, EmptyTables, entries)
  BY DEF Replayed, FoldLeft, MapThenFoldSet, Max, Replay!SeqA, ReplayRows
<1>3. Memory!Replayed(entries, r) = Replay!SeqB(r, Memory!EmptyViews, entries)
  BY DEF Memory!Replayed, Memory!FoldLeft, Memory!MapThenFoldSet, Memory!Max,
         Replay!SeqB, ReplayViews
<1>4. ReplayMirrors(r, r, 0, EmptyTables, Memory!EmptyViews)
  BY EmptyMirrors DEF ReplayMirrors
<1>5. \A i \in 1..n : \A t, v : ReplayMirrors(r, r, i - 1, t, v) =>
          ReplayMirrors(r, r, i, ReplayRows(r, t, entries[i]), ReplayViews(r, v, entries[i]))
  <2> SUFFICES ASSUME NEW i \in 1..n, NEW t, NEW v, Mirrors(t, v)
               PROVE  Mirrors(ReplayRows(r, t, entries[i]), ReplayViews(r, v, entries[i]))
    BY DEF ReplayMirrors
  <2> DEFINE e == EventsUnder(Parse(entries[i]), r)
  <2>1. Fit(e.iri) /\ Listed(e.positions)
    BY EventsFit
  <2> HIDE DEF e
  <2>2. Mirrors(Apply(t, e), Memory!Apply(v, e))
    BY <2>1, ApplyStep
  <2>3. QED BY <2>2 DEF ReplayRows, ReplayViews, e
<1>6. ReplayMirrors(r, r, n, Replay!SeqA(r, EmptyTables, entries),
                    Replay!SeqB(r, Memory!EmptyViews, entries))
  <2> HIDE DEF n, r
  <2>1. QED BY <1>1, <1>4, <1>5, ReplayOrdered, Replay!SequenceFolds
<1>7. QED BY <1>2, <1>3, <1>6 DEF ReplayMirrors

-----------------------------------------------------------------------------
(* What the parser reads is listed. *)

\* A string is cut into strings, whatever it is cut at.
LEMMA Before1 ==
    ASSUME NEW s, Listed(s), NEW marks
    PROVE  First(s, marks) \in 1..(Len(s) + 1)
<1> DEFINE S == {i \in DOMAIN s : s[i] \in marks} \union {Len(s) + 1}
<1>1. Len(s) \in Nat /\ DOMAIN s = 1..Len(s)
  BY ListedDomain
<1>2. S \subseteq Nat /\ Len(s) + 1 \in S
  BY <1>1
<1>3. PICK k \in S : \A j \in S : k <= j
  <2> HIDE DEF S
  <2>1. QED BY Zenon, <1>2, LeastNumber
<1>4. Min(S) \in S
  <2> HIDE DEF S
  <2>1. QED BY <1>3 DEF Min
<1>5. QED BY <1>1, <1>4 DEF First

LEMMA PiecesListed ==
    ASSUME NEW s, Listed(s), NEW marks
    PROVE  Listed(Before(s, marks)) /\ Listed(From(s, marks)) /\ Listed(After(s, marks))
<1>1. PICK S : s \in Seq(S)
  BY DEF Listed
<1>2. First(s, marks) \in 1..(Len(s) + 1) /\ Len(s) \in Nat
  BY Before1, ListedDomain
<1> DEFINE f == First(s, marks)
<1> HIDE DEF f
<1>3. SubSeq(s, 1, f - 1) \in Seq(S)
  BY <1>1, <1>2 DEF f
<1>4. SubSeq(s, f, Len(s)) \in Seq(S)
  BY <1>1, <1>2 DEF f
<1>5. SubSeq(s, f + 1, Len(s)) \in Seq(S)
  BY <1>1, <1>2 DEF f
<1>6. QED BY Zenon, <1>3, <1>4, <1>5 DEF Listed, Before, From, After, f

LEMMA StripListed ==
    ASSUME NEW s, Listed(s)
    PROVE  Listed(Strip(s))
<1> DEFINE inner == {i \in DOMAIN s : s[i] # " "}
<1>1. PICK S : s \in Seq(S)
  BY DEF Listed
<1>2. inner \subseteq 1..Len(s) /\ Len(s) \in Nat
  <2>1. DOMAIN s = 1..Len(s) /\ Len(s) \in Nat
    BY <1>1
  <2>2. QED BY Zenon, <2>1
<1>3. CASE inner = {}
  <2>1. Strip(s) = <<>>
    BY Zenon, <1>3 DEF Strip
  <2>2. <<>> \in Seq(S)
    OBVIOUS
  <2>3. QED BY <2>1, <2>2 DEF Listed
<1>4. CASE inner # {}
  <2> HIDE DEF inner
  <2>1. PICK x \in inner : TRUE
    BY <1>4
  <2>2. inner \subseteq Nat
    BY <1>2
  <2>3. PICK least \in inner : \A j \in inner : least <= j
    BY Zenon, <2>1, <2>2, LeastNumber
  <2>4. PICK most \in inner : \A j \in inner : most >= j
    BY Zenon, <1>2, <1>4, LargestNumber
  <2>5. Min(inner) \in inner /\ \A j \in inner : Min(inner) <= j
    BY <2>3 DEF Min
  <2>6. Max(inner) \in inner /\ \A j \in inner : Max(inner) >= j
    BY <2>4 DEF Max
  <2>7. Min(inner) \in 1..Len(s) /\ Max(inner) \in 1..Len(s) /\ Min(inner) <= Max(inner)
    BY Zenon, <2>5, <2>6, <1>2
  <2>8. SubSeq(s, Min(inner), Max(inner)) \in Seq(S)
    BY <1>1, <1>2, <2>7
  <2>9. QED BY Zenon, <1>4, <2>8 DEF Strip, Listed, inner
<1>5. QED BY Zenon, <1>3, <1>4

LEMMA SplitListed ==
    ASSUME NEW s, Listed(s), NEW mark
    PROVE  Listed(Split(s, mark))
<1> DEFINE cuts == {i \in DOMAIN s : s[i] = mark} \union {0, Len(s) + 1}
           n == Cardinality(cuts) - 1
           pieces == Split(s, mark)
<1>1. Len(s) \in Nat /\ DOMAIN s = 1..Len(s)
  BY ListedDomain
<1>2. IsFiniteSet(cuts)
  <2>1. cuts \in SUBSET (0..(Len(s) + 1))
    BY <1>1
  <2>2. IsFiniteSet(0..(Len(s) + 1))
    BY <1>1, FS_Interval
  <2>3. QED BY <2>1, <2>2, FS_Subset
<1>3. n \in Nat
  <2>1. 0 \in cuts
    OBVIOUS
  <2> HIDE DEF cuts
  <2>2. Cardinality(cuts) \in Nat /\ Cardinality(cuts) # 0
    BY <1>2, <2>1, FS_CardinalityType, FS_EmptySet
  <2>3. QED BY <2>2
<1>4. pieces = [j \in 1..n |-> pieces[j]]
  <2> DEFINE Cut(j) == CHOOSE i \in cuts : Cardinality({k \in cuts : k < i}) = j
             piece(j) == SubSeq(s, Cut(j - 1) + 1, Cut(j) - 1)
  <2>1. pieces = [j \in 1..n |-> piece(j)]
    BY DEF Split
  <2> HIDE DEF pieces, piece, n
  <2>2. QED BY <2>1
<1> HIDE DEF n, pieces
<1>5. QED BY <1>3, <1>4, ListedIs DEF pieces

\* One piece of a path, and of a query, at a time.
AddPiece(a, out, seg) ==
    IF seg \in {<<>>, <<".">>} THEN out
    ELSE IF seg = <<".", ".">> THEN (IF out = <<>> THEN out ELSE Front(out))
    ELSE Append(out, seg)
AddPair(b, params, pair) ==
    LET k == Before(pair, {"="})
        v == IF Contains(pair, "=") THEN After(pair, {"="}) ELSE None
    IN  IF k = <<>> THEN params ELSE Put(params, k, v)
BothListed(a, b, i, out, params) == Listed(out) /\ Listed(params)

Reading == INSTANCE FoldSteps WITH OpA <- AddPiece, OpB <- AddPair, Rel <- BothListed
LEMMA ReadingOrdered == Reading!WellOrdered
BY NaturalsOrdered DEF Reading!WellOrdered

\* A path or a query, read piece by piece, is a list.
LEMMA ReadListed ==
    ASSUME NEW pieces, Listed(pieces)
    PROVE  Listed(Reading!SeqA(0, <<>>, pieces)) /\ Listed(Reading!SeqB(0, <<>>, pieces))
<1> DEFINE n == Len(pieces)
<1>1. n \in Nat /\ DOMAIN pieces = 1..n
  BY ListedDomain
<1>2. BothListed(0, 0, 0, <<>>, <<>>)
  BY DEF BothListed, Listed
<1>3. \A i \in 1..n : \A t, u : BothListed(0, 0, i - 1, t, u) =>
          BothListed(0, 0, i, AddPiece(0, t, pieces[i]), AddPair(0, u, pieces[i]))
  <2> SUFFICES ASSUME NEW i \in 1..n, NEW t, NEW u, Listed(t), Listed(u)
               PROVE  /\ Listed(AddPiece(0, t, pieces[i]))
                      /\ Listed(AddPair(0, u, pieces[i]))
    BY DEF BothListed
  <2>1. Listed(AddPiece(0, t, pieces[i]))
    <3>1. Listed(Append(t, pieces[i]))
      BY ListedAppend
    <3>2. CASE t # <<>>
      <4>1. PICK S : t \in Seq(S)
        BY DEF Listed
      <4>2. Len(t) \in Nat \ {0}
        BY <4>1, <3>2
      <4>3. SubSeq(t, 1, Len(t) - 1) \in Seq(S)
        BY <4>1, <4>2
      <4>4. Listed(Front(t))
        BY Zenon, <4>3 DEF Listed, Front
      <4>5. QED BY <3>1, <4>4 DEF AddPiece
    <3>3. CASE t = <<>>
      BY <3>1, <3>3 DEF AddPiece
    <3>4. QED BY <3>2, <3>3
  <2>2. ASSUME NEW k, NEW v PROVE Listed(Put(u, k, v))
    <3> DEFINE entry == [key |-> k, value |-> v]
               w == [j \in DOMAIN u |-> IF u[j].key = k THEN entry ELSE u[j]]
    <3>1. Listed(Append(u, entry))
      BY ListedAppend
    <3>2. Listed(w)
      <4>1. Len(u) \in Nat /\ w = [j \in 1..Len(u) |-> w[j]]
        BY ListedDomain
      <4> HIDE DEF w
      <4>2. QED BY <4>1, ListedIs
    <3>3. QED BY <3>1, <3>2 DEF Put
  <2>3. Listed(AddPair(0, u, pieces[i]))
    BY <2>2 DEF AddPair
  <2>4. QED BY <2>1, <2>3
<1>4. BothListed(0, 0, n, Reading!SeqA(0, <<>>, pieces), Reading!SeqB(0, <<>>, pieces))
  <2> HIDE DEF n
  <2>1. QED BY Zenon, <1>1, <1>2, <1>3, ReadingOrdered, Reading!SequenceFolds
<1>5. QED BY <1>4 DEF BothListed

LEMMA PathListed ==
    ASSUME NEW path, Listed(path)
    PROVE  Listed(PathSegments(path))
<1> DEFINE pieces == Split(path, "/")
<1>1. Listed(pieces)
  BY SplitListed
<1>2. PathSegments(path) = Reading!SeqA(0, <<>>, pieces)
  BY DEF PathSegments, FoldLeft, MapThenFoldSet, Max, Reading!SeqA, AddPiece
<1> HIDE DEF pieces
<1>3. QED BY <1>1, <1>2, ReadListed

LEMMA QueryListed ==
    ASSUME NEW query, Listed(query)
    PROVE  Listed(ParseQuery(query))
<1> DEFINE pieces == Split(query, "&")
<1>1. Listed(pieces)
  BY SplitListed
<1>2. ParseQuery(query) = Reading!SeqB(0, <<>>, pieces)
  BY DEF ParseQuery, FoldLeft, MapThenFoldSet, Max, Reading!SeqB, AddPair
<1> HIDE DEF pieces
<1>3. QED BY <1>1, <1>2, ReadListed

\* What is observed of an identifier is lists.
ReadAsLists(iri) == Listed(iri.segments) /\ Listed(iri.params)

LEMMA UrlListed ==
    ASSUME NEW scheme, NEW text, Listed(text), ParseAuthorityUrl(scheme, text) # Error
    PROVE  ReadAsLists(ParseAuthorityUrl(scheme, text))
<1> DEFINE rest == From(text, {"/", "?", "#"})
           beforeFragment == Before(rest, {"#"})
           query == After(beforeFragment, {"?"})
           path == Before(beforeFragment, {"?"})
           iri == ParseAuthorityUrl(scheme, text)
<1>1. Listed(query) /\ Listed(path)
  <2>1. Listed(rest)
    BY PiecesListed
  <2>2. Listed(beforeFragment)
    BY <2>1, PiecesListed
  <2>3. QED BY <2>2, PiecesListed
<1>2. iri.segments = PathSegments(path) /\ iri.params = ParseQuery(query)
  BY DEF ParseAuthorityUrl
<1>3. QED BY <1>1, <1>2, PathListed, QueryListed DEF ReadAsLists

LEMMA ParsesToLists ==
    ASSUME NEW input, Listed(input), Parse(input) # Error
    PROVE  ReadAsLists(Parse(input))
<1> DEFINE s == Strip(input)
           scheme == Lower(Before(s, {":"}))
           rest == After(s, {":"})
<1>1. Listed(s) /\ Listed(rest)
  BY StripListed, PiecesListed
<1>2. \/ Parse(input) = ParseUrn(scheme, rest)
      \/ /\ IsPrefix(<<"/", "/">>, rest)
         /\ Parse(input) = ParseAuthorityUrl(scheme, SubSeq(rest, 3, Len(rest)))
      \/ Parse(input) = ParseAuthorityUrl(<<"https">>, s)
  BY Zenon DEF Parse
<1>3. CASE Parse(input) = ParseUrn(scheme, rest)
  <2>1. Parse(input).segments = <<>> /\ Parse(input).params = <<>>
    BY <1>3 DEF ParseUrn
  <2>2. Listed(<<>>)
    BY DEF Listed
  <2>3. QED BY <2>1, <2>2 DEF ReadAsLists
<1>4. CASE /\ IsPrefix(<<"/", "/">>, rest)
           /\ Parse(input) = ParseAuthorityUrl(scheme, SubSeq(rest, 3, Len(rest)))
  <2>1. PICK S : rest \in Seq(S)
    BY <1>1 DEF Listed
  <2>2. Len(rest) >= 2
    BY <1>4, <2>1 DEF IsPrefix
  <2>3. SubSeq(rest, 3, Len(rest)) \in Seq(S)
    BY <2>1, <2>2
  <2>4. QED BY Zenon, <1>4, <2>3, UrlListed DEF Listed
<1>5. CASE Parse(input) = ParseAuthorityUrl(<<"https">>, s)
  BY <1>1, <1>5, UrlListed
<1>6. QED BY <1>2, <1>3, <1>4, <1>5

-----------------------------------------------------------------------------
(* The corpus. *)

\* Every entry of the log names an identifier fit to observe.
LogFit == Listed(log) /\ \A i \in 1..Len(log) : Fit(Parse(log[i]))

\* What every reachable corpus satisfies: its tables hold the views read back of
\* them row for row, and its log the canonical forms of identifiers.
TablesMirrored == LogFit /\ Mirrors(db, MirrorIntoMemory)

LEMMA ReadsBackNow == \A v : Mirrors(db, v) => MirrorIntoMemory = v
BY ReadsBack

LEMMA ReadsBackNext == (\A v : Mirrors(db, v) => MirrorIntoMemory = v)'
BY ReadsBackNow, PTL

\* What an observation logs is the canonical form of a fit identifier.
LEMMA ObservedFit ==
    ASSUME NEW input \in Inputs, Memory!Observable(input)
    PROVE  Fit(Parse(input)) /\ Fit(Parse(Canonical(Parse(input))))
<1>1. Listed(input)
  BY InputsAssumption DEF Listed
<1>2. Parse(input) # Error /\ Parse(Canonical(Parse(input))) = Parse(input)
  BY DEF Memory!Observable, Reparses
<1>3. ReadAsLists(Parse(input))
  BY <1>1, <1>2, ParsesToLists
<1> DEFINE c == Canonical(Parse(input))
<1>4. c \in DOMAIN Parsed
  BY <1>2 DEF Parsed
<1>5. Parsed[c] = Parse(c)
  <2> HIDE DEF c
  <2>1. QED BY <1>4 DEF Parsed
<1>6. QED BY <1>2, <1>3, <1>4, <1>5 DEF Fit, ReadAsLists

LEMMA InitMirrored == Init => TablesMirrored /\ Memory!Init
<1> SUFFICES ASSUME Init PROVE TablesMirrored /\ Memory!Init
  OBVIOUS
<1>1. Mirrors(db, Memory!EmptyViews)
  BY EmptyMirrors DEF Init
<1>2. MirrorIntoMemory = Memory!EmptyViews
  BY <1>1, ReadsBack
<1>3. LogFit
  BY DEF LogFit, Init, Listed
<1>4. QED BY <1>1, <1>2, <1>3 DEF TablesMirrored, Memory!Init, Init

\* Each step keeps the tables and the views in step, and is one of memory's.
LEMMA ObserveStep ==
    ASSUME TablesMirrored, NEW input \in Inputs, Observe(input)
    PROVE  TablesMirrored' /\ Memory!Observe(input)
<1> DEFINE e == EventsUnder(Parse(input), acts)
           c == Canonical(Parse(input))
<1>1. Fit(Parse(input)) /\ Fit(Parse(c))
  BY ObservedFit DEF Observe
<1>2. Fit(e.iri) /\ Listed(e.positions)
  BY <1>1, EventsFit
<1> HIDE DEF e, c
<1>3. Mirrors(Apply(db, e), Memory!Apply(MirrorIntoMemory, e))
  BY <1>2, ApplyStep DEF TablesMirrored
<1>4. db' = Apply(db, e) /\ log' = Append(log, c)
  BY DEF Observe, e, c
<1>5. MirrorIntoMemory' = Memory!Apply(MirrorIntoMemory, e)
  BY <1>3, <1>4, ReadsBackNext
<1>6. Mirrors(db', MirrorIntoMemory')
  BY <1>3, <1>4, <1>5
<1>7. LogFit'
  <2>1. /\ Listed(log') /\ Len(log') = Len(log) + 1 /\ log'[Len(log) + 1] = c
        /\ Len(log) \in Nat /\ \A i \in 1..Len(log) : log'[i] = log[i]
    BY <1>4, ListedAppend, ListedDomain DEF TablesMirrored, LogFit
  <2>2. ASSUME NEW i \in 1..Len(log') PROVE Fit(Parse(log'[i]))
    <3>1. CASE i = Len(log) + 1
      BY <1>1, <2>1, <3>1
    <3>2. CASE i \in 1..Len(log)
      BY <2>1, <3>2 DEF TablesMirrored, LogFit
    <3>3. QED BY <2>1, <3>1, <3>2
  <2>3. QED BY <2>1, <2>2 DEF LogFit
<1>8. Memory!Observe(input)
  BY <1>5 DEF Memory!Observe, Observe, e
<1>9. QED BY <1>6, <1>7, <1>8 DEF TablesMirrored

LEMMA ActivateStep ==
    ASSUME TablesMirrored, NEW a, Activate(a)
    PROVE  TablesMirrored' /\ Memory!Activate(a)
<1>1. Mirrors(Replayed(log, acts'), Memory!Replayed(log, acts'))
  BY ReplayedMirrors DEF TablesMirrored, LogFit
<1>2. db' = Replayed(log, acts') /\ log' = log
  BY DEF Activate
<1>3. MirrorIntoMemory' = Memory!Replayed(log, acts')
  BY <1>1, <1>2, ReadsBackNext
<1>4. TablesMirrored'
  BY <1>1, <1>2, <1>3 DEF TablesMirrored, LogFit
<1>5. Memory!Activate(a)
  BY <1>3 DEF Memory!Activate, Activate
<1>6. QED BY <1>4, <1>5

LEMMA KeptStep ==
    ASSUME TablesMirrored, UNCHANGED <<db, log>>
    PROVE  TablesMirrored' /\ MirrorIntoMemory' = MirrorIntoMemory
<1>1. Mirrors(db', MirrorIntoMemory)
  BY DEF TablesMirrored
<1>2. MirrorIntoMemory' = MirrorIntoMemory
  BY <1>1, ReadsBackNext
<1>3. QED BY <1>1, <1>2 DEF TablesMirrored, LogFit

LEMMA NextMirrored ==
    TablesMirrored /\ [Next]_vars => TablesMirrored' /\ [Memory!Next]_Memory!vars
<1> SUFFICES ASSUME TablesMirrored, [Next]_vars
             PROVE  TablesMirrored' /\ [Memory!Next]_Memory!vars
  OBVIOUS
<1>1. ASSUME NEW input \in Inputs, Observe(input)
      PROVE  TablesMirrored' /\ [Memory!Next]_Memory!vars
  <2>1. TablesMirrored' /\ Memory!Observe(input)
    BY <1>1, ObserveStep
  <2>2. QED BY <2>1 DEF Memory!Next
<1>2. ASSUME NEW input \in Readable, Read(input)
      PROVE  TablesMirrored' /\ [Memory!Next]_Memory!vars
  <2>1. TablesMirrored' /\ MirrorIntoMemory' = MirrorIntoMemory
    BY <1>2, KeptStep DEF Read
  <2>2. Memory!Read(input)
    BY <1>2, <2>1 DEF Read, Memory!Read
  <2>3. QED BY <2>1, <2>2 DEF Memory!Next
<1>3. ASSUME NEW a \in Recognizers, Activate(a)
      PROVE  TablesMirrored' /\ [Memory!Next]_Memory!vars
  <2>1. TablesMirrored' /\ Memory!Activate(a)
    BY <1>3, ActivateStep
  <2>2. QED BY <2>1 DEF Memory!Next
<1>4. CASE UNCHANGED vars
  <2>1. TablesMirrored' /\ MirrorIntoMemory' = MirrorIntoMemory
    BY <1>4, KeptStep DEF vars
  <2>2. QED BY <1>4, <2>1 DEF vars, Memory!vars
<1>5. QED BY <1>1, <1>2, <1>3, <1>4 DEF Next

\* After any observations and activations, every table of a SQLite corpus holds, row for
\* row and in order, the views a memory corpus has (storage_sqlite.rs `apply_events`,
\* `mirror_into_memory`).
THEOREM StorageMirrors == Spec => []TablesMirrored
<1>1. Init => TablesMirrored
  BY InitMirrored
<1>2. TablesMirrored /\ [Next]_vars => TablesMirrored'
  BY NextMirrored
<1>3. QED BY <1>1, <1>2, PTL DEF Spec

\* For any inputs, caps and recognizers, a SQLite corpus read back is a memory corpus
\* that observed and activated the same: each step of the one is a step of the other
\* (storage_memory.rs `apply_events`, storage_sqlite.rs `mirror_into_memory`).
THEOREM StorageImplements == Spec => ReadsAsMemory
<1>1. Init => Memory!Init
  BY InitMirrored
<1>2. TablesMirrored /\ [Next]_vars => [Memory!Next]_Memory!vars
  BY NextMirrored
<1>3. QED BY <1>1, <1>2, StorageMirrors, PTL DEF Spec, ReadsAsMemory, Memory!Spec

-----------------------------------------------------------------------------
(* An export loaded back. *)

\* Examples whose canonical forms name them load as they were.
LEMMA ExamplesLoad ==
    ASSUME NEW rows, NEW examples, ExamplesHeld(rows, examples)
    PROVE  Memory!LoadExamples([i \in DOMAIN examples |-> Canonical(examples[i])]) = examples
<1> DEFINE n == Len(examples)
           canonicals == [i \in DOMAIN examples |-> Canonical(examples[i])]
           kept == {i \in DOMAIN canonicals : Parse(canonicals[i]) # Error}
           order == [i \in kept |-> i]
           s == [i \in 1..n |-> i]
<1>1. n \in Nat /\ DOMAIN examples = 1..n /\ examples = [i \in 1..n |-> examples[i]]
  BY ListedDomain DEF ExamplesHeld
<1>2. ASSUME NEW i \in 1..n PROVE Parse(canonicals[i]) = examples[i] /\ examples[i] # Error
  <2>1. canonicals[i] = Canonical(examples[i])
    BY <1>1
  <2> DEFINE c == Canonical(examples[i])
  <2>2. c \in DOMAIN Parsed /\ Parsed[c] = examples[i] /\ examples[i] # Error
    BY DEF ExamplesHeld
  <2>3. Parsed[c] = Parse(c)
    <3> HIDE DEF c
    <3>1. QED BY <2>2 DEF Parsed
  <2> HIDE DEF canonicals
  <2>4. QED BY <2>1, <2>2, <2>3
<1>3. DOMAIN canonicals = 1..n
  BY <1>1
<1> HIDE DEF canonicals
<1>4. kept = 1..n
  BY <1>2, <1>3
<1>5. DOMAIN order = {s[i] : i \in 1..n} /\ s = [i \in 1..n |-> s[i]]
  BY <1>4
<1>6. \A i, j \in 1..n : order[s[i]] < order[s[j]] <=> i < j
  BY <1>4
<1>7. InOrder(order) = s
  <2> DEFINE r == s
  <2>1. r = [i \in 1..n |-> r[i]] /\ DOMAIN order = {r[i] : i \in 1..n}
    BY <1>5
  <2>2. \A i, j \in 1..n : order[r[i]] < order[r[j]] <=> i < j
    BY Zenon, <1>6
  <2> HIDE DEF n, order, r
  <2>3. InOrder(order) = r
    BY Zenon, <1>1, <2>1, <2>2, InOrderIs
  <2>4. QED BY <2>3 DEF r
<1>8. Memory!InOrder(order) = InOrder(order)
  BY DEF InOrder, Memory!InOrder, Cardinality, Memory!Cardinality
<1>9. Memory!LoadExamples(canonicals) = [j \in DOMAIN s |-> Parse(canonicals[s[j]])]
  BY <1>7, <1>8 DEF Memory!LoadExamples
<1>10. Memory!LoadExamples(canonicals) = [j \in 1..n |-> Parse(canonicals[j])]
  BY <1>9
<1>11. QED BY <1>1, <1>2, <1>10 DEF canonicals

\* So does a cluster.
LEMMA ClusterLoads ==
    ASSUME NEW d, NEW c, NEW i, ClusterHeld(d, c, i)
    PROVE  Memory!LoadCluster(Memory!DumpCluster(c)) = c
<1> DEFINE canonicals == [j \in DOMAIN c.examples |-> Canonical(c.examples[j])]
           dumped == Memory!DumpCluster(c)
<1>1. c = [key |-> c.key, host |-> c.host, scheme |-> c.scheme, shape |-> c.shape,
           count |-> c.count, examples |-> c.examples, segments |-> c.segments,
           params |-> c.params]
  BY DEF ClusterHeld
<1>2. Memory!LoadExamples(canonicals) = c.examples
  BY ExamplesLoad DEF ClusterHeld, PartsHeld
<1>3. dumped = [c EXCEPT !.examples = canonicals]
  BY DEF Memory!DumpCluster
<1> HIDE DEF canonicals, dumped
<1>4. dumped.examples = canonicals
  BY <1>1, <1>3
<1>5. Memory!LoadCluster(dumped) = [dumped EXCEPT !.examples = c.examples]
  BY <1>2, <1>4 DEF Memory!LoadCluster
<1>6. QED BY Zenon, <1>1, <1>3, <1>5 DEF dumped

\* The first `n` entries of a list whose keys differ.
Loaded(list, n, t) == Listed(t) /\ Len(t) = n /\ \A j \in 1..n : t[j] = list[j]
KeyedApart(list) == \A i, j \in DOMAIN list : list[i].key = list[j].key => i = j

\* Inserting the next of them appends it.
LEMMA InsertLoaded ==
    ASSUME NEW list, Listed(list), KeyedApart(list), NEW i \in 1..Len(list), NEW t,
           Loaded(list, i - 1, t)
    PROVE  Loaded(list, i, Memory!InsertKeyed(t, list[i]))
<1>1. Len(list) \in Nat /\ DOMAIN list = 1..Len(list) /\ DOMAIN t = 1..(i - 1)
  BY ListedDomain DEF Loaded
<1>2. Memory!IndexOf(t, list[i].key) = {}
  BY <1>1 DEF Memory!IndexOf, Loaded, KeyedApart
<1>3. Memory!InsertKeyed(t, list[i]) = Append(t, list[i])
  BY <1>2 DEF Memory!InsertKeyed
<1>4. QED BY <1>1, <1>3, ListedAppend DEF Loaded

LEMMA LoadedAll ==
    ASSUME NEW list, Listed(list), NEW t, Loaded(list, Len(list), t)
    PROVE  t = list
<1>1. t = [i \in 1..Len(list) |-> t[i]] /\ list = [i \in 1..Len(list) |-> list[i]]
  BY ListedDomain DEF Loaded
<1>2. QED BY <1>1 DEF Loaded

\* The entries of an export, inserted one by one.
InsertEntry(a, t, entry) == Memory!InsertKeyed(t, entry)
InsertCluster(a, t, c) == Memory!InsertKeyed(t, Memory!LoadCluster(c))
EntriesLoaded(a, b, i, t, u) == Loaded(a, i, t)

Entries == INSTANCE FoldSteps WITH
    OpA <- InsertEntry, OpB <- CountNothing, Rel <- EntriesLoaded
LEMMA EntriesOrdered == Entries!WellOrdered
BY NaturalsOrdered DEF Entries!WellOrdered
Dumped == INSTANCE FoldSteps WITH
    OpA <- InsertCluster, OpB <- CountNothing, Rel <- EntriesLoaded
LEMMA DumpedOrdered == Dumped!WellOrdered
BY NaturalsOrdered DEF Dumped!WellOrdered

\* Positions and clusters whose keys differ load as they were dumped.
LEMMA PositionsLoad ==
    ASSUME NEW list, Listed(list), KeyedApart(list)
    PROVE  Memory!LoadPositions(list) = list
<1> DEFINE n == Len(list)
<1>1. n \in Nat /\ DOMAIN list = 1..n
  BY ListedDomain
<1>2. Memory!LoadPositions(list) = Entries!SeqA(list, <<>>, list)
  BY DEF Memory!LoadPositions, Memory!FoldLeft, Memory!MapThenFoldSet, Memory!Max,
         Entries!SeqA, InsertEntry
<1>3. EntriesLoaded(list, 0, 0, <<>>, 0)
  BY DEF EntriesLoaded, Loaded, Listed
<1>4. \A i \in 1..n : \A t, u : EntriesLoaded(list, 0, i - 1, t, u) =>
          EntriesLoaded(list, 0, i, InsertEntry(list, t, list[i]), CountNothing(0, u, list[i]))
  BY InsertLoaded DEF EntriesLoaded, InsertEntry
<1>5. EntriesLoaded(list, 0, n, Entries!SeqA(list, <<>>, list), Entries!SeqB(0, 0, list))
  <2> HIDE DEF n
  <2>1. QED BY Zenon, <1>1, <1>3, <1>4, EntriesOrdered, Entries!SequenceFolds
<1>6. QED BY <1>2, <1>5, LoadedAll DEF EntriesLoaded

LEMMA ClustersLoad ==
    ASSUME NEW list, Listed(list), KeyedApart(list), NEW dumped,
           DOMAIN dumped = 1..Len(list),
           \A i \in 1..Len(list) : Memory!LoadCluster(dumped[i]) = list[i]
    PROVE  Memory!LoadClusters(dumped) = list
<1> DEFINE n == Len(list)
<1>1. n \in Nat /\ DOMAIN dumped = 1..n
  BY ListedDomain
<1>2. Memory!LoadClusters(dumped) = Dumped!SeqA(list, <<>>, dumped)
  BY DEF Memory!LoadClusters, Memory!FoldLeft, Memory!MapThenFoldSet, Memory!Max,
         Dumped!SeqA, InsertCluster
<1>3. EntriesLoaded(list, 0, 0, <<>>, 0)
  BY DEF EntriesLoaded, Loaded, Listed
<1>4. \A i \in 1..n : \A t, u : EntriesLoaded(list, 0, i - 1, t, u) =>
          EntriesLoaded(list, 0, i, InsertCluster(list, t, dumped[i]),
                        CountNothing(0, u, dumped[i]))
  BY InsertLoaded DEF EntriesLoaded, InsertCluster
<1>5. EntriesLoaded(list, 0, n, Dumped!SeqA(list, <<>>, dumped), Dumped!SeqB(0, 0, dumped))
  <2> HIDE DEF n
  <2>1. QED BY <1>1, <1>3, <1>4, DumpedOrdered, Dumped!SequenceFolds
<1>6. QED BY <1>2, <1>5, LoadedAll DEF EntriesLoaded

\* The keys of those the tables hold do differ.
LEMMA PositionsApart ==
    ASSUME NEW d, NEW u, PositionsHeld(d, u)
    PROVE  Listed(u) /\ KeyedApart(u)
<1>1. Listed(u) /\ DOMAIN u = 1..Len(u)
  BY ListedDomain DEF PositionsHeld
<1>2. ASSUME NEW i \in 1..Len(u) PROVE d.position_stats[u[i].key].rowid = i
  <2>1. PositionHeld(d, u[i], i)
    BY DEF PositionsHeld
  <2>2. QED BY <2>1 DEF PositionHeld
<1>3. QED BY <1>1, <1>2 DEF KeyedApart

LEMMA ClustersApart ==
    ASSUME NEW d, NEW u, ClustersHeld(d, u)
    PROVE  Listed(u) /\ KeyedApart(u)
<1>1. Listed(u) /\ DOMAIN u = 1..Len(u)
  BY ListedDomain DEF ClustersHeld
<1>2. ASSUME NEW i \in 1..Len(u) PROVE d.clusters[u[i].key].ord = i
  <2>1. ClusterHeld(d, u[i], i)
    BY DEF ClustersHeld
  <2>2. QED BY <2>1 DEF ClusterHeld
<1>3. QED BY <1>1, <1>2 DEF KeyedApart

\* So what the tables hold, exported and loaded, is what they hold.
LEMMA MirroredLoads == TablesMirrored => ExportLoads
<1> SUFFICES ASSUME TablesMirrored PROVE Memory!Load(Memory!Dump) = MirrorIntoMemory
  BY DEF ExportLoads
<1> DEFINE v == MirrorIntoMemory
           dumped == [i \in DOMAIN v.clusters |-> Memory!DumpCluster(v.clusters[i])]
           dump == [v EXCEPT !.clusters = dumped]
<1>1. /\ PositionsHeld(db, v.positions) /\ ClustersHeld(db, v.clusters)
      /\ v = [hosts |-> db.host_counts, lengths |-> db.path_length_counts,
              raw_shapes |-> db.raw_shape_counts, fingerprints |-> db.fingerprint_counts,
              positions |-> v.positions, clusters |-> v.clusters]
  BY DEF TablesMirrored, Mirrors
<1>2. Memory!Dump = dump
  BY DEF Memory!Dump
<1> HIDE DEF v
<1>3. Memory!LoadPositions(v.positions) = v.positions
  BY <1>1, PositionsApart, PositionsLoad
<1>4. Memory!LoadClusters(dumped) = v.clusters
  <2>1. Listed(v.clusters) /\ KeyedApart(v.clusters)
    BY <1>1, ClustersApart
  <2>2. DOMAIN v.clusters = 1..Len(v.clusters) /\ DOMAIN dumped = 1..Len(v.clusters)
    BY <2>1, ListedDomain
  <2>3. ASSUME NEW i \in 1..Len(v.clusters)
        PROVE  Memory!LoadCluster(dumped[i]) = v.clusters[i]
    <3>1. ClusterHeld(db, v.clusters[i], i)
      BY <1>1 DEF ClustersHeld
    <3>2. dumped[i] = Memory!DumpCluster(v.clusters[i])
      BY <2>2
    <3> HIDE DEF dumped
    <3>3. QED BY <3>1, <3>2, ClusterLoads
  <2> HIDE DEF dumped
  <2>4. QED BY <2>1, <2>2, <2>3, ClustersLoad
<1> HIDE DEF dumped
<1>5. dump.positions = v.positions /\ dump.clusters = dumped
  BY <1>1
<1>6. Memory!Load(dump) =
        [dump EXCEPT !.positions = v.positions, !.clusters = v.clusters]
  BY Zenon, <1>3, <1>4, <1>5 DEF Memory!Load
<1>7. [dump EXCEPT !.positions = v.positions, !.clusters = v.clusters] = v
  <2>1. [dump EXCEPT !.positions = v.positions, !.clusters = v.clusters]
        = [[dump EXCEPT !.positions = v.positions] EXCEPT !.clusters = v.clusters]
    BY <1>1
  <2>2. QED BY Zenon, <1>1, <2>1
<1>8. QED BY <1>2, <1>6, <1>7 DEF v

\* For any inputs, caps and recognizers, what a SQLite corpus exports as JSON loads as
\* the views it has (storage_json.rs `dump_memory`, `load_into`).
THEOREM ExportsLoad == Spec => []ExportLoads
BY StorageMirrors, MirroredLoads, PTL

-----------------------------------------------------------------------------
(* The clusters counted against the log. *)

\* The cluster of an entry, under the recognizers active.
ClusterOf(entries, r, i) == EventsUnder(Parse(entries[i]), r).cluster

\* A cluster as made; and entries show the cluster with their key.
IsCluster(c) ==
    c = [key |-> c.key, host |-> c.host, scheme |-> c.scheme, shape |-> c.shape,
         count |-> c.count, examples |-> c.examples, segments |-> c.segments,
         params |-> c.params]

\* Which of the first `n` entries show the cluster with a key.
Showing(entries, r, n, key) == {i \in 1..n : ClusterOf(entries, r, i).key = key}

\* The clusters are those of the first `n` entries, each counted once for each.
Counted(entries, r, n, u) ==
    /\ Listed(u) /\ KeyedApart(u)
    /\ \A m \in 1..Len(u) :
           /\ IsCluster(u[m])
           /\ u[m].count = Cardinality(Showing(entries, r, n, u[m].key))
           /\ \E i \in 1..n : /\ ClusterOf(entries, r, i).key = u[m].key
                              /\ ClusterOf(entries, r, i).host = u[m].host
                              /\ ClusterOf(entries, r, i).shape = u[m].shape
    /\ \A i \in 1..n : \E m \in 1..Len(u) : u[m].key = ClusterOf(entries, r, i).key

\* A key names one host and one shape.
LEMMA KeyNames ==
    ASSUME NEW a, NEW b, NEW r,
           EventsUnder(a, r).cluster.key = EventsUnder(b, r).cluster.key
    PROVE  /\ EventsUnder(a, r).cluster.host = EventsUnder(b, r).cluster.host
           /\ EventsUnder(a, r).cluster.shape = EventsUnder(b, r).cluster.shape
<1> DEFINE list == SetToSeq(r)
           A == ClusterKey(a, list, EffectiveHost(a.host))
           B == ClusterKey(b, list, EffectiveHost(b.host))
<1>1. EventsUnder(a, r).cluster = A /\ EventsUnder(b, r).cluster = B
  BY DEF EventsUnder, Events
<1>2. A.key = B.key
  BY <1>1
<1>3. A.host = B.host /\ A.shape = B.shape
  BY Zenon, <1>2 DEF ClusterKey
<1>4. QED BY <1>1, <1>3

\* One more entry shows its own cluster once more, and no other.
LEMMA ShowingGrows ==
    ASSUME NEW entries, NEW r, NEW i \in Nat \ {0}, NEW key
    PROVE  LET s == Showing(entries, r, i - 1, key)
           IN  /\ IsFiniteSet(s) /\ Cardinality(s) \in Nat /\ i \notin s
               /\ Showing(entries, r, i, key) =
                      IF ClusterOf(entries, r, i).key = key THEN s \union {i} ELSE s
               /\ Cardinality(Showing(entries, r, i, key)) =
                      IF ClusterOf(entries, r, i).key = key THEN Cardinality(s) + 1
                      ELSE Cardinality(s)
<1> DEFINE s == Showing(entries, r, i - 1, key)
           t == Showing(entries, r, i, key)
<1>1. s \in SUBSET (1..(i - 1)) /\ IsFiniteSet(1..(i - 1))
  BY FS_Interval DEF Showing
<1>2. IsFiniteSet(s) /\ Cardinality(s) \in Nat /\ i \notin s
  BY <1>1, FS_Subset, FS_CardinalityType
<1>3. t = IF ClusterOf(entries, r, i).key = key THEN s \union {i} ELSE s
  BY DEF Showing
<1> HIDE DEF s, t
<1>4. Cardinality(t) = IF ClusterOf(entries, r, i).key = key THEN Cardinality(s) + 1
                       ELSE Cardinality(s)
  BY Zenon, <1>2, <1>3, FS_AddElement
<1>5. QED BY <1>2, <1>3, <1>4 DEF s, t

\* Adding to a cluster counts it once more, and leaves the others alone.
LEMMA AddKeepsRest ==
    ASSUME NEW c, NEW iri, IsCluster(c)
    PROVE  LET w == Memory!Add(c, iri)
           IN  /\ IsCluster(w) /\ w.key = c.key /\ w.host = c.host /\ w.shape = c.shape
               /\ w.count = c.count + 1
<1> DEFINE x == Memory!AddExample(c.examples, iri)
           s == Memory!AddSegments(c.segments, iri.segments)
           p == Memory!AddParams(c.params, iri.params)
           w == Memory!Add(c, iri)
<1>1. w = [c EXCEPT !.count = c.count + 1, !.examples = x, !.segments = s, !.params = p]
  BY DEF Memory!Add
<1> HIDE DEF x, s, p, w
<1>2. w = [[[[c EXCEPT !.count = c.count + 1] EXCEPT !.examples = x]
              EXCEPT !.segments = s] EXCEPT !.params = p]
  BY <1>1
<1>3. QED BY Zenon, <1>2 DEF IsCluster, w

\* So the counts stay those of the entries so far.
LEMMA CountedStep ==
    ASSUME NEW entries, NEW r, NEW i \in Nat \ {0}, NEW u, NEW iri,
           Counted(entries, r, i - 1, u)
    PROVE  Counted(entries, r, i, Memory!AddToCluster(u, ClusterOf(entries, r, i), iri))
<1> DEFINE k == ClusterOf(entries, r, i)
           w == Memory!AddToCluster(u, k, iri)
<1>1. Listed(u) /\ Len(u) \in Nat /\ DOMAIN u = 1..Len(u) /\ KeyedApart(u)
  BY ListedDomain DEF Counted
<1>2. \A j \in 1..i : j = i \/ j \in 1..(i - 1)
  OBVIOUS
<1>3. \A j : j \in 1..(i - 1) => j \in 1..i
  OBVIOUS
<1> HIDE DEF k, w
<1>4. CASE \E m \in 1..Len(u) : u[m].key = k.key
  <2>1. PICK m \in 1..Len(u) : u[m].key = k.key
    BY <1>4
  <2> DEFINE entry == Memory!Add(u[m], iri)
  <2>2. Memory!IndexOf(u, k.key) = {m} /\ Memory!Min({m}) = m
    <3>1. \A j \in 1..Len(u) : u[j].key = u[m].key => j = m
      BY <1>1 DEF KeyedApart
    <3>2. QED BY Zenon, <1>1, <2>1, <3>1, OnlyIndex
  <2>3. w = [u EXCEPT ![m] = entry]
    BY Zenon, <2>2 DEF Memory!AddToCluster, w
  <2>4. /\ IsCluster(entry) /\ entry.key = u[m].key /\ entry.host = u[m].host
        /\ entry.shape = u[m].shape /\ entry.count = u[m].count + 1
    BY AddKeepsRest DEF Counted
  <2> HIDE DEF entry
  <2>5. /\ Listed(w) /\ Len(w) = Len(u) /\ w[m] = entry
        /\ \A j \in 1..Len(u) : j # m => w[j] = u[j]
    BY Zenon, <1>1, <2>3, ListedExcept
  <2>6. KeyedApart(w)
    <3>1. DOMAIN w = 1..Len(u) /\ \A j \in 1..Len(u) : w[j].key = u[j].key
      BY Zenon, <2>4, <2>5, ListedDomain
    <3>2. QED BY <1>1, <3>1 DEF KeyedApart
  <2>7. ASSUME NEW j \in 1..Len(w)
        PROVE  /\ IsCluster(w[j])
               /\ w[j].count = Cardinality(Showing(entries, r, i, w[j].key))
               /\ \E x \in 1..i : /\ ClusterOf(entries, r, x).key = w[j].key
                                  /\ ClusterOf(entries, r, x).host = w[j].host
                                  /\ ClusterOf(entries, r, x).shape = w[j].shape
    <3>1. /\ IsCluster(u[j]) /\ u[j].count = Cardinality(Showing(entries, r, i - 1, u[j].key))
          /\ w[j].key = u[j].key /\ w[j].host = u[j].host /\ w[j].shape = u[j].shape
          /\ IsCluster(w[j])
          /\ w[j].count = IF j = m THEN u[j].count + 1 ELSE u[j].count
      BY Zenon, <2>4, <2>5 DEF Counted
    <3>2. j = m <=> k.key = u[j].key
      BY <1>1, <2>1, <2>5 DEF KeyedApart
    <3>3. Cardinality(Showing(entries, r, i, u[j].key)) =
            IF k.key = u[j].key THEN Cardinality(Showing(entries, r, i - 1, u[j].key)) + 1
            ELSE Cardinality(Showing(entries, r, i - 1, u[j].key))
      BY ShowingGrows DEF k
    <3>4. PICK x \in 1..(i - 1) : /\ ClusterOf(entries, r, x).key = u[j].key
                                  /\ ClusterOf(entries, r, x).host = u[j].host
                                  /\ ClusterOf(entries, r, x).shape = u[j].shape
      BY <2>5 DEF Counted
    <3>5. x \in 1..i
      BY <1>3
    <3>6. QED BY <3>1, <3>2, <3>3, <3>4, <3>5
  <2>8. ASSUME NEW x \in 1..i PROVE \E j \in 1..Len(w) : w[j].key = ClusterOf(entries, r, x).key
    <3>1. \A j \in 1..Len(u) : w[j].key = u[j].key
      BY <2>4, <2>5
    <3>2. CASE x = i
      BY <3>1, <3>2, <2>1, <2>5 DEF k
    <3>3. CASE x \in 1..(i - 1)
      <4>1. PICK j \in 1..Len(u) : u[j].key = ClusterOf(entries, r, x).key
        BY <3>3 DEF Counted
      <4>2. QED BY <3>1, <4>1, <2>5
    <3>4. QED BY <1>2, <3>2, <3>3
  <2>9. Counted(entries, r, i, w)
    BY Zenon, <2>5, <2>6, <2>7, <2>8 DEF Counted
  <2>10. QED BY <2>9 DEF k, w
<1>5. CASE ~\E m \in 1..Len(u) : u[m].key = k.key
  <2>1. Memory!IndexOf(u, k.key) = {}
    BY <1>1, <1>5 DEF Memory!IndexOf
  <2> DEFINE c == Memory!NewCluster(k)
             entry == Memory!Add(c, iri)
             n == Len(u) + 1
  <2>2. w = Append(u, entry)
    BY <2>1 DEF Memory!AddToCluster, w
  <2>3. IsCluster(c) /\ c.key = k.key /\ c.host = k.host /\ c.shape = k.shape /\ c.count = 0
    BY DEF Memory!NewCluster, IsCluster
  <2> HIDE DEF c
  <2>4. /\ IsCluster(entry) /\ entry.key = k.key /\ entry.host = k.host
        /\ entry.shape = k.shape /\ entry.count = 1
    BY <2>3, AddKeepsRest
  <2> HIDE DEF entry
  <2>5. /\ Listed(w) /\ Len(w) = n /\ w[n] = entry /\ \A j \in 1..Len(u) : w[j] = u[j]
        /\ DOMAIN w = 1..n
    BY <1>1, <2>2, ListedAppend, ListedDomain
  <2>6. KeyedApart(w)
    <3>1. \A j \in 1..n : j = n \/ j \in 1..Len(u)
      BY <1>1
    <3>2. QED BY <1>1, <1>5, <2>4, <2>5, <3>1 DEF KeyedApart
  <2>7. \A x \in 1..(i - 1) : ClusterOf(entries, r, x).key # k.key
    BY <1>5 DEF Counted
  <2>8. ASSUME NEW j \in 1..Len(w)
        PROVE  /\ IsCluster(w[j])
               /\ w[j].count = Cardinality(Showing(entries, r, i, w[j].key))
               /\ \E x \in 1..i : /\ ClusterOf(entries, r, x).key = w[j].key
                                  /\ ClusterOf(entries, r, x).host = w[j].host
                                  /\ ClusterOf(entries, r, x).shape = w[j].shape
    <3>1. CASE j = n
      <4>1. Showing(entries, r, i - 1, k.key) = {}
        BY <2>7 DEF Showing
      <4>2. Cardinality(Showing(entries, r, i, k.key)) = 1
        BY <4>1, ShowingGrows, FS_EmptySet DEF k
      <4>3. i \in 1..i /\ ClusterOf(entries, r, i) = k
        BY DEF k
      <4>4. QED BY <3>1, <2>4, <2>5, <4>2, <4>3
    <3>2. CASE j \in 1..Len(u)
      <4>1. /\ IsCluster(u[j]) /\ w[j] = u[j]
            /\ u[j].count = Cardinality(Showing(entries, r, i - 1, u[j].key))
        BY Zenon, <3>2, <2>5 DEF Counted
      <4>2. k.key # u[j].key
        BY <3>2, <1>5
      <4>3. Cardinality(Showing(entries, r, i, u[j].key)) =
              Cardinality(Showing(entries, r, i - 1, u[j].key))
        BY <4>2, ShowingGrows DEF k
      <4>4. PICK x \in 1..(i - 1) : /\ ClusterOf(entries, r, x).key = u[j].key
                                    /\ ClusterOf(entries, r, x).host = u[j].host
                                    /\ ClusterOf(entries, r, x).shape = u[j].shape
        BY Zenon, <3>2 DEF Counted
      <4>5. x \in 1..i
        BY <1>3
      <4>6. QED BY <4>1, <4>3, <4>4, <4>5
    <3>3. QED BY <1>1, <2>5, <3>1, <3>2
  <2>9. ASSUME NEW x \in 1..i PROVE \E j \in 1..Len(w) : w[j].key = ClusterOf(entries, r, x).key
    <3>1. CASE x = i
      <4>1. n \in 1..Len(w) /\ w[n].key = k.key
        BY <1>1, <2>4, <2>5
      <4>2. QED BY <3>1, <4>1 DEF k
    <3>2. CASE x \in 1..(i - 1)
      <4>1. PICK j \in 1..Len(u) : u[j].key = ClusterOf(entries, r, x).key
        BY <3>2 DEF Counted
      <4>2. j \in 1..Len(w) /\ w[j] = u[j]
        BY <1>1, <2>5
      <4>3. QED BY <4>1, <4>2
    <3>3. QED BY <1>2, <3>1, <3>2
  <2>10. Counted(entries, r, i, w)
    BY Zenon, <2>5, <2>6, <2>8, <2>9 DEF Counted
  <2>11. QED BY <2>10 DEF k, w
<1>6. QED BY <1>4, <1>5

\* Entries of a log, replayed into views, counted.
ReplayCounts(a, v, c) == Memory!Apply(v, EventsUnder(Parse(c), a.recognizers))
ReplayCounted(a, b, n, v, u) == Counted(a.entries, a.recognizers, n, v.clusters)

Recount == INSTANCE FoldSteps WITH
    OpA <- ReplayCounts, OpB <- CountNothing, Rel <- ReplayCounted
LEMMA RecountOrdered == Recount!WellOrdered
BY NaturalsOrdered DEF Recount!WellOrdered

LEMMA ApplyClusters ==
    ASSUME NEW v, NEW iri, NEW r
    PROVE  Memory!Apply(v, EventsUnder(iri, r)).clusters =
               Memory!AddToCluster(v.clusters, EventsUnder(iri, r).cluster, iri)
<1> DEFINE e == EventsUnder(iri, r)
<1>1. e.iri = iri
  BY DEF EventsUnder, Events
<1> HIDE DEF e
<1>2. Memory!Apply(v, e).clusters = Memory!AddToCluster(v.clusters, e.cluster, e.iri)
  BY DEF Memory!Apply
<1>3. QED BY <1>1, <1>2 DEF e

\* Views replayed from a log count its entries.
LEMMA ReplayedCounted ==
    ASSUME NEW entries, NEW r, Listed(entries)
    PROVE  Counted(entries, r, Len(entries), Memory!Replayed(entries, r).clusters)
<1> DEFINE n == Len(entries)
           a == [entries |-> entries, recognizers |-> r]
           base == Memory!EmptyViews
<1>1. n \in Nat /\ DOMAIN entries = 1..n
  BY ListedDomain
<1>2. Memory!Replayed(entries, r) = Recount!SeqA(a, base, entries)
  BY DEF Memory!Replayed, Memory!FoldLeft, Memory!MapThenFoldSet, Memory!Max,
         Recount!SeqA, ReplayCounts
<1>3. ReplayCounted(a, 0, 0, base, 0)
  BY DEF ReplayCounted, Counted, Memory!EmptyViews, Listed, KeyedApart
<1>4. \A i \in 1..n : \A v, u : ReplayCounted(a, 0, i - 1, v, u) =>
          ReplayCounted(a, 0, i, ReplayCounts(a, v, entries[i]), CountNothing(0, u, entries[i]))
  <2> SUFFICES ASSUME NEW i \in 1..n, NEW v, Counted(entries, r, i - 1, v.clusters)
               PROVE  Counted(entries, r, i, ReplayCounts(a, v, entries[i]).clusters)
    BY DEF ReplayCounted
  <2>1. i \in Nat \ {0}
    BY <1>1
  <2>2. ReplayCounts(a, v, entries[i]).clusters =
          Memory!AddToCluster(v.clusters, ClusterOf(entries, r, i), Parse(entries[i]))
    BY ApplyClusters DEF ReplayCounts, ClusterOf
  <2>3. QED BY <2>1, <2>2, CountedStep
<1>5. ReplayCounted(a, 0, n, Recount!SeqA(a, base, entries), Recount!SeqB(0, 0, entries))
  <2> HIDE DEF n, a, base
  <2>1. QED BY <1>1, <1>3, <1>4, RecountOrdered, Recount!SequenceFolds
<1>6. QED BY <1>2, <1>5 DEF ReplayCounted

\* What an entry added to a log leaves of the counts.
LEMMA CountedAppend ==
    ASSUME NEW entries, Listed(entries), NEW c, NEW r, NEW u,
           Counted(entries, r, Len(entries), u)
    PROVE  Counted(Append(entries, c), r, Len(entries), u)
<1> DEFINE longer == Append(entries, c)
<1>1. \A i \in 1..Len(entries) : longer[i] = entries[i]
  BY ListedAppend
<1> HIDE DEF longer
<1>2. \A i \in 1..Len(entries) : ClusterOf(longer, r, i) = ClusterOf(entries, r, i)
  BY <1>1 DEF ClusterOf
<1>3. \A key : Showing(longer, r, Len(entries), key) = Showing(entries, r, Len(entries), key)
  BY <1>2 DEF Showing
<1>4. Counted(longer, r, Len(entries), u)
  <2>1. /\ Listed(u) /\ KeyedApart(u)
        /\ \A m \in 1..Len(u) :
               /\ IsCluster(u[m])
               /\ u[m].count = Cardinality(Showing(longer, r, Len(entries), u[m].key))
    BY Zenon, <1>3 DEF Counted
  <2>2. \A m \in 1..Len(u) :
            \E i \in 1..Len(entries) : /\ ClusterOf(longer, r, i).key = u[m].key
                                      /\ ClusterOf(longer, r, i).host = u[m].host
                                      /\ ClusterOf(longer, r, i).shape = u[m].shape
    <3> TAKE m \in 1..Len(u)
    <3>1. PICK i \in 1..Len(entries) : /\ ClusterOf(entries, r, i).key = u[m].key
                                       /\ ClusterOf(entries, r, i).host = u[m].host
                                       /\ ClusterOf(entries, r, i).shape = u[m].shape
      BY Zenon DEF Counted
    <3>2. ClusterOf(longer, r, i) = ClusterOf(entries, r, i)
      BY Zenon, <1>2
    <3>3. QED BY ONLY Zenon, <3>1, <3>2
  <2>3. \A i \in 1..Len(entries) :
            \E m \in 1..Len(u) : u[m].key = ClusterOf(longer, r, i).key
    <3> TAKE i \in 1..Len(entries)
    <3>1. PICK m \in 1..Len(u) : u[m].key = ClusterOf(entries, r, i).key
      BY Zenon DEF Counted
    <3>2. ClusterOf(longer, r, i) = ClusterOf(entries, r, i)
      BY Zenon, <1>2
    <3>3. QED BY ONLY Zenon, <3>1, <3>2
  <2>4. QED BY ONLY Zenon, <2>1, <2>2, <2>3 DEF Counted
<1>5. QED BY <1>4 DEF longer

\* Every cluster of a corpus is counted once for each entry of its log that shows it.
ClustersCounted ==
    /\ TablesMirrored
    /\ Counted(log, acts, Len(log), MirrorIntoMemory.clusters)

LEMMA InitCounted == Init => ClustersCounted
<1> SUFFICES ASSUME Init PROVE ClustersCounted
  OBVIOUS
<1>1. TablesMirrored /\ MirrorIntoMemory = Memory!EmptyViews
  BY InitMirrored DEF Memory!Init
<1>2. MirrorIntoMemory.clusters = <<>> /\ log = <<>> /\ Len(log) = 0
  BY <1>1 DEF Memory!EmptyViews, Init
<1>3. QED BY <1>1, <1>2 DEF ClustersCounted, Counted, Listed, KeyedApart

LEMMA NextCounted == ClustersCounted /\ [Next]_vars => ClustersCounted'
<1> SUFFICES ASSUME ClustersCounted, [Next]_vars PROVE ClustersCounted'
  OBVIOUS
<1>0. TablesMirrored /\ Listed(log) /\ Len(log) \in Nat
  BY ListedDomain DEF ClustersCounted, TablesMirrored, LogFit
<1>1. ASSUME NEW input \in Inputs, Observe(input) PROVE ClustersCounted'
  <2> DEFINE iri == Parse(input)
             c == Canonical(iri)
             n == Len(log) + 1
             v == MirrorIntoMemory
  <2>1. TablesMirrored' /\ Memory!Observe(input)
    BY <1>0, <1>1, ObserveStep
  <2>2. /\ MirrorIntoMemory' = Memory!Apply(v, EventsUnder(iri, acts))
        /\ log' = Append(log, c) /\ acts' = acts /\ Parse(c) = iri
    BY <2>1 DEF Memory!Observe, Memory!Observable, Reparses
  <2>3. /\ Len(log') = n /\ log'[n] = c /\ n \in Nat \ {0} /\ n - 1 = Len(log)
    BY <1>0, <2>2, ListedAppend
  <2> HIDE DEF v, iri, c, n
  <2>4. Counted(log', acts, n - 1, v.clusters)
    BY <1>0, <2>2, <2>3, CountedAppend DEF ClustersCounted, v
  <2>5. Counted(log', acts, n, Memory!AddToCluster(v.clusters, ClusterOf(log', acts, n), iri))
    BY <2>3, <2>4, CountedStep
  <2>6. ClusterOf(log', acts, n) = EventsUnder(iri, acts).cluster
    BY <2>2, <2>3 DEF ClusterOf
  <2>7. Counted(log', acts, n, MirrorIntoMemory'.clusters)
    BY <2>2, <2>5, <2>6, ApplyClusters
  <2>8. QED BY <2>1, <2>2, <2>3, <2>7 DEF ClustersCounted
<1>2. ASSUME NEW a \in Recognizers, Activate(a) PROVE ClustersCounted'
  <2>1. TablesMirrored' /\ Memory!Activate(a)
    BY <1>0, <1>2, ActivateStep
  <2>2. MirrorIntoMemory' = Memory!Replayed(log, acts') /\ log' = log
    BY <2>1 DEF Memory!Activate
  <2>3. QED BY <1>0, <2>1, <2>2, ReplayedCounted DEF ClustersCounted
<1>3. ASSUME UNCHANGED <<db, log, acts>> PROVE ClustersCounted'
  <2>1. TablesMirrored' /\ MirrorIntoMemory' = MirrorIntoMemory
    BY <1>0, <1>3, KeptStep
  <2>2. QED BY <1>3, <2>1 DEF ClustersCounted
<1>4. QED BY <1>1, <1>2, <1>3 DEF Next, Read, vars

-----------------------------------------------------------------------------
(* Shapes across hosts. *)

\* The counts of the clusters of one shape, added up.
SumCounts(a, total, c) == c.count + total
SumNothing(b, u, c) == u
\* The entries that show one of the clusters.
SumShown(a, b, s, total, u) ==
    total = Cardinality({i \in 1..a.n : \E c \in s : ClusterOf(a.entries, a.recognizers, i).key = c.key})

Sums == INSTANCE FoldSteps WITH
    OpA <- SumCounts, OpB <- SumNothing, Rel <- SumShown
LEMMA SumsOrdered == Sums!WellOrdered
BY NaturalsOrdered DEF Sums!WellOrdered

\* They add up to how many entries show the shape.
LEMMA CountsSum ==
    ASSUME NEW entries, NEW r, NEW n \in Nat, NEW u, Counted(entries, r, n, u),
           NEW S, S \subseteq Range(u)
    PROVE  MapThenSumSet(LAMBDA c : c.count, S) =
               Cardinality({i \in 1..n : \E c \in S : ClusterOf(entries, r, i).key = c.key})
<1> DEFINE a == [entries |-> entries, recognizers |-> r, n |-> n]
           Shown(s) == {i \in 1..n : \E c \in s : ClusterOf(entries, r, i).key = c.key}
<1>1. Listed(u) /\ Len(u) \in Nat /\ DOMAIN u = 1..Len(u) /\ Range(u) = {u[m] : m \in 1..Len(u)}
  BY Zenon, ListedDomain DEF Counted, Range
<1>2. IsFiniteSet(S)
  <2>1. IsFiniteSet(1..Len(u))
    BY <1>1, FS_Interval
  <2> DEFINE T == {u[m] : m \in 1..Len(u)}
             f == [m \in 1..Len(u) |-> u[m]]
  <2>2. IsFiniteSet(T)
    <3>1. f \in Surjection(1..Len(u), T)
      BY DEF Surjection
    <3> HIDE DEF f, T
    <3>2. QED BY <2>1, <3>1, FS_Surjection
  <2>3. QED BY <1>1, <2>2, FS_Subset
<1>3. \A s : IsFiniteSet(Shown(s)) /\ Cardinality(Shown(s)) \in Nat
  <2> SUFFICES ASSUME NEW s PROVE IsFiniteSet(Shown(s)) /\ Cardinality(Shown(s)) \in Nat
    BY Zenon
  <2>1. Shown(s) \in SUBSET (1..n) /\ IsFiniteSet(1..n)
    BY FS_Interval
  <2> HIDE DEF Shown
  <2>2. QED BY <2>1, FS_Subset, FS_CardinalityType
<1>0. \A s, t, x : SumShown(a, 0, s, t, x) <=> t = Cardinality(Shown(s))
  BY DEF SumShown
<1>4. SumShown(a, 0, {}, 0, 0)
  <2>1. Shown({}) = {}
    OBVIOUS
  <2> HIDE DEF Shown
  <2>2. QED BY <1>0, <2>1, FS_EmptySet
<1>5. \A s \in SUBSET S : \A c \in s : \A t, x :
        SumShown(a, 0, s \ {c}, t, x) => SumShown(a, 0, s, SumCounts(a, t, c), SumNothing(0, x, c))
  <2> SUFFICES ASSUME NEW s \in SUBSET S, NEW c \in s
               PROVE  c.count + Cardinality(Shown(s \ {c})) = Cardinality(Shown(s))
    <3> HIDE DEF Shown, a
    <3>1. QED BY <1>0 DEF SumCounts, SumNothing
  <2>1. PICK m \in 1..Len(u) : c = u[m]
    BY <1>1
  <2>2. c.count = Cardinality(Showing(entries, r, n, c.key))
    BY <2>1 DEF Counted
  <2>3. Shown(s) = Showing(entries, r, n, c.key) \union Shown(s \ {c})
    BY DEF Showing
  <2>4. Showing(entries, r, n, c.key) \intersect Shown(s \ {c}) = {}
    <3>1. \A x \in s : x.key = c.key => x = c
      <4> SUFFICES ASSUME NEW x \in s, x.key = c.key PROVE x = c
        OBVIOUS
      <4>1. PICK j \in 1..Len(u) : x = u[j]
        BY <1>1
      <4>2. QED BY Zenon, <1>1, <2>1, <4>1 DEF Counted, KeyedApart
    <3>2. QED BY <3>1 DEF Showing
  <2>5. IsFiniteSet(Showing(entries, r, n, c.key))
        /\ Cardinality(Showing(entries, r, n, c.key)) \in Nat
    <3>1. Showing(entries, r, n, c.key) \in SUBSET (1..n) /\ IsFiniteSet(1..n)
      BY FS_Interval DEF Showing
    <3>2. QED BY <3>1, FS_Subset, FS_CardinalityType
  <2>6. IsFiniteSet(Shown(s \ {c})) /\ Cardinality(Shown(s \ {c})) \in Nat
    BY Zenon, <1>3
  <2> HIDE DEF Shown
  <2>7. Cardinality(Shown(s)) =
          Cardinality(Showing(entries, r, n, c.key)) + Cardinality(Shown(s \ {c})) - 0
    BY Zenon, <2>3, <2>4, <2>5, <2>6, FS_Union, FS_EmptySet
  <2>8. QED BY <2>2, <2>5, <2>6, <2>7
<1>6. SumShown(a, 0, S, Sums!SetA(a, 0, S), Sums!SetB(0, 0, S))
  <2> HIDE DEF a
  <2>1. Sums!Counted(S)
    BY Zenon, <1>2, PartsCounted DEF Sums!Counted
  <2>2. QED BY <1>4, <1>5, <2>1, SumsOrdered, Sums!SetFolds
<1>7. MapThenSumSet(LAMBDA c : c.count, S) = Sums!SetA(a, 0, S)
  BY DEF MapThenSumSet, MapThenFoldSet, Sums!SetA, SumCounts
<1>8. QED BY <1>6, <1>7 DEF SumShown

\* So the shapes several hosts share are those of the log.
LEMMA CountedShapes == ClustersCounted => CrossHostMatchesLog
<1> SUFFICES ASSUME ClustersCounted
             PROVE  CrossHostShapes(LoadClusters, 2) = SharedInLog(2)
  BY DEF CrossHostMatchesLog
<1> DEFINE u == LoadClusters
           n == Len(log)
           Of(shape) == {c \in Range(u) : c.shape = shape}
           Row(shape) == [shape |-> shape, hosts |-> {c.host : c \in Of(shape)},
                          observations |-> MapThenSumSet(LAMBDA c : c.count, Of(shape))]
           of(shape) == {i \in DOMAIN log : ShapeOf(log[i]).shape = shape}
           row(shape) == [shape |-> shape, hosts |-> {ShapeOf(log[i]).host : i \in of(shape)},
                          observations |-> Cardinality(of(shape))]
<1>1. Counted(log, acts, n, u)
  BY DEF ClustersCounted, MirrorIntoMemory
<1>2. n \in Nat /\ DOMAIN log = 1..n
  BY ListedDomain DEF ClustersCounted, TablesMirrored, LogFit
<1>3. \A i \in 1..n : ShapeOf(log[i]) = ClusterOf(log, acts, i)
  BY DEF ShapeOf, ClusterOf
<1>4. CrossHostShapes(u, 2) = {x \in {Row(c.shape) : c \in Range(u)} : Cardinality(x.hosts) >= 2}
  BY DEF CrossHostShapes
<1>5. SharedInLog(2) =
        {x \in {row(ShapeOf(log[i]).shape) : i \in DOMAIN log} : Cardinality(x.hosts) >= 2}
  BY DEF SharedInLog
<1> HIDE DEF u
<1>6. Range(u) = {u[m] : m \in 1..Len(u)} /\ Len(u) \in Nat
  BY <1>1, ListedDomain DEF Counted, Range
<1>7. \A i \in 1..n : \E c \in Range(u) : c.key = ClusterOf(log, acts, i).key
  BY Zenon, <1>1, <1>6 DEF Counted
<1>8. ASSUME NEW c \in Range(u)
      PROVE  \E i \in 1..n : /\ ClusterOf(log, acts, i).key = c.key
                             /\ ClusterOf(log, acts, i).host = c.host
                             /\ ClusterOf(log, acts, i).shape = c.shape
  BY <1>1, <1>6 DEF Counted
\* A cluster is every entry's with its key.
<1>9. ASSUME NEW c \in Range(u), NEW i \in 1..n, ClusterOf(log, acts, i).key = c.key
      PROVE  ClusterOf(log, acts, i).host = c.host /\ ClusterOf(log, acts, i).shape = c.shape
  <2>1. PICK j \in 1..n : /\ ClusterOf(log, acts, j).key = c.key
                          /\ ClusterOf(log, acts, j).host = c.host
                          /\ ClusterOf(log, acts, j).shape = c.shape
    BY <1>8
  <2>2. /\ ClusterOf(log, acts, i).host = ClusterOf(log, acts, j).host
        /\ ClusterOf(log, acts, i).shape = ClusterOf(log, acts, j).shape
    BY <1>9, <2>1, KeyNames DEF ClusterOf
  <2>3. QED BY <2>1, <2>2
<1>10. ASSUME NEW shape PROVE Row(shape) = row(shape)
  <2>1. {i \in 1..n : \E c \in Of(shape) : ClusterOf(log, acts, i).key = c.key} = of(shape)
    <3> SUFFICES ASSUME NEW i \in 1..n
                 PROVE  (\E c \in Of(shape) : ClusterOf(log, acts, i).key = c.key)
                        <=> ClusterOf(log, acts, i).shape = shape
      BY <1>2, <1>3
    <3>1. PICK c \in Range(u) : c.key = ClusterOf(log, acts, i).key
      BY <1>7
    <3>2. QED BY <1>9, <3>1
  <2>2. {c.host : c \in Of(shape)} = {ShapeOf(log[i]).host : i \in of(shape)}
    <3>1. ASSUME NEW c \in Of(shape) PROVE \E i \in of(shape) : c.host = ShapeOf(log[i]).host
      <4>1. PICK i \in 1..n : /\ ClusterOf(log, acts, i).host = c.host
                              /\ ClusterOf(log, acts, i).shape = c.shape
        BY <1>8
      <4>2. QED BY <4>1, <1>2, <1>3
    <3>2. ASSUME NEW i \in of(shape) PROVE \E c \in Of(shape) : c.host = ShapeOf(log[i]).host
      <4>1. i \in 1..n /\ ClusterOf(log, acts, i).shape = shape
        BY <1>2, <1>3
      <4>2. PICK c \in Range(u) : c.key = ClusterOf(log, acts, i).key
        BY <1>7, <4>1
      <4>3. QED BY <1>3, <1>9, <4>1, <4>2
    <3> HIDE DEF Of, of
    <3>3. QED BY <3>1, <3>2
  <2>3. MapThenSumSet(LAMBDA c : c.count, Of(shape)) = Cardinality(of(shape))
    <3>1. Of(shape) \subseteq Range(u)
      OBVIOUS
    <3> HIDE DEF Of, of
    <3>2. QED BY <1>1, <1>2, <2>1, <3>1, CountsSum
  <2> HIDE DEF Of, of
  <2>4. QED BY Zenon, <2>2, <2>3
<1>11. \A c \in Range(u) : \E i \in DOMAIN log : c.shape = ShapeOf(log[i]).shape
  BY <1>2, <1>3, <1>8
<1>12. \A i \in DOMAIN log : \E c \in Range(u) : c.shape = ShapeOf(log[i]).shape
  BY <1>2, <1>3, <1>7, <1>9
<1> HIDE DEF Row, row
<1>13. {Row(c.shape) : c \in Range(u)} = {row(ShapeOf(log[i]).shape) : i \in DOMAIN log}
  BY <1>10, <1>11, <1>12
<1>14. QED BY Zenon, <1>4, <1>5, <1>13 DEF u

\* For any inputs, caps and recognizers, a shape reported across hosts has the hosts and
\* the count that its entries in the log have (corpus.rs `cross_host_shapes`, cluster.rs
\* `add_with`).
THEOREM ClustersMatchLog == Spec => []CrossHostMatchesLog
<1>1. Spec => []ClustersCounted
  BY InitCounted, NextCounted, PTL DEF Spec
<1>2. QED BY <1>1, CountedShapes, PTL

-----------------------------------------------------------------------------
(* Reading an identifier without a corpus. *)

\* The two renderers of a segment agree, and so do those of a parameter.
LEMMA RowsAgree ==
    ASSUME NEW entry, NEW hints, NEW name, NEW value
    PROVE  /\ RenderSegmentRow(entry, hints) = RenderEntry(entry, hints, TRUE)
           /\ RenderQueryRow(name, value) = RenderParam(name, value)
BY DEF RenderSegmentRow, RenderEntry, RenderQueryRow,
       RenderParam, IsVariable

\* For any identifier, whatever the classifier makes of its words, the trace of a URL
\* shows what its normalisation holds, and that of `urn:ns:value` its value's (trace.rs,
\* normalizer.rs).
THEOREM TracesAlwaysAgree == Spec => []TraceAgrees
<1>1. ASSUME NEW iri, NEW hints, ~IsUrn(iri)
      PROVE  LET trace == Trace(iri, hints)
             IN  trace.path = trace.normalized.path /\ trace.query = trace.normalized.query
  BY Zenon, <1>1, RowsAgree
     DEF Trace, Normalize, Explain, RenderShape
<1>2. ASSUME NEW iri, NEW hints, IsUrn(iri),
             Trace(iri, hints).normalized # Verbatim(iri)
      PROVE  Trace(iri, hints).path[2] = Trace(iri, hints).normalized.shaped
  <2> DEFINE parts == UrnParts(iri)
  <2>1. /\ iri.scheme = <<"urn">> /\ Len(parts) = 2
        /\ Trace(iri, hints).normalized.shaped =
             RenderEntry(DeriveHints(parts, <<>>)[2], hints, TRUE)
    BY Zenon, <1>2 DEF Trace, Normalize, NormalizeUrn
  <2>2. 2 \in DOMAIN DeriveHints(parts, <<>>)
    BY <2>1 DEF DeriveHints, UrnParts
  <2>3. QED BY Zenon, <1>2, <2>1, <2>2, RowsAgree DEF Trace, Explain
<1>3. TraceAgrees
  BY <1>1, <1>2 DEF TraceAgrees
<1>4. QED BY <1>3, PTL

-----------------------------------------------------------------------------
(* Texts joined and cut. *)

\* One text after another.
LEMMA Glued ==
    ASSUME NEW u, Listed(u), NEW v, Listed(v)
    PROVE  /\ Listed(u \o v) /\ Len(u \o v) = Len(u) + Len(v)
           /\ \A i \in 1..Len(u) : (u \o v)[i] = u[i]
           /\ \A i \in 1..Len(v) : (u \o v)[Len(u) + i] = v[i]
<1>1. PICK S : u \in Seq(S)
  BY DEF Listed
<1>2. PICK T : v \in Seq(T)
  BY DEF Listed
<1>3. u \in Seq(S \union T) /\ v \in Seq(S \union T)
  BY <1>1, <1>2
<1>4. u \o v \in Seq(S \union T) /\ Len(u \o v) = Len(u) + Len(v)
  BY <1>3
<1>5. \A i \in 1..Len(u) : (u \o v)[i] = u[i]
  BY <1>3
<1>6. \A i \in 1..Len(v) : (u \o v)[Len(u) + i] = v[i]
  BY <1>3
<1>7. QED BY <1>4, <1>5, <1>6 DEF Listed

LEMMA ListedEqual ==
    ASSUME NEW u, Listed(u), NEW v, Listed(v), Len(u) = Len(v),
           \A i \in 1..Len(u) : u[i] = v[i]
    PROVE  u = v
<1>1. u = [i \in 1..Len(u) |-> u[i]] /\ v = [i \in 1..Len(v) |-> v[i]]
  BY ListedDomain
<1>2. [i \in 1..Len(u) |-> u[i]] = [i \in 1..Len(u) |-> v[i]]
  OBVIOUS
<1>3. QED BY <1>1, <1>2

\* A part of a text.
LEMMA Part ==
    ASSUME NEW s, Listed(s), NEW i \in Nat \ {0}, NEW j \in 0..Len(s), i <= j + 1
    PROVE  /\ Listed(SubSeq(s, i, j)) /\ Len(SubSeq(s, i, j)) = j - i + 1
           /\ \A k \in 1..(j - i + 1) : SubSeq(s, i, j)[k] = s[i + k - 1]
<1>1. PICK S : s \in Seq(S)
  BY DEF Listed
<1>2. Len(s) \in Nat /\ j \in Nat
  BY <1>1
<1>3. SubSeq(s, i, j) \in Seq(S) /\ Len(SubSeq(s, i, j)) = j - i + 1
  BY <1>1, <1>2
<1>4. \A k \in 1..(j - i + 1) : SubSeq(s, i, j)[k] = s[i + k - 1]
  BY <1>1, <1>2
<1>5. QED BY <1>3, <1>4 DEF Listed

LEMMA Grouped ==
    ASSUME NEW u, Listed(u), NEW v, Listed(v), NEW w, Listed(w)
    PROVE  (u \o v) \o w = u \o (v \o w)
<1>1. PICK S : u \in Seq(S)
  BY DEF Listed
<1>2. PICK T : v \in Seq(T)
  BY DEF Listed
<1>3. PICK R : w \in Seq(R)
  BY DEF Listed
<1> DEFINE All == S \union T \union R
<1>4. u \in Seq(All) /\ v \in Seq(All) /\ w \in Seq(All)
  BY <1>1, <1>2, <1>3
<1> HIDE DEF All
<1>5. QED BY <1>4

\* Where a text is first cut.
LEMMA FirstMark ==
    ASSUME NEW s, Listed(s), NEW marks, NEW k \in 1..(Len(s) + 1),
           \A i \in 1..(k - 1) : s[i] \notin marks,
           k <= Len(s) => s[k] \in marks
    PROVE  First(s, marks) = k
<1> DEFINE S == {i \in DOMAIN s : s[i] \in marks} \union {Len(s) + 1}
<1>1. Len(s) \in Nat /\ DOMAIN s = 1..Len(s)
  BY ListedDomain
<1>2. k \in S /\ \A j \in S : k <= j
  <2>1. k \in S
    BY <1>1
  <2>2. ASSUME NEW j \in S PROVE k <= j
    BY <1>1
  <2>3. QED BY <2>1, <2>2
<1>3. \A j \in S : j \in Int
  BY <1>1
<1> HIDE DEF S
<1>4. Min(S) = k
  <2>1. Min(S) \in S /\ \A j \in S : Min(S) <= j
    BY Zenon, <1>2 DEF Min
  <2>2. Min(S) <= k /\ k <= Min(S) /\ Min(S) \in Int /\ k \in Int
    BY Zenon, <1>2, <1>3, <2>1
  <2>3. QED BY <2>2
<1>5. QED BY <1>4 DEF First, S

\* A text is cut before its first mark.
LEMMA Cut ==
    ASSUME NEW u, Listed(u), NEW v, Listed(v), NEW marks,
           \A i \in 1..Len(u) : u[i] \notin marks, v # <<>> => v[1] \in marks
    PROVE  /\ Before(u \o v, marks) = u /\ From(u \o v, marks) = v
           /\ v # <<>> => After(u \o v, marks) = Tail(v)
           /\ v = <<>> => After(u \o v, marks) = <<>>
<1> DEFINE s == u \o v
<1>1. Len(u) \in Nat /\ Len(v) \in Nat
  BY ListedDomain
<1>2. /\ Listed(s) /\ Len(s) = Len(u) + Len(v)
      /\ \A i \in 1..Len(u) : s[i] = u[i]
      /\ \A j \in 1..Len(v) : s[Len(u) + j] = v[j]
  BY Glued
<1>3. v # <<>> <=> Len(v) > 0
  BY DEF Listed
<1> HIDE DEF s
<1>4. First(s, marks) = Len(u) + 1
  <2>1. Len(u) + 1 \in 1..(Len(s) + 1)
    BY <1>1, <1>2
  <2>2. \A i \in 1..((Len(u) + 1) - 1) : s[i] \notin marks
    BY <1>1, <1>2
  <2>3. Len(u) + 1 <= Len(s) => s[Len(u) + 1] \in marks
    <3>1. SUFFICES ASSUME Len(u) + 1 <= Len(s) PROVE s[Len(u) + 1] \in marks
      OBVIOUS
    <3>2. Len(v) > 0 /\ 1 \in 1..Len(v)
      BY <3>1, <1>1, <1>2
    <3>3. QED BY <3>2, <1>2, <1>3
  <2>4. QED BY Zenon, <2>1, <2>2, <2>3, <1>2, FirstMark
<1>5. SubSeq(s, 1, Len(u)) = u
  <2> DEFINE t == SubSeq(s, 1, Len(u))
  <2>1. Len(u) \in 0..Len(s) /\ 1 <= Len(u) + 1 /\ Len(u) - 1 + 1 = Len(u)
    BY <1>1, <1>2
  <2>2. /\ Listed(t) /\ Len(t) = Len(u) - 1 + 1
        /\ \A k \in 1..(Len(u) - 1 + 1) : t[k] = s[1 + k - 1]
    BY <2>1, <1>2, Part
  <2> HIDE DEF t
  <2>3. \A k \in 1..Len(u) : t[k] = u[k]
    BY <1>1, <1>2, <2>2
  <2>4. t = u
    BY <2>1, <2>2, <2>3, ListedEqual
  <2>5. QED BY <2>4 DEF t
<1>6. SubSeq(s, Len(u) + 1, Len(s)) = v
  <2> DEFINE t == SubSeq(s, Len(u) + 1, Len(s))
  <2>1. Len(u) + 1 \in Nat \ {0} /\ Len(s) \in 0..Len(s) /\ Len(u) + 1 <= Len(s) + 1
        /\ Len(s) - (Len(u) + 1) + 1 = Len(v)
    BY <1>1, <1>2
  <2>2. /\ Listed(t) /\ Len(t) = Len(s) - (Len(u) + 1) + 1
        /\ \A k \in 1..(Len(s) - (Len(u) + 1) + 1) : t[k] = s[(Len(u) + 1) + k - 1]
    BY <2>1, <1>2, Part
  <2> HIDE DEF t
  <2>3. \A k \in 1..Len(v) : t[k] = v[k]
    <3> SUFFICES ASSUME NEW k \in 1..Len(v) PROVE t[k] = v[k]
      OBVIOUS
    <3>1. (Len(u) + 1) + k - 1 = Len(u) + k
      BY <1>1
    <3>2. QED BY Zenon, <3>1, <2>1, <2>2, <1>2
  <2>4. t = v
    BY <2>1, <2>2, <2>3, ListedEqual
  <2>5. QED BY <2>4 DEF t
<1>7. v # <<>> => SubSeq(s, Len(u) + 2, Len(s)) = Tail(v)
  <2> SUFFICES ASSUME v # <<>> PROVE SubSeq(s, Len(u) + 2, Len(s)) = Tail(v)
    OBVIOUS
  <2> DEFINE t == SubSeq(s, Len(u) + 2, Len(s))
  <2>1. Len(u) + 2 \in Nat \ {0} /\ Len(s) \in 0..Len(s) /\ Len(u) + 2 <= Len(s) + 1
        /\ Len(s) - (Len(u) + 2) + 1 = Len(v) - 1
    BY <1>1, <1>2, <1>3
  <2>2. /\ Listed(t) /\ Len(t) = Len(s) - (Len(u) + 2) + 1
        /\ \A k \in 1..(Len(s) - (Len(u) + 2) + 1) : t[k] = s[(Len(u) + 2) + k - 1]
    BY <2>1, <1>2, Part
  <2>3. /\ Listed(Tail(v)) /\ Len(Tail(v)) = Len(v) - 1
        /\ \A k \in 1..(Len(v) - 1) : Tail(v)[k] = v[k + 1]
    <3>1. PICK S : v \in Seq(S)
      BY DEF Listed
    <3>2. QED BY <3>1 DEF Listed
  <2> HIDE DEF t
  <2>4. \A k \in 1..(Len(v) - 1) : t[k] = Tail(v)[k]
    <3> SUFFICES ASSUME NEW k \in 1..(Len(v) - 1) PROVE t[k] = Tail(v)[k]
      OBVIOUS
    <3>1. (Len(u) + 2) + k - 1 = Len(u) + (k + 1) /\ k + 1 \in 1..Len(v)
      BY <1>1
    <3>2. QED BY <3>1, <2>1, <2>2, <2>3, <1>2
  <2>5. t = Tail(v)
    <3>1. Listed(t) /\ Listed(Tail(v)) /\ Len(t) = Len(Tail(v))
      BY Zenon, <2>1, <2>2, <2>3
    <3>2. \A k \in 1..Len(t) : t[k] = Tail(v)[k]
      BY Zenon, <2>1, <2>2, <2>4
    <3>3. QED BY ONLY <3>1, <3>2, ListedEqual
  <2>6. QED BY <2>5 DEF t
<1>8. v = <<>> => SubSeq(s, Len(u) + 2, Len(s)) = <<>>
  <2>1. PICK S : s \in Seq(S)
    BY <1>2 DEF Listed
  <2>2. QED BY <2>1, <1>1, <1>2
<1>9. QED
  <2>1. Before(s, marks) = u
    BY <1>1, <1>4, <1>5 DEF Before
  <2>2. From(s, marks) = v
    BY <1>4, <1>6 DEF From
  <2>3. After(s, marks) = SubSeq(s, Len(u) + 2, Len(s))
    BY <1>1, <1>4 DEF After
  <2>4. QED BY <2>1, <2>2, <2>3, <1>7, <1>8 DEF s

\* A bounded set of numbers has a largest.
LEMMA LargestOf ==
    ASSUME NEW n \in Nat, NEW S \in SUBSET (0..n), S # {}
    PROVE  \E x \in S : \A y \in S : x >= y
<1> DEFINE T == {n - x : x \in S}
<1>2. T \subseteq Nat
  OBVIOUS
<1>3. PICK t \in T : TRUE
  BY Zenon
<1>4. PICK i \in T : \A k \in T : i <= k
  <2> HIDE DEF T
  <2>1. QED BY Zenon, <1>2, <1>3, LeastNumber
<1>5. PICK x \in S : i = n - x
  BY <1>4
<1>6. \A y \in S : n - x <= n - y
  BY Zenon, <1>4, <1>5
<1>7. S \subseteq 0..n /\ x \in S
  OBVIOUS
<1>8. QED BY <1>5, <1>6, <1>7

-----------------------------------------------------------------------------
(* A text split at a mark. *)

Cuts(s, mark) == {i \in DOMAIN s : s[i] = mark} \union {0, Len(s) + 1}
Rank(S, i) == Cardinality({k \in S : k < i})
CutAt(s, mark, j) == CHOOSE i \in Cuts(s, mark) : Rank(Cuts(s, mark), i) = j

\* Numbers are ranked as they are ordered.
LEMMA RanksOrdered ==
    ASSUME NEW S \in SUBSET Nat, IsFiniteSet(S), NEW i \in S, NEW j \in S
    PROVE  /\ Rank(S, i) \in 0..(Cardinality(S) - 1)
           /\ i < j => Rank(S, i) < Rank(S, j)
           /\ Rank(S, i) = Rank(S, j) => i = j
<1> DEFINE Below(k) == {m \in S : m < k}
<1>1. Cardinality(S) \in Nat
  BY FS_CardinalityType
<1>2. \A k \in S : /\ IsFiniteSet(Below(k)) /\ Cardinality(Below(k)) \in Nat
                   /\ Cardinality(Below(k)) <= Cardinality(S) - 1
  <2> SUFFICES ASSUME NEW k \in S
               PROVE  /\ IsFiniteSet(Below(k)) /\ Cardinality(Below(k)) \in Nat
                      /\ Cardinality(Below(k)) <= Cardinality(S) - 1
    OBVIOUS
  <2>1. Below(k) \subseteq S \ {k}
    OBVIOUS
  <2>2. IsFiniteSet(S \ {k}) /\ Cardinality(S \ {k}) = Cardinality(S) - 1
    BY FS_RemoveElement
  <2> HIDE DEF Below
  <2>3. QED BY <2>1, <2>2, FS_Subset, FS_CardinalityType
<1>3. \A k, m \in S : k < m => Cardinality(Below(k)) < Cardinality(Below(m))
  <2> SUFFICES ASSUME NEW k \in S, NEW m \in S, k < m
               PROVE  Cardinality(Below(k)) < Cardinality(Below(m))
    OBVIOUS
  <2>1. Below(k) \subseteq Below(m) /\ k \in Below(m) /\ k \notin Below(k)
    <3>1. k \in Nat /\ m \in Nat /\ S \subseteq Nat
      OBVIOUS
    <3>2. \A x \in S : x < k => x < m
      BY <3>1
    <3>3. \A x : x \in Below(k) => x \in Below(m)
      BY <3>2
    <3>4. k \in Below(m)
      OBVIOUS
    <3>5. k \notin Below(k)
      BY <3>1
    <3> HIDE DEF Below
    <3>6. QED BY <3>3, <3>4, <3>5
  <2>2. IsFiniteSet(Below(m)) /\ Cardinality(Below(m)) \in Nat /\ Cardinality(Below(k)) \in Nat
    BY <1>2
  <2> HIDE DEF Below
  <2>3. Below(k) # Below(m)
    BY <2>1
  <2>4. QED BY <2>1, <2>2, <2>3, FS_Subset
<1>4. \A k \in S : Rank(S, k) = Cardinality(Below(k))
  BY DEF Rank
<1> HIDE DEF Below
<1>5. Rank(S, i) \in 0..(Cardinality(S) - 1)
  BY <1>1, <1>2, <1>4
<1>6. i < j => Rank(S, i) < Rank(S, j)
  BY <1>3, <1>4
<1>7. Rank(S, i) = Rank(S, j) => i = j
  <2>1. CASE i < j
    BY <1>2, <1>3, <1>4, <2>1
  <2>2. CASE j < i
    BY <1>2, <1>3, <1>4, <2>2
  <2>3. CASE i = j
    BY <2>3
  <2>4. i \in Nat /\ j \in Nat
    OBVIOUS
  <2>5. QED BY <2>1, <2>2, <2>3, <2>4
<1>8. QED BY <1>5, <1>6, <1>7

\* And each rank is some number's.
LEMMA RanksReached ==
    ASSUME NEW n \in Nat, NEW S \in SUBSET (0..n), IsFiniteSet(S),
           NEW j \in 0..(Cardinality(S) - 1)
    PROVE  \E i \in S : Rank(S, i) = j
<1> DEFINE High == {i \in S : Rank(S, i) >= j}
<1>1. Cardinality(S) \in Nat /\ j \in Nat /\ j < Cardinality(S)
  BY FS_CardinalityType
<1>2. \E i \in S : \A k \in S : i >= k
  <2>1. S # {}
    BY <1>1, FS_EmptySet
  <2>2. QED BY Zenon, <2>1, LargestOf
<1>3. PICK top \in S : \A k \in S : top >= k
  BY <1>2
<1>4. Rank(S, top) = Cardinality(S) - 1
  <2>1. {k \in S : k < top} = S \ {top}
    <3>1. \A k \in S : k < top <=> k # top
      BY <1>3
    <3>2. QED BY Zenon, <3>1
  <2>2. Cardinality(S \ {top}) = Cardinality(S) - 1
    BY FS_RemoveElement
  <2>3. QED BY <2>1, <2>2 DEF Rank
<1>5. PICK i \in High : \A k \in High : i <= k
  <2>1. top \in High
    BY <1>1, <1>4
  <2>2. High \subseteq Nat
    <3>1. S \subseteq Nat /\ High \subseteq S
      OBVIOUS
    <3>2. QED BY Zenon, <3>1
  <2> HIDE DEF High
  <2>3. QED BY Zenon, <2>1, <2>2, LeastNumber
<1>6. i \in S /\ Rank(S, i) >= j /\ Rank(S, i) \in Nat
  BY <1>5, RanksOrdered
<1>7. CASE Rank(S, i) = j
  BY <1>6, <1>7
<1>8. CASE Rank(S, i) > j
  <2> DEFINE B == {k \in S : k < i}
  <2>1. B \in SUBSET (0..n) /\ IsFiniteSet(B) /\ Cardinality(B) = Rank(S, i)
    <3>1. B \subseteq S
      OBVIOUS
    <3>2. IsFiniteSet(B)
      <4> HIDE DEF B
      <4>1. QED BY Zenon, <3>1, FS_Subset
    <3>3. QED BY Zenon, <3>2 DEF Rank
  <2>2. B # {}
    <3> HIDE DEF B
    <3>1. QED BY <1>1, <1>8, <2>1, FS_EmptySet
  <2>3. PICK p \in B : \A k \in B : p >= k
    <3> HIDE DEF B
    <3>1. QED BY Zenon, <2>1, <2>2, LargestOf
  <2>4. {k \in S : k < p} = B \ {p}
    <3>1. \A k \in S : k \in Nat /\ i \in Nat /\ p \in Nat /\ p < i
      BY <1>6, <2>3
    <3>2. \A k \in S : k < p <=> (k < i /\ k # p)
      <4> SUFFICES ASSUME NEW k \in S PROVE k < p <=> (k < i /\ k # p)
        OBVIOUS
      <4>1. k < i => k \in B
        OBVIOUS
      <4>2. k < i => p >= k
        BY <4>1, <2>3
      <4>3. k \in Nat /\ i \in Nat /\ p \in Nat /\ p < i
        BY <3>1
      <4> HIDE DEF B
      <4>4. QED BY <4>2, <4>3
    <3>3. QED BY Zenon, <3>2
  <2>5. Cardinality(B \ {p}) = Cardinality(B) - 1
    <3> HIDE DEF B
    <3>1. QED BY Zenon, <2>1, <2>3, FS_RemoveElement
  <2>6. Rank(S, p) = Rank(S, i) - 1
    BY <2>1, <2>4, <2>5 DEF Rank
  <2>7. p \in High /\ p < i /\ p \in Nat /\ i \in Nat
    BY <1>1, <1>6, <1>8, <2>6
  <2>8. QED BY <1>5, <2>7
<1>9. QED BY <1>1, <1>6, <1>7, <1>8

\* Where a text is cut.
LEMMA CutsRanked ==
    ASSUME NEW s, Listed(s), NEW mark
    PROVE  LET C == Cuts(s, mark)
               n == Cardinality(C)
           IN  /\ C \in SUBSET (0..(Len(s) + 1)) /\ IsFiniteSet(C) /\ n \in Nat \ {0}
               /\ \A j \in 0..(n - 1) : CutAt(s, mark, j) \in C /\ Rank(C, CutAt(s, mark, j)) = j
               /\ \A i \in C : CutAt(s, mark, Rank(C, i)) = i
               /\ CutAt(s, mark, 0) = 0 /\ CutAt(s, mark, n - 1) = Len(s) + 1
               /\ Split(s, mark) =
                    [j \in 1..(n - 1) |->
                        SubSeq(s, CutAt(s, mark, j - 1) + 1, CutAt(s, mark, j) - 1)]
<1> DEFINE C == Cuts(s, mark)
           n == Cardinality(C)
<1>1. Len(s) \in Nat /\ DOMAIN s = 1..Len(s)
  BY ListedDomain
<1>2. C \in SUBSET (0..(Len(s) + 1)) /\ 0 \in C /\ Len(s) + 1 \in C
  BY <1>1 DEF Cuts
<1>3. Split(s, mark) =
        [j \in 1..(n - 1) |-> SubSeq(s, CutAt(s, mark, j - 1) + 1, CutAt(s, mark, j) - 1)]
  BY DEF Split, Cuts, CutAt, Rank
<1> HIDE DEF C
<1>4. IsFiniteSet(C) /\ C \in SUBSET Nat
  <2>1. IsFiniteSet(0..(Len(s) + 1)) /\ 0..(Len(s) + 1) \subseteq Nat
    BY <1>1, FS_Interval
  <2>2. QED BY Zenon, <1>2, <2>1, FS_Subset
<1>5. n \in Nat \ {0}
  BY <1>2, <1>4, FS_CardinalityType, FS_EmptySet
<1> DEFINE nth(j) == CHOOSE i \in C : Rank(C, i) = j
<1>6. \A j \in 0..(n - 1) : nth(j) \in C /\ Rank(C, nth(j)) = j
  <2> SUFFICES ASSUME NEW j \in 0..(n - 1) PROVE nth(j) \in C /\ Rank(C, nth(j)) = j
    OBVIOUS
  <2>1. \E i \in C : Rank(C, i) = j
    BY Zenon, <1>1, <1>2, <1>4, RanksReached
  <2>2. QED BY <2>1
<1>7. \A i \in C : nth(Rank(C, i)) = i
  <2> SUFFICES ASSUME NEW i \in C PROVE nth(Rank(C, i)) = i
    OBVIOUS
  <2>1. Rank(C, i) \in 0..(n - 1)
    BY <1>4, RanksOrdered
  <2>2. nth(Rank(C, i)) \in C /\ Rank(C, nth(Rank(C, i))) = Rank(C, i)
    BY <1>6, <2>1
  <2> HIDE DEF nth
  <2>3. QED BY Zenon, <1>4, <2>2, RanksOrdered
<1>8. Rank(C, 0) = 0
  <2>1. {k \in C : k < 0} = {}
    <3>1. \A k \in C : k \in Nat
      BY <1>4
    <3>2. QED BY <3>1
  <2>2. QED BY <2>1, FS_EmptySet DEF Rank
<1>9. Rank(C, Len(s) + 1) = n - 1
  <2>1. {k \in C : k < Len(s) + 1} = C \ {Len(s) + 1}
    <3>1. \A k \in C : k \in 0..(Len(s) + 1)
      BY <1>2
    <3>2. \A k \in C : k < Len(s) + 1 <=> k # Len(s) + 1
      BY <1>1, <3>1
    <3>3. QED BY <3>2
  <2>2. Cardinality(C \ {Len(s) + 1}) = n - 1
    BY <1>2, <1>4, FS_RemoveElement
  <2>3. QED BY Zenon, <2>1, <2>2 DEF Rank
<1>10. \A j : nth(j) = CutAt(s, mark, j)
  BY DEF CutAt, C
<1> HIDE DEF nth
<1>11. nth(0) = 0 /\ nth(n - 1) = Len(s) + 1
  BY <1>2, <1>7, <1>8, <1>9
<1>12. QED
  <2>1. \A j \in 0..(n - 1) : CutAt(s, mark, j) \in C /\ Rank(C, CutAt(s, mark, j)) = j
    BY <1>6, <1>10
  <2>2. \A i \in C : CutAt(s, mark, Rank(C, i)) = i
    BY <1>7, <1>10
  <2>3. CutAt(s, mark, 0) = 0 /\ CutAt(s, mark, n - 1) = Len(s) + 1
    BY <1>10, <1>11
  <2> HIDE DEF n
  <2>4. QED BY <1>2, <1>3, <1>4, <1>5, <2>1, <2>2, <2>3 DEF C, n

\* The pieces: no mark is in them, and what is in them is the text's.
LEMMA PieceOf ==
    ASSUME NEW s, Listed(s), NEW mark, NEW j \in 1..Len(Split(s, mark))
    PROVE  /\ Listed(Split(s, mark)[j])
           /\ \A i \in 1..Len(Split(s, mark)[j]) :
                 Split(s, mark)[j][i] # mark /\ \E k \in 1..Len(s) : Split(s, mark)[j][i] = s[k]
<1> DEFINE C == Cuts(s, mark)
           n == Cardinality(C)
           a == CutAt(s, mark, j - 1)
           b == CutAt(s, mark, j)
           piece == SubSeq(s, a + 1, b - 1)
<1>1. Len(s) \in Nat /\ DOMAIN s = 1..Len(s)
  BY ListedDomain
<1>2. /\ C \in SUBSET (0..(Len(s) + 1)) /\ IsFiniteSet(C) /\ n \in Nat \ {0}
      /\ \A m \in 0..(n - 1) : CutAt(s, mark, m) \in C /\ Rank(C, CutAt(s, mark, m)) = m
      /\ Split(s, mark) =
           [m \in 1..(n - 1) |-> SubSeq(s, CutAt(s, mark, m - 1) + 1, CutAt(s, mark, m) - 1)]
  BY CutsRanked
<1>3. C \in SUBSET Nat
  BY <1>1, <1>2
<1> HIDE DEF C, n
<1>4. Len(Split(s, mark)) = n - 1 /\ j \in 1..(n - 1) /\ Split(s, mark)[j] = piece
  <2> DEFINE p(m) == SubSeq(s, CutAt(s, mark, m - 1) + 1, CutAt(s, mark, m) - 1)
  <2>1. Split(s, mark) = [m \in 1..(n - 1) |-> p(m)]
    BY <1>2
  <2>2. p(j) = piece
    OBVIOUS
  <2> HIDE DEF p, piece
  <2>3. Len(Split(s, mark)) = n - 1
    BY <1>2, <2>1, ListedIs
  <2>4. QED BY Zenon, <2>1, <2>2, <2>3
<1>5. a \in C /\ b \in C /\ Rank(C, a) = j - 1 /\ Rank(C, b) = j
  BY <1>2, <1>4
<1>6. a < b
  <2> HIDE DEF a, b
  <2>1. b < a => Rank(C, b) < Rank(C, a)
    BY <1>2, <1>3, <1>5, RanksOrdered
  <2>2. a \in Nat /\ b \in Nat
    BY <1>3, <1>5
  <2>3. Rank(C, a) < Rank(C, b)
    BY <1>4, <1>5
  <2>4. QED BY <1>5, <2>1, <2>2, <2>3
<1> HIDE DEF a, b
<1>7. /\ Listed(piece) /\ Len(piece) = (b - 1) - (a + 1) + 1
      /\ \A k \in 1..((b - 1) - (a + 1) + 1) : piece[k] = s[(a + 1) + k - 1]
  <2>1. a + 1 \in Nat \ {0} /\ b - 1 \in 0..Len(s) /\ a + 1 <= (b - 1) + 1
    BY <1>1, <1>2, <1>3, <1>5, <1>6
  <2>2. QED BY Zenon, <2>1, Part
<1> HIDE DEF piece
<1>8. ASSUME NEW i \in 1..Len(piece)
      PROVE  piece[i] # mark /\ \E k \in 1..Len(s) : piece[i] = s[k]
  <2> DEFINE k == a + i
  <2>1. a \in Nat /\ b \in Nat /\ b <= Len(s) + 1 /\ i \in 1..(b - a - 1)
    BY <1>1, <1>2, <1>3, <1>5, <1>6, <1>7
  <2>2. k \in 1..Len(s) /\ a < k /\ k < b /\ (a + 1) + i - 1 = k
    BY <1>1, <2>1
  <2>3. piece[i] = s[k]
    <3>1. piece[i] = s[(a + 1) + i - 1]
      BY <1>7
    <3> HIDE DEF k
    <3>2. QED BY <2>2, <3>1
  <2> HIDE DEF k
  <2>4. s[k] # mark
    <3> SUFFICES ASSUME s[k] = mark PROVE FALSE
      OBVIOUS
    <3>1. k \in C
      BY <1>1, <2>2 DEF C, Cuts
    <3>2. Rank(C, a) < Rank(C, k) /\ Rank(C, k) < Rank(C, b) /\ Rank(C, k) \in 0..(n - 1)
      BY Zenon, <1>2, <1>3, <1>5, <2>2, <3>1, RanksOrdered DEF n
    <3>3. QED BY <1>4, <1>5, <3>2
  <2>5. QED BY <2>2, <2>3, <2>4
<1>9. QED BY <1>4, <1>7, <1>8

\* A mark and a piece more are one piece more.
LEMMA SplitMore ==
    ASSUME NEW s, Listed(s), NEW mark, NEW piece, Listed(piece),
           \A i \in 1..Len(piece) : piece[i] # mark
    PROVE  Split(s \o <<mark>> \o piece, mark) = Append(Split(s, mark), piece)
<1> DEFINE t == s \o <<mark>> \o piece
           C == Cuts(s, mark)
           D == Cuts(t, mark)
           n == Cardinality(C)
           top == Len(t) + 1
<1>1. Len(s) \in Nat /\ DOMAIN s = 1..Len(s) /\ Len(piece) \in Nat
  BY ListedDomain
<1>2. /\ Listed(t) /\ Len(t) = Len(s) + 1 + Len(piece)
      /\ \A i \in 1..Len(s) : t[i] = s[i]
      /\ t[Len(s) + 1] = mark
      /\ \A i \in 1..Len(piece) : t[Len(s) + 1 + i] = piece[i]
  <2>1. Listed(<<mark>>) /\ Len(<<mark>>) = 1 /\ <<mark>>[1] = mark
    <3>1. <<mark>> \in Seq({mark})
      OBVIOUS
    <3>2. QED BY Zenon, <3>1 DEF Listed
  <2> DEFINE u == s \o <<mark>>
  <2>2. Listed(u) /\ Len(u) = Len(s) + 1 /\ \A i \in 1..Len(s) : u[i] = s[i]
    BY <2>1, Glued
  <2>3. u[Len(s) + 1] = mark
    <3>1. \A i \in 1..Len(<<mark>>) : u[Len(s) + i] = <<mark>>[i]
      BY <2>1, Glued
    <3>2. 1 \in 1..Len(<<mark>>)
      BY <2>1
    <3>3. QED BY <2>1, <3>1, <3>2
  <2> HIDE DEF u
  <2>4. /\ Listed(u \o piece) /\ Len(u \o piece) = Len(u) + Len(piece)
        /\ \A i \in 1..Len(u) : (u \o piece)[i] = u[i]
        /\ \A i \in 1..Len(piece) : (u \o piece)[Len(u) + i] = piece[i]
    <3>1. Listed(u) /\ Listed(piece)
      BY <2>2
    <3>2. QED BY ONLY <3>1, Glued
  <2>5. t = u \o piece
    BY DEF u
  <2> HIDE DEF t
  <2>6. QED BY <1>1, <2>2, <2>3, <2>4, <2>5
<1> HIDE DEF t
<1>3. Len(t) \in Nat /\ DOMAIN t = 1..Len(t)
  BY <1>2, ListedDomain
<1>4. D = C \union {top}
  <2>1. ASSUME NEW i \in D PROVE i \in C \union {top}
    <3>1. CASE i \in 1..Len(t) /\ t[i] = mark
      <4>1. CASE i \in 1..Len(s)
        <5>1. s[i] = mark
          BY <1>2, <3>1, <4>1
        <5>2. QED BY <1>1, <4>1, <5>1 DEF Cuts
      <4>2. CASE i = Len(s) + 1
        BY <4>2 DEF Cuts
      <4>3. CASE i > Len(s) + 1
        <5> DEFINE k == i - (Len(s) + 1)
        <5>1. k \in 1..Len(piece) /\ Len(s) + 1 + k = i
          BY <1>1, <1>2, <3>1, <4>3
        <5> HIDE DEF k
        <5>2. t[i] = piece[k] /\ piece[k] # mark
          BY <1>2, <5>1
        <5>3. QED BY <3>1, <5>2
      <4>4. i \in Nat /\ 1 <= i
        BY <3>1
      <4>5. QED BY <1>1, <4>1, <4>2, <4>3, <4>4
    <3>2. CASE i \in {0, Len(t) + 1}
      BY <3>2 DEF Cuts
    <3>3. QED BY <1>3, <3>1, <3>2 DEF Cuts
  <2>2. ASSUME NEW i \in C \union {top} PROVE i \in D
    <3>1. CASE i \in 1..Len(s) /\ s[i] = mark
      <4>1. i \in 1..Len(t) /\ t[i] = mark
        BY <1>1, <1>2, <3>1
      <4>2. QED BY <1>3, <4>1 DEF Cuts
    <3>2. CASE i = Len(s) + 1
      <4>1. i \in 1..Len(t) /\ t[i] = mark
        BY <1>1, <1>2, <3>2
      <4>2. QED BY <1>3, <4>1 DEF Cuts
    <3>3. CASE i = 0 \/ i = top
      BY <3>3 DEF Cuts
    <3>4. QED BY <1>1, <3>1, <3>2, <3>3 DEF Cuts
  <2> HIDE DEF C, D, top
  <2>3. QED BY <2>1, <2>2
<1>5. /\ C \in SUBSET (0..(Len(s) + 1)) /\ IsFiniteSet(C) /\ n \in Nat \ {0}
      /\ \A j \in 0..(n - 1) : CutAt(s, mark, j) \in C /\ Rank(C, CutAt(s, mark, j)) = j
      /\ CutAt(s, mark, n - 1) = Len(s) + 1
      /\ Split(s, mark) =
           [m \in 1..(n - 1) |-> SubSeq(s, CutAt(s, mark, m - 1) + 1, CutAt(s, mark, m) - 1)]
  BY CutsRanked
<1>6. C \in SUBSET Nat /\ top \in Nat /\ top \notin C /\ \A i \in C : i < top
  <2>1. C \in SUBSET Nat
    BY <1>1, <1>5
  <2>2. \A i \in C : i \in 0..(Len(s) + 1)
    BY <1>5
  <2>3. top \in Nat /\ top > Len(s) + 1
    BY <1>1, <1>2
  <2> HIDE DEF C, top
  <2>4. QED BY <1>1, <2>1, <2>2, <2>3
<1>7. Cardinality(D) = n + 1
  <2> HIDE DEF C, D, top
  <2>1. QED BY Zenon, <1>4, <1>5, <1>6, FS_AddElement
<1>8. /\ \A i \in D : CutAt(t, mark, Rank(D, i)) = i
      /\ CutAt(t, mark, n) = top
      /\ Split(t, mark) =
           [m \in 1..n |-> SubSeq(t, CutAt(t, mark, m - 1) + 1, CutAt(t, mark, m) - 1)]
  <2> DEFINE k == Cardinality(D)
  <2>1. /\ \A i \in D : CutAt(t, mark, Rank(D, i)) = i
        /\ CutAt(t, mark, k - 1) = top
        /\ Split(t, mark) =
             [m \in 1..(k - 1) |-> SubSeq(t, CutAt(t, mark, m - 1) + 1, CutAt(t, mark, m) - 1)]
    <3>1. Listed(t)
      BY <1>2
    <3>2. QED BY ONLY <3>1, CutsRanked
  <2>2. k - 1 = n
    <3> HIDE DEF D
    <3>1. QED BY <1>5, <1>7
  <2>3. QED BY <2>1, <2>2
<1>9. \A j \in 0..(n - 1) : CutAt(t, mark, j) = CutAt(s, mark, j)
  <2> SUFFICES ASSUME NEW j \in 0..(n - 1) PROVE CutAt(t, mark, j) = CutAt(s, mark, j)
    OBVIOUS
  <2> DEFINE i == CutAt(s, mark, j)
  <2>1. i \in C /\ Rank(C, i) = j
    BY <1>5
  <2> HIDE DEF i, C, D, top
  <2>2. Rank(D, i) = j
    <3>1. i < top /\ i \in Nat
      BY <1>6, <2>1
    <3>2. {k \in D : k < i} = {k \in C : k < i}
      BY <1>4, <1>6, <3>1
    <3>3. QED BY Zenon, <2>1, <3>2 DEF Rank
  <2>3. CutAt(t, mark, Rank(D, i)) = i
    BY Zenon, <1>4, <1>8, <2>1
  <2>4. QED BY <2>2, <2>3 DEF i
<1> DEFINE old(m) == SubSeq(s, CutAt(s, mark, m - 1) + 1, CutAt(s, mark, m) - 1)
           new(m) == SubSeq(t, CutAt(t, mark, m - 1) + 1, CutAt(t, mark, m) - 1)
<1> HIDE DEF C, D, n
<1>10. ASSUME NEW m \in 1..(n - 1) PROVE new(m) = old(m)
  <2> DEFINE a == CutAt(s, mark, m - 1)
             b == CutAt(s, mark, m)
  <2>1. m - 1 \in 0..(n - 1) /\ m \in 0..(n - 1)
    BY <1>5
  <2>2. a \in C /\ b \in C /\ Rank(C, a) = m - 1 /\ Rank(C, b) = m
    BY <1>5, <2>1
  <2>3. new(m) = SubSeq(t, a + 1, b - 1)
    BY Zenon, <1>9, <2>1
  <2> HIDE DEF a, b, new
  <2>4. a \in 0..(Len(s) + 1) /\ b \in 0..(Len(s) + 1)
    BY <1>5, <2>2
  <2>5. a < b
    <3>1. b < a => Rank(C, b) < Rank(C, a)
      BY Zenon, <1>5, <1>6, <2>2, RanksOrdered
    <3>2. Rank(C, a) < Rank(C, b)
      BY <1>5, <2>2
    <3>3. QED BY <1>1, <2>2, <2>4, <3>1, <3>2
  <2> DEFINE p == SubSeq(s, a + 1, b - 1)
             q == SubSeq(t, a + 1, b - 1)
             len == (b - 1) - (a + 1) + 1
  <2>6. a + 1 \in Nat \ {0} /\ b - 1 \in 0..Len(s) /\ b - 1 \in 0..Len(t) /\ a + 1 <= (b - 1) + 1
    BY <1>1, <1>2, <2>4, <2>5
  <2>7. Listed(p) /\ Len(p) = len /\ \A k \in 1..len : p[k] = s[(a + 1) + k - 1]
    BY Zenon, <2>6, Part
  <2>8. Listed(q) /\ Len(q) = len /\ \A k \in 1..len : q[k] = t[(a + 1) + k - 1]
    <3>1. Listed(t)
      BY <1>2
    <3>2. QED BY ONLY Zenon, <2>6, <3>1, Part
  <2>9. \A k \in 1..len : p[k] = q[k]
    <3> SUFFICES ASSUME NEW k \in 1..len PROVE p[k] = q[k]
      BY Zenon
    <3>1. (a + 1) + k - 1 \in 1..Len(s)
      BY <1>1, <2>4, <2>5
    <3> HIDE DEF p, q, len
    <3>2. QED BY <1>2, <2>7, <2>8, <3>1
  <2> HIDE DEF p, q, len
  <2>10. p = q
    BY Zenon, <2>7, <2>8, <2>9, ListedEqual
  <2>11. QED BY Zenon, <2>3, <2>10 DEF p, q, a, b
<1>11. new(n) = piece
  <2>1. n - 1 \in 0..(n - 1)
    BY <1>5
  <2>2. CutAt(t, mark, n - 1) = Len(s) + 1 /\ CutAt(t, mark, n) = Len(t) + 1
    BY <1>5, <1>8, <1>9, <2>1
  <2> DEFINE q == SubSeq(t, (Len(s) + 1) + 1, Len(t))
             len == Len(t) - ((Len(s) + 1) + 1) + 1
  <2>3. new(n) = q
    <3>1. (Len(t) + 1) - 1 = Len(t)
      BY <1>3
    <3>2. QED BY Zenon, <2>2, <3>1
  <2> HIDE DEF new
  <2>4. (Len(s) + 1) + 1 \in Nat \ {0} /\ Len(t) \in 0..Len(t) /\ (Len(s) + 1) + 1 <= Len(t) + 1
    BY <1>1, <1>2
  <2>5. Listed(q) /\ Len(q) = len /\ \A k \in 1..len : q[k] = t[((Len(s) + 1) + 1) + k - 1]
    BY <1>2, <2>4, Part
  <2>6. len = Len(piece)
    BY <1>1, <1>2
  <2> HIDE DEF q, len
  <2>7. \A k \in 1..Len(piece) : q[k] = piece[k]
    <3> SUFFICES ASSUME NEW k \in 1..Len(piece) PROVE q[k] = piece[k]
      OBVIOUS
    <3>1. ((Len(s) + 1) + 1) + k - 1 = Len(s) + 1 + k
      BY <1>1
    <3>2. QED BY <1>2, <2>5, <2>6, <3>1
  <2>8. q = piece
    BY <2>5, <2>6, <2>7, ListedEqual
  <2>9. QED BY <2>3, <2>8
<1> HIDE DEF old, new
<1>12. Split(s, mark) = [m \in 1..(n - 1) |-> old(m)] /\ Split(t, mark) = [m \in 1..n |-> new(m)]
  BY <1>5, <1>8 DEF old, new
<1>13. Listed(Split(s, mark)) /\ Len(Split(s, mark)) = n - 1
  BY <1>5, <1>12, ListedIs
<1>14. Listed(Split(t, mark)) /\ Len(Split(t, mark)) = n
  BY <1>5, <1>12, ListedIs
<1> DEFINE w == Append(Split(s, mark), piece)
<1>15. /\ Listed(w) /\ Len(w) = (n - 1) + 1 /\ w[(n - 1) + 1] = piece
       /\ \A m \in 1..(n - 1) : w[m] = Split(s, mark)[m]
  BY <1>13, ListedAppend
<1> HIDE DEF w
<1>16. \A m \in 1..n : Split(t, mark)[m] = w[m]
  <2> SUFFICES ASSUME NEW m \in 1..n PROVE Split(t, mark)[m] = w[m]
    OBVIOUS
  <2>1. Split(t, mark)[m] = new(m)
    BY <1>12
  <2>2. CASE m = n
    BY <1>5, <1>11, <1>15, <2>1, <2>2
  <2>3. CASE m \in 1..(n - 1)
    BY <1>10, <1>12, <1>15, <2>1, <2>3
  <2>4. QED BY <1>5, <2>2, <2>3
<1>17. Split(t, mark) = w
  <2>1. (n - 1) + 1 = n
    BY <1>5
  <2>2. QED BY <1>14, <1>15, <1>16, <2>1, ListedEqual
<1>18. QED BY <1>17 DEF t, w

-----------------------------------------------------------------------------
(* A path read, written and read again. *)

\* What a path is read as is kept when it is read again: named pieces of it.
Dots == {<<>>, <<".">>, <<".", ".">>}
Named(path, seg) ==
    /\ Listed(seg) /\ seg \notin Dots
    /\ \A i \in 1..Len(seg) : seg[i] # "/" /\ \E k \in 1..Len(path) : seg[i] = path[k]
AllNamed(path, out) == Listed(out) /\ \A j \in 1..Len(out) : Named(path, out[j])
NamedSoFar(a, b, i, out, u) == AllNamed(a, out)

Naming == INSTANCE FoldSteps WITH OpA <- AddPiece, OpB <- AddPiece, Rel <- NamedSoFar
LEMMA NamingOrdered == Naming!WellOrdered
BY NaturalsOrdered DEF Naming!WellOrdered

LEMMA SegmentsNamed ==
    ASSUME NEW path, Listed(path)
    PROVE  AllNamed(path, PathSegments(path))
<1> DEFINE pieces == Split(path, "/")
           n == Len(pieces)
<1>1. Listed(pieces) /\ n \in Nat /\ DOMAIN pieces = 1..n
  BY SplitListed, ListedDomain
<1>2. PathSegments(path) = Naming!SeqA(path, <<>>, pieces)
  BY DEF PathSegments, FoldLeft, MapThenFoldSet, Max, Naming!SeqA, AddPiece
<1>3. \A i \in 1..n :
          /\ Listed(pieces[i])
          /\ \A k \in 1..Len(pieces[i]) :
                pieces[i][k] # "/" /\ \E m \in 1..Len(path) : pieces[i][k] = path[m]
  BY PieceOf
<1> HIDE DEF pieces
<1>4. NamedSoFar(path, 0, 0, <<>>, <<>>)
  <2>1. Listed(<<>>) /\ Len(<<>>) = 0
    <3>1. <<>> \in Seq({})
      OBVIOUS
    <3>2. QED BY <3>1 DEF Listed
  <2>2. QED BY <2>1 DEF NamedSoFar, AllNamed
<1>5. \A i \in 1..n : \A t, u : NamedSoFar(path, 0, i - 1, t, u) =>
          NamedSoFar(path, 0, i, AddPiece(path, t, pieces[i]), AddPiece(0, u, pieces[i]))
  <2> SUFFICES ASSUME NEW i \in 1..n, NEW t, AllNamed(path, t)
               PROVE  AllNamed(path, AddPiece(path, t, pieces[i]))
    BY DEF NamedSoFar
  <2> DEFINE seg == pieces[i]
  <2>1. Len(t) \in Nat
    BY ListedDomain DEF AllNamed
  <2>2. CASE seg \in {<<>>, <<".">>}
    BY <2>2 DEF AddPiece
  <2>3. CASE seg = <<".", ".">> /\ t = <<>>
    BY <2>3 DEF AddPiece
  <2>4. CASE seg = <<".", ".">> /\ t # <<>>
    <3>1. PICK S : t \in Seq(S)
      BY DEF AllNamed, Listed
    <3>2. Len(t) \in Nat \ {0}
      BY <3>1, <2>4
    <3> DEFINE w == SubSeq(t, 1, Len(t) - 1)
    <3>3. Listed(w) /\ Len(w) = Len(t) - 1 /\ \A j \in 1..(Len(t) - 1) : w[j] = t[j]
      <4>1. /\ Listed(w) /\ Len(w) = (Len(t) - 1) - 1 + 1
            /\ \A k \in 1..((Len(t) - 1) - 1 + 1) : w[k] = t[1 + k - 1]
        <5>1. Listed(t) /\ 1 \in Nat \ {0} /\ Len(t) - 1 \in 0..Len(t) /\ 1 <= (Len(t) - 1) + 1
          BY <3>2 DEF AllNamed
        <5>2. QED BY ONLY Zenon, <5>1, Part
      <4> HIDE DEF w
      <4>2. QED BY <3>2, <4>1
    <3>4. AddPiece(path, t, seg) = w
      <4>1. seg \notin {<<>>, <<".">>}
        BY <2>4
      <4>2. QED BY <2>4, <4>1 DEF AddPiece, Front
    <3> HIDE DEF w
    <3>5. Listed(w) /\ \A j \in 1..Len(w) : Named(path, w[j])
      BY <3>2, <3>3 DEF AllNamed, Listed
    <3>6. QED BY <3>4, <3>5 DEF AllNamed
  <2>5. CASE seg \notin Dots
    <3>1. AddPiece(path, t, seg) = Append(t, seg)
      BY Zenon, <2>5 DEF AddPiece, Dots
    <3>2. Named(path, seg)
      BY Zenon, <1>3, <2>5 DEF Named
    <3> DEFINE w == Append(t, seg)
    <3>3. /\ Listed(w) /\ Len(w) = Len(t) + 1 /\ w[Len(t) + 1] = seg
          /\ \A j \in 1..Len(t) : w[j] = t[j]
      BY ListedAppend DEF AllNamed
    <3> HIDE DEF w, seg
    <3>4. \A j \in 1..Len(w) : Named(path, w[j])
      BY <2>1, <3>2, <3>3 DEF AllNamed
    <3>5. QED BY <3>1, <3>3, <3>4 DEF AllNamed, w, seg
  <2>6. QED BY <2>2, <2>3, <2>4, <2>5 DEF Dots
<1>6. NamedSoFar(path, 0, n, Naming!SeqA(path, <<>>, pieces), Naming!SeqB(0, <<>>, pieces))
  <2> HIDE DEF n
  <2>1. QED BY <1>1, <1>4, <1>5, NamingOrdered, Naming!SequenceFolds
<1>7. QED BY <1>2, <1>6 DEF NamedSoFar

\* Named pieces, after blank ones, are read as they are.
ReadSoFar(a, b, i, out, u) ==
    /\ Listed(out) /\ Len(out) = (IF i <= b THEN 0 ELSE i - b)
    /\ \A j \in 1..Len(out) : out[j] = a[j]

Rereading == INSTANCE FoldSteps WITH OpA <- AddPiece, OpB <- AddPiece, Rel <- ReadSoFar
LEMMA RereadingOrdered == Rereading!WellOrdered
BY NaturalsOrdered DEF Rereading!WellOrdered

LEMMA NamedReadAgain ==
    ASSUME NEW segs, Listed(segs), \A j \in 1..Len(segs) : segs[j] \notin Dots,
           NEW m \in Nat, NEW path, Len(Split(path, "/")) = m + Len(segs), Listed(path),
           \A i \in 1..m : Split(path, "/")[i] = <<>>,
           \A j \in 1..Len(segs) : Split(path, "/")[m + j] = segs[j]
    PROVE  PathSegments(path) = segs
<1> DEFINE pieces == Split(path, "/")
           n == Len(pieces)
<1>1. Listed(pieces) /\ n \in Nat /\ DOMAIN pieces = 1..n /\ Len(segs) \in Nat
  BY SplitListed, ListedDomain
<1>2. PathSegments(path) = Rereading!SeqA(segs, <<>>, pieces)
  BY DEF PathSegments, FoldLeft, MapThenFoldSet, Max, Rereading!SeqA, AddPiece
<1>3. n = m + Len(segs) /\ \A i \in 1..m : pieces[i] = <<>>
  OBVIOUS
<1>4. \A j \in 1..Len(segs) : pieces[m + j] = segs[j]
  OBVIOUS
<1> HIDE DEF pieces, n
<1>5. ReadSoFar(segs, m, 0, <<>>, <<>>)
  <2>1. Listed(<<>>) /\ Len(<<>>) = 0
    <3>1. <<>> \in Seq({})
      OBVIOUS
    <3>2. QED BY <3>1 DEF Listed
  <2>2. QED BY <2>1 DEF ReadSoFar
<1>6. \A i \in 1..n : \A t, u : ReadSoFar(segs, m, i - 1, t, u) =>
          ReadSoFar(segs, m, i, AddPiece(segs, t, pieces[i]), AddPiece(m, u, pieces[i]))
  <2> SUFFICES ASSUME NEW i \in 1..n, NEW t, NEW u, ReadSoFar(segs, m, i - 1, t, u)
               PROVE  ReadSoFar(segs, m, i, AddPiece(segs, t, pieces[i]),
                                AddPiece(m, u, pieces[i]))
    BY Zenon
  <2>1. CASE i <= m
    <3>1. pieces[i] = <<>>
      BY <1>1, <1>3, <2>1
    <3>2. AddPiece(segs, t, pieces[i]) = t
      BY <3>1 DEF AddPiece
    <3>3. i - 1 <= m
      BY <1>1, <2>1
    <3>4. QED BY <2>1, <3>2, <3>3 DEF ReadSoFar
  <2>2. CASE i > m
    <3> DEFINE j == i - m
               w == Append(t, segs[j])
    <3>1. j \in 1..Len(segs) /\ m + j = i
      BY <1>1, <1>3, <2>2
    <3>2. pieces[i] = segs[j] /\ segs[j] \notin Dots
      <4> HIDE DEF j
      <4>1. QED BY Zenon, <1>4, <3>1
    <3>3. AddPiece(segs, t, pieces[i]) = w
      BY Zenon, <3>2 DEF AddPiece, Dots
    <3>4. Len(t) = j - 1 /\ Listed(t) /\ \A k \in 1..(j - 1) : t[k] = segs[k]
      <4>1. (IF i - 1 <= m THEN 0 ELSE i - 1 - m) = j - 1
        BY <1>1, <2>2
      <4> HIDE DEF j
      <4>2. QED BY <4>1 DEF ReadSoFar
    <3> HIDE DEF j
    <3>5. Listed(w) /\ Len(w) = (j - 1) + 1 /\ w[(j - 1) + 1] = segs[j]
          /\ \A k \in 1..(j - 1) : w[k] = t[k]
      BY <3>4, ListedAppend
    <3> HIDE DEF w
    <3>6. Len(w) = j /\ \A k \in 1..j : w[k] = segs[k]
      BY <1>1, <3>1, <3>4, <3>5
    <3>7. (IF i <= m THEN 0 ELSE i - m) = j
      BY <2>2 DEF j
    <3>8. QED BY <3>3, <3>5, <3>6, <3>7 DEF ReadSoFar
  <2>3. QED BY <1>1, <2>1, <2>2
<1>7. ReadSoFar(segs, m, n, Rereading!SeqA(segs, <<>>, pieces), Rereading!SeqB(m, <<>>, pieces))
  BY Zenon, <1>1, <1>5, <1>6, RereadingOrdered, Rereading!SequenceFolds
<1> DEFINE out == Rereading!SeqA(segs, <<>>, pieces)
<1>8. Listed(out) /\ Len(out) = Len(segs) /\ \A j \in 1..Len(segs) : out[j] = segs[j]
  <2>1. (IF n <= m THEN 0 ELSE n - m) = Len(segs)
    BY <1>1, <1>3
  <2>2. QED BY <1>7, <2>1 DEF ReadSoFar
<1> HIDE DEF out
<1>9. out = segs
  BY <1>8, ListedEqual
<1>10. QED BY <1>2, <1>9 DEF out

\* Pieces joined are split again.
JoinPiece(a, s, piece) == s \o <<"/">> \o piece
JoinedSoFar(a, b, i, s, u) ==
    /\ Listed(s) /\ Len(Split(s, "/")) = i + 1 /\ Split(s, "/")[1] = <<>>
    /\ \A j \in 1..i : Split(s, "/")[j + 1] = a[j]
    /\ \A k \in 1..Len(s) : s[k] \notin {"?", "#"}
    /\ i > 0 => s # <<>> /\ s[1] = "/"
    /\ i = 0 => s = <<>>

Joining == INSTANCE FoldSteps WITH OpA <- JoinPiece, OpB <- JoinPiece, Rel <- JoinedSoFar
LEMMA JoiningOrdered == Joining!WellOrdered
BY NaturalsOrdered DEF Joining!WellOrdered

LEMMA EmptyText ==
    Listed(<<>>) /\ Len(<<>>) = 0 /\ Split(<<>>, "/") = << <<>> >>
<1>1. Listed(<<>>) /\ Len(<<>>) = 0 /\ DOMAIN <<>> = {}
  <2>1. <<>> \in Seq({})
    OBVIOUS
  <2>2. QED BY <2>1 DEF Listed
<1> DEFINE C == Cuts(<<>>, "/")
           n == Cardinality(C)
<1>2. C = {0, 1}
  BY <1>1 DEF Cuts
<1>3. n = 2
  <2>1. Cardinality({0}) = 1 /\ IsFiniteSet({0}) /\ 1 \notin {0} /\ {0, 1} = {0} \union {1}
    BY FS_Singleton
  <2>2. Cardinality({0} \union {1}) = 2
    BY <2>1, FS_AddElement
  <2>3. QED BY Zenon, <1>2, <2>1, <2>2
<1>4. /\ CutAt(<<>>, "/", 0) = 0 /\ CutAt(<<>>, "/", n - 1) = Len(<<>>) + 1
      /\ Split(<<>>, "/") =
           [m \in 1..(n - 1) |->
               SubSeq(<<>>, CutAt(<<>>, "/", m - 1) + 1, CutAt(<<>>, "/", m) - 1)]
  BY <1>1, CutsRanked
<1> HIDE DEF C, n
<1>5. CutAt(<<>>, "/", 1) = 1 /\ n - 1 = 1
  BY <1>1, <1>3, <1>4
<1> DEFINE p(m) == SubSeq(<<>>, CutAt(<<>>, "/", m - 1) + 1, CutAt(<<>>, "/", m) - 1)
<1>6. p(1) = <<>>
  <2>1. 1 - 1 = 0 /\ 0 + 1 = 1
    OBVIOUS
  <2>2. p(1) = SubSeq(<<>>, 1, 0)
    BY <1>4, <1>5, <2>1
  <2>3. QED BY <2>2
<1>7. Split(<<>>, "/") = [m \in 1..1 |-> p(m)]
  BY <1>4, <1>5
<1> HIDE DEF p
<1>8. [m \in 1..1 |-> p(m)] = << <<>> >>
  <2> DEFINE v == [m \in 1..1 |-> p(m)]
  <2>1. v = [m \in 1..1 |-> v[m]] /\ v[1] = <<>>
    BY <1>6
  <2> HIDE DEF v
  <2>2. Listed(v) /\ Len(v) = 1
    BY <2>1, ListedIs
  <2>3. Listed(<< <<>> >>) /\ Len(<< <<>> >>) = 1 /\ << <<>> >>[1] = <<>>
    <3>1. << <<>> >> \in Seq({<<>>})
      OBVIOUS
    <3>2. QED BY Zenon, <3>1 DEF Listed
  <2>4. v = << <<>> >>
    BY <2>1, <2>2, <2>3, ListedEqual
  <2>5. QED BY <2>4 DEF v
<1>9. QED BY <1>1, <1>7, <1>8

\* Segments written as a path, alone or before a query, are read as they were.
LEMMA PathAgain ==
    ASSUME NEW path, NEW segs, AllNamed(path, segs),
           \A k \in 1..Len(path) : path[k] \notin {"?", "#"}
    PROVE  LET p == Joined(segs, "/")
           IN  /\ Listed(p) /\ PathSegments(p) = segs
               /\ \A k \in 1..Len(p) : p[k] \notin {"?", "#"}
               /\ segs # <<>> => p # <<>> /\ p[1] = "/"
               /\ segs = <<>> => p = <<>>
<1> DEFINE p == Joined(segs, "/")
           n == Len(segs)
<1>1. Listed(segs) /\ n \in Nat /\ DOMAIN segs = 1..n /\ \A j \in 1..n : Named(path, segs[j])
  BY ListedDomain DEF AllNamed
<1>2. p = Joining!SeqA(segs, <<>>, segs)
  BY DEF Joined, FoldLeft, MapThenFoldSet, Max, Joining!SeqA, JoinPiece
<1>3. JoinedSoFar(segs, 0, 0, <<>>, <<>>)
  BY EmptyText DEF JoinedSoFar
<1>4. \A i \in 1..n : \A t, u : JoinedSoFar(segs, 0, i - 1, t, u) =>
          JoinedSoFar(segs, 0, i, JoinPiece(segs, t, segs[i]), JoinPiece(0, u, segs[i]))
  <2> SUFFICES ASSUME NEW i \in 1..n, NEW t, NEW u, JoinedSoFar(segs, 0, i - 1, t, u)
               PROVE  JoinedSoFar(segs, 0, i, JoinPiece(segs, t, segs[i]), JoinPiece(0, u, segs[i]))
    OBVIOUS
  <2> DEFINE seg == segs[i]
             one == t \o <<"/">>
             w == one \o seg
             old == Split(t, "/")
             new == Split(w, "/")
  <2>1. /\ Listed(seg) /\ Len(seg) \in Nat /\ Len(seg) > 0
        /\ \A k \in 1..Len(seg) : seg[k] # "/" /\ seg[k] \notin {"?", "#"}
    <3>1. Named(path, seg)
      BY <1>1
    <3>2. \A k \in 1..Len(seg) : seg[k] # "/" /\ \E m \in 1..Len(path) : seg[k] = path[m]
      BY <3>1 DEF Named
    <3>3. Listed(seg) /\ seg # <<>>
      BY <3>1 DEF Named, Dots
    <3>4. Len(seg) \in Nat /\ Len(seg) > 0
      BY <3>3 DEF Listed
    <3>5. QED BY <3>2, <3>3, <3>4
  <2>2. /\ Listed(t) /\ Len(t) \in Nat /\ Len(old) = (i - 1) + 1 /\ old[1] = <<>>
        /\ \A j \in 1..(i - 1) : old[j + 1] = segs[j]
        /\ \A k \in 1..Len(t) : t[k] \notin {"?", "#"}
        /\ i - 1 > 0 => t # <<>> /\ t[1] = "/"
        /\ i - 1 = 0 => t = <<>>
    BY ListedDomain DEF JoinedSoFar
  <2>3. Listed(<<"/">>) /\ Len(<<"/">>) = 1 /\ <<"/">>[1] = "/"
    <3>1. <<"/">> \in Seq({"/"})
      OBVIOUS
    <3>2. QED BY Zenon, <3>1 DEF Listed
  <2>4. /\ Listed(one) /\ Len(one) = Len(t) + 1 /\ \A k \in 1..Len(t) : one[k] = t[k]
        /\ one[Len(t) + 1] = "/"
    <3>1. \A k \in 1..Len(<<"/">>) : one[Len(t) + k] = <<"/">>[k]
      BY <2>2, <2>3, Glued
    <3>2. Listed(one) /\ Len(one) = Len(t) + 1 /\ \A k \in 1..Len(t) : one[k] = t[k]
      BY <2>2, <2>3, Glued
    <3>3. 1 \in 1..Len(<<"/">>)
      BY <2>3
    <3> HIDE DEF one
    <3>4. QED BY <2>3, <3>1, <3>2, <3>3
  <2>5. new = Append(old, seg)
    <3>1. Listed(t) /\ Listed(seg) /\ \A k \in 1..Len(seg) : seg[k] # "/"
      BY <2>1, <2>2
    <3>2. QED BY ONLY <3>1, SplitMore
  <2> HIDE DEF one
  <2>6. /\ Listed(w) /\ Len(w) = Len(one) + Len(seg)
        /\ \A k \in 1..Len(one) : w[k] = one[k]
        /\ \A k \in 1..Len(seg) : w[Len(one) + k] = seg[k]
    <3>1. Listed(one) /\ Listed(seg)
      BY <2>1, <2>4
    <3>2. QED BY ONLY <3>1, Glued
  <2>7. JoinPiece(segs, t, segs[i]) = w
    BY DEF JoinPiece, one
  <2> HIDE DEF w, seg
  <2>8. \A k \in 1..Len(w) : w[k] \notin {"?", "#"}
    <3> SUFFICES ASSUME NEW k \in 1..Len(w) PROVE w[k] \notin {"?", "#"}
      OBVIOUS
    <3>1. CASE k \in 1..Len(t)
      <4>1. w[k] = t[k]
        BY <2>2, <2>4, <2>6, <3>1
      <4>2. QED BY <2>2, <3>1, <4>1
    <3>2. CASE k = Len(t) + 1
      <4>1. w[k] = "/"
        BY <2>2, <2>4, <2>6, <3>2
      <4>2. QED BY <4>1
    <3>3. CASE k > Len(t) + 1
      <4> DEFINE m == k - Len(one)
      <4>1. m \in 1..Len(seg) /\ Len(one) + m = k
        BY <2>1, <2>2, <2>4, <2>6, <3>3
      <4> HIDE DEF m
      <4>2. w[k] = seg[m]
        BY <2>6, <4>1
      <4>3. QED BY <2>1, <4>1, <4>2
    <3>4. QED BY <2>2, <3>1, <3>2, <3>3
  <2>9. w # <<>> /\ w[1] = "/"
    <3>1. 1 \in 1..Len(one) /\ Len(w) > 0
      BY <2>1, <2>2, <2>4, <2>6
    <3>2. w[1] = one[1]
      BY <2>6, <3>1
    <3>3. CASE i - 1 = 0
      <4>1. Len(t) = 0
        BY <2>2, <3>3, EmptyText
      <4>2. QED BY <2>4, <3>1, <3>2, <4>1, EmptyText
    <3>4. CASE i - 1 > 0
      <4>1. Len(t) > 0
        BY <2>2, <3>4 DEF Listed
      <4>2. one[1] = t[1]
        BY <2>2, <2>4, <4>1
      <4>3. QED BY <2>2, <3>1, <3>2, <3>4, <4>2, EmptyText
    <3>5. QED BY <3>3, <3>4
  <2>10. Listed(old)
    BY <2>2, SplitListed
  <2> HIDE DEF old, new
  <2>11. /\ Listed(new) /\ Len(new) = Len(old) + 1 /\ new[Len(old) + 1] = seg
         /\ \A j \in 1..Len(old) : new[j] = old[j]
    BY ONLY <2>5, <2>10, ListedAppend
  <2>12. Len(new) = i + 1 /\ new[1] = <<>>
    BY <2>2, <2>11
  <2>13. \A j \in 1..i : new[j + 1] = segs[j]
    <3> SUFFICES ASSUME NEW j \in 1..i PROVE new[j + 1] = segs[j]
      OBVIOUS
    <3>1. CASE j = i
      BY <2>2, <2>11, <3>1 DEF seg
    <3>2. CASE j \in 1..(i - 1)
      <4>1. new[j + 1] = old[j + 1]
        BY <2>2, <2>11, <3>2
      <4>2. QED BY <2>2, <3>2, <4>1
    <3>3. QED BY <3>1, <3>2
  <2>14. i > 0
    OBVIOUS
  <2>15. JoinedSoFar(segs, 0, i, w, 0)
    BY <2>6, <2>8, <2>9, <2>12, <2>13, <2>14 DEF JoinedSoFar, new
  <2>16. QED BY <2>7, <2>15 DEF JoinedSoFar
<1>5. JoinedSoFar(segs, 0, n, Joining!SeqA(segs, <<>>, segs), Joining!SeqB(0, <<>>, segs))
  <2> HIDE DEF n
  <2>1. QED BY <1>1, <1>3, <1>4, JoiningOrdered, Joining!SequenceFolds
<1> HIDE DEF p
<1>6. /\ Listed(p) /\ Len(Split(p, "/")) = n + 1 /\ Split(p, "/")[1] = <<>>
      /\ \A j \in 1..n : Split(p, "/")[j + 1] = segs[j]
      /\ \A k \in 1..Len(p) : p[k] \notin {"?", "#"}
      /\ n > 0 => p # <<>> /\ p[1] = "/"
      /\ n = 0 => p = <<>>
  BY <1>2, <1>5 DEF JoinedSoFar
<1>7. n = 0 <=> segs = <<>>
  BY <1>1, EmptyText DEF Listed
<1>8. PathSegments(p) = segs
  <2>1. \A j \in 1..n : segs[j] \notin Dots
    BY <1>1 DEF Named
  <2>2. 1 \in Nat /\ Len(Split(p, "/")) = 1 + n
    BY <1>1, <1>6
  <2>3. \A i \in 1..1 : Split(p, "/")[i] = <<>>
    BY <1>6
  <2>4. \A j \in 1..n : Split(p, "/")[1 + j] = segs[j]
    BY <1>1, <1>6
  <2>5. /\ Listed(segs) /\ \A j \in 1..Len(segs) : segs[j] \notin Dots
        /\ 1 \in Nat /\ Len(Split(p, "/")) = 1 + Len(segs) /\ Listed(p)
        /\ \A i \in 1..1 : Split(p, "/")[i] = <<>>
        /\ \A j \in 1..Len(segs) : Split(p, "/")[1 + j] = segs[j]
    BY <1>1, <1>6, <2>1, <2>2, <2>3, <2>4
  <2>6. QED BY ONLY <2>5, NamedReadAgain
<1>9. QED BY <1>1, <1>6, <1>7, <1>8 DEF p

\* A slash alone names nothing.
LEMMA SlashBlank == Listed(<<"/">>) /\ PathSegments(<<"/">>) = <<>>
<1>1. Listed(<<"/">>) /\ <<>> \o <<"/">> \o <<>> = <<"/">>
  <2> DEFINE one == <<"/">>
             u == <<>> \o one
  <2>1. Listed(one) /\ Len(one) = 1
    <3>1. one \in Seq({"/"})
      OBVIOUS
    <3>2. QED BY Zenon, <3>1 DEF Listed
  <2> HIDE DEF one
  <2>2. Listed(<<>>) /\ Len(<<>>) = 0
    BY EmptyText
  <2>3. /\ Listed(u) /\ Len(u) = Len(<<>>) + Len(one)
        /\ \A i \in 1..Len(one) : u[Len(<<>>) + i] = one[i]
    BY ONLY <2>1, <2>2, Glued
  <2> HIDE DEF u
  <2>4. u = one
    BY <2>1, <2>2, <2>3, ListedEqual
  <2>5. /\ Listed(u \o <<>>) /\ Len(u \o <<>>) = Len(u) + Len(<<>>)
        /\ \A i \in 1..Len(u) : (u \o <<>>)[i] = u[i]
    BY ONLY <2>2, <2>3, Glued
  <2> DEFINE v == u \o <<>>
  <2> HIDE DEF v
  <2>6. v = one
    BY <2>1, <2>2, <2>4, <2>5, ListedEqual DEF v
  <2>7. QED BY <2>1, <2>6 DEF v, u, one
<1>2. Split(<<"/">>, "/") = Append(Split(<<>>, "/"), <<>>)
  <2>1. \A i \in 1..Len(<<>>) : <<>>[i] # "/"
    BY EmptyText
  <2>2. Split(<<>> \o <<"/">> \o <<>>, "/") = Append(Split(<<>>, "/"), <<>>)
    BY Zenon, <2>1, EmptyText, SplitMore
  <2>3. QED BY <1>1, <2>2
<1> DEFINE pieces == Split(<<"/">>, "/")
<1>3. Len(pieces) = 2 /\ pieces[1] = <<>> /\ pieces[2] = <<>>
  <2> DEFINE first == << <<>> >>
  <2>1. Listed(first) /\ Len(first) = 1 /\ first[1] = <<>>
    <3>1. first \in Seq({<<>>})
      OBVIOUS
    <3>2. QED BY Zenon, <3>1 DEF Listed
  <2>2. pieces = Append(first, <<>>)
    BY Zenon, <1>2, EmptyText
  <2> HIDE DEF first, pieces
  <2>3. /\ Len(pieces) = Len(first) + 1 /\ pieces[Len(first) + 1] = <<>>
        /\ \A j \in 1..Len(first) : pieces[j] = first[j]
    BY <2>1, <2>2, ListedAppend
  <2>4. QED BY <2>1, <2>3
<1>4. Len(pieces) = 2 + Len(<<>>) /\ \A i \in 1..2 : pieces[i] = <<>>
  <2> HIDE DEF pieces
  <2>1. QED BY <1>3, EmptyText
<1>5. /\ \A j \in 1..Len(<<>>) : pieces[2 + j] = <<>>[j]
      /\ \A j \in 1..Len(<<>>) : <<>>[j] \notin Dots
  BY EmptyText
<1>6. PathSegments(<<"/">>) = <<>>
  <2>1. 2 \in Nat
    OBVIOUS
  <2>2. QED BY Zenon, <1>1, <1>4, <1>5, <2>1, EmptyText, NamedReadAgain
<1>7. QED BY <1>1, <1>6

-----------------------------------------------------------------------------
(* What the parser makes of a URL. *)

\* What is in lower case stays, and has the marks it had.
LEMMA LowerKept ==
    ASSUME NEW u, Listed(u)
    PROVE  /\ Listed(Lower(u)) /\ Len(Lower(u)) = Len(u) /\ Lower(Lower(u)) = Lower(u)
           /\ \A i \in 1..Len(u) :
                 /\ Lower(u)[i] = (IF u[i] \in DOMAIN LowerOf THEN LowerOf[u[i]] ELSE u[i])
                 /\ Lower(u)[i] \in Marks => Lower(u)[i] = u[i]
<1> DEFINE low(x) == IF x \in DOMAIN LowerOf THEN LowerOf[x] ELSE x
           v == [i \in 1..Len(u) |-> low(u[i])]
<1>1. Len(u) \in Nat /\ DOMAIN u = 1..Len(u)
  BY ListedDomain
<1>2. \A x : low(low(x)) = low(x) /\ (low(x) \in Marks => low(x) = x)
  BY WordsAssumption
<1>3. Lower(u) = v
  BY <1>1 DEF Lower
<1> HIDE DEF low
<1>4. v = [i \in 1..Len(u) |-> v[i]] /\ \A i \in 1..Len(u) : v[i] = low(u[i])
  OBVIOUS
<1> HIDE DEF v
<1>5. Listed(v) /\ Len(v) = Len(u)
  BY <1>1, <1>4, ListedIs
<1>6. Lower(v) = v
  <2>1. DOMAIN v = 1..Len(u)
    BY <1>5, ListedDomain
  <2>2. Lower(v) = [i \in 1..Len(u) |-> low(v[i])]
    BY <2>1 DEF Lower, low
  <2>3. \A i \in 1..Len(u) : low(v[i]) = v[i]
    BY <1>2, <1>4
  <2>4. [i \in 1..Len(u) |-> low(v[i])] = [i \in 1..Len(u) |-> v[i]]
    BY <2>3
  <2>5. QED BY <1>4, <2>2, <2>4
<1>7. \A i \in 1..Len(u) : v[i] \in Marks => v[i] = u[i]
  BY <1>2, <1>4
<1>8. \A i \in 1..Len(u) : v[i] = (IF u[i] \in DOMAIN LowerOf THEN LowerOf[u[i]] ELSE u[i])
  BY <1>4 DEF low
<1>9. QED BY <1>3, <1>5, <1>6, <1>7, <1>8

\* A part written after its mark, or left out.
LEMMA MarkedPart ==
    ASSUME NEW v, Listed(v), NEW m
    PROVE  LET w == IF v = <<>> THEN <<>> ELSE <<m>> \o v
           IN  /\ Listed(w) /\ (w = <<>> <=> v = <<>>)
               /\ w # <<>> => w[1] = m /\ Tail(w) = v
               /\ \A i \in 1..Len(w) : w[i] = m \/ \E k \in 1..Len(v) : w[i] = v[k]
<1>1. CASE v = <<>>
  BY <1>1, EmptyText
<1>2. CASE v # <<>>
  <2> DEFINE one == <<m>>
             w == one \o v
  <2>1. Listed(one) /\ Len(one) = 1 /\ one[1] = m
    <3>1. one \in Seq({m})
      OBVIOUS
    <3>2. QED BY Zenon, <3>1 DEF Listed
  <2> HIDE DEF one
  <2>2. /\ Listed(w) /\ Len(w) = Len(one) + Len(v)
        /\ \A i \in 1..Len(one) : w[i] = one[i]
        /\ \A i \in 1..Len(v) : w[Len(one) + i] = v[i]
    <3>1. Listed(one) /\ Listed(v)
      BY <2>1
    <3>2. QED BY ONLY <3>1, Glued
  <2> HIDE DEF w
  <2>3. Len(v) \in Nat
    BY ListedDomain
  <2>4. Len(w) = 1 + Len(v) /\ w[1] = m /\ w # <<>>
    BY <2>1, <2>2, <2>3, EmptyText
  <2>5. Tail(w) = v
    <3>1. /\ Listed(Tail(w)) /\ Len(Tail(w)) = Len(w) - 1
          /\ \A k \in 1..(Len(w) - 1) : Tail(w)[k] = w[k + 1]
      <4>1. PICK S : w \in Seq(S)
        BY <2>2 DEF Listed
      <4>2. QED BY <2>4, <4>1 DEF Listed
    <3>2. \A k \in 1..Len(v) : Tail(w)[k] = v[k]
      BY <2>1, <2>2, <2>3, <2>4, <3>1
    <3> DEFINE t == Tail(w)
    <3>3. Listed(t) /\ Len(t) = Len(v) /\ \A k \in 1..Len(t) : t[k] = v[k]
      BY <2>3, <2>4, <3>1, <3>2
    <3> HIDE DEF t
    <3>4. t = v
      BY ONLY <3>3, Listed(v), ListedEqual
    <3>5. QED BY <3>4 DEF t
  <2>6. \A i \in 1..Len(w) : w[i] = m \/ \E k \in 1..Len(v) : w[i] = v[k]
    <3> SUFFICES ASSUME NEW i \in 1..Len(w) PROVE w[i] = m \/ \E k \in 1..Len(v) : w[i] = v[k]
      OBVIOUS
    <3>1. CASE i = 1
      BY <2>4, <3>1
    <3>2. CASE i > 1
      <4> DEFINE k == i - 1
      <4>1. k \in 1..Len(v) /\ 1 + k = i
        BY <2>3, <2>4, <3>2
      <4> HIDE DEF k
      <4>2. QED BY <2>1, <2>2, <4>1
    <3>3. QED BY <2>3, <2>4, <3>1, <3>2
  <2>7. QED BY <1>2, <2>2, <2>4, <2>5, <2>6 DEF w, one
<1>3. QED BY <1>1, <1>2

\* A host, a port and a URL as the parser leaves them.
HostFit(host) ==
    /\ Listed(host) /\ host # <<>> /\ Lower(host) = host
    /\ \A i \in 1..Len(host) : host[i] \notin {"/", "?", "#"}
PortFit(scheme, port) ==
    port # None => /\ port # DefaultPort(scheme)
                   /\ \E digits \in DOMAIN PortOf :
                         PortWord[port] = digits /\ PortOf[digits] = port
UrlFit(iri, path) ==
    /\ iri = [kind |-> "url", scheme |-> iri.scheme, nss |-> <<>>, host |-> iri.host,
              port |-> iri.port, segments |-> iri.segments, query |-> iri.query,
              params |-> ParseQuery(iri.query), fragment |-> iri.fragment]
    /\ HostFit(iri.host) /\ PortFit(iri.scheme, iri.port)
    /\ AllNamed(path, iri.segments) /\ \A k \in 1..Len(path) : path[k] \notin {"?", "#"}
    /\ Listed(iri.query) /\ \A k \in 1..Len(iri.query) : iri.query[k] # "#"
    /\ Listed(iri.fragment)

\* What comes before a mark has none, and what comes after is the text's.
LEMMA PiecesMarked ==
    ASSUME NEW s, Listed(s), NEW marks
    PROVE  /\ \A i \in 1..Len(Before(s, marks)) :
                 Before(s, marks)[i] \notin marks /\ i \in 1..Len(s) /\ Before(s, marks)[i] = s[i]
           /\ \A i \in 1..Len(After(s, marks)) : \E k \in 1..Len(s) : After(s, marks)[i] = s[k]
<1> DEFINE S == {i \in DOMAIN s : s[i] \in marks} \union {Len(s) + 1}
           f == First(s, marks)
<1>1. Len(s) \in Nat /\ DOMAIN s = 1..Len(s)
  BY ListedDomain
<1>2. f \in 1..(Len(s) + 1) /\ \A j \in S : f <= j
  <2>1. f \in 1..(Len(s) + 1)
    BY Before1
  <2>2. S \subseteq Nat /\ Len(s) + 1 \in S
    BY <1>1
  <2>3. f = Min(S)
    BY DEF First
  <2> HIDE DEF S, f
  <2>4. PICK k \in S : \A j \in S : k <= j
    BY Zenon, <2>2, LeastNumber
  <2>5. \A j \in S : Min(S) <= j
    BY <2>4 DEF Min
  <2>6. QED BY <2>1, <2>3, <2>5
<1> DEFINE b == Before(s, marks)
           a == After(s, marks)
<1>3. /\ b = SubSeq(s, 1, f - 1) /\ a = SubSeq(s, f + 1, Len(s))
  BY DEF Before, After
<1> HIDE DEF f, a, b
<1>4. /\ Listed(b) /\ Len(b) = (f - 1) - 1 + 1
      /\ \A k \in 1..((f - 1) - 1 + 1) : b[k] = s[1 + k - 1]
  <2>1. Listed(s) /\ 1 \in Nat \ {0} /\ f - 1 \in 0..Len(s) /\ 1 <= (f - 1) + 1
    BY <1>1, <1>2
  <2>2. QED BY ONLY <1>3, <2>1, Part
<1>5. \A i \in 1..Len(b) : b[i] \notin marks /\ i \in 1..Len(s) /\ b[i] = s[i]
  <2> SUFFICES ASSUME NEW i \in 1..Len(b)
               PROVE  b[i] \notin marks /\ i \in 1..Len(s) /\ b[i] = s[i]
    OBVIOUS
  <2>1. b[i] = s[i] /\ i \in 1..Len(s) /\ i < f
    BY <1>1, <1>2, <1>4
  <2>2. s[i] \notin marks
    BY <1>1, <1>2, <2>1
  <2>3. QED BY <2>1, <2>2
<1>6. \A i \in 1..Len(a) : \E k \in 1..Len(s) : a[i] = s[k]
  <2>1. CASE f = Len(s) + 1
    <3>1. PICK T : s \in Seq(T)
      BY DEF Listed
    <3>2. a = <<>>
      BY <1>1, <1>3, <2>1, <3>1
    <3>3. QED BY <3>2, EmptyText
  <2>2. CASE f <= Len(s)
    <3>1. Listed(s) /\ f + 1 \in Nat \ {0} /\ Len(s) \in 0..Len(s) /\ f + 1 <= Len(s) + 1
      BY <1>1, <1>2, <2>2
    <3>2. /\ Listed(a) /\ Len(a) = Len(s) - (f + 1) + 1
          /\ \A k \in 1..(Len(s) - (f + 1) + 1) : a[k] = s[(f + 1) + k - 1]
      BY ONLY <1>3, <3>1, Part
    <3>3. \A k \in 1..Len(a) : (f + 1) + k - 1 \in 1..Len(s)
      BY <1>1, <1>2, <3>2
    <3>4. QED BY Zenon, <3>2, <3>3
  <2>3. QED BY <1>1, <1>2, <2>1, <2>2
<1>7. QED BY <1>5, <1>6 DEF a, b

LEMMA UrlRead ==
    ASSUME NEW scheme, NEW text, Listed(text), ParseAuthorityUrl(scheme, text) # Error
    PROVE  ParseAuthorityUrl(scheme, text).scheme = scheme
           /\ \E path : UrlFit(ParseAuthorityUrl(scheme, text), path)
<1> DEFINE auth == Before(text, {"/", "?", "#"})
           rest == From(text, {"/", "?", "#"})
           beforeFragment == Before(rest, {"#"})
           query == After(beforeFragment, {"?"})
           path == Before(beforeFragment, {"?"})
           fragment == After(rest, {"#"})
           port == IF HasPort(auth) THEN PortOf[Last(auth)] ELSE None
           kept == IF port = DefaultPort(scheme) THEN None ELSE port
           host == Lower(HostOf(auth))
           iri == ParseAuthorityUrl(scheme, text)
<1>1. /\ auth # <<>> /\ ~(HasPort(auth) /\ port = None)
      /\ iri = [kind |-> "url", scheme |-> scheme, nss |-> <<>>, host |-> host, port |-> kept,
                segments |-> PathSegments(path), query |-> query, params |-> ParseQuery(query),
                fragment |-> fragment]
  BY DEF ParseAuthorityUrl
<1>2. Listed(auth) /\ Listed(rest)
  BY PiecesListed
<1>3. Listed(beforeFragment) /\ Listed(fragment)
  <2> HIDE DEF rest
  <2>1. QED BY <1>2, PiecesListed
<1>4. Listed(query) /\ Listed(path)
  <2> HIDE DEF beforeFragment
  <2>1. QED BY <1>3, PiecesListed
<1>5. \A i \in 1..Len(beforeFragment) : beforeFragment[i] # "#"
  <2> HIDE DEF rest
  <2>1. \A i \in 1..Len(beforeFragment) : beforeFragment[i] \notin {"#"}
    BY <1>2, PiecesMarked
  <2>2. QED BY <2>1
<1>6. /\ \A k \in 1..Len(query) : query[k] # "#"
      /\ \A k \in 1..Len(path) : path[k] \notin {"?", "#"}
  <2> HIDE DEF beforeFragment
  <2>1. /\ \A i \in 1..Len(path) :
              path[i] \notin {"?"} /\ i \in 1..Len(beforeFragment) /\ path[i] = beforeFragment[i]
        /\ \A i \in 1..Len(query) : \E k \in 1..Len(beforeFragment) : query[i] = beforeFragment[k]
    BY <1>3, PiecesMarked
  <2> HIDE DEF path, query
  <2>2. QED BY <1>5, <2>1
<1>7. AllNamed(path, PathSegments(path))
  <2> HIDE DEF path
  <2>1. QED BY <1>4, SegmentsNamed
<1>8. HostFit(host)
  <2>1. \A i \in 1..Len(auth) : auth[i] \notin {"/", "?", "#"}
    BY PiecesMarked
  <2> HIDE DEF auth
  <2>2. Len(auth) \in Nat \ {0}
    BY <1>1, <1>2 DEF Listed
  <2> DEFINE h == HostOf(auth)
  <2>3. Listed(h) /\ Len(h) \in Nat \ {0} /\ \A i \in 1..Len(h) : h[i] \notin {"/", "?", "#"}
    <3>1. CASE ~HasPort(auth)
      BY <1>2, <2>1, <2>2, <3>1 DEF HostOf
    <3>2. CASE HasPort(auth)
      <4>1. Len(auth) >= 3
        BY <3>2 DEF HasPort
      <4>2. /\ Listed(auth) /\ 1 \in Nat \ {0} /\ Len(auth) - 2 \in 0..Len(auth)
            /\ 1 <= (Len(auth) - 2) + 1
        BY <1>2, <2>2, <4>1
      <4> DEFINE w == SubSeq(auth, 1, Len(auth) - 2)
                 len == (Len(auth) - 2) - 1 + 1
      <4>3. Listed(w) /\ Len(w) = len /\ \A k \in 1..len : w[k] = auth[1 + k - 1]
        BY ONLY Zenon, <4>2, Part
      <4>4. h = w
        BY <3>2 DEF HostOf
      <4> HIDE DEF w, h
      <4>5. QED BY <2>1, <2>2, <4>1, <4>3, <4>4
    <3>3. QED BY <3>1, <3>2
  <2> HIDE DEF h
  <2> DEFINE l == Lower(h)
  <2>4. /\ Listed(l) /\ Len(l) = Len(h) /\ Lower(l) = l
        /\ \A i \in 1..Len(h) : l[i] \in Marks => l[i] = h[i]
    BY <2>3, LowerKept
  <2> HIDE DEF l
  <2>5. l # <<>>
    BY <2>3, <2>4, EmptyText
  <2>6. \A i \in 1..Len(l) : l[i] \notin {"/", "?", "#"}
    BY Zenon, <2>3, <2>4 DEF Marks
  <2>7. HostFit(l)
    BY <2>4, <2>5, <2>6 DEF HostFit
  <2>8. QED BY <2>7 DEF l, h
<1>9. PortFit(scheme, kept)
  <2>1. SUFFICES ASSUME kept # None
                 PROVE  /\ kept # DefaultPort(scheme)
                        /\ \E digits \in DOMAIN PortOf :
                              PortWord[kept] = digits /\ PortOf[digits] = kept
    BY DEF PortFit
  <2>2. kept = port /\ port # None /\ port # DefaultPort(scheme)
    BY <2>1
  <2>3. HasPort(auth) /\ port = PortOf[Last(auth)]
    BY <2>2
  <2>4. Last(auth) \in DOMAIN PortOf
    BY <2>3 DEF HasPort
  <2> HIDE DEF port, auth, kept
  <2>5. \E digits \in DOMAIN PortOf : PortWord[port] = digits /\ PortOf[digits] = port
    BY <2>2, <2>3, <2>4, WordsAssumption
  <2>6. QED BY <2>2, <2>5
<1> HIDE DEF auth, rest, beforeFragment, query, path, fragment, port, kept, host, iri
<1>10. UrlFit(iri, path)
  <2>1. /\ iri.scheme = scheme /\ iri.host = host /\ iri.port = kept
        /\ iri.segments = PathSegments(path) /\ iri.query = query /\ iri.fragment = fragment
    BY <1>1
  <2>2. QED BY <1>1, <1>3, <1>4, <1>6, <1>7, <1>8, <1>9, <2>1 DEF UrlFit
<1>11. iri.scheme = scheme
  BY <1>1
<1>12. QED BY <1>10, <1>11 DEF iri

-----------------------------------------------------------------------------
(* The authority and what follows it. *)

\* The parts of a URL's canonical form.
PortText(iri) == IF iri.port = None THEN <<>> ELSE <<":", PortWord[iri.port]>>
QueryText(iri) == IF iri.query = <<>> THEN <<>> ELSE <<"?">> \o iri.query
FragmentText(iri) == IF iri.fragment = <<>> THEN <<>> ELSE <<"#">> \o iri.fragment
PathText(iri) ==
    IF iri.segments = <<>> /\ QueryText(iri) \o FragmentText(iri) # <<>> THEN <<"/">>
    ELSE Joined(iri.segments, "/")

\* The host and the port are read off them.
LEMMA AuthorityAgain ==
    ASSUME NEW iri, HostFit(iri.host), PortFit(iri.scheme, iri.port),
           ~(iri.port = None /\ HasPort(iri.host))
    PROVE  LET auth == iri.host \o PortText(iri)
               port == IF HasPort(auth) THEN PortOf[Last(auth)] ELSE None
           IN  /\ Listed(auth) /\ auth # <<>>
               /\ \A i \in 1..Len(auth) : auth[i] \notin {"/", "?", "#"}
               /\ HostOf(auth) = iri.host /\ ~(HasPort(auth) /\ port = None)
               /\ (IF port = DefaultPort(iri.scheme) THEN None ELSE port) = iri.port
<1> DEFINE host == iri.host
           auth == host \o PortText(iri)
           port == IF HasPort(auth) THEN PortOf[Last(auth)] ELSE None
<1>1. Listed(host) /\ Len(host) \in Nat \ {0} /\ host # <<>>
      /\ \A i \in 1..Len(host) : host[i] \notin {"/", "?", "#"}
  BY DEF HostFit, Listed
<1>2. CASE iri.port = None
  <2>1. PortText(iri) = <<>>
    BY <1>2 DEF PortText
  <2>2. auth = host
    <3> DEFINE a == host \o <<>>
    <3>1. /\ Listed(a) /\ Len(a) = Len(host) + Len(<<>>)
          /\ \A i \in 1..Len(host) : a[i] = host[i]
      BY ONLY <1>1, EmptyText, Glued
    <3>2. Len(a) = Len(host)
      BY <1>1, <3>1, EmptyText
    <3> HIDE DEF a, host
    <3>3. a = host
      BY <1>1, <3>1, <3>2, ListedEqual
    <3>4. QED BY <2>1, <3>3 DEF a
  <2>3. ~HasPort(auth)
    BY <1>2, <2>2
  <2> HIDE DEF auth
  <2>4. HostOf(auth) = host /\ port = None
    BY <2>2, <2>3 DEF HostOf
  <2>5. QED BY <1>1, <1>2, <2>2, <2>3, <2>4 DEF auth
<1>3. CASE iri.port # None
  <2>1. PICK digits \in DOMAIN PortOf :
               PortWord[iri.port] = digits /\ PortOf[digits] = iri.port
    BY <1>3 DEF PortFit
  <2> DEFINE p == <<":", digits>>
  <2>2. PortText(iri) = p
    BY <1>3, <2>1 DEF PortText
  <2>3. Listed(p) /\ Len(p) = 2 /\ p[1] = ":" /\ p[2] = digits
    <3>1. p \in Seq({":", digits})
      OBVIOUS
    <3>2. QED BY Zenon, <3>1 DEF Listed
  <2>4. digits \notin {"/", "?", "#"}
    BY Zenon, <2>1, TokensAssumption DEF Marks
  <2> HIDE DEF p
  <2> DEFINE a == host \o p
  <2>5. /\ Listed(a) /\ Len(a) = Len(host) + Len(p)
        /\ \A i \in 1..Len(host) : a[i] = host[i]
        /\ \A i \in 1..Len(p) : a[Len(host) + i] = p[i]
    <3>1. Listed(host) /\ Listed(p)
      BY <1>1, <2>3
    <3>2. QED BY ONLY <3>1, Glued
  <2>6. auth = a
    BY <2>2
  <2> HIDE DEF a, host
  <2>7. /\ Len(a) = Len(host) + 2 /\ Len(a) >= 3 /\ a[Len(host) + 1] = ":"
        /\ a[Len(host) + 2] = digits
    BY <1>1, <2>3, <2>5
  <2>8. HasPort(a) /\ Last(a) = digits
    <3>1. Len(a) - 1 = Len(host) + 1
      BY <1>1, <2>7
    <3>2. QED BY <2>1, <2>7, <3>1 DEF HasPort, Last
  <2>9. HostOf(a) = host
    <3> DEFINE w == SubSeq(a, 1, Len(a) - 2)
               len == (Len(a) - 2) - 1 + 1
    <3>1. Listed(a) /\ 1 \in Nat \ {0} /\ Len(a) - 2 \in 0..Len(a) /\ 1 <= (Len(a) - 2) + 1
      BY <1>1, <2>5, <2>7
    <3>2. Listed(w) /\ Len(w) = len /\ \A k \in 1..len : w[k] = a[1 + k - 1]
      BY ONLY Zenon, <3>1, Part
    <3>3. len = Len(host)
      BY <1>1, <2>7
    <3>4. HostOf(a) = w
      BY <2>8 DEF HostOf
    <3> HIDE DEF w, len
    <3>5. \A k \in 1..Len(w) : w[k] = host[k]
      BY <1>1, <2>5, <3>2, <3>3
    <3>6. w = host
      BY <1>1, <3>2, <3>3, <3>5, ListedEqual
    <3>7. QED BY <3>4, <3>6
  <2>10. \A i \in 1..Len(a) : a[i] \notin {"/", "?", "#"}
    <3> SUFFICES ASSUME NEW i \in 1..Len(a) PROVE a[i] \notin {"/", "?", "#"}
      OBVIOUS
    <3>1. CASE i \in 1..Len(host)
      BY <1>1, <2>5, <3>1
    <3>2. CASE i = Len(host) + 1
      BY <2>7, <3>2
    <3>3. CASE i = Len(host) + 2
      BY <2>4, <2>7, <3>3
    <3>4. QED BY <1>1, <2>7, <3>1, <3>2, <3>3
  <2>11. (IF HasPort(a) THEN PortOf[Last(a)] ELSE None) = iri.port
    BY <2>1, <2>8
  <2>12. iri.port # DefaultPort(iri.scheme)
    BY <1>3 DEF PortFit
  <2>13. a # <<>>
    BY <2>7, EmptyText
  <2> HIDE DEF auth
  <2>14. port = iri.port
    BY <2>6, <2>11
  <2> HIDE DEF port
  <2>15. /\ Listed(auth) /\ auth # <<>>
         /\ \A i \in 1..Len(auth) : auth[i] \notin {"/", "?", "#"}
         /\ HostOf(auth) = host /\ ~(HasPort(auth) /\ port = None)
         /\ (IF port = DefaultPort(iri.scheme) THEN None ELSE port) = iri.port
    BY <1>3, <2>5, <2>6, <2>9, <2>10, <2>12, <2>13, <2>14
  <2>16. QED BY <2>15 DEF auth, port, host
<1>4. QED BY <1>2, <1>3

LEMMA UrlAgain ==
    ASSUME NEW iri, NEW path, UrlFit(iri, path), ~(iri.port = None /\ HasPort(iri.host))
    PROVE  LET text == (iri.host \o PortText(iri)) \o
                           (PathText(iri) \o (QueryText(iri) \o FragmentText(iri)))
           IN  Listed(text) /\ ParseAuthorityUrl(iri.scheme, text) = iri
<1> DEFINE auth == iri.host \o PortText(iri)
           q == QueryText(iri)
           f == FragmentText(iri)
           p == PathText(iri)
           rest == p \o (q \o f)
           text == auth \o rest
           port == IF HasPort(auth) THEN PortOf[Last(auth)] ELSE None
<1>1. /\ Listed(auth) /\ auth # <<>> /\ \A i \in 1..Len(auth) : auth[i] \notin {"/", "?", "#"}
      /\ HostOf(auth) = iri.host /\ ~(HasPort(auth) /\ port = None)
      /\ (IF port = DefaultPort(iri.scheme) THEN None ELSE port) = iri.port
  BY AuthorityAgain DEF UrlFit
<1>2. /\ Listed(q) /\ (q = <<>> <=> iri.query = <<>>)
      /\ q # <<>> => q[1] = "?" /\ Tail(q) = iri.query
      /\ \A i \in 1..Len(q) : q[i] # "#"
  <2>1. Listed(iri.query) /\ \A k \in 1..Len(iri.query) : iri.query[k] # "#"
    BY DEF UrlFit
  <2>2. /\ Listed(q) /\ (q = <<>> <=> iri.query = <<>>)
        /\ q # <<>> => q[1] = "?" /\ Tail(q) = iri.query
        /\ \A i \in 1..Len(q) : q[i] = "?" \/ \E k \in 1..Len(iri.query) : q[i] = iri.query[k]
    BY Zenon, <2>1, MarkedPart DEF QueryText
  <2> HIDE DEF q
  <2>3. QED BY <2>1, <2>2
<1>3. /\ Listed(f) /\ (f = <<>> <=> iri.fragment = <<>>)
      /\ f # <<>> => f[1] = "#" /\ Tail(f) = iri.fragment
  <2>1. Listed(iri.fragment)
    BY DEF UrlFit
  <2>2. QED BY <2>1, MarkedPart DEF FragmentText
<1>4. Listed(q \o f)
  BY <1>2, <1>3, Glued
<1>5. /\ Listed(p) /\ PathSegments(p) = iri.segments
      /\ \A k \in 1..Len(p) : p[k] \notin {"?", "#"}
      /\ p # <<>> => p[1] = "/"
      /\ p = <<>> => q \o f = <<>>
  <2> DEFINE j == Joined(iri.segments, "/")
  <2>1. AllNamed(path, iri.segments) /\ \A k \in 1..Len(path) : path[k] \notin {"?", "#"}
    BY DEF UrlFit
  <2>2. /\ Listed(j) /\ PathSegments(j) = iri.segments
        /\ \A k \in 1..Len(j) : j[k] \notin {"?", "#"}
        /\ iri.segments # <<>> => j # <<>> /\ j[1] = "/"
        /\ iri.segments = <<>> => j = <<>>
    BY <2>1, PathAgain
  <2> DEFINE one == <<"/">>
  <2>3. /\ Listed(one) /\ PathSegments(one) = <<>> /\ Len(one) = 1 /\ one[1] = "/" /\ one # <<>>
    BY SlashBlank
  <2> DEFINE after == q \o f
  <2>4. p = IF iri.segments = <<>> /\ after # <<>> THEN one ELSE j
    BY DEF PathText
  <2> HIDE DEF p, after, one, j
  <2>5. CASE iri.segments = <<>> /\ after # <<>>
    <3>1. p = one
      BY <2>4, <2>5
    <3>2. \A k \in 1..Len(p) : p[k] \notin {"?", "#"}
      <4>1. \A k \in 1..Len(p) : k = 1
        <5>1. Len(p) = 1
          BY <2>3, <3>1
        <5>2. QED BY <5>1
      <4>2. p[1] \notin {"?", "#"}
        BY <2>3, <3>1
      <4>3. QED BY <4>1, <4>2
    <3>3. QED BY <2>3, <2>5, <3>1, <3>2 DEF after
  <2>6. CASE ~(iri.segments = <<>> /\ after # <<>>)
    <3>1. p = j
      BY <2>4, <2>6
    <3>2. QED BY <2>2, <2>6, <3>1 DEF after
  <2>7. QED BY <2>5, <2>6
<1> HIDE DEF auth, q, f, p
<1>6. Listed(rest) /\ Listed(p \o q) /\ rest = (p \o q) \o f
  <2>1. Listed(rest)
    BY <1>4, <1>5, Glued
  <2>2. Listed(p \o q)
    BY <1>2, <1>5, Glued
  <2>3. (p \o q) \o f = p \o (q \o f)
    BY <1>2, <1>3, <1>5, Grouped
  <2>4. QED BY <2>1, <2>2, <2>3
<1>7. rest # <<>> => rest[1] = "/"
  <2>1. CASE p # <<>>
    <3>1. Len(p) \in Nat /\ Len(p) > 0
      BY <1>5, <2>1 DEF Listed
    <3>2. \A i \in 1..Len(p) : rest[i] = p[i]
      BY <1>4, <1>5, Glued
    <3>3. QED BY <1>5, <2>1, <3>1, <3>2
  <2>2. CASE p = <<>>
    <3>1. q \o f = <<>>
      BY <1>5, <2>2
    <3> DEFINE blank == <<>> \o <<>>
    <3>2. Listed(blank) /\ Len(blank) = Len(<<>>) + Len(<<>>)
      BY ONLY EmptyText, Glued
    <3>3. blank = <<>>
      <4>1. Len(blank) = 0
        BY <3>2, EmptyText
      <4> HIDE DEF blank
      <4>2. QED BY <3>2, <4>1, EmptyText, ListedEqual
    <3>4. QED BY <2>2, <3>1, <3>3
  <2>3. QED BY <2>1, <2>2
<1> HIDE DEF rest
<1>8. Before(text, {"/", "?", "#"}) = auth /\ From(text, {"/", "?", "#"}) = rest
  <2> DEFINE marks == {"/", "?", "#"}
  <2>1. (\A i \in 1..Len(auth) : auth[i] \notin marks) /\ (rest # <<>> => rest[1] \in marks)
    BY <1>1, <1>7
  <2> HIDE DEF marks
  <2>2. Before(text, marks) = auth /\ From(text, marks) = rest
    <3>1. Listed(auth) /\ Listed(rest)
      BY <1>1, <1>6
    <3>2. QED BY ONLY Zenon, <3>1, <2>1, Cut
  <2>3. QED BY <2>2 DEF marks
<1>9. Before(rest, {"#"}) = p \o q /\ After(rest, {"#"}) = iri.fragment
  <2> DEFINE marks == {"#"}
             u == p \o q
  <2>1. \A i \in 1..Len(u) : u[i] \notin marks
    <3>1. /\ Len(u) = Len(p) + Len(q)
          /\ \A i \in 1..Len(p) : u[i] = p[i]
          /\ \A i \in 1..Len(q) : u[Len(p) + i] = q[i]
      BY <1>2, <1>5, Glued
    <3>2. Len(p) \in Nat /\ Len(q) \in Nat
      BY <1>2, <1>5, ListedDomain
    <3> HIDE DEF u
    <3> SUFFICES ASSUME NEW i \in 1..Len(u) PROVE u[i] # "#"
      OBVIOUS
    <3>3. CASE i \in 1..Len(p)
      BY <1>5, <3>1, <3>3
    <3>4. CASE i > Len(p)
      <4> DEFINE k == i - Len(p)
      <4>1. k \in 1..Len(q) /\ Len(p) + k = i
        BY <3>1, <3>2, <3>4
      <4> HIDE DEF k
      <4>2. QED BY <1>2, <3>1, <4>1
    <3>5. QED BY <3>1, <3>2, <3>3, <3>4
  <2>2. f # <<>> => f[1] \in marks
    BY <1>3
  <2>3. Listed(u) /\ rest = u \o f
    BY <1>6
  <2> HIDE DEF marks, u
  <2>4. /\ Before(u \o f, marks) = u
        /\ f # <<>> => After(u \o f, marks) = Tail(f)
        /\ f = <<>> => After(u \o f, marks) = <<>>
    BY <1>3, <2>1, <2>2, <2>3, Cut
  <2>5. Before(rest, marks) = u /\ After(rest, marks) = iri.fragment
    BY Zenon, <1>3, <2>3, <2>4
  <2>6. QED BY <2>5 DEF marks, u
<1>10. Before(p \o q, {"?"}) = p /\ After(p \o q, {"?"}) = iri.query
  <2> DEFINE marks == {"?"}
  <2>1. (\A i \in 1..Len(p) : p[i] \notin marks) /\ (q # <<>> => q[1] \in marks)
    BY <1>2, <1>5
  <2> HIDE DEF marks
  <2>2. /\ Before(p \o q, marks) = p
        /\ q # <<>> => After(p \o q, marks) = Tail(q)
        /\ q = <<>> => After(p \o q, marks) = <<>>
    BY <1>2, <1>5, <2>1, Cut
  <2>3. Before(p \o q, marks) = p /\ After(p \o q, marks) = iri.query
    BY <1>2, <2>2
  <2>4. QED BY <2>3 DEF marks
<1>11. Listed(text)
  BY <1>1, <1>6, Glued
<1>12. Lower(iri.host) = iri.host
  BY DEF UrlFit, HostFit
<1> HIDE DEF text
<1>13. ParseAuthorityUrl(iri.scheme, text) =
         [kind |-> "url", scheme |-> iri.scheme, nss |-> <<>>, host |-> iri.host,
          port |-> iri.port, segments |-> iri.segments, query |-> iri.query,
          params |-> ParseQuery(iri.query), fragment |-> iri.fragment]
  <2> DEFINE t1 == Before(text, {"/", "?", "#"})
             t2 == From(text, {"/", "?", "#"})
             t3 == Before(t2, {"#"})
             t4 == After(t3, {"?"})
             t5 == Before(t3, {"?"})
             t6 == After(t2, {"#"})
             tp == IF HasPort(t1) THEN PortOf[Last(t1)] ELSE None
  <2>1. t1 = auth /\ t2 = rest
    BY <1>8
  <2>2. t3 = p \o q /\ t6 = iri.fragment
    BY <1>9, <2>1
  <2>3. t4 = iri.query /\ t5 = p
    BY Zenon, <1>10, <2>2
  <2>4. tp = port
    BY <2>1
  <2>5. ParseAuthorityUrl(iri.scheme, text) =
          IF t1 = <<>> \/ (HasPort(t1) /\ tp = None) THEN Error
          ELSE [kind |-> "url", scheme |-> iri.scheme, nss |-> <<>>,
                host |-> Lower(HostOf(t1)),
                port |-> IF tp = DefaultPort(iri.scheme) THEN None ELSE tp,
                segments |-> PathSegments(t5), query |-> t4, params |-> ParseQuery(t4),
                fragment |-> t6]
    BY Zenon DEF ParseAuthorityUrl
  <2> HIDE DEF t1, t2, t3, t4, t5, t6, tp, port
  <2>6. ~(t1 = <<>> \/ (HasPort(t1) /\ tp = None))
    BY <1>1, <2>1, <2>4
  <2>7. /\ Lower(HostOf(t1)) = iri.host
        /\ (IF tp = DefaultPort(iri.scheme) THEN None ELSE tp) = iri.port
        /\ PathSegments(t5) = iri.segments
    BY <1>1, <1>5, <1>12, <2>1, <2>3, <2>4
  <2>8. QED BY <2>2, <2>3, <2>5, <2>6, <2>7
<1>14. ParseAuthorityUrl(iri.scheme, text) = iri
  BY <1>13 DEF UrlFit
<1>15. QED BY <1>11, <1>14 DEF text, rest, auth, p, q, f

-----------------------------------------------------------------------------
(* The scheme. *)

\* A scheme as the parser keeps it, and what it makes of an input.
SchemeFit(scheme) ==
    /\ Listed(scheme) /\ scheme # <<>> /\ Lower(scheme) = scheme /\ scheme[1] \in SchemeWords
    /\ \A i \in 1..Len(scheme) : scheme[i] \in SchemeWords \union DOMAIN PortOf \union {"."}

LEMMA SchemeRead ==
    ASSUME NEW s, Listed(s), HasScheme(s)
    PROVE  SchemeFit(Lower(Before(s, {":"})))
<1> DEFINE b == Before(s, {":"})
           l == Lower(b)
<1>1. Listed(b) /\ b # <<>> /\ b[1] \in SchemeWords
      /\ \A i \in 1..Len(b) : b[i] \in SchemeWords \union DOMAIN PortOf \union {"."}
  <2>1. Listed(b)
    BY PiecesListed
  <2>2. DOMAIN b = 1..Len(b)
    BY <2>1, ListedDomain
  <2>3. QED BY <2>1, <2>2 DEF HasScheme
<1> HIDE DEF b
<1>2. Len(b) \in Nat \ {0}
  BY <1>1 DEF Listed
<1>3. /\ Listed(l) /\ Len(l) = Len(b) /\ Lower(l) = l
      /\ \A i \in 1..Len(b) :
            l[i] = (IF b[i] \in DOMAIN LowerOf THEN LowerOf[b[i]] ELSE b[i])
  BY <1>1, LowerKept
<1> HIDE DEF l
<1>4. \A i \in 1..Len(b) : /\ l[i] \in SchemeWords \union DOMAIN PortOf \union {"."}
                           /\ b[i] \in SchemeWords => l[i] \in SchemeWords
  <2> SUFFICES ASSUME NEW i \in 1..Len(b)
               PROVE  /\ l[i] \in SchemeWords \union DOMAIN PortOf \union {"."}
                      /\ b[i] \in SchemeWords => l[i] \in SchemeWords
    OBVIOUS
  <2>1. b[i] \in SchemeWords \union DOMAIN PortOf \union {"."}
    BY <1>1
  <2>2. CASE b[i] \in SchemeWords
    BY <1>3, <2>2, WordsAssumption
  <2>3. CASE b[i] \in DOMAIN PortOf /\ b[i] \notin SchemeWords
    <3>1. b[i] \notin DOMAIN LowerOf
      BY <2>3, WordsAssumption
    <3>2. QED BY <1>3, <2>3, <3>1
  <2>4. CASE b[i] = "." /\ b[i] \notin SchemeWords
    <3>1. b[i] \notin DOMAIN LowerOf
      BY Zenon, <2>4, WordsAssumption DEF Marks
    <3>2. QED BY <1>3, <2>4, <3>1
  <2>5. QED BY <2>1, <2>2, <2>3, <2>4
<1>5. l # <<>> /\ l[1] \in SchemeWords
  BY <1>1, <1>2, <1>3, <1>4, EmptyText
<1>6. SchemeFit(l)
  BY <1>3, <1>4, <1>5 DEF SchemeFit
<1>7. QED BY <1>6 DEF l, b

UrnFit(iri) ==
    /\ iri = ParseUrn(iri.scheme, iri.nss) /\ IsUrn(iri)
    /\ Listed(iri.nss) /\ iri.nss # <<>>
    /\ iri.scheme = <<"urn">> \/ ~IsPrefix(<<"/", "/">>, iri.nss)

LEMMA ReadAsFit ==
    ASSUME NEW input, Listed(input), Parse(input) # Error
    PROVE  LET iri == Parse(input)
           IN  /\ SchemeFit(iri.scheme)
               /\ UrnFit(iri) \/ /\ ~IsUrn(iri) /\ iri.scheme # <<"urn">>
                                 /\ \E path : UrlFit(iri, path)
<1> DEFINE s == Strip(input)
           scheme == Lower(Before(s, {":"}))
           rest == After(s, {":"})
           iri == Parse(input)
           slashes == <<"/", "/">>
           text == SubSeq(rest, 3, Len(rest))
<1>1. Listed(s) /\ Listed(rest)
  BY StripListed, PiecesListed
<1>2. \/ /\ HasScheme(s) /\ ~(scheme # <<"urn">> /\ IsPrefix(slashes, rest))
         /\ iri = ParseUrn(scheme, rest)
      \/ /\ HasScheme(s) /\ scheme # <<"urn">> /\ IsPrefix(slashes, rest)
         /\ iri = ParseAuthorityUrl(scheme, text)
      \/ iri = ParseAuthorityUrl(<<"https">>, s)
  BY Zenon DEF Parse
<1>3. HasScheme(s) => SchemeFit(scheme)
  <2> HIDE DEF s
  <2>1. QED BY <1>1, SchemeRead
<1>4. \A u, t : ParseUrn(u, t) # Error =>
          /\ t # <<>> /\ ParseUrn(u, t).scheme = u /\ ParseUrn(u, t).nss = t
          /\ IsUrn(ParseUrn(u, t))
  BY DEF ParseUrn, IsUrn
<1>5. \A i, p : UrlFit(i, p) => ~IsUrn(i)
  BY DEF UrlFit, IsUrn
<1> HIDE DEF s, scheme, rest, iri, slashes, text
<1>6. CASE /\ HasScheme(s) /\ ~(scheme # <<"urn">> /\ IsPrefix(slashes, rest))
           /\ iri = ParseUrn(scheme, rest)
  <2>1. iri # Error
    BY DEF iri
  <2>2. rest # <<>> /\ iri.scheme = scheme /\ iri.nss = rest /\ IsUrn(iri)
    BY <1>4, <1>6, <2>1
  <2>3. UrnFit(iri)
    BY <1>1, <1>6, <2>2 DEF UrnFit, slashes
  <2>4. QED BY <1>3, <1>6, <2>2, <2>3 DEF iri
<1>7. CASE /\ HasScheme(s) /\ scheme # <<"urn">> /\ IsPrefix(slashes, rest)
           /\ iri = ParseAuthorityUrl(scheme, text)
  <2>1. PICK S : rest \in Seq(S)
    BY <1>1 DEF Listed
  <2>2. Len(rest) >= 2
    BY <1>7, <2>1 DEF IsPrefix, slashes
  <2>3. text \in Seq(S)
    BY <2>1, <2>2 DEF text
  <2>4. Listed(text) /\ iri # Error
    BY <2>3 DEF Listed, iri
  <2>5. iri.scheme = scheme /\ \E path : UrlFit(iri, path)
    BY <1>7, <2>4, UrlRead
  <2>6. SchemeFit(iri.scheme) /\ ~IsUrn(iri) /\ iri.scheme # <<"urn">>
    BY <1>3, <1>5, <1>7, <2>5
  <2>7. QED BY <2>5, <2>6 DEF iri
<1>8. CASE iri = ParseAuthorityUrl(<<"https">>, s)
  <2> DEFINE https == <<"https">>
  <2>1. iri # Error
    BY DEF iri
  <2>2. iri.scheme = https /\ \E path : UrlFit(iri, path)
    BY <1>1, <1>8, <2>1, UrlRead
  <2>3. SchemeFit(https)
    <3>1. Listed(https) /\ Len(https) = 1 /\ DOMAIN https = 1..1 /\ https[1] = "https"
      <4>1. https \in Seq({"https"}) /\ Len(https) = 1 /\ https[1] = "https"
        OBVIOUS
      <4>2. Listed(https)
        BY Zenon, <4>1 DEF Listed
      <4> HIDE DEF https
      <4>3. QED BY <4>1, <4>2, ListedDomain
    <3>2. https # <<>> /\ https # <<"urn">>
      BY <3>1, EmptyText
    <3> HIDE DEF https
    <3> DEFINE l == Lower(https)
    <3>3. Listed(l) /\ Len(l) = 1 /\ l[1] = "https"
      <4>1. /\ Listed(l) /\ Len(l) = Len(https)
            /\ \A i \in 1..Len(https) :
                  l[i] = (IF https[i] \in DOMAIN LowerOf THEN LowerOf[https[i]] ELSE https[i])
        BY <3>1, LowerKept
      <4>2. 1 \in 1..Len(https)
        BY <3>1
      <4> HIDE DEF l
      <4>3. QED BY <3>1, <4>1, <4>2, WordsAssumption
    <3> HIDE DEF l
    <3>4. l = https
      <4>1. \A i \in 1..Len(l) : l[i] = https[i]
        <5>1. \A i \in 1..Len(l) : i = 1
          BY <3>3
        <5>2. QED BY <3>1, <3>3, <5>1
      <4>2. QED BY <3>1, <3>3, <4>1, ListedEqual
    <3>5. \A i \in 1..Len(https) : https[i] \in SchemeWords
      <4>1. \A i \in 1..Len(https) : i = 1
        BY <3>1
      <4>2. QED BY <3>1, <4>1, WordsAssumption
    <3>6. https[1] \in SchemeWords
      BY <3>1, WordsAssumption
    <3>7. QED BY <3>1, <3>2, <3>4, <3>5, <3>6 DEF SchemeFit, l
  <2>4. https # <<"urn">>
    OBVIOUS
  <2> HIDE DEF https
  <2>5. SchemeFit(iri.scheme) /\ ~IsUrn(iri) /\ iri.scheme # <<"urn">>
    BY <1>5, <2>2, <2>3, <2>4
  <2>6. QED BY <2>2, <2>5 DEF iri
<1>9. QED BY <1>2, <1>6, <1>7, <1>8

\* The blank, by a name of its own.
Blank == " "

LEMMA StripsBlanks ==
    ASSUME NEW s
    PROVE  LET inner == {i \in DOMAIN s : s[i] # Blank}
           IN  Strip(s) = IF inner = {} THEN <<>> ELSE SubSeq(s, Min(inner), Max(inner))
BY Zenon DEF Strip, Blank

LEMMA WordsNotMarks ==
    ASSUME NEW w \in SchemeWords \union DOMAIN PortOf
    PROVE  w # Blank /\ w # ":"
<1>1. Blank \in Marks /\ ":" \in Marks
  BY Zenon DEF Marks, Blank
<1>2. w \notin Marks
  BY TokensAssumption
<1>3. QED BY <1>1, <1>2

\* A text that neither begins nor ends in a blank is stripped of nothing.
LEMMA StripKept ==
    ASSUME NEW s, Listed(s), s # <<>>, s[1] # Blank, Last(s) # Blank
    PROVE  Strip(s) = s
<1> DEFINE inner == {i \in DOMAIN s : s[i] # Blank}
           n == Len(s)
<1>1. n \in Nat \ {0} /\ DOMAIN s = 1..n
  BY DEF Listed
<1>2. 1 \in inner /\ n \in inner /\ inner \subseteq 1..n
  BY <1>1 DEF Last
<1>3. \A i \in inner : 1 <= i /\ i <= n /\ i \in Int
  BY <1>1, <1>2
<1> HIDE DEF inner
<1>4. Min(inner) = 1
  <2>1. Min(inner) \in inner /\ \A j \in inner : Min(inner) <= j
    BY Zenon, <1>2, <1>3 DEF Min
  <2>2. Min(inner) <= 1 /\ 1 <= Min(inner) /\ Min(inner) \in Int
    BY Zenon, <1>2, <1>3, <2>1
  <2>3. QED BY <2>2
<1>5. Max(inner) = n
  <2>1. Max(inner) \in inner /\ \A j \in inner : Max(inner) >= j
    <3>1. \A j \in inner : n >= j
      BY <1>1, <1>3
    <3>2. QED BY Zenon, <1>2, <3>1 DEF Max
  <2>2. Max(inner) >= n /\ Max(inner) <= n /\ Max(inner) \in Int
    BY Zenon, <1>2, <1>3, <2>1
  <2>3. QED BY <1>1, <2>2
<1>6. Strip(s) = SubSeq(s, 1, n)
  BY <1>2, <1>4, <1>5, StripsBlanks DEF inner
<1> DEFINE w == SubSeq(s, 1, n)
           len == n - 1 + 1
<1>7. Listed(w) /\ Len(w) = len /\ \A k \in 1..len : w[k] = s[1 + k - 1]
  <2>1. Listed(s) /\ 1 \in Nat \ {0} /\ n \in 0..Len(s) /\ 1 <= n + 1
    BY <1>1
  <2>2. QED BY ONLY <2>1, Part
<1> HIDE DEF w
<1>8. w = s
  <2>1. len = n /\ \A k \in 1..Len(w) : w[k] = s[k]
    BY <1>1, <1>7
  <2>2. QED BY <1>7, <2>1, ListedEqual
<1>9. QED BY <1>6, <1>8 DEF w

\* A scheme written before a colon is read off it.
LEMMA SchemeAgain ==
    ASSUME NEW scheme, SchemeFit(scheme), NEW rest, Listed(rest), rest # <<>>,
           Last(scheme \o (<<":">> \o rest)) # Blank
    PROVE  LET s == scheme \o (<<":">> \o rest)
           IN  /\ Strip(s) = s /\ s # <<>> /\ HasScheme(s)
               /\ Lower(Before(s, {":"})) = scheme /\ After(s, {":"}) = rest
<1> DEFINE v == <<":">> \o rest
           s == scheme \o v
<1>1. Listed(v) /\ v # <<>> /\ v[1] = ":" /\ Tail(v) = rest
  BY MarkedPart
<1> HIDE DEF v
<1>2. /\ Listed(scheme) /\ Len(scheme) \in Nat \ {0} /\ Lower(scheme) = scheme /\ scheme # <<>>
      /\ scheme[1] \in SchemeWords /\ DOMAIN scheme = 1..Len(scheme)
      /\ \A i \in 1..Len(scheme) : scheme[i] \in SchemeWords \union DOMAIN PortOf \union {"."}
  BY DEF SchemeFit, Listed
<1>3. Len(v) \in Nat /\ Len(v) > 0
  BY <1>1 DEF Listed
<1>4. /\ Listed(s) /\ Len(s) = Len(scheme) + Len(v)
      /\ \A i \in 1..Len(scheme) : s[i] = scheme[i]
      /\ \A i \in 1..Len(v) : s[Len(scheme) + i] = v[i]
  BY <1>1, <1>2, Glued
<1>5. \A i \in 1..Len(scheme) : scheme[i] \notin {":"}
  BY <1>2, WordsNotMarks
<1>6. Before(s, {":"}) = scheme /\ After(s, {":"}) = rest
  <2> DEFINE marks == {":"}
  <2>1. (\A i \in 1..Len(scheme) : scheme[i] \notin marks) /\ (v # <<>> => v[1] \in marks)
    BY <1>1, <1>5
  <2> HIDE DEF marks
  <2>2. Before(s, marks) = scheme /\ After(s, marks) = Tail(v)
    BY <1>1, <1>2, <2>1, Cut
  <2>3. QED BY <1>1, <2>2 DEF marks
<1> HIDE DEF s
<1>7. s # <<>> /\ s[1] = scheme[1] /\ s[1] # Blank
  <2>1. Len(s) > 0
    BY <1>2, <1>3, <1>4
  <2>2. s[1] = scheme[1]
    BY <1>2, <1>4
  <2>3. scheme[1] # Blank
    BY <1>2, WordsNotMarks
  <2>4. QED BY <2>1, <2>2, <2>3, EmptyText
<1>8. Strip(s) = s
  <2>1. Last(s) # Blank
    BY DEF s, v
  <2>2. QED BY <1>4, <1>7, <2>1, StripKept
<1>9. HasScheme(s)
  <2>1. Contains(s, ":")
    <3>1. s[Len(scheme) + 1] = ":" /\ Len(scheme) + 1 \in 1..Len(s)
      BY <1>1, <1>2, <1>3, <1>4
    <3>2. QED BY <3>1 DEF Contains
  <2>2. QED BY <1>2, <1>6, <2>1 DEF HasScheme
<1>10. QED BY <1>2, <1>6, <1>7, <1>8, <1>9 DEF s, v


\* The parser on the canonical form of what it read.
LEMMA CanonicalParsed ==
    ASSUME NEW scheme, SchemeFit(scheme), NEW rest, Listed(rest), rest # <<>>,
           Last(scheme \o (<<":">> \o rest)) # Blank
    PROVE  Parse(scheme \o (<<":">> \o rest)) =
               IF scheme # <<"urn">> /\ IsPrefix(<<"/", "/">>, rest)
               THEN ParseAuthorityUrl(scheme, SubSeq(rest, 3, Len(rest)))
               ELSE ParseUrn(scheme, rest)
<1> DEFINE input == scheme \o (<<":">> \o rest)
           s == Strip(input)
           l == Lower(Before(s, {":"}))
           r == After(s, {":"})
<1>1. s = input /\ s # <<>> /\ HasScheme(s) /\ l = scheme /\ r = rest
  BY Zenon, SchemeAgain
<1>2. s # <<>> /\ HasScheme(s) =>
      Parse(input) = IF l # <<"urn">> /\ IsPrefix(<<"/", "/">>, r)
                     THEN ParseAuthorityUrl(l, SubSeq(r, 3, Len(r)))
                     ELSE ParseUrn(l, r)
  BY Zenon DEF Parse
<1> HIDE DEF s, l, r
<1>3. QED BY <1>1, <1>2

LEMMA UrnAgain ==
    ASSUME NEW iri, SchemeFit(iri.scheme), UrnFit(iri), Last(Canonical(iri)) # Blank
    PROVE  Reparses(iri)
<1> DEFINE scheme == iri.scheme
           nss == iri.nss
           colon == <<":">>
<1>1. Listed(scheme) /\ Listed(nss) /\ nss # <<>> /\ SchemeFit(scheme)
  BY DEF SchemeFit, UrnFit
<1>2. Listed(colon)
  <2>1. colon \in Seq({":"})
    OBVIOUS
  <2>2. QED BY Zenon, <2>1 DEF Listed
<1>3. Canonical(iri) = (scheme \o colon) \o nss
  BY Zenon DEF Canonical, UrnFit
<1>4. (scheme \o colon) \o nss = scheme \o (colon \o nss)
  <2> HIDE DEF scheme, nss, colon
  <2>1. QED BY <1>1, <1>2, Grouped
<1>5. Parse(scheme \o (colon \o nss)) =
         IF scheme # <<"urn">> /\ IsPrefix(<<"/", "/">>, nss)
         THEN ParseAuthorityUrl(scheme, SubSeq(nss, 3, Len(nss)))
         ELSE ParseUrn(scheme, nss)
  <2>1. Last(scheme \o (colon \o nss)) # Blank
    BY Zenon, <1>3, <1>4
  <2> HIDE DEF scheme, nss
  <2>2. QED BY <1>1, <2>1, CanonicalParsed
<1>6. ~(scheme # <<"urn">> /\ IsPrefix(<<"/", "/">>, nss))
  BY DEF UrnFit
<1>7. ParseUrn(scheme, nss) = iri
  BY DEF UrnFit
<1> HIDE DEF scheme, nss, colon
<1>8. QED BY <1>3, <1>4, <1>5, <1>6, <1>7 DEF Reparses

LEMMA AuthoritySlashed ==
    ASSUME NEW text, Listed(text)
    PROVE  LET rest == <<"/", "/">> \o text
           IN  /\ Listed(rest) /\ rest # <<>> /\ IsPrefix(<<"/", "/">>, rest)
               /\ SubSeq(rest, 3, Len(rest)) = text
<1> DEFINE slashes == <<"/", "/">>
           rest == slashes \o text
           w == SubSeq(rest, 3, Len(rest))
           len == Len(rest) - 3 + 1
<1>1. Listed(slashes) /\ Len(slashes) = 2 /\ DOMAIN slashes = 1..2
  <2>1. slashes \in Seq({"/"}) /\ Len(slashes) = 2
    OBVIOUS
  <2>2. Listed(slashes)
    BY Zenon, <2>1 DEF Listed
  <2> HIDE DEF slashes
  <2>3. QED BY <2>1, <2>2, ListedDomain
<1>2. Len(text) \in Nat
  BY ListedDomain
<1> HIDE DEF slashes
<1>3. /\ Listed(rest) /\ Len(rest) = Len(slashes) + Len(text)
      /\ \A i \in 1..Len(slashes) : rest[i] = slashes[i]
      /\ \A i \in 1..Len(text) : rest[Len(slashes) + i] = text[i]
  <2>1. Listed(slashes) /\ Listed(text)
    BY <1>1
  <2>2. QED BY ONLY <2>1, Glued
<1> HIDE DEF rest
<1>4. Len(rest) = 2 + Len(text)
  BY <1>1, <1>3
<1>5. Listed(w) /\ Len(w) = len /\ \A k \in 1..len : w[k] = rest[3 + k - 1]
  <2>1. Listed(rest) /\ 3 \in Nat \ {0} /\ Len(rest) \in 0..Len(rest) /\ 3 <= Len(rest) + 1
    BY <1>2, <1>3, <1>4
  <2>2. QED BY ONLY Zenon, <2>1, Part
<1>6. len = Len(text)
  BY <1>2, <1>4
<1> HIDE DEF w, len
<1>7. \A k \in 1..Len(w) : w[k] = text[k]
  <2> SUFFICES ASSUME NEW k \in 1..Len(w) PROVE w[k] = text[k]
    OBVIOUS
  <2>1. 3 + k - 1 = Len(slashes) + k /\ k \in 1..len /\ k \in 1..Len(text)
    BY <1>1, <1>2, <1>5, <1>6
  <2>2. QED BY <1>3, <1>5, <2>1
<1>8. w = text
  BY <1>5, <1>6, <1>7, ListedEqual
<1>9. IsPrefix(slashes, rest)
  <2>1. Len(slashes) <= Len(rest)
    BY <1>1, <1>2, <1>4
  <2>2. SubSeq(rest, 1, Len(slashes)) = slashes
    <3> DEFINE t == SubSeq(rest, 1, Len(slashes))
               m == Len(slashes) - 1 + 1
    <3>1. Listed(rest) /\ 1 \in Nat \ {0} /\ Len(slashes) \in 0..Len(rest)
          /\ 1 <= Len(slashes) + 1
      BY <1>1, <1>2, <1>3, <1>4
    <3>2. Listed(t) /\ Len(t) = m /\ \A k \in 1..m : t[k] = rest[1 + k - 1]
      BY ONLY <3>1, Part
    <3>3. m = Len(slashes)
      BY <1>1
    <3> HIDE DEF t, m
    <3>4. \A k \in 1..Len(t) : t[k] = slashes[k]
      BY <1>1, <1>3, <3>2, <3>3
    <3>5. t = slashes
      BY <1>1, <3>2, <3>3, <3>4, ListedEqual
    <3>6. QED BY <3>5 DEF t
  <2>3. QED BY <1>1, <1>3, <2>1, <2>2 DEF IsPrefix
<1>10. rest # <<>>
  BY <1>2, <1>4, EmptyText
<1>11. QED BY <1>3, <1>8, <1>9, <1>10 DEF w, rest, slashes

\* The canonical form of a URL: its scheme, a colon, two slashes and the text of its
\* authority and of what follows.
LEMMA UrlWritten ==
    ASSUME NEW iri, ~IsUrn(iri), Listed(iri.scheme), Listed(iri.host), Listed(PortText(iri)),
           Listed(PathText(iri)), Listed(QueryText(iri) \o FragmentText(iri))
    PROVE  Canonical(iri) =
               iri.scheme \o (<<":">> \o (<<"/", "/">> \o
                   ((iri.host \o PortText(iri))
                    \o (PathText(iri) \o (QueryText(iri) \o FragmentText(iri))))))
<1> DEFINE scheme == iri.scheme
           host == iri.host
           port == PortText(iri)
           path == PathText(iri)
           after == QueryText(iri) \o FragmentText(iri)
           colon == <<":">>
           slashes == <<"/", "/">>
           mark == <<":", "/", "/">>
           auth == host \o port
           tail == path \o after
           text == auth \o tail
<1>1. Canonical(iri) = (((scheme \o mark) \o host) \o port) \o path \o after
  BY Zenon DEF Canonical, PortText, PathText, QueryText, FragmentText
<1>2. Listed(scheme) /\ Listed(host) /\ Listed(port) /\ Listed(path) /\ Listed(after)
  OBVIOUS
<1>3. Listed(colon) /\ Listed(slashes) /\ Listed(mark) /\ mark = colon \o slashes
  <2>1. colon \in Seq({":", "/"}) /\ slashes \in Seq({":", "/"}) /\ mark \in Seq({":", "/"})
    OBVIOUS
  <2>2. mark = colon \o slashes
    OBVIOUS
  <2>3. QED BY Zenon, <2>1, <2>2 DEF Listed
<1> HIDE DEF scheme, host, port, path, after, colon, slashes, mark
<1>4. Listed(auth) /\ Listed(tail)
  BY <1>2, Glued
<1> HIDE DEF auth, tail
<1> DEFINE start == scheme \o mark
<1>5. Listed(text) /\ Listed(start)
  BY <1>2, <1>3, <1>4, Glued
<1> HIDE DEF start
<1>6. (start \o host) \o port = start \o auth
  <2>1. Listed(start) /\ Listed(host) /\ Listed(port)
    BY <1>2, <1>5
  <2>2. (start \o host) \o port = start \o (host \o port)
    BY ONLY <2>1, Grouped
  <2>3. QED BY <2>2 DEF auth
<1>7. ((start \o auth) \o path) \o after = (start \o auth) \o tail
  <2> DEFINE site == start \o auth
  <2>1. Listed(site) /\ Listed(path) /\ Listed(after)
    BY <1>2, <1>4, <1>5, Glued
  <2> HIDE DEF site
  <2>2. (site \o path) \o after = site \o (path \o after)
    BY ONLY <2>1, Grouped
  <2>3. QED BY <2>2 DEF tail, site
<1>8. (start \o auth) \o tail = start \o text
  <2>1. Listed(start) /\ Listed(auth) /\ Listed(tail)
    BY <1>4, <1>5
  <2>2. (start \o auth) \o tail = start \o (auth \o tail)
    BY ONLY <2>1, Grouped
  <2>3. QED BY <2>2
<1> HIDE DEF text
<1>9. start \o text = scheme \o (mark \o text)
  <2>1. Listed(scheme) /\ Listed(mark) /\ Listed(text)
    BY <1>2, <1>3, <1>5
  <2>2. (scheme \o mark) \o text = scheme \o (mark \o text)
    BY ONLY <2>1, Grouped
  <2>3. QED BY <2>2 DEF start
<1>10. mark \o text = colon \o (slashes \o text)
  <2>1. Listed(colon) /\ Listed(slashes) /\ Listed(text)
    BY <1>3, <1>5
  <2>2. (colon \o slashes) \o text = colon \o (slashes \o text)
    BY ONLY <2>1, Grouped
  <2>3. QED BY <1>3, <2>2
<1>11. Canonical(iri) = scheme \o (colon \o (slashes \o text))
  <2>1. Canonical(iri) = (((start \o host) \o port) \o path) \o after
    BY <1>1 DEF start
  <2>2. QED BY Zenon, <1>6, <1>7, <1>8, <1>9, <1>10, <2>1
<1>12. QED BY <1>11 DEF scheme, host, port, path, after, colon, slashes, auth, tail, text

\* The parts of a URL that was read are texts.
LEMMA UrlTextsListed ==
    ASSUME NEW iri, NEW path, UrlFit(iri, path)
    PROVE  /\ Listed(iri.host) /\ Listed(PortText(iri))
           /\ Listed(PathText(iri)) /\ Listed(QueryText(iri) \o FragmentText(iri))
<1>1. Listed(iri.host) /\ Listed(iri.query) /\ Listed(iri.fragment)
      /\ AllNamed(path, iri.segments) /\ \A k \in 1..Len(path) : path[k] \notin {"?", "#"}
  BY DEF UrlFit, HostFit
<1>2. Listed(PortText(iri))
  <2> DEFINE p == <<":", PortWord[iri.port]>>
  <2>1. p \in Seq({":", PortWord[iri.port]})
    OBVIOUS
  <2>2. Listed(p)
    BY Zenon, <2>1 DEF Listed
  <2> HIDE DEF p
  <2>3. PortText(iri) = IF iri.port = None THEN <<>> ELSE p
    BY DEF PortText, p
  <2>4. QED BY <2>2, <2>3, EmptyText
<1>3. Listed(QueryText(iri))
  BY <1>1, MarkedPart DEF QueryText
<1>4. Listed(FragmentText(iri))
  BY <1>1, MarkedPart DEF FragmentText
<1>5. Listed(QueryText(iri) \o FragmentText(iri))
  <2>1. Listed(QueryText(iri)) /\ Listed(FragmentText(iri))
    BY <1>3, <1>4
  <2>2. QED BY ONLY <2>1, Glued
<1>6. Listed(PathText(iri))
  <2>1. Listed(Joined(iri.segments, "/"))
    BY <1>1, PathAgain
  <2>2. Listed(<<"/">>)
    BY SlashBlank
  <2>3. QED BY <2>1, <2>2 DEF PathText
<1>7. QED BY <1>1, <1>2, <1>5, <1>6

\* A URL's canonical form is read back, when it ends in no blank and its host in no
\* port of its own.
LEMMA UrlReadAgain ==
    ASSUME NEW iri, NEW path, SchemeFit(iri.scheme), UrlFit(iri, path), iri.scheme # <<"urn">>,
           ~IsUrn(iri), ~(iri.port = None /\ HasPort(iri.host)), Last(Canonical(iri)) # Blank
    PROVE  Reparses(iri)
<1> DEFINE scheme == iri.scheme
           text == (iri.host \o PortText(iri)) \o
                       (PathText(iri) \o (QueryText(iri) \o FragmentText(iri)))
           rest == <<"/", "/">> \o text
<1>1. Listed(text) /\ ParseAuthorityUrl(scheme, text) = iri
  BY UrlAgain
<1>2. Listed(rest) /\ rest # <<>> /\ IsPrefix(<<"/", "/">>, rest)
      /\ SubSeq(rest, 3, Len(rest)) = text
  <2> HIDE DEF text
  <2>1. QED BY <1>1, AuthoritySlashed
<1>3. Canonical(iri) = scheme \o (<<":">> \o rest)
  <2>1. /\ Listed(iri.scheme) /\ Listed(iri.host) /\ Listed(PortText(iri))
        /\ Listed(PathText(iri)) /\ Listed(QueryText(iri) \o FragmentText(iri))
    BY UrlTextsListed DEF SchemeFit
  <2>2. QED BY Zenon, <2>1, UrlWritten
<1> HIDE DEF text, rest
<1>4. Last(scheme \o (<<":">> \o rest)) # Blank
  BY <1>3
<1>5. Parse(scheme \o (<<":">> \o rest)) =
         IF scheme # <<"urn">> /\ IsPrefix(<<"/", "/">>, rest)
         THEN ParseAuthorityUrl(scheme, SubSeq(rest, 3, Len(rest)))
         ELSE ParseUrn(scheme, rest)
  BY <1>2, <1>4, CanonicalParsed
<1>6. QED BY Zenon, <1>1, <1>2, <1>3, <1>5 DEF Reparses

-----------------------------------------------------------------------------
(* What was read is written back the same. *)

\* What was last read comes of an input, if it is not an error.
ReadByParser == read = Error \/ \E input \in Readable : read = Parse(input)

LEMMA ReadIsReparsed ==
    ASSUME ReadByParser
    PROVE  CanonicalReparses
<1> DEFINE iri == read
<1>1. SUFFICES ASSUME iri # Error, Last(Canonical(iri)) # Blank,
                      ~(iri.port = None /\ HasPort(iri.host))
               PROVE  Reparses(iri)
  BY Zenon DEF CanonicalReparses, Blank
<1>2. PICK input \in Readable : iri = Parse(input)
  BY <1>1 DEF ReadByParser
<1>3. Listed(input) /\ Parse(input) # Error
  BY <1>1, <1>2, InputsAssumption DEF Listed
<1>4. /\ SchemeFit(iri.scheme)
      /\ UrnFit(iri) \/ /\ ~IsUrn(iri) /\ iri.scheme # <<"urn">>
                        /\ \E path : UrlFit(iri, path)
  BY <1>2, <1>3, ReadAsFit
<1> HIDE DEF iri
<1>5. CASE UrnFit(iri)
  BY <1>1, <1>4, <1>5, UrnAgain
<1>6. CASE ~IsUrn(iri) /\ iri.scheme # <<"urn">> /\ \E path : UrlFit(iri, path)
  <2>1. PICK path : UrlFit(iri, path)
    BY <1>6
  <2>2. QED BY <1>1, <1>4, <1>6, <2>1, UrlReadAgain
<1>7. QED BY <1>4, <1>5, <1>6

\* Parsing the canonical form of an identifier that was read gives that identifier
\* back (identifier.rs `canonical`, parser.rs), whatever the texts, the tokens and the
\* ports: unless it ends in a blank, which the parser strips, or its default port
\* was dropped in front of another one.
THEOREM CanonicalsReparse == Spec => []CanonicalReparses
<1>1. Init => ReadByParser
  BY DEF Init, ReadByParser
<1>2. ReadByParser /\ [Next]_vars => ReadByParser'
  <2> SUFFICES ASSUME ReadByParser, [Next]_vars
               PROVE  ReadByParser'
    OBVIOUS
  <2>1. ASSUME NEW input \in Inputs, Observe(input) PROVE ReadByParser'
    BY <2>1 DEF Observe, ReadByParser
  <2>2. ASSUME NEW input \in Readable, Read(input) PROVE ReadByParser'
    BY <2>2 DEF Read, ReadByParser
  <2>3. ASSUME NEW a \in Recognizers, Activate(a) PROVE ReadByParser'
    BY <2>3 DEF Activate, ReadByParser
  <2>4. CASE UNCHANGED vars
    BY <2>4 DEF vars, ReadByParser
  <2>5. QED BY <2>1, <2>2, <2>3, <2>4 DEF Next
<1>3. ReadByParser => CanonicalReparses
  BY ReadIsReparsed
<1>4. QED BY <1>1, <1>2, <1>3, PTL DEF Spec

-----------------------------------------------------------------------------
(* A JSON corpus file (JsonFile): the invariant. *)

Live(h) == at[h] \in {"writing", "renaming"}

\* A save in progress writes a temp file its process numbered, and no later
\* save has the number.
Numbered(h) ==
    Live(h) => \E n \in Nat : n < writes[Pid[h]] /\ saving[h].name = Name(Pid[h], n)

Apart == \A h, g \in Handles : Live(h) /\ Live(g) /\ saving[h].name = saving[g].name => h = g

\* The temp file is there until a reset deletes it, and once written holds the dump.
Written(h) ==
    /\ Live(h) => saving[h].name \in DOMAIN temps \/ reset.begun
    /\ at[h] = "renaming" /\ saving[h].name \in DOMAIN temps =>
         temps[saving[h].name] = Whole(saving[h].dump)

\* A corpus alone on its file has all the file has, and saves all it has.
Holds(h) ==
    /\ Live(h) => saving[h].dump = mem[h]
    /\ h \in alone => file.iris \subseteq mem[h]

Separate ==
    /\ TypeOK
    /\ FileWhole
    /\ reset.names # {} => reset.begun
    /\ Apart
    /\ \A h \in Handles : Numbered(h) /\ Written(h) /\ Holds(h)
    /\ TempsAccountedFor

LEMMA Types ==
    /\ NoFile \in Content /\ Partial \in Content
    /\ \A iris \in SUBSET Iris : Whole(iris) \in Content
    /\ \A pid \in Pids, n \in Nat :
         Name(pid, n) \in TempName /\ Name(pid, n).pid = pid /\ Name(pid, n).n = n
    /\ NoSave \in [name : TempName \union {NoName}, dump : SUBSET Iris]
BY DEF NoFile, Partial, Whole, Content, Name, TempName, NoSave

LEMMA SeparateInit == FileInit => Separate
<1> SUFFICES ASSUME FileInit PROVE Separate
  OBVIOUS
<1> USE DEF FileInit
<1>1. temps \in [DOMAIN temps -> Content] /\ DOMAIN temps = {}
  OBVIOUS
<1>2. TypeOK
  BY <1>1, Types, MaxWritesAssumption DEF TypeOK, Places
<1>3. FileWhole /\ TempsAccountedFor
  BY <1>1 DEF FileWhole, NoFile, TempsAccountedFor
<1>4. Apart /\ \A h \in Handles : Numbered(h) /\ Written(h) /\ Holds(h)
  BY DEF Apart, Numbered, Written, Holds, Live
<1>5. QED BY <1>2, <1>3, <1>4 DEF Separate

-----------------------------------------------------------------------------
(* Steps that touch no temp file. *)

LEMMA SeparateWithoutTemps ==
    ASSUME Separate, NEW h \in Handles,
           Open(h) \/ Close(h) \/ \E iri \in Iris : ObserveIri(h, iri)
    PROVE  Separate'
<1>1. /\ UNCHANGED <<file, temps, writes, saving, reset, crashed>>
      /\ ~Live(h) /\ ~Live(h)'
      /\ \A g \in Handles \ {h} : at'[g] = at[g] /\ mem'[g] = mem[g] /\ (g \in alone' <=> g \in alone)
  BY DEF Open, Close, ObserveIri, Live, Separate, TypeOK
<1>2. TypeOK'
  <2>1. file.iris \in SUBSET Iris
    BY DEF Separate, TypeOK, Content
  <2>2. mem' \in [Handles -> SUBSET Iris]
    BY <2>1 DEF Open, OpenFile, Close, ObserveIri, Separate, TypeOK
  <2>3. at' \in [Handles -> Places] /\ alone' \subseteq Handles
    BY Zenon DEF Open, Close, ObserveIri, Separate, TypeOK, Places
  <2>4. QED BY <1>1, <2>2, <2>3 DEF Separate, TypeOK
<1>3. Holds(h)'
  BY DEF Open, OpenFile, Close, ObserveIri, Separate, TypeOK, Holds, Live
<1>4. \A g \in Handles \ {h} : (Live(g)' <=> Live(g)) /\ Holds(g)'
  BY <1>1 DEF Live, Holds, Separate
<1>5. Apart' /\ \A g \in Handles : Numbered(g)' /\ Written(g)'
  BY <1>1, <1>4 DEF Apart, Numbered, Written, Live, Separate
<1>6. FileWhole' /\ TempsAccountedFor'
  BY <1>1, <1>4 DEF FileWhole, TempsAccountedFor, Live, Separate
<1>7. QED BY <1>1, <1>2, <1>3, <1>4, <1>5, <1>6 DEF Separate

-----------------------------------------------------------------------------
(* The steps of a save. *)

LEMMA SeparateCreateTemp ==
    ASSUME Separate, NEW h \in Handles, CreateTemp(h)
    PROVE  Separate'
<1> DEFINE name == Name(Pid[h], writes[Pid[h]])
<1>1. /\ Pid[h] \in Pids /\ writes[Pid[h]] \in 0..MaxWrites /\ writes[Pid[h]] < MaxWrites
      /\ at[h] = "open" /\ mem[h] \in SUBSET Iris /\ MaxWrites \in Nat
  BY Zenon, PidAssumption, MaxWritesAssumption DEF CreateTemp, Separate, TypeOK
<1>2. name \in TempName
  BY <1>1, Types
<1>3. /\ writes' = [writes EXCEPT ![Pid[h]] = @ + 1]
      /\ saving' = [saving EXCEPT ![h] = [name |-> name, dump |-> mem[h]]]
      /\ at' = [at EXCEPT ![h] = "writing"]
      /\ temps' = [n \in DOMAIN temps \union {name} |-> IF n = name THEN Partial ELSE temps[n]]
      /\ UNCHANGED <<file, mem, reset, crashed, alone>>
  BY DEF CreateTemp, UniqueName, PutTemp
<1>4. TypeOK'
  <2>1. DOMAIN temps' \subseteq TempName /\ temps' \in [DOMAIN temps' -> Content]
    BY <1>2, <1>3, Types DEF Separate, TypeOK
  <2>2. writes' \in [Pids -> 0..MaxWrites]
    BY <1>1, <1>3 DEF Separate, TypeOK
  <2>3. saving' \in [Handles -> [name : TempName \union {NoName}, dump : SUBSET Iris]]
    BY <1>1, <1>2, <1>3 DEF Separate, TypeOK
  <2>4. QED BY <1>3, <2>1, <2>2, <2>3 DEF Separate, TypeOK, Places
<1>5. /\ at'[h] = "writing" /\ saving'[h].name = name /\ saving'[h].dump = mem[h]
      /\ \A g \in Handles \ {h} : at'[g] = at[g] /\ saving'[g] = saving[g]
  BY <1>3 DEF Separate, TypeOK
<1>6. \A g \in Handles : Live(g) => saving[g].name # name
  <2> SUFFICES ASSUME NEW g \in Handles, Live(g), saving[g].name = name PROVE FALSE
    OBVIOUS
  <2>1. PICK n \in Nat : n < writes[Pid[g]] /\ name = Name(Pid[g], n)
    BY DEF Separate, Numbered
  <2>2. Pid[g] = Pid[h] /\ n = writes[Pid[h]]
    BY <2>1, <1>1, PidAssumption, Types
  <2>3. QED BY <1>1, <2>1, <2>2
<1>7. Apart'
  BY <1>5, <1>6 DEF Separate, Apart, Live
<1>8. \A g \in Handles : Numbered(g)'
  <2> SUFFICES ASSUME NEW g \in Handles, Live(g)' PROVE Numbered(g)'
    BY DEF Numbered
  <2>1. CASE g = h
    <3>1. writes[Pid[h]] \in Nat /\ writes[Pid[h]] < writes'[Pid[h]]
      BY <1>1, <1>3 DEF Separate, TypeOK
    <3>2. QED BY <1>5, <2>1, <3>1 DEF Numbered
  <2>2. CASE g # h
    <3>1. PICK n \in Nat : n < writes[Pid[g]] /\ saving[g].name = Name(Pid[g], n)
      BY <1>5, <2>2 DEF Separate, Numbered, Live
    <3>2. Pid[g] \in Pids /\ writes[Pid[g]] \in Nat
      BY PidAssumption, MaxWritesAssumption DEF Separate, TypeOK
    <3>3. n < writes'[Pid[g]]
      BY <1>3, <3>1, <3>2 DEF Separate, TypeOK
    <3>4. QED BY <1>5, <2>2, <3>1, <3>3 DEF Numbered
  <2>3. QED BY <2>1, <2>2
<1>9. \A g \in Handles : Written(g)'
  BY <1>3, <1>5, <1>6 DEF Separate, Written, Live
<1>10. \A g \in Handles : Holds(g)'
  BY <1>1, <1>3, <1>5 DEF Separate, Holds, Live
<1>11. TempsAccountedFor'
  <2> SUFFICES ASSUME NEW n \in DOMAIN temps'
               PROVE  (\E g \in Handles : Live(g)' /\ saving'[g].name = n) \/ n.pid \in crashed
    BY <1>3 DEF TempsAccountedFor, Live
  <2>1. CASE n = name
    BY <1>5, <2>1 DEF Live
  <2>2. CASE n # name
    <3>1. n \in DOMAIN temps
      BY <1>3, <2>2
    <3>2. CASE n.pid \in crashed
      BY <3>2
    <3>3. CASE \E g \in Handles : Live(g) /\ saving[g].name = n
      <4>1. PICK g \in Handles : Live(g) /\ saving[g].name = n
        BY <3>3
      <4>2. g # h
        BY <1>1, <4>1 DEF Live
      <4>3. QED BY <1>5, <4>1, <4>2 DEF Live
    <3>4. QED BY <3>1, <3>2, <3>3 DEF Separate, TempsAccountedFor, Live
  <2>3. QED BY <2>1, <2>2
<1>12. QED BY <1>3, <1>4, <1>7, <1>8, <1>9, <1>10, <1>11 DEF Separate, FileWhole

LEMMA SeparateWriteTemp ==
    ASSUME Separate, NEW h \in Handles, WriteTemp(h)
    PROVE  Separate'
<1> DEFINE name == saving[h].name
<1>1. /\ at[h] = "writing" /\ at' = [at EXCEPT ![h] = "renaming"]
      /\ UNCHANGED <<file, writes, mem, saving, reset, crashed, alone>>
      /\ temps' = IF name \in DOMAIN temps
                  THEN [n \in DOMAIN temps \union {name} |->
                          IF n = name THEN Whole(saving[h].dump) ELSE temps[n]]
                  ELSE temps
  BY DEF WriteTemp, PutTemp
<1>2. /\ DOMAIN temps' = DOMAIN temps
      /\ name \in DOMAIN temps => temps'[name] = Whole(saving[h].dump)
      /\ \A n \in DOMAIN temps : n # name => temps'[n] = temps[n]
  BY <1>1
<1>3. /\ \A g \in Handles : Live(g)' <=> Live(g)
      /\ at'[h] = "renaming"
      /\ \A g \in Handles \ {h} : at'[g] = at[g]
  BY <1>1 DEF Separate, TypeOK, Live
<1>4. TypeOK'
  <2>1. Whole(saving[h].dump) \in Content
    BY Types DEF Separate, TypeOK
  <2>2. DOMAIN temps' \subseteq TempName /\ temps' \in [DOMAIN temps' -> Content]
    BY <1>1, <2>1 DEF Separate, TypeOK
  <2>3. QED BY <1>1, <2>2 DEF Separate, TypeOK, Places
<1>5. Apart' /\ \A g \in Handles : Numbered(g)'
  BY <1>1, <1>3 DEF Separate, Apart, Numbered, Live
<1>6. \A g \in Handles : Written(g)'
  <2> SUFFICES ASSUME NEW g \in Handles PROVE Written(g)'
    OBVIOUS
  <2>1. CASE g = h
    BY <1>1, <1>2, <1>3, <2>1 DEF Separate, Written, Live
  <2>2. CASE g # h /\ Live(g)
    <3>1. saving[g].name # name
      BY <1>1, <2>2 DEF Separate, Apart, Live
    <3>2. QED BY <1>1, <1>2, <1>3, <2>2, <3>1 DEF Separate, Written, Live
  <2>3. CASE ~Live(g)
    BY <1>3, <2>3 DEF Written, Live
  <2>4. QED BY <2>1, <2>2, <2>3
<1>7. \A g \in Handles : Holds(g)'
  BY <1>1, <1>3 DEF Separate, Holds, Live
<1>8. TempsAccountedFor'
  BY <1>1, <1>2, <1>3 DEF Separate, TempsAccountedFor, Live
<1>9. QED BY <1>1, <1>4, <1>5, <1>6, <1>7, <1>8 DEF Separate, FileWhole

\* Taking the temp file of one's own save away leaves every other save's.
LEMMA OwnTempGone ==
    ASSUME Separate, NEW h \in Handles, Live(h),
           temps' = Without(saving[h].name) \/ (temps' = temps /\ saving[h].name \notin DOMAIN temps),
           at' = [at EXCEPT ![h] = "open"], saving' = [saving EXCEPT ![h] = NoSave],
           UNCHANGED <<writes, mem, reset, crashed>>
    PROVE  /\ temps' \in [DOMAIN temps' -> Content] /\ DOMAIN temps' \subseteq TempName
           /\ at' \in [Handles -> Places]
           /\ saving' \in [Handles -> [name : TempName \union {NoName}, dump : SUBSET Iris]]
           /\ at'[h] = "open" /\ \A g \in Handles \ {h} : at'[g] = at[g] /\ saving'[g] = saving[g]
           /\ Apart'
           /\ \A g \in Handles : Numbered(g)' /\ Written(g)'
           /\ TempsAccountedFor'
<1> DEFINE name == saving[h].name
<1>1. /\ DOMAIN temps' = DOMAIN temps \ {name}
      /\ \A n \in DOMAIN temps' : temps'[n] = temps[n]
      /\ temps' = [n \in DOMAIN temps' |-> temps'[n]]
  BY Zenon DEF Without, Restrict, Separate, TypeOK
<1>2. temps' \in [DOMAIN temps' -> Content] /\ DOMAIN temps' \subseteq TempName
  BY <1>1 DEF Separate, TypeOK
<1>3. at' \in [Handles -> Places]
  BY DEF Separate, TypeOK, Places
<1>4. saving' \in [Handles -> [name : TempName \union {NoName}, dump : SUBSET Iris]]
  BY Types DEF Separate, TypeOK
<1>5. /\ at'[h] = "open" /\ ~Live(h)'
      /\ \A g \in Handles \ {h} : at'[g] = at[g] /\ saving'[g] = saving[g] /\ (Live(g)' <=> Live(g))
  BY DEF Separate, TypeOK, Live
<1>6. \A g \in Handles \ {h} : Live(g) => saving[g].name # name
  BY DEF Separate, Apart
<1>7. Apart' /\ \A g \in Handles : Numbered(g)'
  BY <1>5 DEF Separate, Apart, Numbered
<1>8. \A g \in Handles : Written(g)'
  <2> SUFFICES ASSUME NEW g \in Handles, Live(g)' PROVE Written(g)'
    BY DEF Written, Live
  <2>1. g # h /\ Live(g) /\ Written(g) /\ saving[g].name # name
    BY <1>5, <1>6 DEF Separate
  <2>2. QED BY <1>1, <1>5, <2>1 DEF Written, Live
<1>9. TempsAccountedFor'
  <2> SUFFICES ASSUME NEW n \in DOMAIN temps', n.pid \notin crashed'
               PROVE  \E g \in Handles : Live(g)' /\ saving'[g].name = n
    BY DEF TempsAccountedFor, Live
  <2>1. n \in DOMAIN temps /\ n # name
    BY <1>1
  <2>2. PICK g \in Handles : Live(g) /\ saving[g].name = n
    BY <2>1 DEF Separate, TempsAccountedFor, Live
  <2>3. QED BY <1>5, <2>1, <2>2
<1>10. QED BY <1>2, <1>3, <1>4, <1>5, <1>7, <1>8, <1>9

LEMMA SeparateRename ==
    ASSUME Separate, NEW h \in Handles, Rename(h)
    PROVE  Separate'
<1> USE DEF Rename
<1> DEFINE name == saving[h].name
<1>1. Live(h) /\ UNCHANGED <<writes, mem, reset, crashed>>
  BY DEF Live
<1>2. name \in DOMAIN temps => file' = Whole(mem[h]) /\ alone' = {h}
  BY <1>1 DEF Separate, Written, Holds
<1>3. name \notin DOMAIN temps => file' = file /\ alone' = alone
  OBVIOUS
<1>4. /\ temps' \in [DOMAIN temps' -> Content] /\ DOMAIN temps' \subseteq TempName
      /\ at' \in [Handles -> Places]
      /\ saving' \in [Handles -> [name : TempName \union {NoName}, dump : SUBSET Iris]]
      /\ at'[h] = "open" /\ \A g \in Handles \ {h} : at'[g] = at[g] /\ saving'[g] = saving[g]
      /\ Apart'
      /\ \A g \in Handles : Numbered(g)' /\ Written(g)'
      /\ TempsAccountedFor'
  BY Zenon, <1>1, OwnTempGone
<1>5. file' \in Content /\ FileWhole' /\ alone' \subseteq Handles
  <2>1. CASE name \in DOMAIN temps
    BY <1>2, <2>1, Types DEF Separate, TypeOK, FileWhole, Whole
  <2>2. CASE name \notin DOMAIN temps
    BY <1>3, <2>2 DEF Separate, TypeOK, FileWhole
  <2>3. QED BY <2>1, <2>2
<1>6. TypeOK'
  BY <1>1, <1>4, <1>5 DEF Separate, TypeOK
<1>7. \A g \in Handles : Holds(g)'
  <2> SUFFICES ASSUME NEW g \in Handles PROVE Holds(g)'
    OBVIOUS
  <2>1. Live(g)' => saving'[g].dump = mem'[g]
    BY <1>1, <1>4 DEF Separate, Holds, Live
  <2>2. g \in alone' => file'.iris \subseteq mem'[g]
    <3>1. CASE name \in DOMAIN temps
      BY <1>1, <1>2, <3>1 DEF Whole
    <3>2. CASE name \notin DOMAIN temps
      BY <1>1, <1>3, <1>4, <3>2 DEF Separate, Holds
    <3>3. QED BY <3>1, <3>2
  <2>3. QED BY <2>1, <2>2 DEF Holds
<1>8. QED BY <1>1, <1>4, <1>5, <1>6, <1>7 DEF Separate

LEMMA SeparateSaveFails ==
    ASSUME Separate, NEW h \in Handles, SaveFails(h)
    PROVE  Separate'
<1> USE DEF SaveFails
<1>1. Live(h) /\ UNCHANGED <<file, writes, mem, reset, crashed, alone>>
  BY DEF Live
<1>2. /\ temps' \in [DOMAIN temps' -> Content] /\ DOMAIN temps' \subseteq TempName
      /\ at' \in [Handles -> Places]
      /\ saving' \in [Handles -> [name : TempName \union {NoName}, dump : SUBSET Iris]]
      /\ at'[h] = "open" /\ \A g \in Handles \ {h} : at'[g] = at[g] /\ saving'[g] = saving[g]
      /\ Apart'
      /\ \A g \in Handles : Numbered(g)' /\ Written(g)'
      /\ TempsAccountedFor'
  BY Zenon, <1>1, OwnTempGone
<1>3. TypeOK'
  BY <1>1, <1>2 DEF Separate, TypeOK
<1>4. \A g \in Handles : Holds(g)'
  BY <1>1, <1>2 DEF Separate, Holds, Live
<1>5. QED BY <1>1, <1>2, <1>3, <1>4 DEF Separate, FileWhole

-----------------------------------------------------------------------------
(* A process dies; a reset. *)

LEMMA SeparateCrash ==
    ASSUME Separate, NEW pid \in Pids, Crash(pid)
    PROVE  Separate'
<1>1. /\ \A h \in Handles : Pid[h] = pid => at'[h] = "closed"
      /\ \A h \in Handles : Pid[h] # pid =>
           at'[h] = at[h] /\ mem'[h] = mem[h] /\ saving'[h] = saving[h]
      /\ writes' = [writes EXCEPT ![pid] = 0]
      /\ crashed' = crashed \union {pid}
      /\ UNCHANGED <<file, temps, reset>>
      /\ \A h \in alone' : h \in alone /\ Pid[h] # pid
      /\ alone' \subseteq alone
  BY DEF Crash, Separate, TypeOK
<1>2. TypeOK'
  <2>1. at' \in [Handles -> Places] /\ mem' \in [Handles -> SUBSET Iris]
    BY DEF Crash, Separate, TypeOK, Places
  <2>2. saving' \in [Handles -> [name : TempName \union {NoName}, dump : SUBSET Iris]]
    BY Types DEF Crash, Separate, TypeOK
  <2>3. writes' \in [Pids -> 0..MaxWrites] /\ crashed' \subseteq Pids
    BY <1>1, MaxWritesAssumption DEF Separate, TypeOK
  <2>4. QED BY <1>1, <2>1, <2>2, <2>3 DEF Separate, TypeOK
<1>3. \A h \in Handles : Live(h)' => Pid[h] # pid /\ Live(h)
  BY <1>1 DEF Live
<1>4. Apart'
  BY <1>1, <1>3 DEF Separate, Apart
<1>5. \A h \in Handles : Numbered(h)'
  <2> SUFFICES ASSUME NEW h \in Handles, Live(h)' PROVE Numbered(h)'
    BY DEF Numbered
  <2>1. writes'[Pid[h]] = writes[Pid[h]] /\ saving'[h] = saving[h] /\ Numbered(h) /\ Live(h)
    BY <1>1, <1>3, PidAssumption DEF Separate, TypeOK
  <2>2. QED BY <2>1 DEF Numbered
<1>6. \A h \in Handles : Written(h)' /\ Holds(h)'
  BY <1>1, <1>3 DEF Separate, Written, Holds, Live
<1>7. TempsAccountedFor'
  <2> SUFFICES ASSUME NEW n \in DOMAIN temps, n.pid \notin crashed'
               PROVE  \E g \in Handles : Live(g)' /\ saving'[g].name = n
    BY <1>1 DEF TempsAccountedFor, Live
  <2>1. PICK g \in Handles : Live(g) /\ saving[g].name = n
    BY <1>1 DEF Separate, TempsAccountedFor, Live
  <2>2. PICK k \in Nat : n = Name(Pid[g], k)
    BY <2>1 DEF Separate, Numbered
  <2>3. Pid[g] # pid
    BY <1>1, <2>2, PidAssumption, Types
  <2>4. QED BY <1>1, <2>1, <2>3 DEF Live
<1>8. QED BY <1>1, <1>2, <1>4, <1>5, <1>6, <1>7 DEF Separate, FileWhole

LEMMA SeparateReset ==
    ASSUME Separate, ResetBegins \/ ResetDeletes
    PROVE  Separate'
<1>1. CASE ResetBegins
  <2> USE <1>1 DEF ResetBegins
  <2>1. TypeOK'
    BY Types DEF Separate, TypeOK
  <2>2. FileWhole' /\ TempsAccountedFor' /\ Apart'
    BY DEF Separate, FileWhole, NoFile, TempsAccountedFor, Apart, Live
  <2>3. \A h \in Handles : Numbered(h)' /\ Written(h)' /\ Holds(h)'
    BY DEF Separate, Numbered, Written, Holds, Live
  <2>4. QED BY <2>1, <2>2, <2>3 DEF Separate
<1>2. CASE ResetDeletes
  <2>1. PICK name \in reset.names :
          reset' = [reset EXCEPT !.names = @ \ {name}] /\ temps' = Without(name)
    BY <1>2 DEF ResetDeletes
  <2>2. UNCHANGED <<file, writes, mem, at, saving, crashed, alone>>
    BY <1>2 DEF ResetDeletes
  <2>3. /\ DOMAIN temps' = DOMAIN temps \ {name}
        /\ \A n \in DOMAIN temps' : temps'[n] = temps[n]
        /\ temps' = [n \in DOMAIN temps' |-> temps'[n]]
    BY <2>1 DEF Without, Restrict
  <2>4. TypeOK'
    BY <2>1, <2>2, <2>3 DEF Separate, TypeOK
  <2>5. reset.begun /\ reset'.begun
    BY <2>1 DEF Separate, TypeOK
  <2>6. FileWhole' /\ TempsAccountedFor' /\ Apart'
    BY <2>2, <2>3 DEF Separate, FileWhole, TempsAccountedFor, Apart, Live
  <2>7. \A h \in Handles : Numbered(h)' /\ Written(h)' /\ Holds(h)'
    BY <2>2, <2>3, <2>5 DEF Separate, Numbered, Written, Holds, Live
  <2>8. QED BY <2>4, <2>5, <2>6, <2>7 DEF Separate
<1>3. QED BY <1>1, <1>2

LEMMA SeparateStep == Separate /\ [FileNext]_fileVars => Separate'
<1> SUFFICES ASSUME Separate, [FileNext]_fileVars PROVE Separate'
  OBVIOUS
<1>1. CASE \E h \in Handles : Open(h) \/ Close(h) \/ \E iri \in Iris : ObserveIri(h, iri)
  BY <1>1, SeparateWithoutTemps
<1>2. CASE \E h \in Handles : CreateTemp(h) \/ WriteTemp(h) \/ Rename(h) \/ SaveFails(h)
  BY <1>2, SeparateCreateTemp, SeparateWriteTemp, SeparateRename, SeparateSaveFails
<1>3. CASE \E pid \in Pids : Crash(pid)
  BY <1>3, SeparateCrash
<1>4. CASE ResetBegins \/ ResetDeletes
  BY <1>4, SeparateReset
<1>5. CASE UNCHANGED fileVars
  <2> USE <1>5 DEF fileVars
  <2>1. TypeOK' /\ FileWhole' /\ TempsAccountedFor' /\ Apart'
    BY DEF Separate, TypeOK, FileWhole, TempsAccountedFor, Apart, Live
  <2>2. \A h \in Handles : Numbered(h)' /\ Written(h)' /\ Holds(h)'
    BY DEF Separate, Numbered, Written, Holds, Live
  <2>3. QED BY <2>1, <2>2 DEF Separate
<1>6. QED BY <1>1, <1>2, <1>3, <1>4, <1>5 DEF FileNext

LEMMA SeparateAlways == FileSpec => []Separate
BY SeparateInit, SeparateStep, PTL DEF FileSpec

-----------------------------------------------------------------------------
(* What holds of the file. *)

\* The corpus file is never seen half written (storage_json.rs
\* `dump_memory_to_json`).
THEOREM FileAlwaysWhole == FileSpec => []FileWhole
<1>1. Separate => FileWhole
  BY DEF Separate
<1>2. QED BY <1>1, SeparateAlways, PTL

\* A save renames the file it wrote itself, unless a reset deleted it
\* (storage_json.rs `dump_memory_to_json`).
THEOREM SavesStayApart == FileSpec => []SavesOwnDump
<1>1. Separate => SavesOwnDump
  BY DEF Separate, Written, Live, SavesOwnDump
<1>2. QED BY <1>1, SeparateAlways, PTL

\* Every temp file has a save in progress or a process that died (main.rs
\* `json_temp_files`).
THEOREM TempsAlwaysAccountedFor == FileSpec => []TempsAccountedFor
<1>1. Separate => TempsAccountedFor
  BY DEF Separate
<1>2. QED BY <1>1, SeparateAlways, PTL

\* A corpus alone on its file loses nothing the file held (storage_json.rs
\* `JsonStorage::open`).
THEOREM AloneLosesNothing == FileSpec => NothingLostAlone
<1>1. Separate /\ [FileNext]_fileVars =>
        [\A h \in Handles : Renamed(h) /\ h \in alone => file.iris \subseteq file'.iris]_fileVars
  <2> SUFFICES ASSUME Separate, [FileNext]_fileVars, NEW h \in Handles, Renamed(h), h \in alone
               PROVE  file.iris \subseteq file'.iris
    OBVIOUS
  <2>1. at[h] = "renaming" /\ at'[h] = "open" /\ file' # file
    BY DEF Renamed
  <2>2. PICK g \in Handles : Rename(g)
    BY Zenon, <2>1 DEF FileNext, fileVars, Open, Close, ObserveIri, CreateTemp, WriteTemp, SaveFails,
                Crash, ResetBegins, ResetDeletes, Separate, TypeOK
  <2>3. g = h
    BY <2>1, <2>2 DEF Rename, Separate, TypeOK
  <2>4. file' = Whole(mem[h])
    BY <2>1, <2>2, <2>3 DEF Rename, Separate, Written, Holds, Live
  <2>5. file.iris \subseteq mem[h]
    BY <2>1 DEF Separate, Holds
  <2>6. QED BY <2>4, <2>5 DEF Whole
<1>2. QED BY <1>1, SeparateAlways, PTL DEF FileSpec, NothingLostAlone

=============================================================================
