--------------------------- MODULE Evidence_proofs ---------------------------
(***************************************************************************)
(* A corpus rebuilt in place ends every call with the views, the stored    *)
(* recognizers and the classifier in step, for any IRIs, prefixes and      *)
(* types, and a log of any length.  So its evidence is that of the         *)
(* recognizers it stored: little of it changes no rendering, and what is   *)
(* recognized is not proposed again.                                       *)
(***************************************************************************)
EXTENDS Evidence, FiniteSetTheorems, FunctionTheorems, SequenceTheorems, WellFoundedInduction,
        TLAPS

-----------------------------------------------------------------------------
(* The helpers. *)

LEMMA RecordedStores ==
    ASSUME NEW list \in Seq(Recognizer), NEW goal \in Recognizer \union {None}
    PROVE  /\ Recorded(list, goal) \in Seq(Recognizer)
           /\ goal # None => Has(Recorded(list, goal), goal)
<1>1. CASE goal = None
  BY <1>1 DEF Recorded
<1>2. CASE goal # None /\ HasPrefix(list, goal)
  <2>1. goal \in Recognizer
    BY <1>2
  <2>2. Recorded(list, goal) =
          [i \in 1..Len(list) |-> IF list[i].prefix = goal.prefix THEN goal ELSE list[i]]
    BY <1>2 DEF Recorded
  <2>3. Recorded(list, goal) \in Seq(Recognizer) /\ Len(Recorded(list, goal)) = Len(list)
    BY <2>1, <2>2
  <2>4. QED BY <1>2, <2>2, <2>3 DEF HasPrefix, Has
<1>3. CASE goal # None /\ ~HasPrefix(list, goal)
  <2>1. goal \in Recognizer /\ Recorded(list, goal) = Append(list, goal)
    BY <1>3 DEF Recorded
  <2>2. QED BY <2>1 DEF Has
<1>4. QED BY <1>1, <1>2, <1>3

\* Replacing where a prefix stands, or adding a new one, keeps prefixes apart.
LEMMA RecordedKeepsApart ==
    ASSUME NEW list \in Seq(Recognizer), NEW goal \in Recognizer \union {None},
           \A i, j \in 1..Len(list) : list[i].prefix = list[j].prefix => i = j
    PROVE  LET new == Recorded(list, goal)
           IN  \A i, j \in 1..Len(new) : new[i].prefix = new[j].prefix => i = j
<1>1. CASE goal = None
  BY <1>1 DEF Recorded
<1>2. CASE goal # None /\ HasPrefix(list, goal)
  <2> DEFINE new == Recorded(list, goal)
  <2>1. new = [i \in 1..Len(list) |-> IF list[i].prefix = goal.prefix THEN goal ELSE list[i]]
    BY <1>2 DEF Recorded
  <2>2. Len(new) = Len(list) /\ \A i \in 1..Len(list) : new[i].prefix = list[i].prefix
    BY <2>1
  <2>3. QED BY <2>2
<1>3. CASE goal # None /\ ~HasPrefix(list, goal)
  <2>1. goal \in Recognizer /\ Recorded(list, goal) = Append(list, goal)
    BY <1>3 DEF Recorded
  <2>2. \A i \in 1..Len(list) : list[i].prefix # goal.prefix
    BY <1>3 DEF HasPrefix
  <2>3. QED BY <2>1, <2>2
<1>4. QED BY <1>1, <1>2, <1>3

LEMMA ClassifiedType ==
    ASSUME NEW s \in Seq(Iris), NEW list \in Seq(Recognizer)
    PROVE  Classified(s, list) \in Views
BY DEF Classified, Views

LEMMA ClassifiedAppend ==
    ASSUME NEW s \in Seq(Iris), NEW iri \in Iris, NEW list
    PROVE  Append(Classified(s, list), [iri |-> iri, under |-> list])
             = Classified(Append(s, iri), list)
BY DEF Classified

LEMMA AfterType ==
    ASSUME NEW s \in Seq(Iris), NEW mark \in Nat
    PROVE  After(s, mark) \in Seq(Iris)
BY DEF After

\* Replaying nothing changes nothing.
LEMMA NothingReplayed ==
    ASSUME NEW v \in Views, NEW s \in Seq(Iris), NEW list
    PROVE  /\ v \o Classified(<<>>, list) = v
           /\ After(s, Len(s)) = <<>>
<1>1. Classified(<<>>, list) = <<>>
  BY DEF Classified
<1>2. v \o <<>> = v
  BY DEF Views
<1>3. After(s, Len(s)) = <<>>
  BY DEF After
<1>4. QED BY <1>1, <1>2, <1>3

-----------------------------------------------------------------------------
(* The invariant. *)

\* What a rebuild has done so far, at each place it may be.
InStep ==
    /\ Settled
    /\ at = "install" =>
         /\ views = Classified(log, job.planned)
         /\ job.mark = Len(log)
    /\ at \in {"build", "install"} /\ job.goal # None /\ Has(acts, job.goal) =>
         job.planned = acts

Held == TypeOK /\ OnePerPrefix /\ InStep

LEMMA HeldInit == Init => Held
<1> SUFFICES ASSUME Init PROVE Held
  OBVIOUS
<1>1. TypeOK
  BY DEF Init, TypeOK, Views, Places, Job, NoJob
<1>2. OnePerPrefix
  BY DEF Init, OnePerPrefix
<1>3. InStep
  BY DEF Init, InStep, Settled, Classified
<1>4. QED BY <1>1, <1>2, <1>3 DEF Held

LEMMA HeldObserve ==
    ASSUME Held, NEW iri \in Iris, Observe(iri)
    PROVE  Held'
<1> USE DEF Observe
<1>1. TypeOK'
  BY DEF Held, TypeOK, Views
<1>2. OnePerPrefix'
  BY DEF Held, OnePerPrefix
<1>3. views' = Classified(log', acts') /\ activations' = acts'
  BY ClassifiedAppend DEF Held, TypeOK, InStep, Settled
<1>4. QED BY <1>1, <1>2, <1>3 DEF Held, InStep, Settled

LEMMA HeldCallRebuild ==
    ASSUME Held, NEW goal \in Recognizer \union {None}, CallRebuild(goal)
    PROVE  Held'
<1> USE DEF CallRebuild
<1>1. /\ job'.goal = goal
      /\ job' \in Job
  <2>1. (IF goal = None THEN acts ELSE Append(acts, goal)) \in Seq(Recognizer)
    BY DEF Held, TypeOK
  <2>2. QED BY <2>1 DEF Job, NoJob
<1>2. TypeOK'
  BY <1>1 DEF Held, TypeOK, Places
<1>3. OnePerPrefix'
  BY DEF Held, OnePerPrefix
<1>4. InStep'
  BY <1>1 DEF Held, InStep, Settled
<1>5. QED BY <1>2, <1>3, <1>4 DEF Held

LEMMA HeldBuild ==
    ASSUME Held, Build
    PROVE  Held'
<1> USE DEF Build
<1>1. log \in Seq(Iris) /\ acts \in Seq(Recognizer) /\ job \in Job /\ job.planned \in Seq(Recognizer)
  BY DEF Held, TypeOK, Job
<1>2. /\ job' \in Job
      /\ job'.planned = job.planned /\ job'.goal = job.goal /\ job'.mark = Len(log)
  <2>1. Len(log) \in Nat
    BY <1>1
  <2>2. job' = [job EXCEPT !.mark = Len(log)]
    OBVIOUS
  <2>3. QED BY <1>1, <2>1, <2>2 DEF Job
<1>3. TypeOK'
  <2>1. views' \in Views
    BY <1>1, ClassifiedType
  <2>2. QED BY <1>1, <1>2, <2>1 DEF TypeOK, Places
<1>4. OnePerPrefix'
  BY DEF Held, OnePerPrefix
<1>5. InStep'
  BY <1>2 DEF Held, InStep, Settled
<1>6. QED BY <1>3, <1>4, <1>5 DEF Held

LEMMA HeldInstall ==
    ASSUME Held, Install
    PROVE  Held'
<1> DEFINE held == job.goal # None /\ Has(acts, job.goal)
           stored == IF held THEN acts ELSE Recorded(acts, job.goal)
           stale == ~held /\ stored # job.planned
           replayed == IF held \/ stale THEN <<>> ELSE After(log, job.mark)
<1>1. /\ log \in Seq(Iris) /\ views \in Views /\ acts \in Seq(Recognizer) /\ job \in Job
      /\ job.goal \in Recognizer \union {None} /\ job.planned \in Seq(Recognizer)
  BY DEF Held, TypeOK, Job
<1>2. /\ at = "install" /\ acts' = stored /\ activations' = stored /\ log' = log
      /\ views' = views \o Classified(replayed, stored)
      /\ job' = IF stale THEN [job EXCEPT !.planned = stored] ELSE [job EXCEPT !.answer = ~held]
      /\ at' = IF stale THEN "build" ELSE "answered"
  BY DEF Install, Replan
<1>3. /\ stored \in Seq(Recognizer)
      /\ \A i, j \in 1..Len(stored) : stored[i].prefix = stored[j].prefix => i = j
  BY <1>1, RecordedStores, RecordedKeepsApart DEF Held, OnePerPrefix
<1>4. replayed = <<>> /\ views' = views
  <2>1. job.mark = Len(log)
    BY <1>2 DEF Held, InStep
  <2>2. After(log, Len(log)) = <<>>
    BY <1>1, NothingReplayed
  <2>3. replayed = <<>>
    BY <2>1, <2>2
  <2>4. QED BY <1>1, <1>2, <2>3, NothingReplayed
<1>5. job' \in Job
  <2>1. CASE stale
    BY <1>1, <1>2, <1>3, <2>1 DEF Job
  <2>2. CASE ~stale
    BY <1>1, <1>2, <2>2 DEF Job
  <2>3. QED BY <2>1, <2>2
<1>6. TypeOK'
  BY <1>1, <1>2, <1>3, <1>4, <1>5 DEF TypeOK, Places
<1>7. OnePerPrefix'
  BY <1>2, <1>3 DEF OnePerPrefix
<1>8. InStep'
  <2>1. CASE stale
    BY <1>1, <1>2, <2>1 DEF InStep, Settled, Job
  <2>2. CASE ~stale
    <3>1. stored = job.planned
      BY <1>2, <2>2 DEF Held, InStep
    <3>2. views' = Classified(log, stored)
      BY <1>2, <1>4, <3>1 DEF Held, InStep
    <3>3. QED BY <1>2, <2>2, <3>2 DEF InStep, Settled
  <2>3. QED BY <2>1, <2>2
<1>9. QED BY <1>6, <1>7, <1>8 DEF Held

LEMMA HeldReturn ==
    ASSUME Held, Return
    PROVE  Held'
<1> USE DEF Return
<1>1. TypeOK'
  BY DEF Held, TypeOK, Places, Job, NoJob
<1>2. OnePerPrefix' /\ InStep'
  BY DEF Held, OnePerPrefix, InStep, Settled
<1>3. QED BY <1>1, <1>2 DEF Held

LEMMA HeldStep == Held /\ [Next]_vars => Held'
<1> SUFFICES ASSUME Held, [Next]_vars PROVE Held'
  OBVIOUS
<1>1. CASE \E iri \in Iris : Observe(iri)
  BY <1>1, HeldObserve
<1>2. CASE \E goal \in Recognizer \union {None} : CallRebuild(goal)
  BY <1>2, HeldCallRebuild
<1>3. CASE Build \/ Install \/ Return
  BY <1>3, HeldBuild, HeldInstall, HeldReturn
<1>4. CASE UNCHANGED vars
  BY <1>4 DEF vars, Held, TypeOK, OnePerPrefix, InStep, Settled
<1>5. QED BY <1>1, <1>2, <1>3, <1>4 DEF Next

LEMMA HeldAlways == Spec => []Held
BY HeldInit, HeldStep, PTL DEF Spec

-----------------------------------------------------------------------------
(* The theorems. *)

\* Every variable keeps its type (the fields of MemoryStorage and Corpus).
THEOREM InPlaceTypes == Spec => []TypeOK
<1>1. Held => TypeOK
  BY DEF Held
<1>2. QED BY <1>1, HeldAlways, PTL

\* However often the rebuild loop goes around, and with its own record already
\* stored, a call ends with views, recognizers and classifier in step (corpus.rs
\* `rebuild`).
THEOREM EveryCallSettles == Spec => []Settled
<1>1. Held => Settled
  BY DEF Held, InStep
<1>2. QED BY <1>1, HeldAlways, PTL

\* No prefix is stored twice (storage_memory.rs `record_activated_recognizer`).
THEOREM PrefixesStayApart == Spec => []OnePerPrefix
<1>1. Held => OnePerPrefix
  BY DEF Held
<1>2. QED BY <1>1, HeldAlways, PTL


-----------------------------------------------------------------------------
(* Counting. *)

LEMMA LeastNumber ==
    ASSUME NEW S, S \subseteq Nat, NEW k \in S
    PROVE  \E i \in S : \A j \in S : i <= j
<1>1. PICK x \in S : \A y \in S : ~ (<<y, x>> \in OpToRel(<, Nat))
  BY NatLessThanWellFounded, WFMin
<1>2. \A y \in S : ~ (y < x)
  BY <1>1, Zenon DEF OpToRel
<1>3. x \in Nat /\ \A y \in S : y \in Nat
  OBVIOUS
<1>4. QED BY <1>2, <1>3

\* A set no larger than another fits into it.
LEMMA Fits ==
    ASSUME NEW A, NEW B, IsFiniteSet(A), IsFiniteSet(B), Cardinality(A) <= Cardinality(B)
    PROVE  \E f : f \in Injection(A, B)
<1> DEFINE n == Cardinality(A)
           m == Cardinality(B)
<1>1. n \in Nat /\ m \in Nat /\ ExistsBijection(1..n, A) /\ ExistsBijection(1..m, B)
  BY FS_CardinalityType
<1>2. PICK g : g \in Bijection(1..n, A)
  BY <1>1 DEF ExistsBijection
<1>3. PICK h : h \in Bijection(1..m, B)
  BY <1>1 DEF ExistsBijection
<1> DEFINE Number(a) == CHOOSE i \in 1..n : g[i] = a
           f == [a \in A |-> h[Number(a)]]
<1>4. \A a \in A : Number(a) \in 1..n /\ g[Number(a)] = a
  BY <1>2 DEF Bijection, Surjection
<1>5. \A i \in 1..n : i \in 1..m
  BY <1>1
<1>6. \A i, j \in 1..m : h[i] \in B /\ (h[i] = h[j] => i = j)
  BY <1>3 DEF Bijection, Injection, IsInjective
<1> HIDE DEF Number
<1>7. f \in [A -> B]
  BY <1>4, <1>5, <1>6
<1>8. \A a, b \in A : f[a] = f[b] => a = b
  BY <1>4, <1>5, <1>6
<1>9. QED BY <1>7, <1>8 DEF Injection, IsInjective

\* If the rest at every place is no smaller than the chosen there, the chosen are no
\* more than half.
LEMMA HalfAtMost ==
    ASSUME NEW all, IsFiniteSet(all), NEW chosen \in SUBSET all, NEW place,
           \A q \in {place[s] : s \in chosen} :
               Cardinality({s \in chosen : place[s] = q})
                   <= Cardinality({s \in all \ chosen : place[s] = q})
    PROVE  2 * Cardinality(chosen) <= Cardinality(all)
<1> DEFINE Ours(q) == {s \in chosen : place[s] = q}
           Rest(q) == {s \in all \ chosen : place[s] = q}
           Into(q) == CHOOSE f : f \in Injection(Ours(q), Rest(q))
           g == [s \in chosen |-> Into(place[s])[s]]
<1>1. ASSUME NEW s \in chosen
      PROVE  s \in Ours(place[s]) /\ Into(place[s]) \in Injection(Ours(place[s]), Rest(place[s]))
  <2> DEFINE q == place[s]
  <2>1. IsFiniteSet(Ours(q)) /\ IsFiniteSet(Rest(q))
    <3>1. Ours(q) \subseteq all /\ Rest(q) \subseteq all
      OBVIOUS
    <3> HIDE DEF Ours, Rest
    <3>2. QED BY <3>1, FS_Subset
  <2>2. Cardinality(Ours(q)) <= Cardinality(Rest(q))
    OBVIOUS
  <2>3. \E f : f \in Injection(Ours(q), Rest(q))
    <3> HIDE DEF Ours, Rest
    <3>1. QED BY <2>1, <2>2, Fits
  <2>4. QED BY <2>3
<1> HIDE DEF Into
<1>2. ASSUME NEW s \in chosen
      PROVE  g[s] \in all \ chosen /\ place[g[s]] = place[s]
  <2>1. g[s] \in Rest(place[s])
    BY <1>1 DEF Injection
  <2>2. QED BY <2>1
<1>3. ASSUME NEW s \in chosen, NEW t \in chosen, g[s] = g[t]
      PROVE  s = t
  <2>1. place[s] = place[t]
    BY <1>2, <1>3
  <2>2. s \in Ours(place[s]) /\ t \in Ours(place[s])
    BY <2>1
  <2> HIDE DEF Ours
  <2>3. QED BY <1>1, <1>3, <2>1, <2>2 DEF Injection, IsInjective
<1>4. g \in Injection(chosen, all \ chosen)
  <2>1. g \in [chosen -> all \ chosen]
    BY <1>2
  <2> HIDE DEF g
  <2>2. QED BY <1>3, <2>1 DEF Injection, IsInjective
<1>5. IsFiniteSet(chosen) /\ IsFiniteSet(all \ chosen)
  BY FS_Subset
<1>6. Cardinality(chosen) <= Cardinality(all \ chosen)
  BY <1>4, <1>5, FS_Injection
<1>7. Cardinality(all \ chosen) = Cardinality(all) - Cardinality(chosen)
  <2>1. all \intersect chosen = chosen
    OBVIOUS
  <2>2. QED BY <2>1, FS_Difference
<1>8. Cardinality(chosen) \in Nat /\ Cardinality(all) \in Nat
  BY <1>5, FS_CardinalityType
<1>9. QED BY <1>6, <1>7, <1>8

-----------------------------------------------------------------------------
(* The evidence is finite. *)

Segments(k) == {<<k, i>> : i \in Indices(views[k].iri.path)}

LEMMA ElementOf == ASSUME NEW S, NEW s \in Seq(S), NEW k \in 1..Len(s) PROVE s[k] \in S
OBVIOUS

LEMMA SegmentsFinite ==
    ASSUME TypeOK, NEW k \in 1..Len(views)
    PROVE  IsFiniteSet(Segments(k))
<1> DEFINE path == views[k].iri.path
           f == [i \in 1..Len(path) |-> <<k, i>>]
<1>1. path \in Seq(DOMAIN TypeOf)
  <2>1. views[k].iri \in Iris
    <3>1. views[k] \in [iri : Iris, under : Seq(Recognizer)]
      BY ElementOf DEF TypeOK, Views
    <3>2. QED BY <3>1
  <2>2. QED BY <2>1, PathsAssumption
<1> HIDE DEF path
<1>2. f \in Surjection(1..Len(path), {<<k, i>> : i \in 1..Len(path)})
  BY DEF Surjection
<1>3. IsFiniteSet(1..Len(path))
  BY <1>1, FS_Interval
<1>4. QED BY <1>2, <1>3, FS_Surjection DEF Segments, Indices, path

LEMMA ObservedFinite == TypeOK => IsFiniteSet(Observed)
<1> SUFFICES ASSUME TypeOK PROVE IsFiniteSet(Observed)
  OBVIOUS
<1> DEFINE all == {Segments(k) : k \in 1..Len(views)}
           f == [k \in 1..Len(views) |-> Segments(k)]
<1>1. Len(views) \in Nat
  BY DEF TypeOK, Views
<1>2. f \in Surjection(1..Len(views), all)
  <2> HIDE DEF Segments
  <2>1. QED BY DEF Surjection
<1>3. IsFiniteSet(all)
  <2> HIDE DEF all, f
  <2>1. IsFiniteSet(1..Len(views))
    BY <1>1, FS_Interval
  <2>2. QED BY <1>2, <2>1, FS_Surjection
<1>4. IsFiniteSet(UNION all)
  <2>1. \A T \in all : IsFiniteSet(T)
    BY SegmentsFinite
  <2> HIDE DEF all
  <2>2. QED BY <1>3, <2>1, FS_UNION
<1>5. QED BY <1>4 DEF Observed, Segments

LEMMA SomeFinite ==
    ASSUME TypeOK, NEW S \in SUBSET Observed
    PROVE  IsFiniteSet(S) /\ Cardinality(S) \in Nat
BY ObservedFinite, FS_Subset, FS_CardinalityType

-----------------------------------------------------------------------------
(* Below the threshold nothing is inferred. *)

LEMMA FewMechanical ==
    ASSUME TypeOK, NEW iri \in Iris, NEW hints \in BOOLEAN, NEW i \in Indices(iri.path),
           Total(At(Position(iri, i, activations))) < MinObservations
    PROVE  Informed(iri, i, activations, hints) = Mechanical(iri.path, i, activations, hints)
<1> DEFINE seen == At(Position(iri, i, activations))
           value == iri.path[i]
           type == Classify(value, activations)
           verdict == ClassifySegment(value, type, seen)
<1>1. Total(seen) \in Nat
  <2>1. seen \subseteq Observed
    BY DEF At
  <2>2. QED BY <2>1, SomeFinite DEF Total
<1>2. ~Enough(seen)
  BY <1>1, ThresholdsAssumption DEF Enough
<1>3. value \in Canonical /\ type = TypeOf[value] => IsVariable(type)
  BY TypesAssumption DEF IsVariable
<1>4. IsVariable(type) => verdict = "variable_identifier"
  BY <1>2 DEF ClassifySegment, ClassifyVariable
<1>5. ~IsVariable(type) => verdict \notin {"variable_identifier", "corpus_inferred_variable"}
  BY <1>2 DEF ClassifySegment, ClassifyLiteral, RareOrAmbiguous
<1> HIDE DEF seen, type
<1>6. QED BY <1>3, <1>4, <1>5 DEF Informed, Mechanical, seen, type

\* However the views came about, and whatever is activated: where fewer segments were
\* observed than inference asks for, a segment is rendered as without a corpus
\* (corpus.rs `normalize`).
THEOREM FewObservationsStayMechanical == Spec => []FewObservationsMechanical
<1>1. TypeOK => FewObservationsMechanical
  BY FewMechanical DEF FewObservationsMechanical
<1>2. QED BY <1>1, InPlaceTypes, PTL

-----------------------------------------------------------------------------
(* What is recognized is not opaque, so where its prefix prevails nothing is. *)

Recognized(prefix) == \E j \in Indices(acts) : acts[j].prefix = prefix

\* Once settled, every observation is classified with what is activated.
LEMMA SettledTypes ==
    ASSUME TypeOK, views = Classified(log, acts), NEW prefix, Recognized(prefix)
    PROVE  \E type \in Types : \A s \in Observed :
               PrefixOf[ValueAt(s)] = prefix => TypeAt(s) = type
<1> DEFINE j == CHOOSE j \in Indices(acts) : acts[j].prefix = prefix
<1>1. j \in Indices(acts)
  BY DEF Recognized
<1>2. acts[j].type \in Types
  <2> HIDE DEF j
  <2>1. acts[j] \in Recognizer
    BY <1>1 DEF TypeOK, Indices
  <2>2. QED BY <2>1 DEF Recognizer
<1>3. ASSUME NEW s \in Observed, PrefixOf[ValueAt(s)] = prefix
      PROVE  TypeAt(s) = acts[j].type
  <2>1. s[1] \in 1..Len(views)
    BY DEF Observed
  <2>2. views[s[1]].under = acts
    BY <2>1 DEF Classified, TypeOK
  <2>3. Classify(ValueAt(s), acts) = acts[j].type
    BY <1>3 DEF Classify, Recognized
  <2>4. QED BY <2>2, <2>3 DEF TypeAt
<1>4. QED BY <1>2, <1>3

LEMMA SomeDominant ==
    ASSUME TypeOK, NEW seen \in SUBSET Observed, NEW s \in seen
    PROVE  Dominant(seen) # {}
<1> DEFINE types == {TypeAt(t) : t \in seen}
           gaps == {Total(seen) - TypeCount(u, seen) : u \in types}
<1>1. IsFiniteSet(seen) /\ Total(seen) \in Nat
  BY SomeFinite DEF Total
<1>2. ASSUME NEW u
      PROVE  TypeCount(u, seen) \in Nat /\ TypeCount(u, seen) <= Total(seen)
  <2>1. {t \in seen : TypeAt(t) = u} \subseteq seen
    OBVIOUS
  <2>2. QED BY <1>1, <2>1, FS_Subset, FS_CardinalityType DEF TypeCount, Total
<1>3. gaps \subseteq Nat
  BY <1>1, <1>2
<1>4. PICK g \in gaps : \A h \in gaps : g <= h
  <2>1. Total(seen) - TypeCount(TypeAt(s), seen) \in gaps
    OBVIOUS
  <2> HIDE DEF gaps
  <2>2. QED BY <1>3, <2>1, LeastNumber
<1>5. PICK u \in types : g = Total(seen) - TypeCount(u, seen)
  BY <1>4
<1>6. \A v \in types : TypeCount(v, seen) <= TypeCount(u, seen)
  BY <1>1, <1>2, <1>4, <1>5
<1>7. u \in Dominant(seen)
  BY <1>5, <1>6 DEF Dominant
<1>8. QED BY <1>7

LEMMA RecognizedNotCovered ==
    ASSUME TypeOK, views = Classified(log, acts), NEW prefix, Recognized(prefix),
           NEW ties \in SUBSET (Possibly \ Surely)
    PROVE  ~Covers(prefix, Surely \union ties)
<1> DEFINE chosen == Surely \union ties
           matching == Matching(prefix, chosen)
           beside == {s \in Observed : PositionAt(s) \in {PositionAt(m) : m \in matching}}
           place == [s \in Observed |-> PositionAt(s)]
<1>1. PICK type \in Types : \A s \in Observed : PrefixOf[ValueAt(s)] = prefix => TypeAt(s) = type
  BY SettledTypes
<1>2. matching \subseteq beside /\ beside \subseteq Observed
  BY DEF Matching
<1>3. IsFiniteSet(beside) /\ Cardinality(matching) \in Nat /\ Cardinality(beside) \in Nat
  BY <1>2, SomeFinite
<1>4. ASSUME NEW q \in {place[s] : s \in matching}
      PROVE  Cardinality({s \in matching : place[s] = q})
                 <= Cardinality({s \in beside \ matching : place[s] = q})
  <2> DEFINE seen == At(q)
             ours == {s \in matching : place[s] = q}
             rest == {s \in beside \ matching : place[s] = q}
  <2>1. PICK m \in matching : PositionAt(m) = q
    BY DEF Matching
  <2>2. m \in Observed /\ q \in chosen /\ m \in seen /\ seen \subseteq Observed
    BY <2>1 DEF Matching, At
  <2>3. PICK opaque \in Opaque : opaque \in Dominant(seen)
    <3>1. Dominant(seen) # {}
      BY <2>2, SomeDominant
    <3>2. Dominant(seen) \subseteq Opaque \/ Dominant(seen) \intersect Opaque # {}
      BY <2>2 DEF Surely, Possibly
    <3>3. QED BY <3>1, <3>2
  <2>4. TypeAt(m) = type /\ TypeCount(type, seen) <= TypeCount(opaque, seen)
    <3>1. TypeAt(m) = type
      BY <1>1, <2>2 DEF Matching
    <3>2. QED BY <2>2, <2>3, <3>1 DEF Dominant
  <2>5. ours \subseteq {s \in seen : TypeAt(s) = type}
    BY <1>1, <1>2 DEF Matching, At
  <2>6. {s \in seen : TypeAt(s) = opaque} \subseteq rest
    <3> SUFFICES ASSUME NEW s \in seen, TypeAt(s) = opaque
                 PROVE  s \in rest
      OBVIOUS
    <3>1. s \in Observed /\ PositionAt(s) = q
      BY DEF At
    <3>2. opaque # type
      BY <2>3, TypesAssumption DEF Opaque
    <3>3. s \notin matching
      BY <1>1, <3>1, <3>2 DEF Matching
    <3>4. s \in beside
      BY <2>1, <3>1
    <3> HIDE DEF matching, beside
    <3>5. QED BY <3>1, <3>3, <3>4
  <2>7. /\ Cardinality(ours) <= TypeCount(type, seen)
        /\ TypeCount(opaque, seen) <= Cardinality(rest)
        /\ Cardinality(ours) \in Nat /\ Cardinality(rest) \in Nat
        /\ TypeCount(type, seen) \in Nat /\ TypeCount(opaque, seen) \in Nat
    <3>1. rest \subseteq Observed /\ ours \subseteq Observed
      BY <1>2
    <3>2. \A u : {s \in seen : TypeAt(s) = u} \subseteq Observed
      BY <2>2
    <3> HIDE DEF ours, rest, seen
    <3>3. QED BY <2>5, <2>6, <3>1, <3>2, SomeFinite, FS_Subset DEF TypeCount
  <2> HIDE DEF seen, ours, rest
  <2>8. Cardinality(ours) <= Cardinality(rest)
    BY <2>4, <2>7
  <2>9. QED BY <2>8 DEF ours, rest
<1>5. 2 * Cardinality(matching) <= Cardinality(beside)
  <2> HIDE DEF matching, beside, place
  <2>1. QED BY <1>2, <1>3, <1>4, HalfAtMost
<1>6. SUFFICES ASSUME /\ Total(matching) >= MinProposed
                      /\ Share(Total(matching), 70, Total(beside))
               PROVE  FALSE
  BY DEF Covers
<1> HIDE DEF matching, beside
<1>7. 100 * Cardinality(matching) >= 70 * Cardinality(beside) /\ Cardinality(matching) >= MinProposed
  BY <1>6 DEF Share, Total
<1>8. QED BY <1>3, <1>5, <1>7, ThresholdsAssumption

\* Whatever is observed after a prefix was activated, the call over, no count of a
\* position's types, in whatever order they are visited, has it proposed again
\* (recognizer_proposal.rs `propose_recognizers`).
THEOREM ActivatedStaysUnproposed == Spec => []ActivatedNotProposed
<1>1. TypeOK /\ Settled => ActivatedNotProposed
  <2> SUFFICES ASSUME TypeOK, Settled, at \in {"idle", "answered"}, NEW i \in 1..Len(acts)
               PROVE  ~MayPropose(acts[i].prefix)
    BY DEF ActivatedNotProposed
  <2>1. views = Classified(log, acts) /\ Recognized(acts[i].prefix)
    BY DEF Settled, Recognized, Indices
  <2>2. QED BY <2>1, RecognizedNotCovered DEF MayPropose
<1>2. QED BY <1>1, InPlaceTypes, EveryCallSettles, PTL
=============================================================================
