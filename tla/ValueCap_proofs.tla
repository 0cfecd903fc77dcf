-------------------------- MODULE ValueCap_proofs --------------------------
(***************************************************************************)
(* The value cap holds, and every remembered count is exact, for any       *)
(* number of connections and values, any cap, and whatever callers         *)
(* swallow: an open batch, a rebuild and a connection nobody else has      *)
(* overtaken each know how many values their slot holds.  The committed    *)
(* slot is memory's for the same log.                                      *)
(***************************************************************************)
EXTENDS ValueCap, FiniteSetTheorems, WellFoundedInduction, TLAPS

-----------------------------------------------------------------------------
(* Slots. *)

LEMMA EmptySlotType == EmptySlot \in Slot /\ Cardinal(EmptySlot) = 0
<1>1. EmptySlot \in Slot
  BY DEF EmptySlot, Slot
<1>2. Tracked(EmptySlot) = {}
  BY DEF EmptySlot, Tracked
<1>3. QED BY <1>1, <1>2, FS_EmptySet DEF Cardinal

LEMMA EmptyTypes ==
    /\ EmptyDb \in State /\ EmptyDb.slot = EmptySlot
    /\ NoRebuild \in Rebuild /\ NoRebuild.slot = EmptySlot
<1>1. EmptySlot \in Slot
  BY EmptySlotType
<1>2. EmptyDb \in State /\ EmptyDb.slot = EmptySlot
  BY <1>1 DEF EmptyDb, State
<1>3. NoRebuild \in Rebuild /\ NoRebuild.slot = EmptySlot
  BY <1>1 DEF NoRebuild, Rebuild
<1>4. QED BY <1>2, <1>3

LEMMA StateSlot ==
    /\ \A s \in State : s.slot \in Slot /\ s.log \in Seq(Values)
    /\ \A s \in State, slot \in Slot :
         /\ [s EXCEPT !.slot = slot] \in State
         /\ [s EXCEPT !.slot = slot].slot = slot
    /\ \A r \in Rebuild : r.slot \in Slot /\ r.mark \in Nat
BY DEF State, Rebuild

LEMMA CardinalType == ASSUME NEW slot PROVE Cardinal(slot) \in Nat /\ IsFiniteSet(Tracked(slot))
<1>1. IsFiniteSet(Tracked(slot))
  BY ValuesAssumption, FS_Subset DEF Tracked
<1>2. QED BY <1>1, FS_CardinalityType DEF Cardinal

\* Only the counts decide how many values are tracked.
LEMMA SameCounts ==
    ASSUME NEW a, NEW b, a.counts = b.counts
    PROVE  Cardinal(a) = Cardinal(b)
BY DEF Cardinal, Tracked

LEMMA CountedTracks ==
    ASSUME NEW slot \in Slot, NEW v \in Values, NEW card \in Nat
    PROVE  /\ Counted(slot, v, card) \in Slot
           /\ Tracked(Counted(slot, v, card)) =
                IF v \in Tracked(slot) \/ card < MaxValues
                THEN Tracked(slot) \union {v}
                ELSE Tracked(slot)
BY DEF Counted, Slot, Tracked

\* Observing with the right count keeps the cap and tells the next count.
LEMMA CountedCardinal ==
    ASSUME NEW slot \in Slot, NEW v \in Values, Cardinal(slot) <= MaxValues
    PROVE  /\ Cardinal(Counted(slot, v, Cardinal(slot))) <= MaxValues
           /\ Cardinal(Counted(slot, v, Cardinal(slot))) =
                IF v \in Tracked(slot) \/ ~(Cardinal(slot) < MaxValues)
                THEN Cardinal(slot) ELSE Cardinal(slot) + 1
<1> DEFINE card == Cardinal(slot)
           next == Counted(slot, v, card)
<1>1. card \in Nat /\ IsFiniteSet(Tracked(slot))
  BY CardinalType
<1>2. Tracked(next) = IF v \in Tracked(slot) \/ card < MaxValues
                      THEN Tracked(slot) \union {v} ELSE Tracked(slot)
  BY <1>1, CountedTracks
<1>3. Cardinality(Tracked(slot) \union {v})
        = IF v \in Tracked(slot) THEN card ELSE card + 1
  BY <1>1, FS_AddElement DEF Cardinal
<1>4. CASE v \in Tracked(slot)
  BY <1>2, <1>3, <1>4 DEF Cardinal
<1>5. CASE v \notin Tracked(slot) /\ card < MaxValues
  BY <1>1, <1>2, <1>3, <1>5, MaxValuesAssumption DEF Cardinal
<1>6. CASE v \notin Tracked(slot) /\ ~(card < MaxValues)
  BY <1>2, <1>6 DEF Cardinal
<1>7. QED BY <1>4, <1>5, <1>6

-----------------------------------------------------------------------------
(* The invariant. *)

\* The lock belongs to the connection with a batch open, and its place tells
\* how many are.
Held(p) ==
    /\ lock = p <=> depth[p] > 0
    /\ at[p] = "idle" => depth[p] = 0
    /\ at[p] \in {"open", "failed"} => depth[p] = 1
    /\ at[p] \in {"installing", "installed"} => depth[p] > 0
    /\ at[p] \in {"rebuilding", "left", "broken"} => depth[p] < 2

\* What a connection remembers is true of the slot it would write next; while
\* it has no batch, of the committed slot, unless another one committed since.
Exact(p) ==
    /\ at[p] \in {"open", "failed"} /\ cache[p] # None => cache[p] = Cardinal(work[p].slot)
    /\ Rebuilding(p) /\ cache[p] # None => cache[p] = Cardinal(temp[p].slot)
    /\ at[p] = "idle" /\ p \notin moved /\ cache[p] # None => cache[p] = Cardinal(db.slot)
    /\ at[p] = "installed" => cache[p] = None

Within(p) == Cardinal(work[p].slot) <= MaxValues /\ Cardinal(temp[p].slot) <= MaxValues

Counting ==
    /\ FieldsOK
    /\ Cardinal(db.slot) <= MaxValues
    /\ \A p \in Conns : Held(p) /\ Within(p) /\ Exact(p)

LEMMA CountingInit == Init => Counting
<1> SUFFICES ASSUME Init PROVE Counting
  OBVIOUS
<1>1. EmptySlot \in Slot /\ Cardinal(EmptySlot) = 0
  BY EmptySlotType
<1>2. FieldsOK
  BY EmptyTypes DEF Init, FieldsOK, Places
<1>3. Cardinal(db.slot) <= MaxValues /\ \A p \in Conns : Within(p)
  BY <1>1, EmptyTypes, MaxValuesAssumption DEF Init, Within
<1>4. \A p \in Conns : Held(p) /\ Exact(p)
  BY NoneAssumption DEF Init, Held, Exact, Rebuilding
<1>5. QED BY <1>2, <1>3, <1>4 DEF Counting

LEMMA CountingImplies == Counting => FieldsOK /\ CapKept /\ CacheExact
<1> SUFFICES ASSUME Counting PROVE FieldsOK /\ CapKept /\ CacheExact
  OBVIOUS
<1>1. CapKept
  BY DEF Counting, CapKept, Within, Written
<1>2. CacheExact
  BY DEF Counting, CacheExact, Exact, Written, Rebuilding
<1>3. QED BY <1>1, <1>2 DEF Counting

\* A connection that may observe knows what Counted needs, and remembers what
\* results.
LEMMA CardIsCardinal ==
    ASSUME Counting, NEW p \in Conns, NEW v \in Values,
           at[p] \in {"open", "rebuilding", "installing"}
    PROVE  /\ Card(p) = Cardinal(Written(p))
           /\ Written(p) \in Slot
           /\ Cardinal(Written(p)) <= MaxValues
           /\ CardAfter(p, v) \in Nat \union {None}
           /\ CardAfter(p, v) # None =>
                CardAfter(p, v) = Cardinal(Counted(Written(p), v, Card(p)))
<1>1. CountsExact(p)
  BY DEF Counting, Held, CountsExact, Rebuilding, FieldsOK
<1>2. cache[p] # None => cache[p] = Cardinal(Written(p))
  BY CountingImplies DEF CacheExact
<1>3. Card(p) = Cardinal(Written(p))
  BY <1>1, <1>2 DEF Card, Remembered
<1>4. Written(p) \in Slot /\ Cardinal(Written(p)) <= MaxValues
  BY StateSlot DEF Counting, Within, Written, FieldsOK
<1>5. Cardinal(Written(p)) \in Nat
  BY CardinalType
<1>6. cache[p] \in Nat \union {None}
  BY DEF Counting, FieldsOK
<1>7. CardAfter(p, v) = IF v \in Tracked(Written(p)) THEN cache[p]
                        ELSE IF Cardinal(Written(p)) < MaxValues
                             THEN Cardinal(Written(p)) + 1 ELSE Cardinal(Written(p))
  BY <1>1, <1>3 DEF CardAfter
<1>8. Cardinal(Counted(Written(p), v, Card(p))) =
        IF v \in Tracked(Written(p)) \/ ~(Cardinal(Written(p)) < MaxValues)
        THEN Cardinal(Written(p)) ELSE Cardinal(Written(p)) + 1
  BY <1>3, <1>4, CountedCardinal
<1>9. QED BY <1>2, <1>3, <1>4, <1>5, <1>6, <1>7, <1>8

-----------------------------------------------------------------------------
(* Every step keeps it. *)

LEMMA TakeLockCounts ==
    ASSUME Counting, NEW p \in Conns, TakeLock(p), temp' = temp,
           \/ at[p] = "idle" /\ at' = [at EXCEPT ![p] = "open"]
           \/ at[p] = "rebuilding" /\ at' = [at EXCEPT ![p] = "installing"]
    PROVE  Counting'
<1>1. FieldsOK'
  BY DEF Counting, FieldsOK, TakeLock, Places, Forgotten
<1>2. Cardinal(db'.slot) <= MaxValues /\ \A q \in Conns : Within(q)'
  BY DEF Counting, FieldsOK, TakeLock, Within
<1>3. \A q \in Conns : Held(q)'
  BY NoneAssumption DEF Counting, FieldsOK, TakeLock, Held
<1>4. \A q \in Conns : Exact(q)'
  BY DEF Counting, FieldsOK, TakeLock, Held, Exact, Rebuilding, Forgotten, Changed
<1>5. QED BY <1>1, <1>2, <1>3, <1>4 DEF Counting

\* A batch that ends leaves the connection between batches, or its rebuild
\* about to be dropped.
LEMMA CommitCounts ==
    ASSUME Counting, NEW p \in Conns, Commit(p), temp' = temp, cache' = cache,
           \/ at[p] = "open" /\ at' = [at EXCEPT ![p] = "idle"]
           \/ at[p] = "installed" /\ at' = [at EXCEPT ![p] = "left"]
    PROVE  Counting'
<1>1. FieldsOK'
  BY EmptyTypes DEF Counting, FieldsOK, Commit, Places, Held
<1>2. Cardinal(db'.slot) <= MaxValues /\ \A q \in Conns : Within(q)'
  BY EmptySlotType, EmptyTypes, MaxValuesAssumption DEF Counting, FieldsOK, Commit, Within
<1>3. \A q \in Conns : Held(q)'
  BY NoneAssumption DEF Counting, FieldsOK, Commit, Held
<1>4. \A q \in Conns : Exact(q)'
  BY DEF Counting, FieldsOK, Commit, Held, Exact, Rebuilding
<1>5. QED BY <1>1, <1>2, <1>3, <1>4 DEF Counting

LEMMA CommitFailsCounts ==
    ASSUME Counting, NEW p \in Conns, CommitFails(p), temp' = temp,
           \/ at[p] = "open" /\ at' = [at EXCEPT ![p] = "idle"]
           \/ at[p] = "installed" /\ at' = [at EXCEPT ![p] = "broken"]
    PROVE  Counting'
<1>1. FieldsOK'
  BY EmptyTypes DEF Counting, FieldsOK, CommitFails, Places, Forgotten
<1>2. Cardinal(db'.slot) <= MaxValues /\ \A q \in Conns : Within(q)'
  BY EmptySlotType, EmptyTypes, MaxValuesAssumption DEF Counting, FieldsOK, CommitFails, Within
<1>3. \A q \in Conns : Held(q)'
  BY NoneAssumption DEF Counting, FieldsOK, CommitFails, Held
<1>4. \A q \in Conns : Exact(q)'
  BY DEF Counting, FieldsOK, CommitFails, Held, Exact, Rebuilding, Forgotten
<1>5. QED BY <1>1, <1>2, <1>3, <1>4 DEF Counting

LEMMA RollbackCounts ==
    ASSUME Counting, NEW p \in Conns, NEW slot \in Slot, Rollback(p, slot), temp' = temp,
           Cardinal(slot) <= MaxValues,
           \/ at[p] \in {"open", "failed"} /\ at' = [at EXCEPT ![p] = "idle"]
           \/ at[p] \in {"installing", "installed"} /\ at' = [at EXCEPT ![p] = "left"]
           \/ at[p] \in {"installing", "installed"} /\ at' = [at EXCEPT ![p] = "broken"]
    PROVE  Counting'
<1> DEFINE left == [work[p] EXCEPT !.slot = slot]
<1>0. left \in State /\ left.slot = slot
  BY StateSlot DEF Counting, FieldsOK
<1> HIDE DEF left
<1>w. work' = [work EXCEPT ![p] = EmptyDb] \/ work' = [work EXCEPT ![p] = left]
  BY DEF Rollback, left
<1>1. FieldsOK'
  <2>1. work' \in [Conns -> State]
    BY <1>0, <1>w, EmptyTypes DEF Counting, FieldsOK
  <2>2. QED BY <2>1 DEF Counting, FieldsOK, Rollback, Places, Forgotten, Held
<1>2. Cardinal(db'.slot) <= MaxValues /\ \A q \in Conns : Within(q)'
  BY <1>0, <1>w, EmptySlotType, EmptyTypes, MaxValuesAssumption DEF Counting, FieldsOK, Rollback, Within
<1>3. \A q \in Conns : Held(q)'
  BY NoneAssumption DEF Counting, FieldsOK, Rollback, Held
<1>4. \A q \in Conns : Exact(q)'
  BY DEF Counting, FieldsOK, Rollback, Held, Exact, Rebuilding, Forgotten
<1>5. QED BY <1>1, <1>2, <1>3, <1>4 DEF Counting

LEMMA ObserveCounts ==
    ASSUME Counting, NEW p \in Conns, NEW v \in Values, Observe(p, v) \/ ObserveFails(p, v)
    PROVE  Counting'
<1> DEFINE next == Counted(work[p].slot, v, Card(p))
<1>1. at[p] = "open" /\ Written(p) = work[p].slot /\ work[p].slot \in Slot
  BY StateSlot DEF Observe, ObserveFails, Written, Rebuilding, Counting, FieldsOK
<1>2. /\ next \in Slot
      /\ Cardinal(next) <= MaxValues
      /\ CardAfter(p, v) \in Nat \union {None}
      /\ CardAfter(p, v) # None => CardAfter(p, v) = Cardinal(next)
  BY <1>1, CardIsCardinal, CountedCardinal, CountedTracks, CardinalType
<1>3. Cardinal([work[p].slot EXCEPT !.total = @ + 1]) = Cardinal(work[p].slot)
  BY <1>1, SameCounts DEF Slot
<1>4. CASE Observe(p, v)
  <2>1. FieldsOK'
    <3>1. [log |-> Append(work[p].log, v), slot |-> next] \in State
      BY <1>2, StateSlot DEF Counting, FieldsOK, State
    <3>2. QED BY <1>1, <1>2, <1>4, <3>1 DEF Counting, FieldsOK, Observe
  <2>2. Cardinal(db'.slot) <= MaxValues /\ \A q \in Conns : Within(q)'
    BY <1>1, <1>2, <1>4 DEF Counting, FieldsOK, Observe, Within
  <2>3. \A q \in Conns : Held(q)' /\ Exact(q)'
    BY <1>1, <1>2, <1>4 DEF Counting, FieldsOK, Observe, Held, Exact, Rebuilding
  <2>4. QED BY <2>1, <2>2, <2>3 DEF Counting
<1>5. CASE ObserveFails(p, v) /\ work' = [work EXCEPT ![p].slot.total = @ + 1] /\ cache' = cache
  <2>1. work'[p].slot = [work[p].slot EXCEPT !.total = @ + 1] /\ work'[p].slot \in Slot
    <3>1. [work[p].slot EXCEPT !.total = @ + 1] \in Slot
      BY <1>1 DEF Slot
    <3>2. work' = [work EXCEPT ![p] =
                     [work[p] EXCEPT !.slot = [work[p].slot EXCEPT !.total = @ + 1]]]
      BY <1>5
    <3>3. QED BY <3>1, <3>2, StateSlot DEF Counting, FieldsOK
  <2>2. FieldsOK'
    <3>1. [work[p].slot EXCEPT !.total = @ + 1] \in Slot
      BY <1>1 DEF Slot
    <3>2. [work[p] EXCEPT !.slot = [work[p].slot EXCEPT !.total = @ + 1]] \in State
      BY <3>1, StateSlot DEF Counting, FieldsOK
    <3>3. work' \in [Conns -> State]
      BY <1>5, <3>2 DEF Counting, FieldsOK
    <3>4. QED BY <1>1, <1>5, <3>3 DEF Counting, FieldsOK, ObserveFails, Places
  <2>3. Cardinal(db'.slot) <= MaxValues /\ \A q \in Conns : Within(q)'
    BY <1>1, <1>3, <1>5, <2>1 DEF Counting, FieldsOK, ObserveFails, Within
  <2>4. \A q \in Conns : Held(q)' /\ Exact(q)'
    BY <1>1, <1>3, <1>5, <2>1 DEF Counting, FieldsOK, ObserveFails, Held, Exact, Rebuilding
  <2>5. QED BY <2>2, <2>3, <2>4 DEF Counting
<1>6. CASE /\ ObserveFails(p, v)
           /\ work' = [work EXCEPT ![p].slot = next]
           /\ cache' = [cache EXCEPT ![p] = CardAfter(p, v)]
  <2>1. FieldsOK'
    <3>1. [work[p] EXCEPT !.slot = next] \in State
      BY <1>2, StateSlot DEF Counting, FieldsOK
    <3>2. work' \in [Conns -> State]
      BY <1>6, <3>1 DEF Counting, FieldsOK
    <3>3. QED BY <1>1, <1>2, <1>6, <3>2 DEF Counting, FieldsOK, ObserveFails, Places
  <2>2. Cardinal(db'.slot) <= MaxValues /\ \A q \in Conns : Within(q)'
    BY <1>1, <1>2, <1>6 DEF Counting, FieldsOK, ObserveFails, Within
  <2>3. \A q \in Conns : Held(q)' /\ Exact(q)'
    BY <1>1, <1>2, <1>6 DEF Counting, FieldsOK, ObserveFails, Held, Exact, Rebuilding
  <2>4. QED BY <2>1, <2>2, <2>3 DEF Counting
<1>7. QED BY <1>4, <1>5, <1>6 DEF ObserveFails

LEMMA ReplayNextCounts ==
    ASSUME Counting, NEW p \in Conns, ReplayNext(p)
    PROVE  Counting'
<1> DEFINE v == VisibleLog(p)[temp[p].mark + 1]
           next == Counted(temp[p].slot, v, Card(p))
<1>1. /\ at[p] \in {"rebuilding", "installing"}
      /\ Written(p) = temp[p].slot
      /\ temp[p].slot \in Slot
      /\ temp[p].mark \in Nat
  BY StateSlot DEF ReplayNext, Written, Rebuilding, Counting, FieldsOK
<1>2. v \in Values
  <2>1. VisibleLog(p) \in Seq(Values)
    BY StateSlot DEF VisibleLog, Counting, FieldsOK
  <2>2. temp[p].mark + 1 \in 1..Len(VisibleLog(p))
    BY <1>1, <2>1 DEF ReplayNext
  <2>3. QED BY <2>1, <2>2
<1>3. /\ next \in Slot
      /\ Cardinal(next) <= MaxValues
      /\ CardAfter(p, v) \in Nat \union {None}
      /\ CardAfter(p, v) # None => CardAfter(p, v) = Cardinal(next)
  BY <1>1, <1>2, CardIsCardinal, CountedCardinal, CountedTracks, CardinalType
<1>4. /\ temp' = [temp EXCEPT ![p] = [slot |-> next, mark |-> temp[p].mark + 1]]
      /\ cache' = [cache EXCEPT ![p] = CardAfter(p, v)]
      /\ UNCHANGED <<db, work, lock, depth, at, moved>>
  BY DEF ReplayNext
<1> HIDE DEF v, next
<1>5. FieldsOK'
  BY <1>1, <1>3, <1>4 DEF Counting, FieldsOK, Rebuild
<1>6. Cardinal(db'.slot) <= MaxValues /\ \A q \in Conns : Within(q)'
  BY <1>1, <1>3, <1>4 DEF Counting, FieldsOK, Within
<1>7. \A q \in Conns : Held(q)' /\ Exact(q)'
  BY <1>1, <1>3, <1>4 DEF Counting, FieldsOK, Held, Exact, Rebuilding
<1>8. QED BY <1>5, <1>6, <1>7 DEF Counting

\* Steps that leave every slot alone, or give one connection a slot it already had.
LEMMA RebuildStepCounts ==
    ASSUME Counting, NEW p \in Conns,
           \/ BeginRebuild(p) \/ BuildFails(p) \/ Install(p) \/ DiscardRebuild(p)
           \/ Swallow(p) \/ Crash(p)
           \/ /\ at[p] = "rebuilding" /\ JoinBatch(p)
              /\ at' = [at EXCEPT ![p] = "installing"] /\ temp' = temp
    PROVE  Counting'
<1> DEFINE installed == [work[p] EXCEPT !.slot = temp[p].slot]
<1>1. /\ installed \in State
      /\ installed.slot = temp[p].slot
  BY StateSlot DEF Counting, FieldsOK
<1> HIDE DEF installed
<1>2. /\ work' \in {work, [work EXCEPT ![p] = EmptyDb], [work EXCEPT ![p] = installed]}
      /\ temp' \in {temp, [temp EXCEPT ![p] = NoRebuild]}
      /\ db' = db
  BY DEF BeginRebuild, BuildFails, Install, DiscardRebuild, Swallow, Crash, JoinBatch, installed
<1>3. work' \in [Conns -> State] /\ temp' \in [Conns -> Rebuild]
  BY <1>1, <1>2, EmptyTypes DEF Counting, FieldsOK
<1>4. Cardinal(db'.slot) <= MaxValues /\ \A q \in Conns : Within(q)'
  BY <1>1, <1>2, EmptyTypes, EmptySlotType, MaxValuesAssumption DEF Counting, FieldsOK, Within
<1>5. CASE BeginRebuild(p)
  <2>1. FieldsOK'
    BY <1>3, <1>5 DEF Counting, FieldsOK, BeginRebuild, Places, Forgotten
  <2>2. \A q \in Conns : Held(q)' /\ Exact(q)'
    BY <1>5 DEF Counting, FieldsOK, BeginRebuild, Held, Exact, Rebuilding, Forgotten
  <2>3. QED BY <1>4, <2>1, <2>2 DEF Counting
<1>6. CASE BuildFails(p)
  <2>1. FieldsOK'
    BY <1>6 DEF Counting, FieldsOK, BuildFails, Places
  <2>2. \A q \in Conns : Held(q)' /\ Exact(q)'
    BY <1>6 DEF Counting, FieldsOK, BuildFails, Held, Exact, Rebuilding
  <2>3. QED BY <1>4, <2>1, <2>2 DEF Counting
<1>7. CASE Install(p)
  <2>1. FieldsOK'
    BY <1>3, <1>7 DEF Counting, FieldsOK, Install, Places, Forgotten
  <2>2. \A q \in Conns : Held(q)' /\ Exact(q)'
    BY <1>7 DEF Counting, FieldsOK, Install, Held, Exact, Rebuilding, Forgotten
  <2>3. QED BY <1>4, <2>1, <2>2 DEF Counting
<1>8. CASE DiscardRebuild(p)
  <2>1. FieldsOK'
    BY <1>3, <1>8 DEF Counting, FieldsOK, DiscardRebuild, Places, Forgotten
  <2>2. \A q \in Conns : Held(q)' /\ Exact(q)'
    BY <1>8 DEF Counting, FieldsOK, DiscardRebuild, Held, Exact, Rebuilding, Forgotten
  <2>3. QED BY <1>4, <2>1, <2>2 DEF Counting
<1>9. CASE Swallow(p)
  <2>1. FieldsOK'
    BY <1>9 DEF Counting, FieldsOK, Swallow, Places
  <2>2. \A q \in Conns : Held(q)' /\ Exact(q)'
    BY <1>9 DEF Counting, FieldsOK, Swallow, Held, Exact, Rebuilding
  <2>3. QED BY <1>4, <2>1, <2>2 DEF Counting
<1>10. CASE Crash(p)
  <2>1. FieldsOK'
    BY <1>3, <1>10 DEF Counting, FieldsOK, Crash, Places, Forgotten
  <2>2. \A q \in Conns : Held(q)' /\ Exact(q)'
    BY <1>10, NoneAssumption DEF Counting, FieldsOK, Crash, Held, Exact, Rebuilding, Forgotten
  <2>3. QED BY <1>4, <2>1, <2>2 DEF Counting
<1>11. CASE /\ at[p] = "rebuilding" /\ JoinBatch(p)
            /\ at' = [at EXCEPT ![p] = "installing"] /\ temp' = temp
  <2>1. FieldsOK'
    BY <1>11 DEF Counting, FieldsOK, JoinBatch, Places, Held
  <2>2. \A q \in Conns : Held(q)' /\ Exact(q)'
    BY <1>11 DEF Counting, FieldsOK, JoinBatch, Held, Exact, Rebuilding
  <2>3. QED BY <1>4, <2>1, <2>2 DEF Counting
<1>12. QED BY <1>5, <1>6, <1>7, <1>8, <1>9, <1>10, <1>11

\* Whatever a failed install leaves, it tracks no more values than one of the
\* slots it was copying between.
LEMMA HalfwayWithin ==
    ASSUME Counting, NEW p \in Conns, NEW slot \in Halfway(p)
    PROVE  slot \in Slot /\ Cardinal(slot) <= MaxValues
<1>1. /\ work[p].slot \in Slot /\ temp[p].slot \in Slot /\ EmptySlot \in Slot
      /\ Cardinal(work[p].slot) <= MaxValues /\ Cardinal(temp[p].slot) <= MaxValues
      /\ Cardinal(EmptySlot) <= MaxValues
  BY EmptySlotType, StateSlot, MaxValuesAssumption DEF Counting, FieldsOK, Within
<1>2. slot \in Slot
  BY <1>1 DEF Halfway, Slot
<1>3. slot.counts \in {work[p].slot.counts, temp[p].slot.counts, EmptySlot.counts}
  BY <1>1 DEF Halfway, Slot
<1>4. QED BY <1>1, <1>2, <1>3, SameCounts

LEMMA CountingStep == Counting /\ [Next]_vars => Counting'
<1> SUFFICES ASSUME Counting, [Next]_vars PROVE Counting'
  OBVIOUS
<1>1. CASE UNCHANGED vars
  BY <1>1 DEF vars, Counting, FieldsOK, Within, Held, Exact, Rebuilding
<1>2. ASSUME NEW p \in Conns, BeginBatch(p) PROVE Counting'
  BY <1>2, TakeLockCounts DEF BeginBatch
<1>3. ASSUME NEW p \in Conns, EndBatch(p) PROVE Counting'
  BY <1>3, CommitCounts, CommitFailsCounts DEF EndBatch
<1>4. ASSUME NEW p \in Conns, AbortBatch(p) PROVE Counting'
  <2>1. work[p].slot \in Slot /\ Cardinal(work[p].slot) <= MaxValues
    BY StateSlot DEF Counting, FieldsOK, Within
  <2>2. QED BY <1>4, <2>1, RollbackCounts DEF AbortBatch
<1>5. ASSUME NEW p \in Conns, NEW v \in Values, Observe(p, v) \/ ObserveFails(p, v)
      PROVE  Counting'
  BY <1>5, ObserveCounts
<1>6. ASSUME NEW p \in Conns, ReplayNext(p) PROVE Counting'
  BY <1>6, ReplayNextCounts
<1>7. ASSUME NEW p \in Conns, InstallBegin(p) PROVE Counting'
  BY <1>7, TakeLockCounts, RebuildStepCounts DEF InstallBegin
<1>8. ASSUME NEW p \in Conns, InstallRefused(p) PROVE Counting'
  <2>1. work[p].slot \in Slot /\ Cardinal(work[p].slot) <= MaxValues
    BY StateSlot DEF Counting, FieldsOK, Within
  <2>2. QED BY <1>8, <2>1, RollbackCounts DEF InstallRefused
<1>9. ASSUME NEW p \in Conns, InstallFails(p) PROVE Counting'
  <2>1. PICK slot \in Halfway(p) : Rollback(p, slot)
    BY <1>9 DEF InstallFails
  <2>2. QED BY <1>9, <2>1, HalfwayWithin, RollbackCounts DEF InstallFails
<1>10. ASSUME NEW p \in Conns, InstallCommit(p) PROVE Counting'
  BY <1>10, CommitCounts, CommitFailsCounts DEF InstallCommit
<1>11. ASSUME NEW p \in Conns,
              \/ BeginRebuild(p) \/ BuildFails(p) \/ Install(p) \/ DiscardRebuild(p)
              \/ Swallow(p) \/ Crash(p)
       PROVE  Counting'
  BY <1>11, RebuildStepCounts
<1>12. QED
  BY <1>1, <1>2, <1>3, <1>4, <1>5, <1>6, <1>7, <1>8, <1>9, <1>10, <1>11 DEF Next, Step

-----------------------------------------------------------------------------
(* Memory's slot, one observation at a time. *)

\* The slot is memory's for the log, and either tracks every value or is full.
Agrees(log, slot) ==
    /\ slot = MemorySlot(log)
    /\ Tracked(slot) = Seen(log, Len(log)) \/ ~(Cardinal(slot) < MaxValues)

LEMMA Appended ==
    ASSUME NEW log \in Seq(Values), NEW v \in Values
    PROVE  /\ Append(log, v) \in Seq(Values)
           /\ Len(log) \in Nat /\ Len(Append(log, v)) = Len(log) + 1
           /\ DOMAIN log = 1..Len(log)
           /\ DOMAIN Append(log, v) = 1..(Len(log) + 1)
           /\ \A i \in 1..Len(log) : Append(log, v)[i] = log[i] /\ log[i] \in Values
           /\ Append(log, v)[Len(log) + 1] = v
OBVIOUS

LEMMA SeenFinite ==
    ASSUME NEW log \in Seq(Values), NEW n \in 0..Len(log)
    PROVE  /\ Seen(log, n) \subseteq Values
           /\ IsFiniteSet(Seen(log, n)) /\ Cardinality(Seen(log, n)) \in Nat
<1>1. Seen(log, n) \subseteq Values
  <2>1. \A i \in 1..n : log[i] \in Values
    OBVIOUS
  <2>2. QED BY <2>1 DEF Seen
<1>2. QED BY <1>1, ValuesAssumption, FS_Subset, FS_CardinalityType

LEMMA SeenAppended ==
    ASSUME NEW log \in Seq(Values), NEW v \in Values
    PROVE  /\ \A i \in 1..Len(log) : Seen(Append(log, v), i) = Seen(log, i)
           /\ Seen(Append(log, v), Len(log) + 1) = Seen(log, Len(log)) \union {v}
<1> DEFINE next == Append(log, v)
<1>1. /\ Len(log) \in Nat
      /\ \A i \in 1..Len(log) : next[i] = log[i]
      /\ next[Len(log) + 1] = v
  BY Appended
<1> HIDE DEF next
<1>2. ASSUME NEW i \in 1..Len(log) PROVE Seen(next, i) = Seen(log, i)
  <2>1. \A j \in 1..i : j \in 1..Len(log)
    BY <1>1
  <2>2. QED BY <1>1, <2>1 DEF Seen
<1>3. Seen(next, Len(log) + 1) = Seen(log, Len(log)) \union {v}
  <2>1. 1..(Len(log) + 1) = (1..Len(log)) \union {Len(log) + 1}
    BY <1>1
  <2>2. QED BY <1>1, <2>1 DEF Seen
<1>4. QED BY <1>2, <1>3 DEF next

\* One more observation of v changes how often v was seen, and nothing else.
LEMMA TimesAppended ==
    ASSUME NEW log \in Seq(Values), NEW v \in Values, NEW w \in Values
    PROVE  /\ Times(log, w) \in Nat
           /\ Times(Append(log, v), w) = IF w = v THEN Times(log, w) + 1 ELSE Times(log, w)
           /\ Times(log, w) > 0 <=> w \in Seen(log, Len(log))
<1> DEFINE next == Append(log, v)
           old == {i \in DOMAIN log : log[i] = w}
           new == {i \in DOMAIN next : next[i] = w}
<1>1. /\ Len(log) \in Nat
      /\ DOMAIN log = 1..Len(log)
      /\ DOMAIN next = 1..(Len(log) + 1)
      /\ \A i \in 1..Len(log) : next[i] = log[i]
      /\ next[Len(log) + 1] = v
  BY Appended
<1> HIDE DEF next
<1>2. IsFiniteSet(old) /\ Cardinality(old) \in Nat
  <2>1. IsFiniteSet(1..Len(log))
    BY <1>1, FS_Interval
  <2>2. QED BY <1>1, <2>1, FS_Subset, FS_CardinalityType
<1>3. Len(log) + 1 \notin old
  BY <1>1
<1>4. new = IF w = v THEN old \union {Len(log) + 1} ELSE old
  BY <1>1
<1>5. Cardinality(old \union {Len(log) + 1}) = Cardinality(old) + 1
  BY <1>2, <1>3, FS_AddElement
<1>6. old # {} <=> w \in Seen(log, Len(log))
  BY <1>1 DEF Seen
<1>7. Cardinality(old) > 0 <=> old # {}
  <2> HIDE DEF old
  <2>1. Cardinality(old) = 0 <=> old = {}
    BY <1>2, FS_EmptySet
  <2>2. QED BY <1>2, <2>1
<1>8. QED BY <1>2, <1>4, <1>5, <1>6, <1>7 DEF Times, next

LEMMA MemoryTracks ==
    ASSUME NEW log \in Seq(Values)
    PROVE  /\ MemorySlot(log) \in Slot
           /\ Tracked(MemorySlot(log)) = {v \in Values : Kept(log, v)}
           /\ Tracked(MemorySlot(log)) \subseteq Seen(log, Len(log))
<1>1. \A v \in Values : Times(log, v) \in Nat /\ (Times(log, v) > 0 <=> v \in Seen(log, Len(log)))
  BY TimesAppended
<1>2. \A v \in Values : Kept(log, v) => v \in Seen(log, Len(log))
  <2>1. DOMAIN log = 1..Len(log)
    OBVIOUS
  <2>2. QED BY <2>1 DEF Kept, Seen
<1>3. Len(log) \in Nat
  OBVIOUS
<1>4. MemorySlot(log) \in Slot
  BY <1>1, <1>3 DEF MemorySlot, Slot
<1>5. QED BY <1>1, <1>2, <1>4 DEF MemorySlot, Tracked

\* What was kept stays kept; only the value just observed may join.
LEMMA KeptAppended ==
    ASSUME NEW log \in Seq(Values), NEW v \in Values, NEW w \in Values
    PROVE  Kept(Append(log, v), w) <=>
             \/ Kept(log, w)
             \/ w = v /\ Cardinality(Seen(log, Len(log)) \union {v}) <= MaxValues
<1> DEFINE next == Append(log, v)
<1>1. /\ Len(log) \in Nat
      /\ DOMAIN log = 1..Len(log)
      /\ DOMAIN next = 1..(Len(log) + 1)
      /\ \A i \in 1..Len(log) : next[i] = log[i]
      /\ next[Len(log) + 1] = v
  BY Appended
<1>2. /\ \A i \in 1..Len(log) : Seen(next, i) = Seen(log, i)
      /\ Seen(next, Len(log) + 1) = Seen(log, Len(log)) \union {v}
  BY SeenAppended
<1> HIDE DEF next
<1>3. Kept(next, w) <=>
        \E i \in 1..(Len(log) + 1) : next[i] = w /\ Cardinality(Seen(next, i)) <= MaxValues
  BY <1>1 DEF Kept
<1>4. @ <=> \/ \E i \in 1..Len(log) : next[i] = w /\ Cardinality(Seen(next, i)) <= MaxValues
            \/ /\ next[Len(log) + 1] = w
               /\ Cardinality(Seen(next, Len(log) + 1)) <= MaxValues
  <2>1. 1..(Len(log) + 1) = (1..Len(log)) \union {Len(log) + 1}
    BY <1>1
  <2>2. QED BY <2>1
<1>5. @ <=> \/ \E i \in 1..Len(log) : log[i] = w /\ Cardinality(Seen(log, i)) <= MaxValues
            \/ w = v /\ Cardinality(Seen(log, Len(log)) \union {v}) <= MaxValues
  BY <1>1, <1>2
<1>6. QED BY <1>1, <1>3, <1>4, <1>5 DEF Kept, next

LEMMA EmptyAgrees == Agrees(<<>>, EmptySlot)
<1>1. MemorySlot(<<>>) = EmptySlot
  BY DEF MemorySlot, EmptySlot, Kept
<1>2. Tracked(EmptySlot) = {} /\ Seen(<<>>, 0) = {}
  BY DEF EmptySlot, Tracked, Seen
<1>3. QED BY <1>1, <1>2 DEF Agrees

\* With the right count, observing a value leaves what memory would keep: while
\* there is room every value seen is tracked, and none joins once it is full.
LEMMA CountedAgrees ==
    ASSUME NEW log \in Seq(Values), NEW slot, NEW v \in Values, Agrees(log, slot)
    PROVE  Agrees(Append(log, v), Counted(slot, v, Cardinal(slot)))
<1> DEFINE next == Append(log, v)
           card == Cardinal(slot)
           new == Counted(slot, v, card)
           seen == Seen(log, Len(log))
<1>1. /\ slot = MemorySlot(log)
      /\ slot \in Slot
      /\ Tracked(slot) = {w \in Values : Kept(log, w)}
      /\ Tracked(slot) \subseteq seen
      /\ Tracked(slot) = seen \/ ~(card < MaxValues)
  BY MemoryTracks DEF Agrees
<1>2. /\ card \in Nat /\ IsFiniteSet(Tracked(slot))
      /\ card = Cardinality(Tracked(slot))
  BY CardinalType DEF Cardinal
<1>3. /\ next \in Seq(Values)
      /\ Len(log) \in Nat
      /\ Len(next) = Len(log) + 1
      /\ Seen(next, Len(next)) = seen \union {v}
  BY Appended, SeenAppended
<1>4. IsFiniteSet(seen \union {v})
  <2>1. IsFiniteSet(seen)
    BY <1>3, SeenFinite
  <2>2. QED BY <2>1, FS_AddElement
<1>5. /\ new \in Slot
      /\ Tracked(new) = IF v \in Tracked(slot) \/ card < MaxValues
                        THEN Tracked(slot) \union {v} ELSE Tracked(slot)
  <2>1. slot \in Slot /\ card \in Nat
    BY <1>1, <1>2
  <2> HIDE DEF card
  <2>2. QED BY <2>1, CountedTracks
<1>6. v \notin Tracked(slot) =>
        (Cardinality(seen \union {v}) <= MaxValues <=> card < MaxValues)
  <2> SUFFICES ASSUME v \notin Tracked(slot)
               PROVE  Cardinality(seen \union {v}) <= MaxValues <=> card < MaxValues
    OBVIOUS
  <2>1. Cardinality(Tracked(slot) \union {v}) = card + 1
    BY <1>2, FS_AddElement
  <2>2. /\ Cardinality(Tracked(slot) \union {v}) <= Cardinality(seen \union {v})
        /\ Cardinality(seen \union {v}) \in Nat
    <3>1. Tracked(slot) \union {v} \subseteq seen \union {v}
      BY <1>1
    <3>2. QED BY <1>4, <3>1, FS_Subset, FS_CardinalityType
  <2>3. CASE Tracked(slot) = seen
    <3>1. Cardinality(seen \union {v}) = card + 1
      BY <2>1, <2>3
    <3> HIDE DEF card, seen
    <3>2. QED BY <1>2, <3>1, MaxValuesAssumption
  <2>4. CASE ~(card < MaxValues)
    <3> HIDE DEF card, seen
    <3>1. QED BY <1>2, <2>1, <2>2, <2>4, MaxValuesAssumption
  <2>5. QED BY <1>1, <2>3, <2>4
<1>7. \A w \in Values : Kept(next, w) <=> w \in Tracked(new)
  <2>1. \A w \in Values :
          Kept(next, w) <=> \/ w \in Tracked(slot)
                            \/ w = v /\ Cardinality(seen \union {v}) <= MaxValues
    BY <1>1, KeptAppended
  <2> HIDE DEF next, card, new, seen
  <2>2. QED BY <1>5, <1>6, <2>1
<1>8. \A w \in Values : new.counts[w] = IF w \in Tracked(new) THEN Times(next, w) ELSE 0
  <2> SUFFICES ASSUME NEW w \in Values
               PROVE  new.counts[w] = IF w \in Tracked(new) THEN Times(next, w) ELSE 0
    OBVIOUS
  <2>1. slot.counts[w] = IF w \in Tracked(slot) THEN Times(log, w) ELSE 0
    BY <1>1 DEF MemorySlot
  <2>2. /\ Times(next, w) = IF w = v THEN Times(log, w) + 1 ELSE Times(log, w)
        /\ Times(log, w) \in Nat
        /\ Times(log, w) > 0 <=> w \in seen
    BY TimesAppended
  <2>3. new.counts[w] = IF w = v /\ (v \in Tracked(slot) \/ card < MaxValues)
                        THEN slot.counts[w] + 1 ELSE slot.counts[w]
    BY <1>1 DEF Counted, Slot
  <2>4. w \notin Tracked(slot) /\ card < MaxValues => Times(log, w) = 0
    BY <1>1, <2>2
  <2> HIDE DEF next, card, new, seen
  <2>5. QED BY <1>5, <2>1, <2>2, <2>3, <2>4
<1>9. new = MemorySlot(next)
  <2>1. /\ new = [total |-> new.total, counts |-> new.counts]
        /\ new.counts = [w \in Values |-> new.counts[w]]
    BY <1>5 DEF Slot
  <2>2. new.total = Len(next)
    BY <1>1, <1>3 DEF Counted, MemorySlot
  <2> HIDE DEF next, new
  <2>3. new.counts = [w \in Values |-> IF Kept(next, w) THEN Times(next, w) ELSE 0]
    BY <1>7, <1>8, <2>1
  <2>4. QED BY <2>1, <2>2, <2>3 DEF MemorySlot
<1>10. Tracked(new) = seen \union {v} \/ ~(Cardinal(new) < MaxValues)
  <2>1. CASE Tracked(slot) = seen /\ (v \in Tracked(slot) \/ card < MaxValues)
    BY <1>5, <2>1
  <2>2. CASE ~(card < MaxValues)
    <3>1. Tracked(slot) \subseteq Tracked(new) /\ IsFiniteSet(Tracked(new))
      BY <1>5, CardinalType
    <3>2. card <= Cardinal(new) /\ Cardinal(new) \in Nat
      BY <1>2, <3>1, FS_Subset, CardinalType DEF Cardinal
    <3> HIDE DEF card, new
    <3>3. QED BY <1>2, <2>2, <3>2, MaxValuesAssumption
  <2>3. QED BY <1>1, <2>1, <2>2
<1>11. QED BY <1>3, <1>9, <1>10 DEF Agrees

-----------------------------------------------------------------------------
(* The slot follows the log. *)

Prefix(log, n) == SubSeq(log, 1, n)

Extends(log, longer) ==
    Len(log) <= Len(longer) /\ \A i \in 1..Len(log) : longer[i] = log[i]

\* A batch only adds to the committed log.
Additive(p) == depth[p] > 0 => Extends(db.log, work[p].log)

\* An open batch's slot is memory's for its log, unless an observation or an
\* install broke off in it; what a rebuild replayed is memory's for that much
\* of the log.
Faithful(p) ==
    /\ depth[p] > 0 /\ at[p] \notin {"failed", "broken"} => Agrees(work[p].log, work[p].slot)
    /\ Rebuilding(p) =>
         /\ temp[p].mark \in 0..Len(VisibleLog(p))
         /\ Agrees(Prefix(VisibleLog(p), temp[p].mark), temp[p].slot)

Following ==
    /\ Counting /\ swallowed \in Nat
    /\ \A p \in Conns : Additive(p)
    /\ swallowed = 0 =>
         /\ Agrees(db.log, db.slot)
         /\ \A p \in Conns : Faithful(p)

LEMMA PrefixGrows ==
    ASSUME NEW log \in Seq(Values), NEW longer \in Seq(Values), Extends(log, longer),
           NEW n \in 0..Len(log)
    PROVE  n \in 0..Len(longer) /\ Prefix(longer, n) = Prefix(log, n)
BY DEF Extends, Prefix

LEMMA PrefixSteps ==
    ASSUME NEW log \in Seq(Values)
    PROVE  /\ Prefix(log, 0) = <<>>
           /\ Prefix(log, Len(log)) = log
           /\ \A n \in 0..Len(log) : Prefix(log, n) \in Seq(Values)
           /\ \A n \in 0..(Len(log) - 1) :
                Prefix(log, n + 1) = Append(Prefix(log, n), log[n + 1])
BY DEF Prefix

LEMMA Logs ==
    ASSUME Counting, NEW p \in Conns
    PROVE  /\ db.log \in Seq(Values) /\ work[p].log \in Seq(Values)
           /\ VisibleLog(p) \in Seq(Values)
           /\ VisibleLog(p) = IF depth[p] > 0 THEN work[p].log ELSE db.log
BY StateSlot DEF Counting, FieldsOK, VisibleLog

LEMMA FollowingInit == Init => Following
<1> SUFFICES ASSUME Init PROVE Following
  OBVIOUS
<1>1. Counting
  BY CountingInit
<1>2. \A p \in Conns : depth[p] = 0 /\ at[p] = "idle"
  BY DEF Init
<1>3. Agrees(db.log, db.slot) /\ swallowed \in Nat
  BY EmptyAgrees DEF Init, EmptyDb
<1>4. QED BY <1>1, <1>2, <1>3 DEF Following, Additive, Faithful, Rebuilding

\* A step of one connection that commits nothing leaves the others as they were.
LEMMA AloneFollows ==
    ASSUME Following, Counting', NEW p \in Conns, db' = db, swallowed' = swallowed,
           \A q \in Conns \ {p} :
             /\ work'[q] = work[q] /\ temp'[q] = temp[q]
             /\ depth'[q] = depth[q] /\ at'[q] = at[q],
           Additive(p)',
           swallowed = 0 => Faithful(p)'
    PROVE  Following'
<1>1. ASSUME NEW q \in Conns \ {p} PROVE Additive(q)' /\ (swallowed = 0 => Faithful(q)')
  <2>1. Additive(q) /\ (swallowed = 0 => Faithful(q))
    BY DEF Following
  <2>2. QED BY <2>1 DEF Additive, Faithful, Rebuilding, VisibleLog
<1>2. QED BY <1>1 DEF Following

\* The connection that ends its batch held the lock, so no other log was open.
LEMMA CommitFollows ==
    ASSUME Following, Counting', NEW p \in Conns, Commit(p), temp' = temp,
           swallowed' = swallowed,
           \/ at[p] = "open" /\ at' = [at EXCEPT ![p] = "idle"]
           \/ at[p] = "installed" /\ at' = [at EXCEPT ![p] = "left"]
    PROVE  Following'
<1>1. Counting /\ Held(p) /\ Additive(p) /\ FieldsOK
  BY DEF Following, Counting
<1>2. /\ depth[p] \in {1, 2}
      /\ depth' = [depth EXCEPT ![p] = depth[p] - 1]
      /\ depth \in [Conns -> 0..2] /\ at \in [Conns -> Places]
  BY <1>1 DEF Held, FieldsOK, Commit
<1>3. CASE depth[p] = 1
  <2>1. db' = work[p] /\ work' = [work EXCEPT ![p] = EmptyDb]
    BY <1>3 DEF Commit
  <2>2. Extends(db.log, db'.log) /\ db.log \in Seq(Values) /\ db'.log \in Seq(Values)
    BY <1>1, <1>3, <2>1, Logs DEF Additive
  <2>3. \A q \in Conns : depth'[q] = 0
    BY <1>1, <1>2, <1>3 DEF Following, Counting, Held
  <2>4. \A q \in Conns : Additive(q)'
    BY <2>3 DEF Additive
  <2>5. swallowed = 0 => Agrees(db'.log, db'.slot)
    BY <1>2, <1>3, <2>1 DEF Following, Faithful
  <2>6. ASSUME swallowed = 0, NEW q \in Conns PROVE Faithful(q)'
    <3>1. CASE q = p
      BY <1>2, <2>3, <3>1 DEF Faithful, Rebuilding
    <3>2. CASE q # p
      <4>1. depth[q] = 0 /\ at'[q] = at[q] /\ temp'[q] = temp[q]
        BY <1>2, <2>3, <3>2
      <4>2. Faithful(q) /\ VisibleLog(q) = db.log /\ VisibleLog(q)' = db'.log
        BY <2>3, <2>6, <4>1 DEF Following, VisibleLog
      <4>3. QED BY <2>2, <2>3, <4>1, <4>2, PrefixGrows DEF Faithful, Rebuilding
    <3>3. QED BY <3>1, <3>2
  <2>7. QED BY <2>4, <2>5, <2>6 DEF Following
<1>4. CASE depth[p] = 2
  <2>1. UNCHANGED <<db, work>> /\ depth'[p] = 1 /\ at'[p] \notin {"rebuilding", "installing"}
    BY <1>2, <1>4 DEF Commit
  <2>2. Additive(p)'
    BY <1>1, <1>4, <2>1 DEF Additive
  <2>3. swallowed = 0 => Faithful(p)'
    BY <1>2, <1>4, <2>1 DEF Following, Faithful, Rebuilding
  <2>4. QED BY <1>2, <2>1, <2>2, <2>3, AloneFollows
<1>5. QED BY <1>2, <1>3, <1>4

LEMMA TakeLockFollows ==
    ASSUME Following, Counting', NEW p \in Conns, TakeLock(p), temp' = temp,
           swallowed' = swallowed,
           \/ at[p] = "idle" /\ at' = [at EXCEPT ![p] = "open"]
           \/ at[p] = "rebuilding" /\ at' = [at EXCEPT ![p] = "installing"]
    PROVE  Following'
<1>1. Counting /\ FieldsOK
  BY DEF Following, Counting
<1>2. /\ db' = db /\ work'[p] = db /\ depth[p] = 0 /\ depth'[p] = 1
      /\ \A q \in Conns \ {p} :
           work'[q] = work[q] /\ depth'[q] = depth[q] /\ at'[q] = at[q] /\ temp'[q] = temp[q]
  BY <1>1 DEF TakeLock, FieldsOK
<1>3. Additive(p)'
  <2>1. db.log \in Seq(Values)
    BY <1>1, Logs
  <2>2. QED BY <1>2, <2>1 DEF Additive, Extends
<1>4. swallowed = 0 => Faithful(p)'
  <2> SUFFICES ASSUME swallowed = 0 PROVE Faithful(p)'
    OBVIOUS
  <2>1. Agrees(db.log, db.slot) /\ Faithful(p)
    BY DEF Following
  <2>2. VisibleLog(p)' = db.log /\ VisibleLog(p) = db.log
    BY <1>2 DEF VisibleLog
  <2>3. Rebuilding(p)' => Rebuilding(p)
    BY <1>1 DEF Rebuilding, FieldsOK
  <2>4. QED BY <1>2, <2>1, <2>2, <2>3 DEF Faithful
<1>5. QED BY <1>2, <1>3, <1>4, AloneFollows

\* A batch that ends otherwise is gone; in a nested one, what may be broken is
\* marked so.
LEMMA RollbackFollows ==
    ASSUME Following, Counting', NEW p \in Conns, NEW slot, Rollback(p, slot), temp' = temp,
           swallowed' = swallowed,
           \/ at[p] \in {"open", "failed"} /\ at' = [at EXCEPT ![p] = "idle"]
           \/ /\ at[p] = "installing" /\ at' = [at EXCEPT ![p] = "left"]
              /\ slot = work[p].slot
           \/ at[p] \in {"installing", "installed"} /\ at' = [at EXCEPT ![p] = "broken"]
    PROVE  Following'
<1>1. Counting /\ FieldsOK /\ Held(p) /\ Additive(p) /\ work[p] \in State
  BY DEF Following, Counting, FieldsOK
<1>2. /\ depth[p] \in {1, 2} /\ depth'[p] = depth[p] - 1
      /\ db' = db
      /\ \A q \in Conns \ {p} :
           work'[q] = work[q] /\ depth'[q] = depth[q] /\ at'[q] = at[q] /\ temp'[q] = temp[q]
      /\ at'[p] \in {"idle", "left", "broken"}
      /\ at'[p] = "idle" => depth[p] = 1
  BY <1>1 DEF Rollback, FieldsOK, Held
<1>3. depth[p] = 2 => work'[p] = [work[p] EXCEPT !.slot = slot]
  BY <1>1 DEF Rollback, FieldsOK
<1>4. work[p] = [log |-> work[p].log, slot |-> work[p].slot]
  BY <1>1 DEF State
<1>5. depth[p] = 2 => work'[p].log = work[p].log /\ work'[p].slot = slot
  BY <1>3, <1>4
<1>6. Additive(p)'
  BY <1>1, <1>2, <1>5 DEF Additive
<1>7. swallowed = 0 => Faithful(p)'
  <2> SUFFICES ASSUME swallowed = 0 PROVE Faithful(p)'
    OBVIOUS
  <2>1. Faithful(p)
    BY DEF Following
  <2>2. at'[p] = "left" => at[p] = "installing" /\ slot = work[p].slot
    BY <1>1 DEF FieldsOK
  <2>3. QED BY <1>2, <1>5, <2>1, <2>2 DEF Faithful, Rebuilding
<1>8. QED BY <1>2, <1>6, <1>7, AloneFollows

LEMMA ObserveFollows ==
    ASSUME Following, Counting', NEW p \in Conns, NEW v \in Values,
           Observe(p, v) \/ ObserveFails(p, v), swallowed' = swallowed
    PROVE  Following'
<1>1. Counting /\ FieldsOK /\ Held(p) /\ Additive(p) /\ work[p] \in State
  BY DEF Following, Counting, FieldsOK
<1>2. /\ at[p] = "open" /\ depth[p] = 1 /\ depth' = depth /\ db' = db
      /\ Written(p) = work[p].slot
      /\ \A q \in Conns \ {p} :
           work'[q] = work[q] /\ depth'[q] = depth[q] /\ at'[q] = at[q] /\ temp'[q] = temp[q]
  BY <1>1 DEF Observe, ObserveFails, FieldsOK, Held, Written, Rebuilding
<1>3. CASE Observe(p, v)
  <2> DEFINE next == [log |-> Append(work[p].log, v),
                      slot |-> Counted(work[p].slot, v, Card(p))]
  <2>1. work'[p] = next /\ at' = at
    BY <1>1, <1>3 DEF Observe, FieldsOK
  <2>2. work[p].log \in Seq(Values) /\ db.log \in Seq(Values) /\ Extends(db.log, work[p].log)
    BY <1>1, <1>2, Logs DEF Additive
  <2>3. Additive(p)'
    <3>1. Extends(db.log, Append(work[p].log, v))
      BY <2>2, Appended DEF Extends
    <3>2. QED BY <1>2, <2>1, <3>1 DEF Additive
  <2>4. swallowed = 0 => Faithful(p)'
    <3> SUFFICES ASSUME swallowed = 0 PROVE Faithful(p)'
      OBVIOUS
    <3>1. Agrees(work[p].log, work[p].slot)
      BY <1>2 DEF Following, Faithful
    <3>2. Card(p) = Cardinal(work[p].slot)
      BY <1>1, <1>2, CardIsCardinal
    <3>3. Agrees(next.log, next.slot)
      BY <2>2, <3>1, <3>2, CountedAgrees
    <3>4. QED BY <1>2, <2>1, <3>3 DEF Faithful, Rebuilding
  <2>5. QED BY <1>2, <2>3, <2>4, AloneFollows
<1>4. CASE ObserveFails(p, v)
  <2>1. at'[p] = "failed" /\ work'[p].log = work[p].log
    <3>1. work[p] = [log |-> work[p].log, slot |-> work[p].slot]
      BY <1>1 DEF State
    <3>2. QED BY <1>1, <1>4, <3>1 DEF ObserveFails, FieldsOK
  <2>2. Additive(p)' /\ Faithful(p)'
    BY <1>1, <1>2, <2>1 DEF Additive, Faithful, Rebuilding
  <2>3. QED BY <1>2, <2>2, AloneFollows
<1>5. QED BY <1>3, <1>4

LEMMA ReplayNextFollows ==
    ASSUME Following, Counting', NEW p \in Conns, ReplayNext(p), swallowed' = swallowed
    PROVE  Following'
<1> DEFINE log == VisibleLog(p)
           mark == temp[p].mark
           slot == temp[p].slot
           v == log[mark + 1]
<1>1. Counting /\ FieldsOK /\ Additive(p) /\ log \in Seq(Values) /\ mark \in Nat
  BY Logs, StateSlot DEF Following, Counting, FieldsOK
<1>2. /\ Rebuilding(p) /\ mark < Len(log)
      /\ temp'[p] = [slot |-> Counted(slot, v, Card(p)), mark |-> mark + 1]
      /\ UNCHANGED <<db, work, depth, at>>
      /\ \A q \in Conns \ {p} : temp'[q] = temp[q]
  BY <1>1 DEF ReplayNext, FieldsOK
<1>3. v \in Values /\ mark \in 0..(Len(log) - 1) /\ mark \in 0..Len(log) /\ mark + 1 \in 0..Len(log)
  <2> HIDE DEF log, mark
  <2>1. Len(log) \in Nat
    BY <1>1
  <2>2. mark + 1 \in 1..Len(log) /\ mark \in 0..(Len(log) - 1)
          /\ mark \in 0..Len(log) /\ mark + 1 \in 0..Len(log)
    BY <1>1, <1>2, <2>1
  <2>3. QED BY <1>1, <2>2
<1>4. Additive(p)'
  BY <1>1, <1>2 DEF Additive
<1>5. swallowed = 0 => Faithful(p)'
  <2> SUFFICES ASSUME swallowed = 0 PROVE Faithful(p)'
    OBVIOUS
  <2>1. Faithful(p)
    BY DEF Following
  <2>2. Agrees(Prefix(log, mark), slot)
    BY <1>2, <2>1 DEF Faithful
  <2>3. Card(p) = Cardinal(slot)
    BY <1>1, <1>2, <1>3, CardIsCardinal DEF Written, Rebuilding
  <2>4. Prefix(log, mark) \in Seq(Values) /\ Prefix(log, mark + 1) = Append(Prefix(log, mark), v)
    BY <1>1, <1>3, PrefixSteps
  <2>5. Agrees(Prefix(log, mark + 1), Counted(slot, v, Card(p)))
    BY <1>3, <2>2, <2>3, <2>4, CountedAgrees
  <2>6. VisibleLog(p)' = log
    BY <1>2 DEF VisibleLog
  <2> HIDE DEF log, mark, slot, v
  <2>7. QED BY <1>2, <1>3, <2>1, <2>5, <2>6 DEF Faithful
<1>6. QED BY <1>2, <1>4, <1>5, AloneFollows

\* The other steps of a rebuild, and what a failure or a death leaves.
LEMMA RebuildStepFollows ==
    ASSUME Following, Counting', NEW p \in Conns, swallowed' = swallowed,
           \/ BeginRebuild(p) \/ BuildFails(p) \/ Install(p) \/ DiscardRebuild(p) \/ Crash(p)
           \/ CommitFails(p) /\ temp' = temp /\ at' = [at EXCEPT ![p] = "idle"]
           \/ CommitFails(p) /\ temp' = temp /\ at' = [at EXCEPT ![p] = "broken"]
           \/ /\ at[p] = "rebuilding" /\ JoinBatch(p)
              /\ at' = [at EXCEPT ![p] = "installing"] /\ temp' = temp
    PROVE  Following'
<1>1. Counting /\ FieldsOK /\ Held(p) /\ Additive(p) /\ work[p] \in State
  BY DEF Following, Counting, FieldsOK
<1>2. /\ db' = db
      /\ \A q \in Conns \ {p} :
           work'[q] = work[q] /\ depth'[q] = depth[q] /\ at'[q] = at[q] /\ temp'[q] = temp[q]
  BY <1>1 DEF FieldsOK, BeginRebuild, BuildFails, Install, DiscardRebuild, Crash, CommitFails,
              JoinBatch
<1>3. \/ depth'[p] = 0
      \/ depth'[p] > 0 /\ depth[p] > 0 /\ work'[p].log = work[p].log
  <2>1. [work[p] EXCEPT !.slot = temp[p].slot].log = work[p].log
    BY <1>1 DEF State
  <2>2. depth[p] \in 0..2 /\ depth \in [Conns -> 0..2] /\ work \in [Conns -> State]
    BY <1>1 DEF FieldsOK
  <2>3. CASE BeginRebuild(p) \/ BuildFails(p) \/ DiscardRebuild(p)
    BY <2>2, <2>3 DEF BeginRebuild, BuildFails, DiscardRebuild
  <2>4. CASE Install(p)
    BY <1>1, <2>1, <2>2, <2>4 DEF Install, Held
  <2>5. CASE Crash(p) \/ CommitFails(p)
    BY <2>2, <2>5 DEF Crash, CommitFails
  <2>6. CASE at[p] = "rebuilding" /\ JoinBatch(p)
    BY <2>2, <2>6 DEF JoinBatch
  <2>7. QED BY <2>3, <2>4, <2>5, <2>6
<1>4. Additive(p)'
  BY <1>1, <1>2, <1>3 DEF Additive
<1>5. ASSUME swallowed = 0 PROVE Faithful(p)'
  <2>1. Faithful(p)
    BY <1>5 DEF Following
  <2>2. CASE BeginRebuild(p)
    <3>1. /\ temp'[p] = NoRebuild /\ depth' = depth /\ work' = work
          /\ at[p] \in {"idle", "open"} /\ at'[p] = "rebuilding"
          /\ VisibleLog(p)' = VisibleLog(p)
      BY <1>1, <2>2 DEF BeginRebuild, FieldsOK, VisibleLog
    <3>2. Len(VisibleLog(p)) \in Nat /\ Prefix(VisibleLog(p), 0) = <<>>
      BY <1>1, Logs, PrefixSteps
    <3>3. NoRebuild.mark = 0 /\ NoRebuild.slot = EmptySlot
      BY DEF NoRebuild
    <3>4. QED BY <2>1, <3>1, <3>2, <3>3, EmptyAgrees DEF Faithful
  <2>3. CASE Install(p)
    <3>1. /\ at[p] = "installing" /\ at'[p] = "installed"
          /\ depth[p] > 0 /\ depth' = depth
          /\ temp[p].mark = Len(work[p].log)
          /\ work'[p] = [work[p] EXCEPT !.slot = temp[p].slot]
      BY <1>1, <2>3 DEF Install, FieldsOK, Held
    <3>2. work'[p].slot = temp[p].slot /\ work'[p].log = work[p].log
      BY <1>1, <3>1 DEF State
    <3>3. VisibleLog(p) = work[p].log /\ Prefix(work[p].log, Len(work[p].log)) = work[p].log
      BY <1>1, <3>1, Logs, PrefixSteps DEF VisibleLog
    <3>4. Agrees(work[p].log, temp[p].slot)
      BY <2>1, <3>1, <3>3 DEF Faithful, Rebuilding
    <3>5. QED BY <3>1, <3>2, <3>4 DEF Faithful, Rebuilding
  <2>4. CASE DiscardRebuild(p)
    <3>1. /\ depth' = depth /\ work' = work
          /\ at'[p] \in {"idle", "open", "failed"}
          /\ at'[p] = "open" => at[p] = "left" /\ depth[p] > 0
          /\ at'[p] = "idle" => ~(depth[p] > 0)
      BY <1>1, <2>4 DEF DiscardRebuild, FieldsOK
    <3>2. QED BY <2>1, <3>1 DEF Faithful, Rebuilding
  <2>5. CASE BuildFails(p) \/ Crash(p) \/ (CommitFails(p) /\ at'[p] \in {"idle", "broken"})
    <3>1. at'[p] = "broken" \/ (at'[p] = "idle" /\ depth'[p] = 0)
      BY <1>1, <2>5 DEF BuildFails, Crash, CommitFails, FieldsOK
    <3>2. QED BY <3>1 DEF Faithful, Rebuilding
  <2>6. CASE at[p] = "rebuilding" /\ JoinBatch(p) /\ at'[p] = "installing" /\ temp' = temp
    <3>1. work' = work /\ depth[p] > 0 /\ depth'[p] > 0 /\ VisibleLog(p)' = VisibleLog(p)
      BY <1>1, <1>2, <2>6 DEF JoinBatch, FieldsOK, VisibleLog
    <3>2. QED BY <2>1, <2>6, <3>1 DEF Faithful, Rebuilding
  <2>7. QED BY <1>1, <2>2, <2>3, <2>4, <2>5, <2>6 DEF FieldsOK
<1>6. QED BY <1>2, <1>4, <1>5, AloneFollows

LEMMA FollowingStep == Following /\ [Next]_vars => Following'
<1> SUFFICES ASSUME Following, [Next]_vars PROVE Following'
  OBVIOUS
<1>0. Counting /\ Counting'
  BY CountingStep DEF Following
<1>1. CASE UNCHANGED vars
  BY <1>0, <1>1 DEF vars, Following, Additive, Faithful, Rebuilding, VisibleLog
<1>2. ASSUME NEW p \in Conns, Swallow(p) PROVE Following'
  <2>1. swallowed' = swallowed + 1 /\ swallowed \in Nat /\ UNCHANGED <<db, work, depth>>
    BY <1>2 DEF Swallow, Following
  <2>2. swallowed' \in Nat /\ swallowed' # 0
    BY <2>1
  <2>3. QED BY <1>0, <2>1, <2>2 DEF Following, Additive
<1>3. ASSUME NEW p \in Conns, Step(p), swallowed' = swallowed PROVE Following'
  <2>1. CASE BeginBatch(p)
    BY <1>0, <1>3, <2>1, TakeLockFollows DEF BeginBatch
  <2>2. CASE EndBatch(p)
    BY <1>0, <1>3, <2>2, CommitFollows, RebuildStepFollows DEF EndBatch
  <2>3. CASE AbortBatch(p)
    BY <1>0, <1>3, <2>3, RollbackFollows DEF AbortBatch
  <2>4. ASSUME NEW v \in Values, Observe(p, v) \/ ObserveFails(p, v) PROVE Following'
    BY <1>0, <1>3, <2>4, ObserveFollows
  <2>5. CASE ReplayNext(p)
    BY <1>0, <1>3, <2>5, ReplayNextFollows
  <2>6. CASE InstallBegin(p)
    BY <1>0, <1>3, <2>6, TakeLockFollows, RebuildStepFollows DEF InstallBegin
  <2>7. CASE InstallRefused(p)
    BY <1>0, <1>3, <2>7, RollbackFollows DEF InstallRefused
  <2>8. CASE InstallFails(p)
    <3>1. PICK slot \in Halfway(p) : Rollback(p, slot)
      BY <2>8 DEF InstallFails
    <3>2. QED BY <1>0, <1>3, <2>8, <3>1, RollbackFollows DEF InstallFails
  <2>9. CASE InstallCommit(p)
    BY <1>0, <1>3, <2>9, CommitFollows, RebuildStepFollows DEF InstallCommit
  <2>10. CASE BeginRebuild(p) \/ BuildFails(p) \/ Install(p) \/ DiscardRebuild(p) \/ Crash(p)
    BY <1>0, <1>3, <2>10, RebuildStepFollows
  <2>11. QED BY <1>3, <2>1, <2>2, <2>3, <2>4, <2>5, <2>6, <2>7, <2>8, <2>9, <2>10 DEF Step
<1>4. QED BY <1>1, <1>2, <1>3 DEF Next

-----------------------------------------------------------------------------
(* The theorems. *)

\* Every variable keeps its type (storage_sqlite.rs `SqliteStorage`).
THEOREM ValueCapTypes == Spec => []TypeOK
<1>1. Spec => []Counting
  BY CountingInit, CountingStep, PTL DEF Spec
<1> DEFINE Bounded == swallowed \in 0..MaxSwallowed
<1>2. Init => Bounded
  BY MaxLogAssumption DEF Init
<1>3. Bounded /\ [Next]_vars => Bounded'
  BY MaxLogAssumption DEF Next, Swallow, vars
<1>4. Counting /\ Bounded => TypeOK
  BY CountingImplies DEF TypeOK
<1>5. QED BY <1>1, <1>2, <1>3, <1>4, PTL DEF Spec

\* No slot ever tracks more than MaxValues values, with any number of processes
\* observing, rebuilding, failing and crashing (storage_sqlite.rs
\* `observe_position`, `add_to_cluster`).
THEOREM CapAlwaysKept == Spec => []CapKept
<1>1. Spec => []Counting
  BY CountingInit, CountingStep, PTL DEF Spec
<1>2. QED BY <1>1, CountingImplies, PTL

\* A count remembered where a connection writes the slot is the number of values
\* tracked there (storage_sqlite.rs `value_counts`).
THEOREM CacheAlwaysExact == Spec => []CacheExact
<1>1. Spec => []Counting
  BY CountingInit, CountingStep, PTL DEF Spec
<1>2. QED BY <1>1, CountingImplies, PTL

\* For any processes, rebuilds, failures and deaths, while no caller went on after
\* half an observation, the committed slot is what a memory corpus would keep of the
\* same log (position_stats.rs `observe`, storage_sqlite.rs `observe_position`).
THEOREM SlotAlwaysMatchesMemory == Spec => []SlotMatchesMemory
<1>1. Spec => []Following
  BY FollowingInit, FollowingStep, PTL DEF Spec
<1>2. Following => SlotMatchesMemory
  BY DEF Following, SlotMatchesMemory, Agrees
<1>3. QED BY <1>1, <1>2, PTL

-----------------------------------------------------------------------------
(* And memory's slot is what observing the log leaves. *)

\* An entry of the log, observed.
ObserveEntry(a, slot, v) == Counted(slot, v, Cardinal(slot))
ObserveNothing(b, u, v) == u
AgreesSoFar(log, b, n, slot, u) ==
    Agrees([i \in 1..n |-> log[i]], slot) /\ [i \in 1..n |-> log[i]] \in Seq(Values)

LEMMA LeastNumber ==
    ASSUME NEW S, S \subseteq Nat, NEW k \in S
    PROVE  \E i \in S : \A j \in S : i <= j
<1>1. PICK x \in S : \A y \in S : ~ (<<y, x>> \in OpToRel(<, Nat))
  BY NatLessThanWellFounded, WFMin
<1>2. \A y \in S : ~ (y < x)
  BY <1>1, Zenon DEF OpToRel
<1>3. x \in Nat /\ \A y \in S : y \in Nat
  OBVIOUS
<1>4. QED BY <1>2, <1>3

LEMMA NaturalsOrdered == \A N \in SUBSET Nat : N # {} => \E i \in N : \A j \in N : i <= j
<1> SUFFICES ASSUME NEW N \in SUBSET Nat, NEW k \in N PROVE \E i \in N : \A j \in N : i <= j
  OBVIOUS
<1>1. N \subseteq Nat
  OBVIOUS
<1>2. QED BY ONLY <1>1, k \in N, LeastNumber

Entries == INSTANCE FoldSteps WITH
    OpA <- ObserveEntry, OpB <- ObserveNothing, Rel <- AgreesSoFar
LEMMA EntriesOrdered == Entries!WellOrdered
BY NaturalsOrdered DEF Entries!WellOrdered

\* For any log and any cap, the values observed one after the other leave the total and
\* the counts MemorySlot says: a value is tracked if it was among the first MaxValues
\* distinct ones seen, and then each time it was seen counts (position_stats.rs
\* `observe`).
THEOREM MemorySlotIsReplayed == \A log \in Seq(Values) : PositionStats(log) = MemorySlot(log)
<1> SUFFICES ASSUME NEW log \in Seq(Values) PROVE PositionStats(log) = MemorySlot(log)
  OBVIOUS
<1>1. Len(log) \in Nat /\ DOMAIN log = 1..Len(log) /\ \A i \in 1..Len(log) : log[i] \in Values
  OBVIOUS
<1>2. PositionStats(log) = Entries!SeqA(log, EmptySlot, log)
  BY DEF PositionStats, FoldLeft, MapThenFoldSet, Max, Entries!SeqA, ObserveEntry
<1>3. AgreesSoFar(log, 0, 0, EmptySlot, EmptySlot)
  <2>1. [i \in 1..0 |-> log[i]] = <<>>
    OBVIOUS
  <2>2. QED BY <2>1, EmptyAgrees DEF AgreesSoFar
<1>4. \A i \in 1..Len(log) : \A slot, u :
        AgreesSoFar(log, 0, i - 1, slot, u) =>
            AgreesSoFar(log, 0, i, ObserveEntry(log, slot, log[i]), ObserveNothing(0, u, log[i]))
  <2> SUFFICES ASSUME NEW i \in 1..Len(log), NEW slot, NEW u, AgreesSoFar(log, 0, i - 1, slot, u)
               PROVE  AgreesSoFar(log, 0, i, ObserveEntry(log, slot, log[i]),
                                  ObserveNothing(0, u, log[i]))
    OBVIOUS
  <2> DEFINE before == [j \in 1..(i - 1) |-> log[j]]
             next == [j \in 1..i |-> log[j]]
  <2>1. before \in Seq(Values) /\ Agrees(before, slot)
    BY DEF AgreesSoFar
  <2>2. next \in Seq(Values) /\ log[i] \in Values
    BY <1>1
  <2>3. next = Append(before, log[i])
    BY <1>1
  <2>4. Agrees(next, Counted(slot, log[i], Cardinal(slot)))
    <3> HIDE DEF before, next
    <3>1. QED BY <2>1, <2>2, <2>3, CountedAgrees
  <2>5. QED BY <2>2, <2>4 DEF AgreesSoFar, ObserveEntry
<1>5. AgreesSoFar(log, 0, Len(log), Entries!SeqA(log, EmptySlot, log),
                  Entries!SeqB(0, EmptySlot, log))
  BY <1>1, <1>3, <1>4, EntriesOrdered, Entries!SequenceFolds
<1>6. [i \in 1..Len(log) |-> log[i]] = log
  BY <1>1
<1>7. QED BY <1>2, <1>5, <1>6 DEF AgreesSoFar, Agrees

\* So, while no caller went on after half an observation, the committed slot is the
\* fold of its log, whatever failed or died on the way.
THEOREM SlotIsReplayed == Spec => [](swallowed = 0 => db.slot = PositionStats(db.log))
<1>1. Spec => []TypeOK /\ []SlotMatchesMemory
  BY ValueCapTypes, SlotAlwaysMatchesMemory, PTL
<1>2. TypeOK => db.log \in Seq(Values)
  BY DEF TypeOK, FieldsOK, State
<1>3. TypeOK /\ SlotMatchesMemory => (swallowed = 0 => db.slot = PositionStats(db.log))
  BY <1>2, MemorySlotIsReplayed DEF SlotMatchesMemory
<1>4. QED BY <1>1, <1>3, PTL
=============================================================================
