------------------------------ MODULE ValueCap ------------------------------
(***************************************************************************)
(* One value slot of a shared SQLite corpus, a path position or a query    *)
(* param of a cluster, which keeps at most MaxValues distinct values.      *)
(* Counting the rows for each new value is slow, so a connection remembers *)
(* how many the slot holds (`value_counts`) and must forget it whenever    *)
(* the rows may have changed behind its back: another connection's commit, *)
(* a rollback, a failed commit, a rebuild begun, installed or dropped.     *)
(*                                                                         *)
(* The control of batches and rebuilds is that of Corpus, with one         *)
(* simplification: a rebuild here may stop replaying after any entry.      *)
(***************************************************************************)
EXTENDS Integers, Sequences, FiniteSets, SequencesExt

CONSTANTS
    Conns,              \* connections, each in a process of its own
    Values,             \* values observed at the slot
    MaxValues,          \* max_values_per_position
    MaxLog,             \* bound: entries the log, and observations the slot, may hold
    MaxSwallowed,       \* bound: failed observations after which a batch goes on
    None

ASSUME ValuesAssumption == IsFiniteSet(Values)
ASSUME MaxValuesAssumption == MaxValues \in Nat \ {0}
ASSUME MaxLogAssumption == MaxLog \in Nat /\ MaxSwallowed \in Nat
ASSUME NoneAssumption == None \notin Conns /\ None \notin Nat

VARIABLES
    db,      \* committed: the log's values at this slot, and the slot
    work,    \* the same as each connection's transaction sees it
    temp,    \* each connection's rebuild: its own slot, and its log mark
    lock,    \* holder of the write lock
    depth,   \* batches open on each connection
    at,      \* where each connection is
    cache,   \* the slot's remembered cardinality, None when forgotten
    moved,   \* connections another one committed since their last batch began
    swallowed \* failed observations after which callers went on with the batch

vars == <<db, work, temp, lock, depth, at, cache, moved, swallowed>>

-----------------------------------------------------------------------------
(* A slot: how often it was observed, and the count of each tracked value. *)

Slot == [total : Nat, counts : [Values -> Nat]]

EmptySlot == [total |-> 0, counts |-> [v \in Values |-> 0]]

Tracked(slot) == {v \in Values : slot.counts[v] > 0}

Cardinal(slot) == Cardinality(Tracked(slot))

\* A value is counted when it is tracked, or when there is room to track it.
Counted(slot, v, card) ==
    [total |-> slot.total + 1,
     counts |-> IF v \in Tracked(slot) \/ card < MaxValues
                THEN [slot.counts EXCEPT ![v] = @ + 1]
                ELSE slot.counts]

\* What memory keeps of the same observations.
PositionStats(log) ==
    FoldLeft(LAMBDA slot, v : Counted(slot, v, Cardinal(slot)), EmptySlot, log)

\* The same without running through them: a value is kept when at most MaxValues
\* values had been seen by one of its observations, and then all of them count.
Times(log, v) == Cardinality({i \in DOMAIN log : log[i] = v})

Seen(log, n) == {log[i] : i \in 1..n}

Kept(log, v) ==
    \E i \in DOMAIN log : log[i] = v /\ Cardinality(Seen(log, i)) <= MaxValues

MemorySlot(log) ==
    [total |-> Len(log),
     counts |-> [v \in Values |-> IF Kept(log, v) THEN Times(log, v) ELSE 0]]

State == [log : Seq(Values), slot : Slot]

EmptyDb == [log |-> <<>>, slot |-> EmptySlot]

Rebuild == [slot : Slot, mark : Nat]

NoRebuild == [slot |-> EmptySlot, mark |-> 0]

Rebuilding(p) == at[p] \in {"rebuilding", "installing"}

\* The slot a write reaches: TEMP tables shadow the views during a rebuild.
Written(p) == IF Rebuilding(p) THEN temp[p].slot ELSE work[p].slot

VisibleLog(p) == IF depth[p] > 0 THEN work[p].log ELSE db.log

-----------------------------------------------------------------------------
(* Observing with the remembered count. *)

CountsExact(p) == depth[p] > 0 \/ Rebuilding(p)

Remembered(p) == IF CountsExact(p) THEN cache[p] ELSE None

\* How many values the slot holds, as this connection believes.
Card(p) == IF Remembered(p) # None THEN Remembered(p) ELSE Cardinal(Written(p))

\* What it remembers after observing v: a tracked value asks for no count.
CardAfter(p, v) ==
    IF v \in Tracked(Written(p)) \/ ~CountsExact(p) THEN cache[p]
    ELSE IF Card(p) < MaxValues THEN Card(p) + 1
    ELSE Card(p)

Forgotten(p) == [cache EXCEPT ![p] = None]

-----------------------------------------------------------------------------
(* Batches. *)

NeverChanged(p) == FALSE
Changed(p) == p \in moved

\* BEGIN IMMEDIATE; an unreadable `data_version` counts as changed.
TakeLock(p) ==
    /\ depth[p] = 0
    /\ lock = None
    /\ lock' = p
    /\ depth' = [depth EXCEPT ![p] = 1]
    /\ work' = [work EXCEPT ![p] = db]
    /\ moved' = moved \ {p}
    /\ \/ cache' = IF Changed(p) THEN Forgotten(p) ELSE cache
       \/ cache' = Forgotten(p)
    /\ UNCHANGED db

JoinBatch(p) ==
    /\ depth[p] > 0
    /\ depth' = [depth EXCEPT ![p] = @ + 1]
    /\ UNCHANGED <<db, work, lock, cache, moved>>

Commit(p) ==
    /\ depth' = [depth EXCEPT ![p] = @ - 1]
    /\ IF depth[p] = 1
       THEN /\ db' = work[p]
            /\ work' = [work EXCEPT ![p] = EmptyDb]
            /\ lock' = None
            /\ moved' = IF work[p] = db THEN moved ELSE moved \union (Conns \ {p})
       ELSE UNCHANGED <<db, work, lock, moved>>

\* COMMIT fails and the transaction is gone.
CommitFailsKeepingCount(p) ==
    /\ depth[p] = 1
    /\ depth' = [depth EXCEPT ![p] = 0]
    /\ work' = [work EXCEPT ![p] = EmptyDb]
    /\ lock' = None
    /\ cache' = cache
    /\ UNCHANGED <<db, moved>>

CommitFails(p) ==
    /\ depth[p] = 1
    /\ depth' = [depth EXCEPT ![p] = 0]
    /\ work' = [work EXCEPT ![p] = EmptyDb]
    /\ lock' = None
    /\ cache' = Forgotten(p)
    /\ UNCHANGED <<db, moved>>

\* The outermost batch rolls back; an inner one leaves what it wrote.
RollbackKeepingCount(p, slot) ==
    /\ depth' = [depth EXCEPT ![p] = @ - 1]
    /\ IF depth[p] = 1
       THEN /\ work' = [work EXCEPT ![p] = EmptyDb]
            /\ lock' = None
       ELSE /\ work' = [work EXCEPT ![p].slot = slot]
            /\ UNCHANGED lock
    /\ cache' = cache
    /\ UNCHANGED <<db, moved>>

Rollback(p, slot) ==
    /\ depth' = [depth EXCEPT ![p] = @ - 1]
    /\ IF depth[p] = 1
       THEN /\ work' = [work EXCEPT ![p] = EmptyDb]
            /\ lock' = None
            /\ cache' = Forgotten(p)
       ELSE /\ work' = [work EXCEPT ![p].slot = slot]
            /\ UNCHANGED <<lock, cache>>
    /\ UNCHANGED <<db, moved>>

-----------------------------------------------------------------------------
(* A batch of observations. *)

BeginBatch(p) ==
    /\ at[p] = "idle"
    /\ TakeLock(p)
    /\ at' = [at EXCEPT ![p] = "open"]
    /\ UNCHANGED temp

\* The bound.
Room(p) ==
    /\ Len(work[p].log) < MaxLog
    /\ work[p].slot.total < MaxLog
    /\ \A v \in Values : work[p].slot.counts[v] < MaxLog

Observe(p, v) ==
    /\ at[p] = "open"
    /\ Room(p)
    /\ work' = [work EXCEPT ![p] =
                  [log |-> Append(@.log, v), slot |-> Counted(@.slot, v, Card(p))]]
    /\ cache' = [cache EXCEPT ![p] = CardAfter(p, v)]
    /\ UNCHANGED <<db, temp, lock, depth, at, moved>>

\* A write of the observation fails: before the value's row, or after the whole
\* slot and before the log entry.
ObserveFails(p, v) ==
    /\ at[p] = "open"
    /\ Room(p)
    /\ \/ /\ work' = [work EXCEPT ![p].slot.total = @ + 1]
          /\ UNCHANGED cache
       \/ /\ work' = [work EXCEPT ![p].slot = Counted(@, v, Card(p))]
          /\ cache' = [cache EXCEPT ![p] = CardAfter(p, v)]
    /\ at' = [at EXCEPT ![p] = "failed"]
    /\ UNCHANGED <<db, temp, lock, depth, moved>>

\* A caller that swallows the failure keeps what was written before it.
Swallow(p) ==
    /\ at[p] = "failed"
    /\ swallowed < MaxSwallowed
    /\ swallowed' = swallowed + 1
    /\ at' = [at EXCEPT ![p] = "open"]
    /\ UNCHANGED <<db, work, temp, lock, depth, cache, moved>>

EndBatch(p) ==
    /\ at[p] = "open"
    /\ \/ Commit(p) /\ UNCHANGED cache
       \/ CommitFails(p)
    /\ at' = [at EXCEPT ![p] = "idle"]
    /\ UNCHANGED temp

AbortBatch(p) ==
    /\ at[p] \in {"open", "failed"}
    /\ Rollback(p, work[p].slot)
    /\ at' = [at EXCEPT ![p] = "idle"]
    /\ UNCHANGED temp

-----------------------------------------------------------------------------
(* A rebuild, alone or inside a batch. *)

BeginRebuild(p) ==
    /\ at[p] \in {"idle", "open"}
    /\ temp' = [temp EXCEPT ![p] = NoRebuild]
    /\ cache' = Forgotten(p)
    /\ at' = [at EXCEPT ![p] = "rebuilding"]
    /\ UNCHANGED <<db, work, lock, depth, moved>>

\* Replay the next entry of the log into the TEMP slot.
ReplayNext(p) ==
    /\ Rebuilding(p)
    /\ temp[p].mark < Len(VisibleLog(p))
    /\ LET v == VisibleLog(p)[temp[p].mark + 1]
       IN  /\ temp' = [temp EXCEPT ![p] =
                         [slot |-> Counted(@.slot, v, Card(p)), mark |-> @.mark + 1]]
           /\ cache' = [cache EXCEPT ![p] = CardAfter(p, v)]
    /\ UNCHANGED <<db, work, lock, depth, at, moved>>

BuildFails(p) ==
    /\ at[p] = "rebuilding"
    /\ at' = [at EXCEPT ![p] = "broken"]
    /\ UNCHANGED <<db, work, temp, lock, depth, cache, moved>>

InstallBegin(p) ==
    /\ at[p] = "rebuilding"
    /\ TakeLock(p) \/ JoinBatch(p)
    /\ at' = [at EXCEPT ![p] = "installing"]
    /\ UNCHANGED temp

\* Once the whole log is replayed, the TEMP slot becomes the slot.
Install(p) ==
    /\ at[p] = "installing"
    /\ temp[p].mark = Len(work[p].log)
    /\ work' = [work EXCEPT ![p].slot = temp[p].slot]
    /\ cache' = Forgotten(p)
    /\ at' = [at EXCEPT ![p] = "installed"]
    /\ UNCHANGED <<db, temp, lock, depth, moved>>

\* The activations changed meanwhile: the rebuild is not installed.
InstallRefused(p) ==
    /\ at[p] = "installing"
    /\ Rollback(p, work[p].slot)
    /\ at' = [at EXCEPT ![p] = "left"]
    /\ UNCHANGED temp

\* What an install failing between its statements leaves of the slot: each
\* table is emptied, then filled, the totals before the values.
Halfway(p) ==
    LET old == work[p].slot
        new == temp[p].slot
    IN  {old, [old EXCEPT !.total = 0], [old EXCEPT !.total = new.total],
         [EmptySlot EXCEPT !.total = new.total], new}

InstallFails(p) ==
    /\ at[p] \in {"installing", "installed"}
    /\ \E slot \in Halfway(p) : Rollback(p, slot)
    /\ at' = [at EXCEPT ![p] = "broken"]
    /\ UNCHANGED temp

InstallCommit(p) ==
    /\ at[p] = "installed"
    /\ \/ Commit(p) /\ UNCHANGED cache /\ at' = [at EXCEPT ![p] = "left"]
       \/ CommitFails(p) /\ at' = [at EXCEPT ![p] = "broken"]
    /\ UNCHANGED temp

DiscardRebuild(p) ==
    /\ at[p] \in {"left", "broken"}
    /\ temp' = [temp EXCEPT ![p] = NoRebuild]
    /\ cache' = Forgotten(p)
    /\ at' = [at EXCEPT ![p] = IF depth[p] = 0 THEN "idle"
                              ELSE IF at[p] = "left" THEN "open" ELSE "failed"]
    /\ UNCHANGED <<db, work, lock, depth, moved>>

\* The process dies and starts again.
Crash(p) ==
    /\ lock' = IF lock = p THEN None ELSE lock
    /\ depth' = [depth EXCEPT ![p] = 0]
    /\ work' = [work EXCEPT ![p] = EmptyDb]
    /\ temp' = [temp EXCEPT ![p] = NoRebuild]
    /\ at' = [at EXCEPT ![p] = "idle"]
    /\ cache' = Forgotten(p)
    /\ moved' = moved \union {p}
    /\ UNCHANGED db

Init ==
    /\ db = EmptyDb
    /\ work = [p \in Conns |-> EmptyDb]
    /\ temp = [p \in Conns |-> NoRebuild]
    /\ lock = None
    /\ depth = [p \in Conns |-> 0]
    /\ at = [p \in Conns |-> "idle"]
    /\ cache = [p \in Conns |-> None]
    /\ moved = Conns
    /\ swallowed = 0

Step(p) ==
    \/ BeginBatch(p) \/ EndBatch(p) \/ AbortBatch(p)
    \/ \E v \in Values : Observe(p, v) \/ ObserveFails(p, v)
    \/ BeginRebuild(p) \/ ReplayNext(p) \/ BuildFails(p)
    \/ InstallBegin(p) \/ Install(p) \/ InstallRefused(p) \/ InstallFails(p)
    \/ InstallCommit(p) \/ DiscardRebuild(p)
    \/ Crash(p)

Next == \E p \in Conns : Swallow(p) \/ (Step(p) /\ UNCHANGED swallowed)

Spec == Init /\ [][Next]_vars

-----------------------------------------------------------------------------
(* Properties. *)

Places ==
    {"idle", "open", "failed", "rebuilding", "installing", "installed", "left", "broken"}

\* Every variable has its type (the fields of SqliteStorage).
FieldsOK ==
    /\ db \in State
    /\ work \in [Conns -> State]
    /\ temp \in [Conns -> Rebuild]
    /\ lock \in Conns \union {None}
    /\ depth \in [Conns -> 0..2]
    /\ at \in [Conns -> Places]
    /\ cache \in [Conns -> Nat \union {None}]
    /\ moved \subseteq Conns

TypeOK == FieldsOK /\ swallowed \in 0..MaxSwallowed

\* No slot, committed, uncommitted or being rebuilt, ever tracks more than
\* MaxValues values, however many processes write it (storage_sqlite.rs
\* `observe_position`, `add_to_cluster`).
CapKept ==
    /\ Cardinal(db.slot) <= MaxValues
    /\ \A p \in Conns : Cardinal(Written(p)) <= MaxValues

\* Where a connection writes the slot, a count it remembers is the number of
\* rows there (storage_sqlite.rs `value_counts`).
CacheExact ==
    \A p \in Conns :
        at[p] \in {"open", "rebuilding", "installing"} /\ cache[p] # None =>
            cache[p] = Cardinal(Written(p))

\* Whatever the processes and rebuilds between them, until callers keep half an
\* observation the committed slot is what a memory corpus would keep of the same
\* log, so no value is left untracked while there is room (position_stats.rs
\* `observe`).
SlotMatchesMemory == swallowed = 0 => db.slot = MemorySlot(db.log)
=============================================================================
