------------------------------- MODULE Corpus -------------------------------
(***************************************************************************)
(* One SQLite corpus shared by several connections, each in a process of   *)
(* its own: batches of observations, rebuilds of the views (`reinfer`) and *)
(* activations of recognizers, interleaved, failing and crashing.          *)
(*                                                                         *)
(* The corpus file holds the log of observed IRIs, the views derived from  *)
(* it and the activated recognizers.  The views are modelled as the        *)
(* sequence of observations counted in them, each with the recognizers it  *)
(* was classified with: counts, capped values, examples and cluster order  *)
(* are functions of that sequence.                                         *)
(***************************************************************************)
EXTENDS Integers, Sequences, SequencesExt

CONSTANTS
    Conns,              \* connections, one Corpus object each
    Iris,               \* canonical IRIs
    TokenPrefixes,      \* recognizer prefixes, as numbers in string order
    Types,              \* types a recognizer assigns
    MaxLog,             \* bound: observations the log may hold
    NestedActivation,   \* may a caller activate a proposal inside `batch`?
    ReadFaults,         \* may reading the stored activations back fail?
    None

Recognizer == [prefix : TokenPrefixes, type : Types]

ASSUME TokenPrefixesAssumption == TokenPrefixes \subseteq Int
ASSUME MaxLogAssumption == MaxLog \in Nat
ASSUME FlagsAssumption == NestedActivation \in BOOLEAN /\ ReadFaults \in BOOLEAN
ASSUME NoneAssumption == None \notin Conns /\ None \notin Recognizer

VARIABLES
    db,            \* the committed corpus
    work,          \* the corpus as each connection's own transaction sees it
    lock,          \* holder of SQLite's write lock
    at,            \* where each connection is
    depth,         \* batches open on each connection
    activations,   \* what each connection's classifier was built from
    moved,         \* connections another one committed since their last batch began
    job            \* each connection's rebuild in progress

vars == <<db, work, lock, at, depth, activations, moved, job>>

-----------------------------------------------------------------------------
(* The stored corpus. *)

\* The stored activations, which SQLite answers ordered by prefix.
StoredList(acts) ==
    SetToSortSeq(acts, LAMBDA a, b : a.prefix < b.prefix)

\* Storing a recognizer replaces the one with its prefix.
Upsert(acts, a) == {b \in acts : b.prefix # a.prefix} \union {a}

Recorded(acts, goal) == IF goal = None THEN acts ELSE Upsert(acts, goal)

\* The view entries `replay` writes for a sequence of IRIs.
Classified(iris, list) ==
    [i \in 1..Len(iris) |-> [iri |-> iris[i], under |-> list]]

\* The observations logged after a mark.
AfterIgnoringMark(log, mark) == log
After(log, mark) == SubSeq(log, mark + 1, Len(log))

EmptyDb == [log |-> <<>>, views |-> <<>>, acts |-> {}]

Unlimited == MaxLog + 1

NoJob == [goal |-> None, planned |-> <<>>, views |-> <<>>, mark |-> 0, last |-> 0]

\* What a connection reads: its own transaction's writes, else what is committed.
Visible(p) == IF depth[p] > 0 THEN work[p] ELSE db

-----------------------------------------------------------------------------
(* The storage's batches: BEGIN IMMEDIATE, COMMIT, ROLLBACK. *)

\* Whether anything read before this batch is stale.
NeverChanged(p) == FALSE
Changed(p) == p \in moved

DeferredLock(p) == TRUE
LockFree(p) == lock = None

\* Taking the write lock; the classifier follows what others activated.
TakeLock(p) ==
    /\ depth[p] = 0
    /\ LockFree(p)
    /\ lock' = p
    /\ work' = [work EXCEPT ![p] = db]
    /\ depth' = [depth EXCEPT ![p] = 1]
    /\ moved' = moved \ {p}
    /\ activations' = IF Changed(p)
                      THEN [activations EXCEPT ![p] = StoredList(db.acts)]
                      ELSE activations
    /\ UNCHANGED db

\* A batch inside a batch joins it.
JoinBatch(p) ==
    /\ depth[p] > 0
    /\ depth' = [depth EXCEPT ![p] = @ + 1]
    /\ UNCHANGED <<db, work, lock, moved, activations>>

BatchBegin(p) == TakeLock(p) \/ JoinBatch(p)

\* The classifier could not be reread: the transaction ends, but `data_version`
\* was already remembered.
BeginReadFails(p) ==
    /\ ReadFaults
    /\ depth[p] = 0
    /\ LockFree(p)
    /\ Changed(p)
    /\ moved' = moved \ {p}
    /\ UNCHANGED <<db, work, lock, depth, activations>>

\* Only the outermost batch commits; a commit that wrote moves everyone
\* else's `data_version`.
BatchCommit(p) ==
    /\ depth' = [depth EXCEPT ![p] = @ - 1]
    /\ IF depth[p] = 1
       THEN /\ db' = work[p]
            /\ work' = [work EXCEPT ![p] = EmptyDb]
            /\ lock' = None
            /\ moved' = IF work[p] = db THEN moved ELSE moved \union (Conns \ {p})
       ELSE UNCHANGED <<db, work, lock, moved>>

\* Only the outermost batch rolls back; an inner one leaves what it wrote.
BatchRollback(p, written) ==
    /\ depth' = [depth EXCEPT ![p] = @ - 1]
    /\ IF depth[p] = 1
       THEN /\ lock' = None
            /\ work' = [work EXCEPT ![p] = EmptyDb]
       ELSE /\ work' = [work EXCEPT ![p] = written]
            /\ UNCHANGED lock
    /\ UNCHANGED <<db, moved>>

-----------------------------------------------------------------------------
(* A batch of observations. *)

BeginBatch(p) ==
    /\ at[p] = "idle"
    /\ \/ TakeLock(p) /\ at' = [at EXCEPT ![p] = "open"]
       \/ BeginReadFails(p) /\ UNCHANGED at
    /\ UNCHANGED job

\* The view events of one IRI, and its log entry.
Replay(state, iri, list) ==
    [state EXCEPT !.views = Append(@, [iri |-> iri, under |-> list])]

Record(state, iri) == [state EXCEPT !.log = Append(@, iri)]

\* Both, inside the batch.
Observe(p, iri) ==
    /\ at[p] = "open"
    /\ Len(work[p].log) < MaxLog
    /\ work' = [work EXCEPT ![p] = Record(Replay(@, iri, activations[p]), iri)]
    /\ UNCHANGED <<db, lock, at, depth, activations, moved, job>>

\* An observation failing after its view events and before its log entry.
ObserveFails(p, iri) ==
    /\ at[p] = "open"
    /\ Len(work[p].log) < MaxLog
    /\ work' = [work EXCEPT ![p] = Replay(@, iri, activations[p])]
    /\ at' = [at EXCEPT ![p] = "failed"]
    /\ UNCHANGED <<db, lock, depth, activations, moved, job>>

EndBatch(p) ==
    /\ at[p] = "open"
    /\ BatchCommit(p)
    /\ at' = [at EXCEPT ![p] = "idle"]
    /\ UNCHANGED <<activations, job>>

\* COMMIT itself fails: the transaction is gone and the error returned at once.
EndBatchFails(p) ==
    /\ at[p] = "open"
    /\ BatchRollback(p, work[p])
    /\ at' = [at EXCEPT ![p] = "idle"]
    /\ UNCHANGED <<activations, job>>

\* The batch's closure failed, panicked or gave up.
AbortBatch(p) ==
    /\ at[p] \in {"open", "failed"}
    /\ BatchRollback(p, work[p])
    /\ at' = [at EXCEPT ![p] = "undone"]
    /\ UNCHANGED <<activations, job>>

\* After a rollback the classifier is rebuilt from what storage still holds.
Reapply(p) ==
    /\ at[p] = "undone"
    /\ \/ activations' = [activations EXCEPT ![p] = StoredList(db.acts)]
       \/ ReadFaults /\ UNCHANGED activations
    /\ at' = [at EXCEPT ![p] = "idle"]
    /\ UNCHANGED <<db, work, lock, depth, moved, job>>

-----------------------------------------------------------------------------
(* A rebuild, alone (`reinfer`, `activate_proposal`) or inside a batch. *)

Back(p) == IF depth[p] > 0 THEN "open" ELSE "idle"

CallRebuild(p, goal) ==
    /\ at[p] \in {"idle", "open"}
    /\ depth[p] > 0 /\ goal # None => NestedActivation
    /\ job' = [job EXCEPT ![p] = [NoJob EXCEPT
                  !.goal = goal, !.planned = StoredList(Visible(p).acts)]]
    /\ at' = [at EXCEPT ![p] = "planned"]
    /\ UNCHANGED <<db, work, lock, depth, activations, moved>>

HasActivatedNever(acts, goal) == FALSE
HasActivated(acts, goal) == goal # None /\ goal \in acts

\* The early return: the activation is already stored.
AlreadyActivated(p) ==
    /\ at[p] = "planned"
    /\ HasActivated(Visible(p).acts, job[p].goal)
    /\ at' = [at EXCEPT ![p] = Back(p)]
    /\ job' = [job EXCEPT ![p] = NoJob]
    /\ UNCHANGED <<db, work, lock, depth, activations, moved>>

PlanRebuild(p) ==
    /\ at[p] = "planned"
    /\ ~HasActivated(Visible(p).acts, job[p].goal)
    /\ job' = IF job[p].goal = None
              THEN job
              ELSE [job EXCEPT ![p].planned = Append(@, job[p].goal)]
    /\ at' = [at EXCEPT ![p] = "build"]
    /\ UNCHANGED <<db, work, lock, depth, activations, moved>>

\* Classify with the planned recognizers, into empty TEMP views.
BeginRebuild(p) ==
    /\ at[p] = "build"
    /\ activations' = [activations EXCEPT ![p] = job[p].planned]
    /\ job' = [job EXCEPT ![p] =
                  [@ EXCEPT !.views = <<>>, !.mark = 0, !.last = Unlimited]]
    /\ at' = [at EXCEPT ![p] = "passes"]
    /\ UNCHANGED <<db, work, lock, depth, moved>>

CaughtUp(replayed, last) == replayed = 0 \/ replayed >= last

\* Replay what was logged since the mark, as of one read of the log.
ReplayPass(p) ==
    /\ at[p] = "passes"
    /\ LET log == Visible(p).log
           fresh == After(log, job[p].mark)
           done == CaughtUp(Len(fresh), job[p].last)
       IN  /\ job' = [job EXCEPT ![p] =
                        [@ EXCEPT !.views = job[p].views \o Classified(fresh, activations[p]),
                                  !.mark = Len(log),
                                  !.last = IF done THEN job[p].last ELSE Len(fresh)]]
           /\ at' = [at EXCEPT ![p] = IF done THEN "install" ELSE @]
    /\ UNCHANGED <<db, work, lock, depth, activations, moved>>

BuildFails(p) ==
    /\ at[p] \in {"build", "passes"}
    /\ at' = [at EXCEPT ![p] = "fails"]
    /\ UNCHANGED <<db, work, lock, depth, activations, moved, job>>

InstallBegin(p) ==
    /\ at[p] = "install"
    /\ \/ BatchBegin(p) /\ at' = [at EXCEPT ![p] = "installing"]
       \/ BeginReadFails(p) /\ at' = [at EXCEPT ![p] = "fails"]
    /\ UNCHANGED job

\* Another connection kept the lock past LOCK_WAIT.
LockTimeout(p) ==
    /\ at[p] = "install"
    /\ depth[p] = 0
    /\ lock # None
    /\ at' = [at EXCEPT ![p] = "fails"]
    /\ UNCHANGED <<db, work, lock, depth, activations, moved, job>>

\* Whether the rebuild classified with the activations now stored.
SamePlanAlways(p, acts) == TRUE
SamePlan(p, acts) == StoredList(acts) = job[p].planned

\* What a stale rebuild classifies with when it starts over.
KeepPlan(p, acts) == job[p].planned
Replan(p, acts) == StoredList(acts)

\* What was logged while the rebuild ran.
NoCatchUp(p) == <<>>
CatchUp(p) == After(work[p].log, job[p].mark)

\* Another connection stored the activation first.
InstallHeld(p) ==
    /\ at[p] = "installing"
    /\ HasActivated(work[p].acts, job[p].goal)
    /\ BatchRollback(p, work[p])
    /\ at' = [at EXCEPT ![p] = "held"]
    /\ UNCHANGED <<activations, job>>

\* The stored activations, this one included, are not the planned ones.
InstallStale(p) ==
    LET acts == Recorded(work[p].acts, job[p].goal)
    IN  /\ at[p] = "installing"
        /\ ~HasActivated(work[p].acts, job[p].goal)
        /\ ~SamePlan(p, acts)
        /\ BatchRollback(p, [work[p] EXCEPT !.acts = acts])
        /\ job' = [job EXCEPT ![p].planned = Replan(p, acts)]
        /\ at' = [at EXCEPT ![p] = "stale"]
        /\ UNCHANGED activations

\* Record the activation, replay the rest of the log, swap the views in.
Install(p) ==
    LET acts == Recorded(work[p].acts, job[p].goal)
    IN  /\ at[p] = "installing"
        /\ ~HasActivated(work[p].acts, job[p].goal)
        /\ SamePlan(p, acts)
        /\ activations' = [activations EXCEPT ![p] = StoredList(acts)]
        /\ work' = [work EXCEPT ![p] =
                      [@ EXCEPT !.acts = acts,
                                !.views = job[p].views \o Classified(CatchUp(p), StoredList(acts))]]
        /\ at' = [at EXCEPT ![p] = "installed"]
        /\ UNCHANGED <<db, lock, depth, moved, job>>

\* A write of the install fails after the views were cleared.
InstallFails(p) ==
    /\ at[p] \in {"installing", "installed"}
    /\ BatchRollback(p, [work[p] EXCEPT !.views = <<>>])
    /\ at' = [at EXCEPT ![p] = "fails"]
    /\ UNCHANGED <<activations, job>>

InstallCommit(p) ==
    /\ at[p] = "installed"
    /\ BatchCommit(p)
    /\ at' = [at EXCEPT ![p] = "done"]
    /\ UNCHANGED <<activations, job>>

\* Only the outermost COMMIT can fail.
InstallCommitFails(p) ==
    /\ at[p] = "installed"
    /\ depth[p] = 1
    /\ BatchRollback(p, work[p])
    /\ at' = [at EXCEPT ![p] = "fails"]
    /\ UNCHANGED <<activations, job>>

\* Where a finished attempt goes: again when stale, else back to the caller.
\* A failure inside a batch fails the batch.
AfterAttempt(p, outcome) ==
    CASE outcome = "stale" -> "build"
      [] outcome = "fails" -> IF depth[p] > 0 THEN "failed" ELSE "idle"
      [] OTHER -> Back(p)

\* `discard_rebuild`, then the classifier follows storage again.
Leave(p) ==
    /\ at[p] \in {"done", "held", "stale", "fails"}
    /\ LET outcome == at[p]
       IN  \/ /\ activations' = [activations EXCEPT ![p] = StoredList(Visible(p).acts)]
              /\ at' = [at EXCEPT ![p] = AfterAttempt(p, outcome)]
              /\ job' = [job EXCEPT ![p] = IF outcome = "stale"
                            THEN [@ EXCEPT !.views = <<>>, !.mark = 0, !.last = 0]
                            ELSE NoJob]
           \/ /\ ReadFaults
              /\ at' = [at EXCEPT ![p] = AfterAttempt(p, "fails")]
              /\ job' = [job EXCEPT ![p] = NoJob]
              /\ UNCHANGED activations
    /\ UNCHANGED <<db, work, lock, depth, moved>>

-----------------------------------------------------------------------------
\* The process is killed and started again: SQLite drops its transaction and
\* TEMP tables, and opening the corpus builds the classifier afresh.
Crash(p) ==
    /\ lock' = IF lock = p THEN None ELSE lock
    /\ work' = [work EXCEPT ![p] = EmptyDb]
    /\ at' = [at EXCEPT ![p] = "idle"]
    /\ depth' = [depth EXCEPT ![p] = 0]
    /\ activations' = [activations EXCEPT ![p] = StoredList(db.acts)]
    /\ moved' = moved \union {p}
    /\ job' = [job EXCEPT ![p] = NoJob]
    /\ UNCHANGED db

Init ==
    /\ db = EmptyDb
    /\ work = [p \in Conns |-> EmptyDb]
    /\ lock = None
    /\ at = [p \in Conns |-> "idle"]
    /\ depth = [p \in Conns |-> 0]
    /\ activations = [p \in Conns |-> StoredList({})]
    /\ moved = Conns
    /\ job = [p \in Conns |-> NoJob]

\* What a connection does of its own accord once its caller asked.
Proceed(p) ==
    \/ EndBatch(p) \/ EndBatchFails(p) \/ AbortBatch(p) \/ Reapply(p)
    \/ AlreadyActivated(p) \/ PlanRebuild(p) \/ BeginRebuild(p)
    \/ ReplayPass(p) \/ BuildFails(p)
    \/ InstallBegin(p) \/ LockTimeout(p)
    \/ InstallHeld(p) \/ InstallStale(p) \/ Install(p) \/ InstallFails(p)
    \/ InstallCommit(p) \/ InstallCommitFails(p) \/ Leave(p)

\* What callers and the outside world choose.
Request(p) ==
    \/ BeginBatch(p)
    \/ \E iri \in Iris : Observe(p, iri) \/ ObserveFails(p, iri)
    \/ \E goal \in Recognizer \union {None} : CallRebuild(p, goal)
    \/ Crash(p)

Next == \E p \in Conns : Request(p) \/ Proceed(p)

Spec == Init /\ [][Next]_vars /\ \A p \in Conns : WF_vars(Proceed(p))

-----------------------------------------------------------------------------
(* Properties. *)

Places ==
    {"idle", "open", "failed", "undone", "planned", "build", "passes", "install",
     "installing", "installed", "done", "held", "stale", "fails"}

ActivationLists == {StoredList(acts) : acts \in SUBSET Recognizer}

PlannedLists ==
    ActivationLists \union {Append(l, a) : l \in ActivationLists, a \in Recognizer}

View == [iri : Iris, under : PlannedLists]

CorpusState == [log : Seq(Iris), views : Seq(View), acts : SUBSET Recognizer]

Job == [goal : Recognizer \union {None}, planned : PlannedLists \union {<<>>},
        views : Seq(View), mark : Nat, last : Nat]

\* Every variable has its type (the fields of SqliteStorage and Corpus).
TypeOK ==
    /\ db \in CorpusState
    /\ work \in [Conns -> CorpusState]
    /\ lock \in Conns \union {None}
    /\ at \in [Conns -> Places]
    /\ depth \in [Conns -> 0..2]
    /\ activations \in [Conns -> PlannedLists]
    /\ moved \subseteq Conns
    /\ job \in [Conns -> Job]

\* Whatever committed, the views are the log replayed once, in order, with the
\* stored recognizers: no observation is lost, counted twice, half counted or
\* left classified by an older set (corpus.rs `observe_iri`, `rebuild`).
Matches(state) == state.views = Classified(state.log, StoredList(state.acts))

ViewsMatchLog == Matches(db)

\* Whatever fails and whatever its classification, every logged observation is
\* counted in the views once and nothing else is (corpus.rs `observe_iri`).
EveryObservationCounted ==
    /\ Len(db.views) = Len(db.log)
    /\ \A i \in 1..Len(db.log) : db.views[i].iri = db.log[i]

\* A live classifier and a reopened one agree whenever a batch classifies: it was
\* built from the stored activations (corpus.rs `reapply_activated_recognizers`).
ClassifierCurrent ==
    \A p \in Conns : at[p] = "open" => activations[p] = StoredList(work[p].acts)

\* A batch classifies with every recognizer activated before it began, including
\* those another process activated (corpus.rs `batch`).
BatchKnowsActivated ==
    \A p \in Conns : at[p] = "open" =>
        \A a \in db.acts : Contains(activations[p], a)

\* A rebuild in progress holds the log through its mark, each entry once, all
\* classified with the planned recognizers (corpus.rs `build_views`).
RebuildTracksLog ==
    \A p \in Conns : at[p] \in {"passes", "install", "installing"} =>
        /\ job[p].mark <= Len(Visible(p).log)
        /\ job[p].views =
             Classified(SubSeq(Visible(p).log, 1, job[p].mark), job[p].planned)

\* No commit loses an observation another connection had committed.
LogKept == [][IsPrefix(db.log, db'.log)]_db

\* A call answers that it activated a recognizer only when its own commit stored
\* one not stored before: of two that race, one answers so (corpus.rs `activate`).
AnswersTrue(p) == at[p] = "installed" /\ at'[p] = "done" /\ depth[p] = 1

ActivationReported ==
    [][\A p \in Conns, a \in Recognizer :
         job[p].goal = a /\ AnswersTrue(p) => a \notin db.acts /\ a \in db'.acts]_vars

\* The activation and its reinfer commit together or not at all (corpus.rs
\* `activate_proposal`).
ActivationWithReinfer == [][db'.acts # db.acts => Matches(db)']_db

\* Committed states follow the atomic corpus: batches, activations and rebuilds
\* of any number of connections serialize.
Abstract == INSTANCE AtomicCorpus
    WITH db <- db, Iris <- Iris, Recognizer <- Recognizer,
         Upsert <- Upsert, StoredList <- StoredList
SerializesToAtomic == Abstract!Spec

\* A rebuild starts over whenever the stored activations are not those it planned,
\* with no limit (corpus.rs `rebuild`): once the stored activations stay put, every
\* rebuild asked for ends, installed, refused or failed.
RebuildReturns ==
    <>[][db'.acts = db.acts]_vars =>
        \A p \in Conns : at[p] = "planned" ~> at[p] \in {"idle", "open", "failed"}

=============================================================================
