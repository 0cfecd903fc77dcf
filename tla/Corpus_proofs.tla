---------------------------- MODULE Corpus_proofs ----------------------------
(***************************************************************************)
(* Proofs about Corpus, for any connections, IRIs, recognizers and bound on *)
(* the log.  First, every variable keeps its type.  Then, with every fault  *)
(* allowed, no observation is lost or miscounted: the committed log only    *)
(* grows, the views hold one entry for each of its entries, and every       *)
(* rebuild in progress is a replay of a prefix of it.                       *)
(*                                                                          *)
(* Last, what a shared corpus promises where its callers keep to the        *)
(* command line's use of it (no activation inside a batch) and the stored   *)
(* activations can be read back: committed states are those of              *)
(* AtomicCorpus.                                                            *)
(***************************************************************************)
EXTENDS Corpus, SequenceTheorems, TLAPS

-----------------------------------------------------------------------------
(* The helpers. *)

LEMMA StoredListType ==
    ASSUME NEW acts \in SUBSET Recognizer
    PROVE  StoredList(acts) \in ActivationLists /\ StoredList(acts) \in PlannedLists
BY DEF ActivationLists, PlannedLists

LEMMA RecordedType ==
    ASSUME NEW acts \in SUBSET Recognizer, NEW goal \in Recognizer \union {None}
    PROVE  Recorded(acts, goal) \in SUBSET Recognizer
BY DEF Recorded, Upsert

LEMMA ClassifiedType ==
    ASSUME NEW s \in Seq(Iris), NEW list \in PlannedLists
    PROVE  Classified(s, list) \in Seq(View) /\ Len(Classified(s, list)) = Len(s)
BY DEF Classified, View

LEMMA AfterType ==
    ASSUME NEW S, NEW s \in Seq(S), NEW mark \in Nat
    PROVE  After(s, mark) \in Seq(S)
BY DEF After

LEMMA AppendType ==
    ASSUME NEW S, NEW s \in Seq(S), NEW x \in S
    PROVE  Append(s, x) \in Seq(S)
OBVIOUS

LEMMA EmptyType ==
    ASSUME NEW S
    PROVE  <<>> \in Seq(S)
OBVIOUS

LEMMA ConcatType ==
    ASSUME NEW S, NEW s \in Seq(S), NEW t \in Seq(S)
    PROVE  s \o t \in Seq(S)
OBVIOUS

-----------------------------------------------------------------------------
(* Types, and where a batch may be open. *)

\* How many batches a connection has open at each place.
DepthFits(p) ==
    /\ at[p] \in {"idle", "undone"} => depth[p] = 0
    /\ at[p] \in {"open", "failed"} => depth[p] = 1
    /\ at[p] \in {"planned", "build", "passes", "install",
                  "done", "held", "stale", "fails"} => depth[p] \in 0..1
    /\ at[p] \in {"installing", "installed"} => depth[p] \in 1..2

\* A plan holds one recognizer more than a stored list only once it is made.
PlanFits(p) ==
    /\ at[p] = "planned" => job[p].planned \in ActivationLists
    /\ at[p] \in {"build", "passes", "install", "installing", "installed", "stale"} =>
           job[p].planned \in PlannedLists

Shape ==
    /\ TypeOK
    /\ \A p \in Conns : DepthFits(p) /\ PlanFits(p)
    /\ \A p \in Conns : depth[p] > 0 <=> lock = p

LEMMA ShapeInit == Init => Shape
BY StoredListType, NoneAssumption
   DEF Init, Shape, TypeOK, DepthFits, PlanFits, CorpusState, Job, NoJob, EmptyDb, Places

LEMMA ShapeBeginBatch ==
    ASSUME Shape, NEW p \in Conns, BeginBatch(p)
    PROVE  Shape'
<1> USE NoneAssumption DEF Shape
<1>1. CASE TakeLock(p) /\ at' = [at EXCEPT ![p] = "open"]
  <2>1. TypeOK'
    <3>1. work' \in [Conns -> CorpusState]
      BY <1>1 DEF TakeLock, TypeOK
    <3>2. at' \in [Conns -> Places] /\ depth' \in [Conns -> 0..2] /\ lock' \in Conns \union {None}
      BY <1>1 DEF TakeLock, TypeOK, Places
    <3>3. activations' \in [Conns -> PlannedLists]
      <4>1. db.acts \in SUBSET Recognizer
        BY DEF TypeOK, CorpusState
      <4>2. QED BY <1>1, <4>1, StoredListType DEF TakeLock, TypeOK
    <3>4. moved' \subseteq Conns
      BY <1>1 DEF TakeLock, TypeOK
    <3>5. QED BY <1>1, <3>1, <3>2, <3>3, <3>4 DEF BeginBatch, TakeLock, TypeOK
  <2>2. \A q \in Conns : DepthFits(q)' /\ PlanFits(q)'
    BY <1>1 DEF BeginBatch, TakeLock, TypeOK, DepthFits, PlanFits
  <2>3. \A q \in Conns : depth'[q] > 0 <=> lock' = q
    BY <1>1 DEF TakeLock, LockFree, TypeOK
  <2>4. QED BY <2>1, <2>2, <2>3
<1>2. CASE BeginReadFails(p) /\ UNCHANGED at
  BY <1>2 DEF BeginBatch, BeginReadFails, TypeOK, DepthFits, PlanFits
<1>3. QED BY <1>1, <1>2 DEF BeginBatch

LEMMA ReplayType ==
    ASSUME NEW state \in CorpusState, NEW iri \in Iris, NEW list \in PlannedLists
    PROVE  Replay(state, iri, list) \in CorpusState
<1>1. [iri |-> iri, under |-> list] \in View
  BY DEF View
<1>2. Append(state.views, [iri |-> iri, under |-> list]) \in Seq(View)
  BY <1>1, AppendType DEF CorpusState
<1>3. QED BY <1>2 DEF Replay, CorpusState

LEMMA RecordType ==
    ASSUME NEW state \in CorpusState, NEW iri \in Iris
    PROVE  Record(state, iri) \in CorpusState
<1>1. Append(state.log, iri) \in Seq(Iris)
  BY AppendType DEF CorpusState
<1>2. QED BY <1>1 DEF Record, CorpusState

LEMMA ShapeObserve ==
    ASSUME Shape, NEW p \in Conns, NEW iri \in Iris, Observe(p, iri) \/ ObserveFails(p, iri)
    PROVE  Shape'
<1> USE DEF Shape
<1> DEFINE replayed == Replay(work[p], iri, activations[p])
<1>1. replayed \in CorpusState
  BY ReplayType DEF TypeOK
<1>2. Record(replayed, iri) \in CorpusState
  BY <1>1, RecordType
<1> HIDE DEF replayed
<1>3. CASE Observe(p, iri)
  <2>1. work' = [work EXCEPT ![p] = Record(replayed, iri)]
    BY <1>3 DEF Observe, replayed
  <2>2. work' \in [Conns -> CorpusState]
    BY <1>2, <2>1 DEF TypeOK
  <2>3. TypeOK'
    BY <1>3, <2>2 DEF Observe, TypeOK
  <2>4. QED BY <1>3, <2>3 DEF Observe, TypeOK, DepthFits, PlanFits
<1>4. CASE ObserveFails(p, iri)
  <2>1. work' = [work EXCEPT ![p] = replayed]
    BY <1>4 DEF ObserveFails, replayed
  <2>2. work' \in [Conns -> CorpusState]
    BY <1>1, <2>1 DEF TypeOK
  <2>3. TypeOK'
    BY <1>4, <2>2 DEF ObserveFails, TypeOK, Places
  <2>4. QED BY <1>4, <2>3 DEF ObserveFails, TypeOK, DepthFits, PlanFits
<1>5. QED BY <1>3, <1>4

\* What an outermost or inner commit and rollback do to the lock.
LEMMA CommitShape ==
    ASSUME Shape, NEW p \in Conns, depth[p] > 0, BatchCommit(p)
    PROVE  /\ db' \in CorpusState
           /\ work' \in [Conns -> CorpusState]
           /\ lock' \in Conns \union {None}
           /\ depth' \in [Conns -> 0..2]
           /\ moved' \subseteq Conns
           /\ depth' = [depth EXCEPT ![p] = @ - 1]
           /\ \A q \in Conns : depth'[q] > 0 <=> lock' = q
<1> USE NoneAssumption DEF Shape
<1>1. EmptyDb \in CorpusState
  BY DEF EmptyDb, CorpusState
<1>2. db' \in CorpusState /\ work' \in [Conns -> CorpusState] /\ lock' \in Conns \union {None}
  BY <1>1 DEF BatchCommit, TypeOK
<1>3. depth' \in [Conns -> 0..2] /\ depth' = [depth EXCEPT ![p] = @ - 1]
  BY DEF BatchCommit, TypeOK
<1>4. moved' \subseteq Conns
  BY DEF BatchCommit, TypeOK
<1>5. \A q \in Conns : depth'[q] > 0 <=> lock' = q
  BY DEF BatchCommit, TypeOK
<1>6. QED BY <1>2, <1>3, <1>4, <1>5

LEMMA RollbackShape ==
    ASSUME Shape, NEW p \in Conns, depth[p] > 0,
           NEW written \in CorpusState, BatchRollback(p, written)
    PROVE  /\ work' \in [Conns -> CorpusState]
           /\ lock' \in Conns \union {None}
           /\ depth' \in [Conns -> 0..2]
           /\ depth' = [depth EXCEPT ![p] = @ - 1]
           /\ \A q \in Conns : depth'[q] > 0 <=> lock' = q
<1> USE NoneAssumption DEF Shape
<1>1. EmptyDb \in CorpusState
  BY DEF EmptyDb, CorpusState
<1>2. work' \in [Conns -> CorpusState] /\ lock' \in Conns \union {None}
  BY <1>1 DEF BatchRollback, TypeOK
<1>3. depth' \in [Conns -> 0..2] /\ depth' = [depth EXCEPT ![p] = @ - 1]
  BY DEF BatchRollback, TypeOK
<1>4. \A q \in Conns : depth'[q] > 0 <=> lock' = q
  BY DEF BatchRollback, TypeOK
<1>5. QED BY <1>2, <1>3, <1>4

LEMMA ShapeEndBatch ==
    ASSUME Shape, NEW p \in Conns,
           EndBatch(p) \/ EndBatchFails(p) \/ AbortBatch(p)
    PROVE  Shape'
<1>1. depth[p] = 1
  BY DEF Shape, DepthFits, EndBatch, EndBatchFails, AbortBatch
<1>2. CASE EndBatch(p)
  <2>1. TypeOK'
    BY <1>1, <1>2, CommitShape DEF EndBatch, Shape, TypeOK, Places
  <2>2. QED BY <1>1, <1>2, <2>1, CommitShape DEF EndBatch, Shape, TypeOK, DepthFits, PlanFits
<1>3. CASE EndBatchFails(p) \/ AbortBatch(p)
  <2>1. BatchRollback(p, work[p]) /\ work[p] \in CorpusState
    BY <1>3 DEF EndBatchFails, AbortBatch, Shape, TypeOK
  <2>2. /\ work' \in [Conns -> CorpusState]
        /\ lock' \in Conns \union {None}
        /\ depth' \in [Conns -> 0..2]
        /\ depth' = [depth EXCEPT ![p] = @ - 1]
        /\ \A q \in Conns : depth'[q] > 0 <=> lock' = q
    BY <1>1, <2>1, RollbackShape
  <2>3. UNCHANGED <<db, moved, activations, job>>
    BY <1>3 DEF EndBatchFails, AbortBatch, BatchRollback
  <2>4. at' = [at EXCEPT ![p] = "idle"] \/ at' = [at EXCEPT ![p] = "undone"]
    BY <1>3 DEF EndBatchFails, AbortBatch
  <2>5. TypeOK'
    BY <2>2, <2>3, <2>4 DEF Shape, TypeOK, Places
  <2>6. QED BY <1>1, <2>2, <2>3, <2>4, <2>5 DEF Shape, TypeOK, DepthFits, PlanFits
<1>4. QED BY <1>2, <1>3

LEMMA ShapeReapply ==
    ASSUME Shape, NEW p \in Conns, Reapply(p)
    PROVE  Shape'
<1> USE DEF Shape
<1>1. db.acts \in SUBSET Recognizer
  BY DEF TypeOK, CorpusState
<1>2. activations' \in [Conns -> PlannedLists]
  BY <1>1, StoredListType DEF Reapply, TypeOK
<1>3. TypeOK'
  BY <1>2 DEF Reapply, TypeOK, Places
<1>4. QED BY <1>3 DEF Reapply, TypeOK, DepthFits, PlanFits

LEMMA VisibleType ==
    ASSUME TypeOK, NEW p \in Conns
    PROVE  /\ Visible(p) \in CorpusState
           /\ Visible(p).acts \in SUBSET Recognizer
           /\ Visible(p).log \in Seq(Iris)
BY DEF TypeOK, Visible, CorpusState

LEMMA ShapeCallRebuild ==
    ASSUME Shape, NEW p \in Conns, NEW goal \in Recognizer \union {None},
           CallRebuild(p, goal)
    PROVE  Shape'
<1> USE DEF Shape
<1> DEFINE planned == StoredList(Visible(p).acts)
<1>1. planned \in ActivationLists /\ planned \in PlannedLists
  BY VisibleType, StoredListType
<1>2. job' = [job EXCEPT ![p] = [NoJob EXCEPT !.goal = goal, !.planned = planned]]
  BY DEF CallRebuild
<1> HIDE DEF planned
<1>3. [NoJob EXCEPT !.goal = goal, !.planned = planned] \in Job
  <2>1. <<>> \in Seq(View)
    BY EmptyType
  <2>2. QED BY <1>1, <2>1 DEF NoJob, Job
<1>4. TypeOK'
  BY <1>2, <1>3 DEF CallRebuild, TypeOK, Places
<1>5. job'[p].planned = planned
  BY <1>2 DEF TypeOK, NoJob
<1>6. QED BY <1>1, <1>2, <1>4, <1>5 DEF CallRebuild, TypeOK, DepthFits, PlanFits

LEMMA NoJobType == NoJob \in Job
BY DEF NoJob, Job

LEMMA ShapePlan ==
    ASSUME Shape, NEW p \in Conns, AlreadyActivated(p) \/ PlanRebuild(p)
    PROVE  Shape'
<1> USE DEF Shape
<1>1. CASE AlreadyActivated(p)
  <2>1. TypeOK'
    BY <1>1, NoJobType DEF AlreadyActivated, TypeOK, Back, Places
  <2>2. QED BY <1>1, <2>1 DEF AlreadyActivated, TypeOK, Back, DepthFits, PlanFits
<1>2. CASE PlanRebuild(p) /\ job[p].goal = None
  <2>1. TypeOK'
    BY <1>2 DEF PlanRebuild, TypeOK, Places
  <2>2. job[p].planned \in PlannedLists
    BY <1>2 DEF PlanRebuild, PlanFits, PlannedLists
  <2>3. QED BY <1>2, <2>1, <2>2 DEF PlanRebuild, TypeOK, DepthFits, PlanFits
<1>3. CASE PlanRebuild(p) /\ job[p].goal # None
  <2> DEFINE longer == Append(job[p].planned, job[p].goal)
  <2>1. longer \in PlannedLists
    <3>1. job[p] \in Job
      BY DEF TypeOK
    <3>2. job[p].goal \in Recognizer
      BY <1>3, <3>1 DEF Job
    <3>3. job[p].planned \in ActivationLists
      BY <1>3 DEF PlanRebuild, PlanFits
    <3>4. QED BY <3>2, <3>3 DEF PlannedLists
  <2>2. job' = [job EXCEPT ![p].planned = longer]
    BY <1>3 DEF PlanRebuild
  <2> HIDE DEF longer
  <2>3. job[p] \in Job /\ [job[p] EXCEPT !.planned = longer] \in Job
    BY <2>1 DEF TypeOK, Job
  <2>4. TypeOK'
    BY <1>3, <2>2, <2>3 DEF PlanRebuild, TypeOK, Places
  <2>5. job'[p].planned = longer
    BY <2>2, <2>3 DEF TypeOK, Job
  <2>6. QED BY <1>3, <2>1, <2>2, <2>4, <2>5 DEF PlanRebuild, TypeOK, DepthFits, PlanFits
<1>4. QED BY <1>1, <1>2, <1>3

LEMMA ShapeBeginRebuild ==
    ASSUME Shape, NEW p \in Conns, BeginRebuild(p)
    PROVE  Shape'
<1> USE DEF Shape
<1>1. job[p].planned \in PlannedLists /\ job[p] \in Job
  BY DEF BeginRebuild, PlanFits, TypeOK
<1>2. [job[p] EXCEPT !.views = <<>>, !.mark = 0, !.last = Unlimited] \in Job
  <2>1. Unlimited \in Nat /\ <<>> \in Seq(View)
    BY MaxLogAssumption, EmptyType DEF Unlimited
  <2>2. QED BY <1>1, <2>1 DEF Job
<1>3. TypeOK'
  BY <1>1, <1>2 DEF BeginRebuild, TypeOK, Places
<1>4. job'[p].planned = job[p].planned
  BY <1>1 DEF BeginRebuild, TypeOK, Job
<1>5. QED BY <1>1, <1>3, <1>4 DEF BeginRebuild, TypeOK, DepthFits, PlanFits

LEMMA ShapeReplayPass ==
    ASSUME Shape, NEW p \in Conns, ReplayPass(p)
    PROVE  Shape'
<1> USE DEF Shape
<1> DEFINE log == Visible(p).log
           fresh == After(log, job[p].mark)
           done == CaughtUp(Len(fresh), job[p].last)
           views == job[p].views \o Classified(fresh, activations[p])
           last == IF done THEN job[p].last ELSE Len(fresh)
           next == [job[p] EXCEPT !.views = views, !.mark = Len(log), !.last = last]
<1>1. job[p] \in Job
  BY DEF TypeOK
<1>2. log \in Seq(Iris) /\ fresh \in Seq(Iris)
  BY <1>1, VisibleType, AfterType DEF Job
<1>3. views \in Seq(View)
  BY <1>1, <1>2, ClassifiedType, ConcatType DEF TypeOK, Job
<1>4. last \in Nat /\ Len(log) \in Nat
  BY <1>1, <1>2 DEF Job
<1>5. job' = [job EXCEPT ![p] = next]
  BY DEF ReplayPass
<1>6. at' = [at EXCEPT ![p] = IF done THEN "install" ELSE at[p]]
  BY DEF ReplayPass
<1> HIDE DEF log, fresh, done, views, last
<1>7. next \in Job /\ next.planned = job[p].planned
  BY <1>1, <1>3, <1>4 DEF Job
<1> HIDE DEF next
<1>8. TypeOK'
  BY <1>5, <1>6, <1>7 DEF ReplayPass, TypeOK, Places
<1>9. at[p] = "passes" /\ job'[p].planned = job[p].planned
  BY <1>5, <1>7 DEF ReplayPass, TypeOK
<1>10. QED BY <1>5, <1>6, <1>8, <1>9 DEF ReplayPass, TypeOK, DepthFits, PlanFits

LEMMA ShapeBuildEnds ==
    ASSUME Shape, NEW p \in Conns, BuildFails(p) \/ LockTimeout(p)
    PROVE  Shape'
<1>1. at[p] \in {"build", "passes", "install"}
      /\ at' = [at EXCEPT ![p] = "fails"]
      /\ UNCHANGED <<db, work, lock, depth, activations, moved, job>>
  BY DEF BuildFails, LockTimeout
<1>2. QED BY <1>1 DEF Shape, TypeOK, Places, DepthFits, PlanFits

LEMMA ShapeInstallBegin ==
    ASSUME Shape, NEW p \in Conns, InstallBegin(p)
    PROVE  Shape'
<1> USE NoneAssumption DEF Shape
<1>1. CASE TakeLock(p) /\ at' = [at EXCEPT ![p] = "installing"]
  <2>1. activations' \in [Conns -> PlannedLists]
    BY <1>1, StoredListType DEF TakeLock, TypeOK, CorpusState
  <2>2. TypeOK'
    BY <1>1, <2>1 DEF InstallBegin, TakeLock, TypeOK, Places
  <2>3. \A q \in Conns : DepthFits(q)' /\ PlanFits(q)'
    BY <1>1 DEF InstallBegin, TakeLock, TypeOK, DepthFits, PlanFits
  <2>4. \A q \in Conns : depth'[q] > 0 <=> lock' = q
    BY <1>1 DEF TakeLock, LockFree, TypeOK
  <2>5. QED BY <2>2, <2>3, <2>4
<1>2. CASE JoinBatch(p) /\ at' = [at EXCEPT ![p] = "installing"]
  <2>1. depth[p] = 1
    BY <1>2 DEF InstallBegin, JoinBatch, DepthFits, TypeOK
  <2>2. TypeOK'
    BY <1>2, <2>1 DEF InstallBegin, JoinBatch, TypeOK, Places
  <2>3. QED BY <1>2, <2>1, <2>2 DEF InstallBegin, JoinBatch, TypeOK, DepthFits, PlanFits
<1>3. CASE BeginReadFails(p) /\ at' = [at EXCEPT ![p] = "fails"]
  BY <1>3 DEF InstallBegin, BeginReadFails, TypeOK, Places, DepthFits, PlanFits
<1>4. QED BY <1>1, <1>2, <1>3 DEF InstallBegin, BatchBegin

LEMMA ShapeInstallStops ==
    ASSUME Shape, NEW p \in Conns,
           InstallHeld(p) \/ InstallFails(p) \/ InstallCommitFails(p)
    PROVE  Shape'
<1>1. depth[p] \in 1..2
  BY DEF Shape, DepthFits, InstallHeld, InstallFails, InstallCommitFails
<1>2. work[p] \in CorpusState /\ [work[p] EXCEPT !.views = <<>>] \in CorpusState
  BY EmptyType DEF Shape, TypeOK, CorpusState
<1>3. PICK written \in CorpusState : BatchRollback(p, written)
  BY <1>2 DEF InstallHeld, InstallFails, InstallCommitFails
<1>4. /\ work' \in [Conns -> CorpusState]
      /\ lock' \in Conns \union {None}
      /\ depth' \in [Conns -> 0..2]
      /\ depth' = [depth EXCEPT ![p] = @ - 1]
      /\ \A q \in Conns : depth'[q] > 0 <=> lock' = q
  BY <1>1, <1>3, RollbackShape
<1>5. UNCHANGED <<db, moved, activations, job>>
  BY DEF InstallHeld, InstallFails, InstallCommitFails, BatchRollback
<1>6. at' = [at EXCEPT ![p] = "held"] \/ at' = [at EXCEPT ![p] = "fails"]
  BY DEF InstallHeld, InstallFails, InstallCommitFails
<1>7. TypeOK'
  BY <1>4, <1>5, <1>6 DEF Shape, TypeOK, Places
<1>8. QED BY <1>1, <1>4, <1>5, <1>6, <1>7 DEF Shape, TypeOK, DepthFits, PlanFits

LEMMA ShapeInstallStale ==
    ASSUME Shape, NEW p \in Conns, InstallStale(p)
    PROVE  Shape'
<1> DEFINE acts == Recorded(work[p].acts, job[p].goal)
           written == [work[p] EXCEPT !.acts = acts]
<1>1. depth[p] \in 1..2 /\ at[p] = "installing"
  BY DEF Shape, DepthFits, InstallStale
<1>2. job[p] \in Job /\ work[p] \in CorpusState
  BY DEF Shape, TypeOK
<1>3. acts \in SUBSET Recognizer /\ written \in CorpusState
  BY <1>2, RecordedType DEF Job, CorpusState
<1>4. StoredList(acts) \in PlannedLists
  BY <1>3, StoredListType
<1>5. /\ BatchRollback(p, written)
      /\ job' = [job EXCEPT ![p].planned = StoredList(acts)]
      /\ at' = [at EXCEPT ![p] = "stale"]
      /\ UNCHANGED activations
  BY DEF InstallStale, Replan
<1> HIDE DEF acts, written
<1>6. /\ work' \in [Conns -> CorpusState]
      /\ lock' \in Conns \union {None}
      /\ depth' \in [Conns -> 0..2]
      /\ depth' = [depth EXCEPT ![p] = @ - 1]
      /\ \A q \in Conns : depth'[q] > 0 <=> lock' = q
  BY <1>1, <1>3, <1>5, RollbackShape
<1>7. UNCHANGED <<db, moved>>
  BY <1>5 DEF BatchRollback
<1>8. [job[p] EXCEPT !.planned = StoredList(acts)] \in Job
  BY <1>2, <1>4 DEF Job
<1>9. TypeOK'
  BY <1>5, <1>6, <1>7, <1>8 DEF Shape, TypeOK, Places
<1>10. job'[p].planned = StoredList(acts)
  BY <1>2, <1>5 DEF Shape, TypeOK, Job
<1>11. QED BY <1>1, <1>4, <1>5, <1>6, <1>7, <1>9, <1>10 DEF Shape, TypeOK, DepthFits, PlanFits

LEMMA ShapeInstall ==
    ASSUME Shape, NEW p \in Conns, Install(p)
    PROVE  Shape'
<1> DEFINE acts == Recorded(work[p].acts, job[p].goal)
           views == job[p].views \o Classified(CatchUp(p), StoredList(acts))
           installed == [work[p] EXCEPT !.acts = acts, !.views = views]
<1>1. job[p] \in Job /\ work[p] \in CorpusState
  BY DEF Shape, TypeOK
<1>2. acts \in SUBSET Recognizer
  BY <1>1, RecordedType DEF Job, CorpusState
<1>3. StoredList(acts) \in PlannedLists
  BY <1>2, StoredListType
<1>4. CatchUp(p) \in Seq(Iris)
  BY <1>1, AfterType DEF CatchUp, Job, CorpusState
<1>5. views \in Seq(View)
  BY <1>1, <1>3, <1>4, ClassifiedType, ConcatType DEF Job
<1>6. work' = [work EXCEPT ![p] = installed]
  BY DEF Install
<1>7. /\ at[p] = "installing"
      /\ activations' = [activations EXCEPT ![p] = StoredList(acts)]
      /\ at' = [at EXCEPT ![p] = "installed"]
      /\ UNCHANGED <<db, lock, depth, moved, job>>
  BY DEF Install
<1> HIDE DEF acts, views
<1>8. installed \in CorpusState
  BY <1>1, <1>2, <1>5 DEF CorpusState
<1> HIDE DEF installed
<1>9. TypeOK'
  BY <1>3, <1>6, <1>7, <1>8 DEF Shape, TypeOK, Places
<1>10. QED BY <1>7, <1>9 DEF Shape, TypeOK, DepthFits, PlanFits

LEMMA ShapeInstallCommit ==
    ASSUME Shape, NEW p \in Conns, InstallCommit(p)
    PROVE  Shape'
<1>1. depth[p] \in 1..2 /\ at[p] = "installed"
  BY DEF Shape, DepthFits, InstallCommit
<1>2. TypeOK'
  BY <1>1, CommitShape DEF InstallCommit, Shape, TypeOK, Places
<1>3. QED BY <1>1, <1>2, CommitShape DEF InstallCommit, Shape, TypeOK, DepthFits, PlanFits

LEMMA ShapeLeave ==
    ASSUME Shape, NEW p \in Conns, Leave(p)
    PROVE  Shape'
<1> USE DEF Shape
<1>1. job[p] \in Job
  BY DEF TypeOK
<1>2. depth[p] \in 0..1
  BY DEF Leave, DepthFits
<1>3. UNCHANGED <<db, work, lock, depth, moved>>
  BY DEF Leave
<1>4. activations' \in [Conns -> PlannedLists]
  BY VisibleType, StoredListType DEF Leave, TypeOK
<1>5. CASE at'[p] = "build"
  <2> DEFINE again == [job[p] EXCEPT !.views = <<>>, !.mark = 0, !.last = 0]
  <2>1. again \in Job /\ again.planned = job[p].planned
    BY <1>1, EmptyType DEF Job
  <2>2. at[p] = "stale" /\ at' = [at EXCEPT ![p] = "build"] /\ job' = [job EXCEPT ![p] = again]
    BY <1>5 DEF Leave, AfterAttempt, Back, TypeOK
  <2> HIDE DEF again
  <2>3. TypeOK'
    BY <1>3, <1>4, <2>1, <2>2 DEF TypeOK, Places
  <2>4. QED BY <1>2, <1>3, <2>1, <2>2, <2>3 DEF TypeOK, DepthFits, PlanFits
<1>6. CASE at'[p] # "build"
  <2>1. at' = [at EXCEPT ![p] = "open"] \/ at' = [at EXCEPT ![p] = "failed"]
        \/ at' = [at EXCEPT ![p] = "idle"]
    BY <1>6 DEF Leave, AfterAttempt, Back, TypeOK
  <2>2. job' = [job EXCEPT ![p] = NoJob]
    BY <1>6 DEF Leave, AfterAttempt, TypeOK
  <2>3. at'[p] \in {"open", "failed"} => depth[p] = 1
    BY <1>2 DEF Leave, AfterAttempt, Back, TypeOK
  <2>4. at'[p] = "idle" => depth[p] = 0
    BY <1>2 DEF Leave, AfterAttempt, Back, TypeOK
  <2>5. TypeOK'
    BY <1>3, <1>4, <2>1, <2>2, NoJobType DEF TypeOK, Places
  <2>6. QED BY <1>3, <2>1, <2>2, <2>3, <2>4, <2>5 DEF TypeOK, DepthFits, PlanFits
<1>7. QED BY <1>5, <1>6

LEMMA ShapeCrash ==
    ASSUME Shape, NEW p \in Conns, Crash(p)
    PROVE  Shape'
<1> USE NoneAssumption DEF Shape
<1>1. EmptyDb \in CorpusState
  BY EmptyType DEF EmptyDb, CorpusState
<1>2. activations' \in [Conns -> PlannedLists]
  BY StoredListType DEF Crash, TypeOK, CorpusState
<1>3. TypeOK'
  BY <1>1, <1>2, NoJobType DEF Crash, TypeOK, Places
<1>4. QED BY <1>3 DEF Crash, TypeOK, DepthFits, PlanFits

\* The shape is inductive.
LEMMA ShapeStep == Shape /\ [Next]_vars => Shape'
<1> SUFFICES ASSUME Shape, [Next]_vars PROVE Shape'
  OBVIOUS
<1>1. CASE UNCHANGED vars
  BY <1>1 DEF vars, Shape, TypeOK, DepthFits, PlanFits
<1>2. ASSUME NEW p \in Conns, Request(p) PROVE Shape'
  BY <1>2, ShapeBeginBatch, ShapeObserve, ShapeCallRebuild, ShapeCrash DEF Request
<1>3. ASSUME NEW p \in Conns, Proceed(p) PROVE Shape'
  BY <1>3, ShapeEndBatch, ShapeReapply, ShapePlan, ShapeBeginRebuild, ShapeReplayPass,
     ShapeBuildEnds, ShapeInstallBegin, ShapeInstallStops, ShapeInstallStale,
     ShapeInstall, ShapeInstallCommit, ShapeLeave
  DEF Proceed
<1>4. QED BY <1>1, <1>2, <1>3 DEF Next

LEMMA ShapeAlways == Spec => []Shape
<1>1. QED BY ShapeInit, ShapeStep, PTL DEF Spec

\* Every variable keeps its type, whatever fails and whoever crashes (corpus.rs
\* `Corpus`, storage_sqlite.rs `SqliteStorage`).
THEOREM TypeCorrect == Spec => []TypeOK
<1>1. Shape => TypeOK
  BY DEF Shape
<1>2. QED BY <1>1, ShapeAlways, PTL

-----------------------------------------------------------------------------
(* Logs that grow, and their replays. *)

LEMMA ExtendsItself ==
    ASSUME NEW S, NEW s \in Seq(S)
    PROVE  Abstract!Extends(s, s)
BY DEF Abstract!Extends

LEMMA ExtendsAppend ==
    ASSUME NEW S, NEW s \in Seq(S), NEW r \in Seq(S), NEW x \in S, Abstract!Extends(s, r)
    PROVE  Abstract!Extends(Append(s, x), r)
BY DEF Abstract!Extends

LEMMA ExtendsPrefix ==
    ASSUME NEW S, NEW s \in Seq(S), NEW t \in Seq(S), Abstract!Extends(t, s)
    PROVE  /\ IsPrefix(s, t)
           /\ \A mark \in 0..Len(s) : mark <= Len(t) /\ SubSeq(t, 1, mark) = SubSeq(s, 1, mark)
<1>1. \A mark \in 0..Len(s) : mark <= Len(t) /\ SubSeq(t, 1, mark) = SubSeq(s, 1, mark)
  BY DEF Abstract!Extends
<1>2. Len(s) \in 0..Len(s) /\ Len(s) <= Len(t)
  BY DEF Abstract!Extends
<1>3. QED BY <1>1, <1>2 DEF IsPrefix

LEMMA ClassifiedAppend ==
    ASSUME NEW s \in Seq(Iris), NEW iri \in Iris, NEW list
    PROVE  Append(Classified(s, list), [iri |-> iri, under |-> list])
             = Classified(Append(s, iri), list)
BY DEF Classified

LEMMA ClassifiedResumes ==
    ASSUME NEW s \in Seq(Iris), NEW mark \in 0..Len(s), NEW list
    PROVE  Classified(SubSeq(s, 1, mark), list) \o Classified(After(s, mark), list)
             = Classified(s, list)
BY DEF Classified, After

LEMMA ClassifiedNothing ==
    ASSUME NEW s \in Seq(Iris), NEW list
    PROVE  Classified(SubSeq(s, 1, 0), list) = <<>>
BY DEF Classified

-----------------------------------------------------------------------------
(* The invariant. *)

\* One view entry for each log entry, in order.
Counted(state) ==
    /\ Len(state.views) = Len(state.log)
    /\ \A i \in 1..Len(state.log) : state.views[i].iri = state.log[i]

\* A rebuild in progress is the log replayed through its mark, and goes on
\* with the recognizers it was planned with.
Tracks(p) ==
    /\ at[p] \in {"passes", "install", "installing"} =>
         /\ job[p].mark <= Len(Visible(p).log)
         /\ job[p].views =
              Classified(SubSeq(Visible(p).log, 1, job[p].mark), job[p].planned)
    /\ at[p] = "passes" => activations[p] = job[p].planned

\* An open transaction adds to the committed log; unless it is about to be
\* rolled back its views are counted too.
Sound(p) ==
    /\ depth[p] > 0 => Abstract!Extends(work[p].log, db.log)
    /\ depth[p] > 0 /\ at[p] \notin {"failed", "fails"} => Counted(work[p])
    /\ Tracks(p)

Kept ==
    /\ Shape
    /\ Counted(db)
    /\ \A p \in Conns : Sound(p)

LEMMA KeptInit == Init => Kept
<1> SUFFICES ASSUME Init PROVE Kept
  OBVIOUS
<1>1. Counted(db)
  BY DEF Init, Counted, EmptyDb
<1>2. \A p \in Conns : Sound(p)
  BY DEF Init, Sound, Tracks
<1>3. QED BY <1>1, <1>2, ShapeInit DEF Kept

-----------------------------------------------------------------------------
(* What a step of one connection means to the others. *)

\* The state a connection alone reads and writes.
Untouched(q) ==
    /\ work'[q] = work[q]
    /\ at'[q] = at[q]
    /\ depth'[q] = depth[q]
    /\ activations'[q] = activations[q]
    /\ job'[q] = job[q]

LEMMA RequestIsOwn ==
    ASSUME Shape, NEW p \in Conns, NEW q \in Conns \ {p}, Request(p)
    PROVE  Untouched(q)
<1> USE DEF Shape, TypeOK, Untouched
<1>1. CASE BeginBatch(p)
  BY <1>1 DEF BeginBatch, TakeLock, BeginReadFails
<1>2. CASE \E iri \in Iris : Observe(p, iri) \/ ObserveFails(p, iri)
  BY <1>2 DEF Observe, ObserveFails
<1>3. CASE \E goal \in Recognizer \union {None} : CallRebuild(p, goal)
  BY <1>3 DEF CallRebuild
<1>4. CASE Crash(p)
  BY <1>4 DEF Crash
<1>5. QED BY <1>1, <1>2, <1>3, <1>4 DEF Request

LEMMA ProceedIsOwn ==
    ASSUME Shape, NEW p \in Conns, NEW q \in Conns \ {p}, Proceed(p)
    PROVE  Untouched(q)
<1> USE DEF Shape, TypeOK, Untouched
<1>1. CASE EndBatch(p)
  BY <1>1 DEF EndBatch, BatchCommit
<1>2. CASE EndBatchFails(p) \/ AbortBatch(p)
  BY <1>2 DEF EndBatchFails, AbortBatch, BatchRollback
<1>3. CASE Reapply(p)
  BY <1>3 DEF Reapply
<1>4. CASE AlreadyActivated(p) \/ PlanRebuild(p)
  BY <1>4 DEF AlreadyActivated, PlanRebuild
<1>5. CASE BeginRebuild(p)
  BY <1>5 DEF BeginRebuild
<1>6. CASE ReplayPass(p)
  BY <1>6 DEF ReplayPass
<1>7. CASE BuildFails(p) \/ LockTimeout(p)
  BY <1>7 DEF BuildFails, LockTimeout
<1>8. CASE InstallBegin(p)
  BY <1>8 DEF InstallBegin, BatchBegin, TakeLock, JoinBatch, BeginReadFails
<1>9. CASE InstallHeld(p) \/ InstallFails(p) \/ InstallCommitFails(p)
  BY <1>9 DEF InstallHeld, InstallFails, InstallCommitFails, BatchRollback
<1>10. CASE InstallStale(p)
  BY <1>10 DEF InstallStale, BatchRollback
<1>11. CASE Install(p)
  BY <1>11 DEF Install
<1>12. CASE InstallCommit(p)
  BY <1>12 DEF InstallCommit, BatchCommit
<1>13. CASE Leave(p)
  BY <1>13 DEF Leave
<1>14. QED BY <1>1, <1>2, <1>3, <1>4, <1>5, <1>6, <1>7, <1>8, <1>9, <1>10,
              <1>11, <1>12, <1>13 DEF Proceed

\* Only the connection holding the write lock changes the committed corpus, by
\* committing a transaction whose views are counted.
Commits(p) ==
    /\ lock = p
    /\ depth[p] = 1
    /\ at[p] \in {"open", "installed"}
    /\ db' = work[p]

LEMMA OnlyCommitsChangeDb ==
    ASSUME Shape, NEW p \in Conns, Request(p) \/ Proceed(p)
    PROVE  db' = db \/ Commits(p)
<1>1. CASE Request(p)
  BY <1>1 DEF Request, BeginBatch, TakeLock, BeginReadFails, Observe, ObserveFails,
              CallRebuild, Crash
<1>2. CASE EndBatch(p) \/ InstallCommit(p)
  BY <1>2 DEF EndBatch, InstallCommit, BatchCommit, Commits, Shape
<1>3. CASE /\ Proceed(p)
           /\ ~EndBatch(p)
           /\ ~InstallCommit(p)
  BY <1>3 DEF Proceed, EndBatchFails, AbortBatch, Reapply, AlreadyActivated,
              PlanRebuild, BeginRebuild, ReplayPass, BuildFails, InstallBegin, BatchBegin,
              TakeLock, JoinBatch, BeginReadFails, LockTimeout, InstallHeld, InstallStale,
              Install, InstallFails, InstallCommitFails, BatchRollback, Leave
<1>4. QED BY <1>1, <1>2, <1>3

LEMMA CommittedLog ==
    ASSUME Kept, NEW p \in Conns, db' = db \/ Commits(p)
    PROVE  Abstract!Extends(db'.log, db.log) /\ Counted(db)'
<1>1. CASE db' = db
  <2>1. db.log \in Seq(Iris)
    BY DEF Kept, Shape, TypeOK, CorpusState
  <2>2. QED BY <1>1, <2>1, ExtendsItself DEF Kept, Counted
<1>2. CASE Commits(p)
  BY <1>2 DEF Commits, Kept, Sound, Counted
<1>3. QED BY <1>1, <1>2

LEMMA OthersStaySound ==
    ASSUME Kept, Shape', NEW p \in Conns, db' = db \/ Commits(p),
           NEW q \in Conns \ {p}, Untouched(q)
    PROVE  Sound(q)'
<1> USE DEF Untouched
<1>1. Sound(q)
  BY DEF Kept
<1>2. CASE db' = db
  <2>1. Visible(q)' = Visible(q)
    BY <1>2 DEF Visible
  <2>2. Tracks(q)'
    BY <1>1, <2>1 DEF Sound, Tracks
  <2>3. QED BY <1>1, <1>2, <2>2 DEF Sound, Counted
<1>3. CASE Commits(p)
  <2>1. depth[q] = 0
    BY <1>3 DEF Commits, Kept, Shape, TypeOK
  <2>2. Visible(q) = db /\ Visible(q)' = db'
    BY <2>1 DEF Visible
  <2>3. db.log \in Seq(Iris) /\ db'.log \in Seq(Iris)
    BY DEF Kept, Shape, TypeOK, CorpusState
  <2>4. \A mark \in 0..Len(db.log) :
           mark <= Len(db'.log) /\ SubSeq(db'.log, 1, mark) = SubSeq(db.log, 1, mark)
    BY <1>3, <2>3, CommittedLog, ExtendsPrefix
  <2>5. job[q].mark \in Nat
    BY DEF Kept, Shape, TypeOK, Job
  <2>6. Tracks(q)'
    <3>1. CASE at[q] \in {"passes", "install", "installing"}
      <4>1. /\ job[q].mark \in 0..Len(db.log)
            /\ job[q].views = Classified(SubSeq(db.log, 1, job[q].mark), job[q].planned)
        BY <1>1, <2>2, <2>3, <2>5, <3>1 DEF Sound, Tracks
      <4>2. /\ job[q].mark <= Len(db'.log)
            /\ SubSeq(db'.log, 1, job[q].mark) = SubSeq(db.log, 1, job[q].mark)
        BY <2>4, <4>1
      <4>3. QED BY <1>1, <2>2, <4>1, <4>2 DEF Sound, Tracks
    <3>2. CASE at[q] \notin {"passes", "install", "installing"}
      BY <3>2 DEF Tracks
    <3>3. QED BY <3>1, <3>2
  <2>7. QED BY <2>1, <2>6 DEF Sound
<1>4. QED BY <1>2, <1>3

-----------------------------------------------------------------------------
(* What a step means to the connection that takes it. *)

LEMMA LogTypes ==
    ASSUME Kept, NEW p \in Conns
    PROVE  /\ db.log \in Seq(Iris)
           /\ work[p].log \in Seq(Iris)
           /\ work[p].views \in Seq(View)
           /\ work[p] \in CorpusState
           /\ Visible(p).log \in Seq(Iris)
           /\ job[p] \in Job
BY DEF Kept, Shape, TypeOK, CorpusState, Visible

LEMMA SoundBegins ==
    ASSUME Kept, NEW p \in Conns, BeginBatch(p)
    PROVE  Sound(p)'
<1>1. CASE TakeLock(p) /\ at' = [at EXCEPT ![p] = "open"]
  <2>1. work'[p] = db /\ db' = db /\ at'[p] = "open"
    BY <1>1 DEF TakeLock, Kept, Shape, TypeOK
  <2>2. QED BY <2>1, LogTypes, ExtendsItself DEF Kept, Sound, Counted, Tracks
<1>2. CASE BeginReadFails(p) /\ UNCHANGED at
  BY <1>2 DEF BeginBatch, BeginReadFails, Kept, Shape, DepthFits, Sound, Tracks
<1>3. QED BY <1>1, <1>2 DEF BeginBatch

LEMMA SoundObserves ==
    ASSUME Kept, NEW p \in Conns, NEW iri \in Iris, Observe(p, iri)
    PROVE  Sound(p)'
<1> DEFINE entry == [iri |-> iri, under |-> activations[p]]
<1>1. Sound(p) /\ depth[p] = 1 /\ at[p] = "open"
  BY DEF Kept, Shape, DepthFits, Observe
<1>2. entry \in View
  BY DEF Kept, Shape, TypeOK, View
<1>3. /\ work'[p].log = Append(work[p].log, iri)
      /\ work'[p].views = Append(work[p].views, entry)
      /\ db' = db /\ at' = at
  BY LogTypes DEF Observe, Record, Replay, Kept, Shape, TypeOK, CorpusState
<1>4. Abstract!Extends(work'[p].log, db'.log)
  BY <1>1, <1>3, LogTypes, ExtendsAppend DEF Sound
<1>5. Counted(work[p])
  BY <1>1 DEF Sound
<1>6. Counted(work[p])'
  <2>1. /\ Len(Append(work[p].log, iri)) = Len(work[p].log) + 1
        /\ \A i \in 1..Len(work[p].log) : Append(work[p].log, iri)[i] = work[p].log[i]
        /\ Append(work[p].log, iri)[Len(work[p].log) + 1] = iri
    BY LogTypes, AppendProperties
  <2>2. /\ Len(Append(work[p].views, entry)) = Len(work[p].views) + 1
        /\ \A i \in 1..Len(work[p].views) : Append(work[p].views, entry)[i] = work[p].views[i]
        /\ Append(work[p].views, entry)[Len(work[p].views) + 1] = entry
    BY <1>2, LogTypes, AppendProperties
  <2>3. Len(work[p].log) \in Nat /\ entry.iri = iri
    BY LogTypes
  <2> HIDE DEF entry
  <2>4. Len(work'[p].views) = Len(work'[p].log)
    BY <1>3, <1>5, <2>1, <2>2 DEF Counted
  <2>5. ASSUME NEW i \in 1..Len(work'[p].log)
        PROVE  work'[p].views[i].iri = work'[p].log[i]
    <3>1. i \in 1..Len(work[p].log) \/ i = Len(work[p].log) + 1
      BY <1>3, <2>1, <2>3
    <3>2. QED BY <1>3, <1>5, <2>1, <2>2, <2>3, <3>1 DEF Counted
  <2>6. QED BY <2>4, <2>5 DEF Counted
<1>7. QED BY <1>1, <1>3, <1>4, <1>6 DEF Sound, Tracks

LEMMA SoundObserveFails ==
    ASSUME Kept, NEW p \in Conns, NEW iri \in Iris, ObserveFails(p, iri)
    PROVE  Sound(p)'
<1>1. Sound(p) /\ depth[p] = 1
  BY DEF Kept, Shape, DepthFits, ObserveFails
<1>2. work'[p].log = work[p].log /\ db' = db /\ at'[p] = "failed"
  BY LogTypes DEF ObserveFails, Replay, Kept, Shape, TypeOK, CorpusState
<1>3. QED BY <1>1, <1>2 DEF Sound, Tracks

\* Steps after which no batch of the connection is open and no rebuild of its runs.
LEMMA SoundAtRest ==
    ASSUME NEW p \in Conns, depth'[p] = 0,
           at'[p] \notin {"passes", "install", "installing"}
    PROVE  Sound(p)'
BY DEF Sound, Tracks

LEMMA SoundEnds ==
    ASSUME Kept, NEW p \in Conns,
           EndBatch(p) \/ EndBatchFails(p) \/ AbortBatch(p) \/ Reapply(p) \/ Crash(p)
    PROVE  Sound(p)'
<1>1. depth'[p] = 0
  BY DEF EndBatch, EndBatchFails, AbortBatch, Reapply, Crash, BatchCommit, BatchRollback,
         Kept, Shape, TypeOK, DepthFits
<1>2. at'[p] \in {"idle", "undone"}
  BY DEF EndBatch, EndBatchFails, AbortBatch, Reapply, Crash, Kept, Shape, TypeOK
<1>3. QED BY <1>1, <1>2, SoundAtRest

\* Steps that leave the transaction as it is and no rebuild in progress.
LEMMA SoundUnwritten ==
    ASSUME Kept, NEW p \in Conns,
           UNCHANGED <<db, work, depth>>,
           at'[p] \notin {"passes", "install", "installing"},
           at[p] \in {"failed", "fails"} => depth[p] = 0 \/ at'[p] \in {"failed", "fails"}
    PROVE  Sound(p)'
BY DEF Kept, Sound, Counted, Tracks

LEMMA SoundPlans ==
    ASSUME Kept, NEW p \in Conns,
           \/ \E goal \in Recognizer \union {None} : CallRebuild(p, goal)
           \/ AlreadyActivated(p) \/ PlanRebuild(p) \/ BuildFails(p) \/ LockTimeout(p)
    PROVE  Sound(p)'
<1>1. UNCHANGED <<db, work, depth>>
  BY DEF CallRebuild, AlreadyActivated, PlanRebuild, BuildFails, LockTimeout
<1>2. at'[p] \in {"planned", "open", "idle", "build", "fails"}
  BY DEF CallRebuild, AlreadyActivated, PlanRebuild, BuildFails, LockTimeout, Back,
         Kept, Shape, TypeOK
<1>3. at[p] \notin {"failed", "fails"}
  BY DEF CallRebuild, AlreadyActivated, PlanRebuild, BuildFails, LockTimeout
<1>4. QED BY <1>1, <1>2, <1>3, SoundUnwritten

LEMMA SoundLeaves ==
    ASSUME Kept, NEW p \in Conns, Leave(p)
    PROVE  Sound(p)'
<1>1. UNCHANGED <<db, work, depth>>
  BY DEF Leave
<1>2. at'[p] \in {"build", "failed", "idle", "open"}
  BY DEF Leave, AfterAttempt, Back, Kept, Shape, TypeOK
<1>3. at[p] \in {"failed", "fails"} => depth[p] = 0 \/ at'[p] \in {"failed", "fails"}
  BY DEF Leave, AfterAttempt, Back, Kept, Shape, TypeOK, DepthFits
<1>4. QED BY <1>1, <1>2, <1>3, SoundUnwritten

LEMMA SoundBeginsRebuild ==
    ASSUME Kept, NEW p \in Conns, BeginRebuild(p)
    PROVE  Sound(p)'
<1>1. Sound(p) /\ at[p] = "build"
  BY DEF Kept, BeginRebuild
<1>2. UNCHANGED <<db, work, depth>> /\ at'[p] = "passes"
  BY DEF BeginRebuild, Kept, Shape, TypeOK
<1>3. /\ job'[p].mark = 0 /\ job'[p].views = <<>>
      /\ job'[p].planned = job[p].planned
      /\ activations'[p] = job[p].planned
  BY LogTypes DEF BeginRebuild, Kept, Shape, TypeOK, Job
<1>4. Visible(p)' = Visible(p)
  BY <1>2 DEF Visible
<1>5. Tracks(p)'
  BY <1>2, <1>3, <1>4, LogTypes, ClassifiedNothing DEF Tracks
<1>6. QED BY <1>1, <1>2, <1>5 DEF Sound, Counted

LEMMA SoundReplays ==
    ASSUME Kept, NEW p \in Conns, ReplayPass(p)
    PROVE  Sound(p)'
<1> DEFINE log == Visible(p).log
           views == job[p].views \o Classified(After(log, job[p].mark), activations[p])
<1>1. Sound(p) /\ at[p] = "passes"
  BY DEF Kept, ReplayPass
<1>2. UNCHANGED <<db, work, depth, activations>> /\ at'[p] \in {"passes", "install"}
  BY DEF ReplayPass, Kept, Shape, TypeOK
<1>3. /\ job'[p].mark = Len(log) /\ job'[p].views = views
      /\ job'[p].planned = job[p].planned
  BY LogTypes DEF ReplayPass, Kept, Shape, TypeOK, Job
<1>4. log \in Seq(Iris) /\ job[p].mark \in 0..Len(log)
  BY <1>1, LogTypes DEF Sound, Tracks, Job
<1>5. views = Classified(log, job[p].planned)
  BY <1>1, <1>4, ClassifiedResumes DEF Sound, Tracks
<1>6. Visible(p)' = Visible(p)
  BY <1>2 DEF Visible
<1> HIDE DEF views
<1>7. Tracks(p)'
  <2>1. SubSeq(log, 1, Len(log)) = log /\ Len(log) \in Nat
    BY <1>4, SubSeqFull
  <2>2. Visible(p)'.log = log
    BY <1>6
  <2> HIDE DEF log
  <2>3. activations'[p] = job'[p].planned
    BY <1>1, <1>2, <1>3 DEF Sound, Tracks
  <2>4. job'[p].views = Classified(SubSeq(log, 1, job'[p].mark), job'[p].planned)
    BY <1>3, <1>5, <2>1
  <2>5. job'[p].mark <= Len(log)
    BY <1>3, <2>1
  <2>6. QED BY <2>2, <2>3, <2>4, <2>5 DEF Tracks
<1>8. QED BY <1>1, <1>2, <1>7 DEF Sound, Counted

LEMMA SoundInstallBegins ==
    ASSUME Kept, NEW p \in Conns, InstallBegin(p)
    PROVE  Sound(p)'
<1>1. Sound(p) /\ at[p] = "install" /\ UNCHANGED <<db, job>>
  BY DEF Kept, InstallBegin, BatchBegin, TakeLock, JoinBatch, BeginReadFails
<1>2. CASE TakeLock(p) /\ at' = [at EXCEPT ![p] = "installing"]
  <2>1. /\ depth[p] = 0 /\ depth'[p] = 1
        /\ work'[p] = db /\ at'[p] = "installing"
    BY <1>2 DEF TakeLock, Kept, Shape, TypeOK
  <2>2. Visible(p) = db /\ Visible(p)' = db
    BY <2>1 DEF Visible
  <2>3. Tracks(p)'
    BY <1>1, <2>1, <2>2 DEF Sound, Tracks
  <2>4. QED BY <1>1, <2>1, <2>3, LogTypes, ExtendsItself DEF Kept, Sound, Counted
<1>3. CASE JoinBatch(p) /\ at' = [at EXCEPT ![p] = "installing"]
  <2>1. /\ depth[p] > 0 /\ depth'[p] > 0
        /\ work' = work /\ at'[p] = "installing"
    BY <1>3 DEF JoinBatch, Kept, Shape, TypeOK
  <2>2. Visible(p)' = Visible(p)
    BY <2>1 DEF Visible
  <2>3. QED BY <1>1, <2>1, <2>2 DEF Sound, Counted, Tracks
<1>4. CASE BeginReadFails(p) /\ at' = [at EXCEPT ![p] = "fails"]
  <2>1. depth'[p] = 0 /\ at'[p] = "fails"
    BY <1>4 DEF BeginReadFails, Kept, Shape, TypeOK
  <2>2. QED BY <2>1, SoundAtRest
<1>5. QED BY <1>2, <1>3, <1>4 DEF InstallBegin, BatchBegin

\* An inner rollback keeps what the transaction logged.
LEMMA SoundRollsBack ==
    ASSUME Kept, NEW p \in Conns, NEW written \in CorpusState,
           depth[p] \in 1..2, BatchRollback(p, written),
           written.log = work[p].log,
           at'[p] \in {"held", "stale", "fails"},
           at'[p] # "fails" => at[p] = "installing" /\ written.views = work[p].views
    PROVE  Sound(p)'
<1>1. CASE depth[p] = 1
  <2>1. depth'[p] = 0
    BY <1>1 DEF BatchRollback, Kept, Shape, TypeOK
  <2>2. QED BY <2>1, SoundAtRest
<1>2. CASE depth[p] = 2
  <2>1. work'[p] = written /\ db' = db
    BY <1>2 DEF BatchRollback, Kept, Shape, TypeOK
  <2>2. Sound(p)
    BY DEF Kept
  <2>3. Abstract!Extends(work'[p].log, db'.log)
    BY <1>2, <2>1, <2>2 DEF Sound
  <2>4. at'[p] # "fails" => Counted(work[p])'
    BY <1>2, <2>1, <2>2 DEF Sound, Counted
  <2>5. QED BY <2>3, <2>4 DEF Sound, Tracks
<1>3. QED BY <1>1, <1>2

LEMMA SoundInstallStops ==
    ASSUME Kept, NEW p \in Conns,
           InstallHeld(p) \/ InstallStale(p) \/ InstallFails(p) \/ InstallCommitFails(p)
    PROVE  Sound(p)'
<1>1. depth[p] \in 1..2 /\ work[p] \in CorpusState
  BY DEF Kept, Shape, TypeOK, DepthFits, InstallHeld, InstallStale, InstallFails,
         InstallCommitFails
<1>2. CASE InstallHeld(p) \/ InstallCommitFails(p)
  <2>1. at'[p] \in {"held", "fails"} /\ BatchRollback(p, work[p])
        /\ (at'[p] # "fails" => at[p] = "installing")
    BY <1>2 DEF InstallHeld, InstallCommitFails, Kept, Shape, TypeOK
  <2>2. QED BY <1>1, <2>1, SoundRollsBack
<1>3. CASE InstallStale(p)
  <2> DEFINE written == [work[p] EXCEPT !.acts = Recorded(work[p].acts, job[p].goal)]
  <2>1. Recorded(work[p].acts, job[p].goal) \in SUBSET Recognizer
    BY <1>1, LogTypes, RecordedType DEF CorpusState, Job
  <2>2. written \in CorpusState /\ written.log = work[p].log /\ written.views = work[p].views
    BY <1>1, <2>1 DEF CorpusState
  <2>3. at'[p] = "stale" /\ at[p] = "installing" /\ BatchRollback(p, written)
    BY <1>3 DEF InstallStale, Kept, Shape, TypeOK
  <2> HIDE DEF written
  <2>4. QED BY <1>1, <2>2, <2>3, SoundRollsBack
<1>4. CASE InstallFails(p)
  <2> DEFINE written == [work[p] EXCEPT !.views = <<>>]
  <2>1. written \in CorpusState /\ written.log = work[p].log
    BY <1>1, EmptyType DEF CorpusState
  <2>2. at'[p] = "fails" /\ BatchRollback(p, written)
    BY <1>4 DEF InstallFails, Kept, Shape, TypeOK
  <2> HIDE DEF written
  <2>3. QED BY <1>1, <2>1, <2>2, SoundRollsBack
<1>5. QED BY <1>2, <1>3, <1>4

\* The install writes the whole log's views, under the stored recognizers.
LEMMA InstallWrites ==
    ASSUME Kept, NEW p \in Conns, Install(p)
    PROVE  /\ work'[p].log = work[p].log
           /\ work'[p].acts = Recorded(work[p].acts, job[p].goal)
           /\ activations'[p] = StoredList(work'[p].acts)
           /\ StoredList(work'[p].acts) = job[p].planned
           /\ work'[p].views = Classified(work[p].log, job[p].planned)
<1> DEFINE acts == Recorded(work[p].acts, job[p].goal)
           views == job[p].views \o Classified(CatchUp(p), StoredList(acts))
<1>1. depth[p] > 0 /\ Visible(p) = work[p] /\ Sound(p) /\ at[p] = "installing"
  BY DEF Kept, Shape, DepthFits, TypeOK, Install, Visible
<1>2. StoredList(acts) = job[p].planned
  BY DEF Install, SamePlan
<1>3. job[p].mark \in 0..Len(work[p].log)
  BY <1>1, LogTypes DEF Sound, Tracks, Job
<1>4. job[p].views = Classified(SubSeq(work[p].log, 1, job[p].mark), job[p].planned)
  BY <1>1 DEF Sound, Tracks
<1>5. views = Classified(work[p].log, job[p].planned)
  BY <1>2, <1>3, <1>4, LogTypes, ClassifiedResumes DEF CatchUp
<1>6. /\ work' = [work EXCEPT ![p] = [work[p] EXCEPT !.acts = acts, !.views = views]]
      /\ activations' = [activations EXCEPT ![p] = StoredList(acts)]
  BY DEF Install
<1> HIDE DEF acts, views
<1>7. /\ work'[p].log = work[p].log /\ work'[p].acts = acts /\ work'[p].views = views
      /\ activations'[p] = StoredList(acts)
  BY <1>6, LogTypes DEF Kept, Shape, TypeOK, CorpusState
<1>8. QED BY <1>2, <1>5, <1>7 DEF acts

LEMMA ReplayedIsCounted ==
    ASSUME NEW state, NEW list, state.log \in Seq(Iris),
           state.views = Classified(state.log, list)
    PROVE  Counted(state)
<1> DEFINE log == state.log
<1>1. Len(Classified(log, list)) = Len(log)
  BY DEF Classified
<1>2. \A i \in 1..Len(log) : Classified(log, list)[i].iri = log[i]
  BY DEF Classified
<1>3. QED BY <1>1, <1>2 DEF Counted

LEMMA SoundInstalls ==
    ASSUME Kept, NEW p \in Conns, Install(p)
    PROVE  Sound(p)'
<1>1. Sound(p) /\ depth[p] > 0 /\ UNCHANGED <<db, depth>> /\ at'[p] = "installed"
  BY DEF Kept, Shape, DepthFits, TypeOK, Install
<1>2. Counted(work[p])'
  <2>1. work'[p].log = work[p].log /\ work[p].log \in Seq(Iris)
        /\ work'[p].views = Classified(work[p].log, job[p].planned)
    BY InstallWrites, LogTypes
  <2>2. QED BY <2>1, ReplayedIsCounted
<1>3. Abstract!Extends(work'[p].log, db'.log)
  BY <1>1, InstallWrites DEF Sound
<1>4. QED BY <1>1, <1>2, <1>3 DEF Sound, Tracks

LEMMA SoundInstallCommits ==
    ASSUME Kept, NEW p \in Conns, InstallCommit(p)
    PROVE  Sound(p)'
<1>1. Sound(p) /\ at[p] = "installed" /\ at'[p] = "done" /\ depth[p] \in 1..2
  BY DEF Kept, Shape, DepthFits, TypeOK, InstallCommit
<1>2. CASE depth[p] = 1
  <2>1. depth'[p] = 0
    BY <1>2 DEF InstallCommit, BatchCommit, Kept, Shape, TypeOK
  <2>2. QED BY <1>1, <2>1, SoundAtRest
<1>3. CASE depth[p] = 2
  <2>1. UNCHANGED <<db, work>>
    BY <1>3 DEF InstallCommit, BatchCommit
  <2>2. QED BY <1>1, <1>3, <2>1 DEF Sound, Counted, Tracks
<1>4. QED BY <1>1, <1>2, <1>3

-----------------------------------------------------------------------------
(* The invariant is inductive, and what follows from it. *)

LEMMA KeptByRequest ==
    ASSUME Kept, NEW p \in Conns, Request(p)
    PROVE  Sound(p)'
BY SoundBegins, SoundObserves, SoundObserveFails, SoundPlans, SoundEnds DEF Request

LEMMA KeptByProceed ==
    ASSUME Kept, NEW p \in Conns, Proceed(p)
    PROVE  Sound(p)'
BY SoundEnds, SoundPlans, SoundBeginsRebuild, SoundReplays, SoundInstallBegins,
   SoundInstallStops, SoundInstalls, SoundInstallCommits, SoundLeaves
DEF Proceed

LEMMA KeptStep == Kept /\ [Next]_vars => Kept' /\ Abstract!Extends(db'.log, db.log)
<1> SUFFICES ASSUME Kept, [Next]_vars
             PROVE  Kept' /\ Abstract!Extends(db'.log, db.log)
  OBVIOUS
<1>1. Shape'
  BY ShapeStep DEF Kept
<1>2. CASE UNCHANGED vars
  <2>1. Counted(db)' /\ \A p \in Conns : Sound(p)'
    BY <1>2 DEF vars, Kept, Counted, Sound, Tracks, Visible
  <2>2. db.log \in Seq(Iris)
    BY DEF Kept, Shape, TypeOK, CorpusState
  <2>3. QED BY <1>1, <1>2, <2>1, <2>2, ExtendsItself DEF vars, Kept
<1>3. ASSUME NEW p \in Conns, Request(p) \/ Proceed(p)
      PROVE  Kept' /\ Abstract!Extends(db'.log, db.log)
  <2>1. db' = db \/ Commits(p)
    BY <1>3, OnlyCommitsChangeDb DEF Kept
  <2>2. Sound(p)'
    BY <1>3, KeptByRequest, KeptByProceed
  <2>3. ASSUME NEW q \in Conns \ {p} PROVE Sound(q)'
    <3>1. Untouched(q)
      BY <1>3, RequestIsOwn, ProceedIsOwn DEF Kept
    <3>2. QED BY <1>1, <2>1, <3>1, OthersStaySound
  <2>4. QED BY <1>1, <2>1, <2>2, <2>3, CommittedLog DEF Kept
<1>4. QED BY <1>2, <1>3 DEF Next

LEMMA KeptAlways == Spec => []Kept
<1>1. QED BY KeptInit, KeptStep, PTL DEF Spec

\* Whatever fails, every logged observation is counted in the views once, in
\* order, and nothing else is (corpus.rs `observe_iri`, `rebuild`).
THEOREM ObservationsCounted == Spec => []EveryObservationCounted
<1>1. Kept => EveryObservationCounted
  BY DEF Kept, Counted, EveryObservationCounted
<1>2. QED BY <1>1, KeptAlways, PTL

\* A rebuild in progress is the log replayed through its mark with the planned
\* recognizers, whatever other connections commit meanwhile (corpus.rs `build_views`).
THEOREM RebuildsTrackLog == Spec => []RebuildTracksLog
<1>1. Kept => RebuildTracksLog
  BY DEF Kept, Sound, Tracks, RebuildTracksLog
<1>2. QED BY <1>1, KeptAlways, PTL

\* No commit, failure or crash takes back an observation another commit made
\* (storage_sqlite.rs `batch_begin`, `batch_commit`).
THEOREM CommittedLogKept == Spec => LogKept
<1>1. Kept /\ [Next]_vars => [IsPrefix(db.log, db'.log)]_db
  <2> SUFFICES ASSUME Kept, [Next]_vars PROVE IsPrefix(db.log, db'.log)
    OBVIOUS
  <2>1. Kept' /\ Abstract!Extends(db'.log, db.log)
    BY KeptStep
  <2>2. db.log \in Seq(Iris) /\ db'.log \in Seq(Iris)
    BY <2>1 DEF Kept, Shape, TypeOK, CorpusState
  <2>3. QED BY <2>1, <2>2, ExtendsPrefix
<1>2. QED BY <1>1, KeptAlways, PTL DEF Spec, LogKept

-----------------------------------------------------------------------------
(* Undisturbed. *)

\* Neither of the faults that break these promises.
Undisturbed == ~NestedActivation /\ ~ReadFaults

-----------------------------------------------------------------------------
(* The views and the classifiers: the invariant. *)

\* A rebuild inside a batch.
Nested(p) ==
    \/ depth[p] = 2
    \/ /\ depth[p] = 1
       /\ at[p] \in {"planned", "build", "passes", "install",
                     "done", "held", "stale", "fails"}

\* A rebuild of its own, holding the write lock.
Alone(p) == depth[p] = 1 /\ at[p] \in {"installing", "installed"}

\* A transaction not about to be rolled back holds views that match its log.
OpenMatches(p) ==
    depth[p] > 0 /\ at[p] \notin {"failed", "fails"} => Matches(work[p])

\* A batch, and a connection nobody has outrun, classify with what is stored.
Follows(p) ==
    /\ at[p] = "open" => activations[p] = StoredList(work[p].acts)
    /\ at[p] \in {"idle", "planned"} /\ depth[p] = 0 /\ p \notin moved =>
         activations[p] = StoredList(db.acts)

\* A batch adds observations only, a rebuild of its own at most one activation.
AddsOne(p) ==
    /\ Nested(p) => job[p].goal = None
    /\ depth[p] > 0 /\ ~(Alone(p) /\ at[p] = "installed") => work[p].acts = db.acts
    /\ Alone(p) => work[p].log = db.log
    /\ Alone(p) /\ at[p] = "installed" =>
         /\ ~HasActivated(db.acts, job[p].goal)
         /\ work[p].acts = Recorded(db.acts, job[p].goal)

Agrees(p) == OpenMatches(p) /\ Follows(p) /\ AddsOne(p)

Agreed ==
    /\ Kept
    /\ Matches(db)
    /\ \A p \in Conns : Agrees(p)

LEMMA AgreedInit == Init => Agreed
<1> SUFFICES ASSUME Init PROVE Agreed
  OBVIOUS
<1>1. Matches(db)
  BY DEF Init, Matches, Classified, EmptyDb
<1>2. \A p \in Conns : Agrees(p)
  BY DEF Init, Agrees, OpenMatches, Follows, AddsOne, Nested, Alone
<1>3. QED BY <1>1, <1>2, KeptInit DEF Agreed

LEMMA CommitsMatch ==
    ASSUME Agreed, NEW p \in Conns, db' = db \/ Commits(p)
    PROVE  Matches(db)'
BY DEF Agreed, Agrees, OpenMatches, Commits, Matches

-----------------------------------------------------------------------------
(* What a step of one connection means to the others. *)

\* Another connection's commit is noticed: `data_version` changed.
Noticed(q) ==
    /\ q \in moved => q \in moved'
    /\ db' = db \/ q \in moved'

LEMMA OthersNotice ==
    ASSUME Kept, NEW p \in Conns, NEW q \in Conns \ {p}, Request(p) \/ Proceed(p)
    PROVE  Noticed(q)
<1>1. CASE Request(p)
  BY <1>1 DEF Request, BeginBatch, TakeLock, BeginReadFails, Observe, ObserveFails,
              CallRebuild, Crash, Noticed
<1>2. CASE EndBatch(p) \/ InstallCommit(p)
  BY <1>2 DEF EndBatch, InstallCommit, BatchCommit, Noticed
<1>3. CASE /\ Proceed(p)
           /\ ~EndBatch(p)
           /\ ~InstallCommit(p)
  BY <1>3 DEF Proceed, EndBatchFails, AbortBatch, Reapply, AlreadyActivated,
              PlanRebuild, BeginRebuild, ReplayPass, BuildFails, InstallBegin, BatchBegin,
              TakeLock, JoinBatch, BeginReadFails, LockTimeout, InstallHeld, InstallStale,
              Install, InstallFails, InstallCommitFails, BatchRollback, Leave, Noticed
<1>4. QED BY <1>1, <1>2, <1>3

LEMMA OthersStayAgreed ==
    ASSUME Agreed, NEW p \in Conns, db' = db \/ Commits(p),
           NEW q \in Conns \ {p}, Untouched(q), Noticed(q)
    PROVE  Agrees(q)'
<1> USE DEF Untouched, Noticed
<1>1. Agrees(q)
  BY DEF Agreed
<1>2. CASE db' = db
  BY <1>1, <1>2 DEF Agrees, OpenMatches, Matches, Follows, AddsOne, Nested, Alone
<1>3. CASE Commits(p)
  <2>1. depth[q] = 0 /\ at[q] # "open"
    BY <1>3 DEF Commits, Agreed, Kept, Shape, TypeOK, DepthFits
  <2>2. Follows(q)'
    BY <1>1, <2>1 DEF Agrees, Follows
  <2>3. QED BY <2>1, <2>2 DEF Agrees, OpenMatches, AddsOne, Nested, Alone
<1>4. QED BY <1>2, <1>3

-----------------------------------------------------------------------------
(* What a step means to the connection that takes it. *)

LEMMA AgreesAtRest ==
    ASSUME NEW p \in Conns, depth'[p] = 0, at'[p] \notin {"idle", "planned", "open"}
    PROVE  Agrees(p)'
BY DEF Agrees, OpenMatches, Follows, AddsOne, Nested, Alone

LEMMA AgreesWhenIdle ==
    ASSUME NEW p \in Conns, depth'[p] = 0, at'[p] \in {"idle", "planned"},
           activations'[p] = StoredList(db'.acts) \/ p \in moved'
    PROVE  Agrees(p)'
BY DEF Agrees, OpenMatches, Follows, AddsOne, Nested, Alone

LEMMA AgreesBegins ==
    ASSUME Undisturbed, Agreed, NEW p \in Conns, BeginBatch(p)
    PROVE  Agrees(p)'
<1>1. TakeLock(p) /\ at' = [at EXCEPT ![p] = "open"]
  BY DEF Undisturbed, BeginBatch, BeginReadFails
<1>2. /\ depth[p] = 0 /\ at[p] = "idle" /\ db' = db
      /\ work'[p] = db /\ at'[p] = "open" /\ depth'[p] = 1
  BY <1>1 DEF BeginBatch, TakeLock, Agreed, Kept, Shape, TypeOK
<1>3. activations'[p] = StoredList(db.acts)
  BY <1>1, <1>2 DEF TakeLock, Changed, Agreed, Agrees, Follows, Kept, Shape, TypeOK
<1>4. QED BY <1>2, <1>3
          DEF Agreed, Agrees, OpenMatches, Matches, Follows, AddsOne, Nested, Alone

LEMMA AgreesObserves ==
    ASSUME Agreed, NEW p \in Conns, NEW iri \in Iris, Observe(p, iri)
    PROVE  Agrees(p)'
<1> DEFINE list == StoredList(work[p].acts)
           entry == [iri |-> iri, under |-> list]
<1>1. Agrees(p) /\ depth[p] = 1 /\ at[p] = "open"
  BY DEF Agreed, Kept, Shape, DepthFits, Observe
<1>2. activations[p] = list /\ work[p].views = Classified(work[p].log, list)
  BY <1>1 DEF Agrees, Follows, OpenMatches, Matches
<1>3. work' = [work EXCEPT ![p] = Record(Replay(work[p], iri, list), iri)]
  BY <1>2 DEF Observe
<1>4. UNCHANGED <<db, at, depth, activations, moved, job>>
  BY DEF Observe
<1>5. /\ work'[p].log = Append(work[p].log, iri)
      /\ work'[p].views = Append(work[p].views, entry)
      /\ work'[p].acts = work[p].acts
  BY <1>3, LogTypes DEF Record, Replay, Agreed, Kept, Shape, TypeOK, CorpusState
<1>6. work'[p].views = Classified(work'[p].log, list)
  BY <1>2, <1>5, LogTypes, ClassifiedAppend DEF Agreed
<1>7. QED BY <1>1, <1>4, <1>5, <1>6
          DEF Agrees, OpenMatches, Matches, Follows, AddsOne, Nested, Alone

LEMMA AgreesObserveFails ==
    ASSUME Agreed, NEW p \in Conns, NEW iri \in Iris, ObserveFails(p, iri)
    PROVE  Agrees(p)'
<1>1. Agrees(p) /\ depth[p] = 1 /\ at[p] = "open"
  BY DEF Agreed, Kept, Shape, DepthFits, ObserveFails
<1>2. /\ work'[p].log = work[p].log /\ work'[p].acts = work[p].acts
      /\ at'[p] = "failed"
      /\ UNCHANGED <<db, depth, activations, moved, job>>
  BY LogTypes DEF ObserveFails, Replay, Agreed, Kept, Shape, TypeOK, CorpusState
<1>3. QED BY <1>1, <1>2 DEF Agrees, OpenMatches, Follows, AddsOne, Nested, Alone

LEMMA AgreesEnds ==
    ASSUME Undisturbed, Agreed, NEW p \in Conns,
           EndBatch(p) \/ EndBatchFails(p) \/ AbortBatch(p) \/ Reapply(p) \/ Crash(p)
    PROVE  Agrees(p)'
<1> USE DEF Agreed, Kept, Shape, TypeOK
<1>1. depth'[p] = 0
  BY DEF EndBatch, EndBatchFails, AbortBatch, Reapply, Crash, BatchCommit, BatchRollback,
         DepthFits
<1>2. CASE EndBatch(p) \/ EndBatchFails(p)
  <2>1. /\ at[p] = "open" /\ depth[p] = 1 /\ at'[p] = "idle"
        /\ activations' = activations
    BY <1>2 DEF EndBatch, EndBatchFails, DepthFits
  <2>2. db'.acts = work[p].acts
    BY <1>2, <2>1 DEF EndBatch, EndBatchFails, BatchCommit, BatchRollback, Agrees, AddsOne, Alone
  <2>3. QED BY <1>1, <2>1, <2>2, AgreesWhenIdle DEF Agrees, Follows
<1>3. CASE AbortBatch(p)
  <2>1. at'[p] = "undone"
    BY <1>3 DEF AbortBatch
  <2>2. QED BY <1>1, <2>1, AgreesAtRest
<1>4. CASE Reapply(p) \/ Crash(p)
  <2>1. at'[p] = "idle" /\ activations'[p] = StoredList(db'.acts)
    BY <1>4 DEF Undisturbed, Reapply, Crash
  <2>2. QED BY <1>1, <2>1, AgreesWhenIdle
<1>5. QED BY <1>2, <1>3, <1>4

LEMMA AgreesCallsRebuild ==
    ASSUME Undisturbed, Agreed, NEW p \in Conns, NEW goal \in Recognizer \union {None},
           CallRebuild(p, goal)
    PROVE  Agrees(p)'
<1>1. /\ at[p] \in {"idle", "open"} /\ at'[p] = "planned"
      /\ job'[p].goal = goal
      /\ UNCHANGED <<db, work, depth, activations, moved>>
  BY DEF CallRebuild, NoJob, Agreed, Kept, Shape, TypeOK
<1>2. Agrees(p) /\ depth[p] \in 0..1 /\ (depth[p] = 1 => goal = None)
  BY <1>1 DEF Undisturbed, CallRebuild, Agreed, Kept, Shape, DepthFits
<1>3. CASE depth[p] = 0
  BY <1>1, <1>2, <1>3
  DEF Agrees, OpenMatches, Matches, Follows, AddsOne, Nested, Alone, Agreed, Kept, Shape, DepthFits
<1>4. CASE depth[p] = 1
  BY <1>1, <1>2, <1>4 DEF Agrees, OpenMatches, Matches, Follows, AddsOne, Nested, Alone
<1>5. QED BY <1>2, <1>3, <1>4

LEMMA AgreesAlreadyActivated ==
    ASSUME Agreed, NEW p \in Conns, AlreadyActivated(p)
    PROVE  Agrees(p)'
<1>1. Agrees(p) /\ at[p] = "planned" /\ job[p].goal # None /\ depth[p] \in 0..1
  BY DEF Agreed, Kept, Shape, DepthFits, AlreadyActivated, HasActivated
<1>2. depth[p] = 0
  BY <1>1 DEF Agrees, AddsOne, Nested
<1>3. /\ at'[p] = "idle" /\ depth'[p] = 0
      /\ UNCHANGED <<db, activations, moved>>
  BY <1>2 DEF AlreadyActivated, Back, Agreed, Kept, Shape, TypeOK
<1>4. QED BY <1>1, <1>2, <1>3, AgreesWhenIdle DEF Agrees, Follows

\* Steps of a rebuild that only read the corpus.
LEMMA AgreesUnwritten ==
    ASSUME Agreed, NEW p \in Conns,
           PlanRebuild(p) \/ BeginRebuild(p) \/ ReplayPass(p)
           \/ BuildFails(p) \/ LockTimeout(p)
    PROVE  Agrees(p)'
<1>1. /\ at[p] \in {"planned", "build", "passes", "install"}
      /\ at'[p] \in {"build", "passes", "install", "fails"}
      /\ UNCHANGED <<db, work, depth, moved>>
  BY DEF PlanRebuild, BeginRebuild, ReplayPass, BuildFails, LockTimeout,
         Agreed, Kept, Shape, TypeOK
<1>2. job'[p].goal = job[p].goal
  <2> USE LogTypes DEF Agreed, Kept, Shape, TypeOK, Job
  <2>1. CASE PlanRebuild(p)
    BY <2>1 DEF PlanRebuild
  <2>2. CASE BeginRebuild(p)
    BY <2>2 DEF BeginRebuild
  <2>3. CASE ReplayPass(p)
    BY <2>3 DEF ReplayPass
  <2>4. CASE BuildFails(p) \/ LockTimeout(p)
    BY <2>4 DEF BuildFails, LockTimeout
  <2>5. QED BY <2>1, <2>2, <2>3, <2>4
<1>3. Agrees(p) /\ depth[p] \in 0..1
  BY <1>1 DEF Agreed, Kept, Shape, DepthFits
<1>4. QED BY <1>1, <1>2, <1>3 DEF Agrees, OpenMatches, Matches, Follows, AddsOne, Nested, Alone

LEMMA AgreesInstallBegins ==
    ASSUME Undisturbed, Agreed, NEW p \in Conns, InstallBegin(p)
    PROVE  Agrees(p)'
<1>1. Agrees(p) /\ at[p] = "install" /\ UNCHANGED <<db, job>> /\ at'[p] = "installing"
  BY DEF Undisturbed, Agreed, InstallBegin, BatchBegin, TakeLock, JoinBatch, BeginReadFails,
         Kept, Shape, TypeOK
<1>2. CASE TakeLock(p)
  <2>1. work'[p] = db /\ depth'[p] = 1
    BY <1>2 DEF TakeLock, Agreed, Kept, Shape, TypeOK
  <2>2. QED BY <1>1, <2>1
            DEF Agreed, Agrees, OpenMatches, Matches, Follows, AddsOne, Nested, Alone
<1>3. CASE JoinBatch(p)
  <2>1. depth[p] = 1 /\ depth'[p] = 2 /\ work' = work
    BY <1>1, <1>3 DEF JoinBatch, Agreed, Kept, Shape, TypeOK, DepthFits
  <2>2. QED BY <1>1, <2>1
            DEF Agrees, OpenMatches, Matches, Follows, AddsOne, Nested, Alone
<1>4. QED BY <1>2, <1>3 DEF Undisturbed, InstallBegin, BatchBegin, BeginReadFails

LEMMA AgreesInstallStops ==
    ASSUME Agreed, NEW p \in Conns,
           InstallHeld(p) \/ InstallStale(p) \/ InstallFails(p) \/ InstallCommitFails(p)
    PROVE  Agrees(p)'
<1>1. /\ Agrees(p) /\ depth[p] \in 1..2 /\ work[p] \in CorpusState
      /\ at[p] \in {"installing", "installed"}
      /\ at'[p] \in {"held", "stale", "fails"}
  BY DEF Agreed, Kept, Shape, TypeOK, DepthFits, InstallHeld, InstallStale, InstallFails,
         InstallCommitFails
<1>2. job'[p].goal = job[p].goal
  BY LogTypes DEF InstallHeld, InstallStale, InstallFails, InstallCommitFails,
         Agreed, Kept, Shape, TypeOK, Job
<1>3. CASE depth[p] = 1
  <2>1. depth'[p] = 0
    BY <1>3 DEF InstallHeld, InstallStale, InstallFails, InstallCommitFails, BatchRollback,
                Agreed, Kept, Shape, TypeOK
  <2>2. QED BY <1>1, <2>1, AgreesAtRest
<1>4. CASE depth[p] = 2
  <2>1. job[p].goal = None /\ work[p].acts = db.acts
    BY <1>1, <1>4 DEF Agrees, AddsOne, Nested, Alone
  <2>2. CASE InstallStale(p)
    <3> DEFINE written == [work[p] EXCEPT !.acts = Recorded(work[p].acts, job[p].goal)]
    <3>1. written.acts = work[p].acts /\ written.log = work[p].log
          /\ written.views = work[p].views
      BY <1>1, <2>1 DEF Recorded, CorpusState
    <3>2. BatchRollback(p, written) /\ at[p] = "installing" /\ at'[p] = "stale"
      BY <2>2 DEF InstallStale, Agreed, Kept, Shape, TypeOK
    <3> HIDE DEF written
    <3>3. work'[p] = written /\ depth'[p] = 1 /\ db' = db
      BY <1>4, <3>2 DEF BatchRollback, Agreed, Kept, Shape, TypeOK
    <3>4. QED BY <1>1, <1>2, <1>4, <2>1, <3>1, <3>2, <3>3
              DEF Agrees, OpenMatches, Matches, Follows, AddsOne, Nested, Alone
  <2>3. CASE InstallFails(p)
    <3>1. /\ work'[p].acts = work[p].acts /\ at'[p] = "fails"
          /\ depth'[p] = 1 /\ db' = db
      BY <1>1, <1>4, <2>3 DEF InstallFails, BatchRollback, Agreed, Kept, Shape, TypeOK, CorpusState
    <3>2. QED BY <1>2, <2>1, <3>1 DEF Agrees, OpenMatches, Follows, AddsOne, Nested, Alone
  <2>4. ~InstallHeld(p) /\ ~InstallCommitFails(p)
    BY <1>4, <2>1 DEF InstallHeld, HasActivated, InstallCommitFails
  <2>5. QED BY <2>2, <2>3, <2>4
<1>5. QED BY <1>1, <1>3, <1>4

LEMMA AgreesInstalls ==
    ASSUME Agreed, NEW p \in Conns, Install(p)
    PROVE  Agrees(p)'
<1>1. /\ Agrees(p) /\ at[p] = "installing" /\ at'[p] = "installed"
      /\ depth[p] \in 1..2 /\ UNCHANGED <<db, depth, moved, job>>
  BY DEF Agreed, Kept, Shape, TypeOK, DepthFits, Install
<1>2. work[p].acts = db.acts /\ ~HasActivated(work[p].acts, job[p].goal)
  BY <1>1 DEF Agrees, AddsOne, Alone, Install
<1>3. /\ work'[p].log = work[p].log
      /\ work'[p].acts = Recorded(work[p].acts, job[p].goal)
      /\ StoredList(work'[p].acts) = job[p].planned
      /\ work'[p].views = Classified(work[p].log, job[p].planned)
  BY InstallWrites DEF Agreed
<1>4. Matches(work[p])'
  BY <1>3 DEF Matches
<1>5. CASE depth[p] = 1
  BY <1>1, <1>2, <1>3, <1>4, <1>5 DEF Agrees, OpenMatches, Follows, AddsOne, Nested, Alone
<1>6. CASE depth[p] = 2
  <2>1. job[p].goal = None
    BY <1>1, <1>6 DEF Agrees, AddsOne, Nested
  <2>2. work'[p].acts = db.acts
    BY <1>2, <1>3, <2>1 DEF Recorded
  <2>3. QED BY <1>1, <1>4, <1>6, <2>1, <2>2
            DEF Agrees, OpenMatches, Follows, AddsOne, Nested, Alone
<1>7. QED BY <1>1, <1>5, <1>6

LEMMA AgreesInstallCommits ==
    ASSUME Agreed, NEW p \in Conns, InstallCommit(p)
    PROVE  Agrees(p)'
<1>1. /\ Agrees(p) /\ at[p] = "installed" /\ at'[p] = "done" /\ depth[p] \in 1..2
      /\ UNCHANGED <<activations, job>>
  BY DEF Agreed, Kept, Shape, DepthFits, TypeOK, InstallCommit
<1>2. depth'[p] = depth[p] - 1
  BY DEF InstallCommit, BatchCommit, Agreed, Kept, Shape, TypeOK
<1>3. CASE depth[p] = 1
  BY <1>1, <1>2, <1>3, AgreesAtRest
<1>4. CASE depth[p] = 2
  <2>1. UNCHANGED <<db, work, moved>>
    BY <1>4 DEF InstallCommit, BatchCommit
  <2>2. QED BY <1>1, <1>2, <1>4, <2>1
            DEF Agrees, OpenMatches, Matches, Follows, AddsOne, Nested, Alone
<1>5. QED BY <1>1, <1>3, <1>4

LEMMA AgreesLeaves ==
    ASSUME Undisturbed, Agreed, NEW p \in Conns, Leave(p)
    PROVE  Agrees(p)'
<1>1. /\ Agrees(p) /\ depth[p] \in 0..1
      /\ at[p] \in {"done", "held", "stale", "fails"}
      /\ UNCHANGED <<db, work, depth, moved>>
  BY DEF Agreed, Kept, Shape, DepthFits, Leave
<1>2. activations'[p] = StoredList(Visible(p).acts)
  BY DEF Undisturbed, Leave, Agreed, Kept, Shape, TypeOK
<1>3. at'[p] = AfterAttempt(p, at[p])
  BY DEF Undisturbed, Leave, Agreed, Kept, Shape, TypeOK
<1>4. CASE depth[p] = 0
  <2>1. at'[p] \in {"build", "idle"} /\ activations'[p] = StoredList(db'.acts)
    BY <1>1, <1>2, <1>3, <1>4 DEF AfterAttempt, Back, Visible
  <2>2. QED BY <1>1, <1>4, <2>1, AgreesAtRest, AgreesWhenIdle
<1>5. CASE depth[p] = 1
  <2>1. job'[p].goal = None
    <3>1. job[p].goal = None
      BY <1>1, <1>5 DEF Agrees, AddsOne, Nested
    <3> DEFINE again == [job[p] EXCEPT !.views = <<>>, !.mark = 0, !.last = 0]
    <3>2. again.goal = job[p].goal
      BY LogTypes DEF Agreed, Job
    <3>3. job' = [job EXCEPT ![p] = again] \/ job' = [job EXCEPT ![p] = NoJob]
      BY DEF Leave
    <3> HIDE DEF again
    <3>4. job'[p] = again \/ job'[p] = NoJob
      BY <3>3 DEF Agreed, Kept, Shape, TypeOK
    <3>5. QED BY <3>1, <3>2, <3>4 DEF NoJob
  <2>2. activations'[p] = StoredList(work[p].acts)
    BY <1>2, <1>5 DEF Visible
  <2>3. at'[p] \in {"build", "failed", "open"} /\ (at'[p] # "failed" => at[p] # "fails")
    BY <1>1, <1>3, <1>5 DEF AfterAttempt, Back
  <2>4. OpenMatches(p)'
    BY <1>1, <1>5, <2>3 DEF Agrees, OpenMatches, Matches
  <2>5. Follows(p)'
    BY <1>1, <1>5, <2>2, <2>3 DEF Follows
  <2>6. AddsOne(p)'
    BY <1>1, <1>5, <2>1, <2>3 DEF Agrees, AddsOne, Nested, Alone
  <2>7. QED BY <2>4, <2>5, <2>6 DEF Agrees
<1>6. QED BY <1>1, <1>4, <1>5

-----------------------------------------------------------------------------
(* The invariant is inductive. *)

LEMMA AgreedByRequest ==
    ASSUME Undisturbed, Agreed, NEW p \in Conns, Request(p)
    PROVE  Agrees(p)'
BY AgreesBegins, AgreesObserves, AgreesObserveFails, AgreesCallsRebuild, AgreesEnds DEF Request

LEMMA AgreedByProceed ==
    ASSUME Undisturbed, Agreed, NEW p \in Conns, Proceed(p)
    PROVE  Agrees(p)'
BY AgreesEnds, AgreesAlreadyActivated, AgreesUnwritten, AgreesInstallBegins,
   AgreesInstallStops, AgreesInstalls, AgreesInstallCommits, AgreesLeaves
DEF Proceed

LEMMA AgreedStep ==
    ASSUME Undisturbed, Agreed, [Next]_vars
    PROVE  Agreed'
<1>1. Kept'
  BY KeptStep DEF Agreed
<1>2. CASE UNCHANGED vars
  BY <1>1, <1>2 DEF vars, Agreed, Matches, Agrees, OpenMatches, Follows, AddsOne, Nested, Alone
<1>3. ASSUME NEW p \in Conns, Request(p) \/ Proceed(p) PROVE Agreed'
  <2>1. db' = db \/ Commits(p)
    BY <1>3, OnlyCommitsChangeDb DEF Agreed, Kept
  <2>2. Agrees(p)'
    BY <1>3, AgreedByRequest, AgreedByProceed
  <2>3. ASSUME NEW q \in Conns \ {p} PROVE Agrees(q)'
    <3>1. Untouched(q)
      BY <1>3, RequestIsOwn, ProceedIsOwn DEF Agreed, Kept
    <3>2. Noticed(q)
      BY <1>3, OthersNotice DEF Agreed
    <3>3. QED BY <2>1, <3>1, <3>2, OthersStayAgreed
  <2>4. QED BY <1>1, <2>1, <2>2, <2>3, CommitsMatch DEF Agreed
<1>4. QED BY <1>2, <1>3 DEF Next

\* Where nothing disturbs it, the invariant holds throughout.
LEMMA AgreedAlways ==
    ASSUME Undisturbed
    PROVE  Spec => []Agreed
<1>1. Init => Agreed
  BY AgreedInit
<1>2. Agreed /\ [Next]_vars => Agreed'
  BY AgreedStep
<1>3. QED BY <1>1, <1>2, PTL DEF Spec

\* Every committed state's views are its log replayed with its recognizers
\* (corpus.rs `observe_iri`, `install_views`).
THEOREM ViewsAlwaysMatchLog ==
    ASSUME Undisturbed
    PROVE  Spec => []ViewsMatchLog
<1>1. Agreed => ViewsMatchLog
  BY DEF Agreed, ViewsMatchLog
<1>2. QED BY <1>1, AgreedAlways, PTL

\* A batch always classifies with the stored recognizers (corpus.rs `transaction`,
\* `reapply_activated_recognizers`).
THEOREM ClassifierAlwaysCurrent ==
    ASSUME Undisturbed
    PROVE  Spec => []ClassifierCurrent
<1>1. Agreed => ClassifierCurrent
  BY DEF Agreed, Agrees, Follows, ClassifierCurrent
<1>2. QED BY <1>1, AgreedAlways, PTL

-----------------------------------------------------------------------------
(* The abstract corpus. *)

\* A commit is one batch or one activation of the abstract corpus.
LEMMA CommitIsAbstract ==
    ASSUME Agreed, Kept', NEW p \in Conns, Commits(p)
    PROVE  Abstract!Next
<1>1. Matches(db)' /\ db'.log \in Seq(Iris)
  BY CommitsMatch DEF Kept, Shape, TypeOK, CorpusState
<1>2. Abstract!Extends(db'.log, db.log)
  BY CommittedLog DEF Agreed
<1>3. db'.views = Abstract!Replayed(db'.log, StoredList(db'.acts))
  BY <1>1 DEF Matches, Classified, Abstract!Replayed
<1>4. Agrees(p) /\ db' = work[p] /\ depth[p] = 1
  BY DEF Agreed, Commits
<1>5. CASE db'.acts = db.acts
  <2>1. Abstract!CommitBatch
    BY <1>1, <1>2, <1>3, <1>5 DEF Abstract!CommitBatch
  <2>2. QED BY <2>1 DEF Abstract!Next
<1>6. CASE db'.acts # db.acts
  <2>1. at[p] = "installed" /\ Alone(p)
    BY <1>4, <1>6 DEF Agrees, AddsOne, Alone, Commits
  <2>2. /\ db'.log = db.log
        /\ ~HasActivated(db.acts, job[p].goal)
        /\ db'.acts = Recorded(db.acts, job[p].goal)
    BY <1>4, <2>1 DEF Agrees, AddsOne
  <2>3. job[p].goal \in Recognizer /\ job[p].goal # None
    BY <1>6, <2>2, LogTypes DEF Recorded, Agreed, Job
  <2>4. job[p].goal \notin db.acts /\ db'.acts = Upsert(db.acts, job[p].goal)
    BY <2>2, <2>3 DEF HasActivated, Recorded
  <2>5. Abstract!Activate(job[p].goal)
    BY <1>3, <2>2, <2>4 DEF Abstract!Activate
  <2>6. QED BY <2>3, <2>5 DEF Abstract!Next
<1>7. QED BY <1>5, <1>6

\* Batches, rebuilds and activations of any number of connections serialize: each
\* commit is one atomic step of AtomicCorpus (corpus.rs `transaction`, `rebuild`).
THEOREM CorpusSerializes ==
    ASSUME Undisturbed
    PROVE  Spec => SerializesToAtomic
<1>1. Init => Abstract!Init
  BY DEF Init, EmptyDb, Abstract!Init
<1>2. Agreed /\ [Next]_vars => [Abstract!Next]_db
  <2> SUFFICES ASSUME Agreed, [Next]_vars, db' # db PROVE Abstract!Next
    OBVIOUS
  <2>1. Kept'
    BY KeptStep DEF Agreed
  <2>2. PICK p \in Conns : Request(p) \/ Proceed(p)
    BY DEF Next, vars
  <2>3. Commits(p)
    BY <2>2, OnlyCommitsChangeDb DEF Agreed, Kept
  <2>4. QED BY <2>1, <2>3, CommitIsAbstract
<1>3. QED BY <1>1, <1>2, AgreedAlways, PTL DEF Spec, SerializesToAtomic, Abstract!Spec

\* A call that answers it activated a recognizer stored it itself, one not stored
\* before (corpus.rs `activate`).
THEOREM ActivationsReportedTruly ==
    ASSUME Undisturbed
    PROVE  Spec => ActivationReported
<1> DEFINE Reported == \A p \in Conns, a \in Recognizer :
                         job[p].goal = a /\ AnswersTrue(p) => a \notin db.acts /\ a \in db'.acts
<1>1. Agreed /\ [Next]_vars => [Reported]_vars
  <2> SUFFICES ASSUME Agreed, [Next]_vars, NEW p \in Conns, NEW a \in Recognizer,
                      job[p].goal = a, AnswersTrue(p)
               PROVE  a \notin db.acts /\ a \in db'.acts
    OBVIOUS
  <2>1. at[p] = "installed" /\ at'[p] = "done" /\ depth[p] = 1 /\ Alone(p) /\ a # None
    BY NoneAssumption DEF AnswersTrue, Alone
  <2>2. a \notin db.acts /\ work[p].acts = Upsert(db.acts, a)
    BY <2>1 DEF Agreed, Agrees, AddsOne, HasActivated, Recorded
  <2>3. PICK q \in Conns : Request(q) \/ Proceed(q)
    BY <2>1 DEF Next, vars
  <2>4. q = p
    BY <2>1, <2>3, RequestIsOwn, ProceedIsOwn DEF Agreed, Kept, Untouched
  <2>5. InstallCommit(p)
    BY <2>1, <2>3, <2>4
    DEF Request, BeginBatch, Observe, ObserveFails, CallRebuild, Crash, Proceed, EndBatch,
        EndBatchFails, AbortBatch, Reapply, AlreadyActivated, PlanRebuild, BeginRebuild,
        ReplayPass, BuildFails, InstallBegin, LockTimeout, InstallHeld, InstallStale, Install,
        InstallFails, InstallCommitFails, Leave, Agreed, Kept, Shape, TypeOK
  <2>6. db' = work[p]
    BY <2>1, <2>5 DEF InstallCommit, BatchCommit
  <2>7. QED BY <2>2, <2>6 DEF Upsert
<1>2. QED BY <1>1, AgreedAlways, PTL DEF Spec, ActivationReported
=============================================================================
