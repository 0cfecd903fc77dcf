--------------------------- MODULE InPlaceCorpus ---------------------------
(***************************************************************************)
(* A corpus nothing else shares, in memory or read from a JSON file: its   *)
(* batches apply each write as it happens and never roll back, and a       *)
(* rebuild clears and refills the live views in place.  The algorithm is   *)
(* the one Corpus models for SQLite.                                       *)
(***************************************************************************)
EXTENDS Integers, Sequences

CONSTANTS
    Iris,           \* canonical IRIs
    TokenPrefixes,  \* recognizer prefixes
    Types,          \* types a recognizer assigns
    MaxLog,         \* bound: observations the log may hold
    None

Recognizer == [prefix : TokenPrefixes, type : Types]

ASSUME MaxLogAssumption == MaxLog \in Nat
ASSUME NoneAssumption == None \notin Recognizer

VARIABLES
    log,          \* the observed IRIs
    views,        \* the observations the views count, and how they were classified
    acts,         \* the activated recognizers, in the order they were stored
    activations,  \* what the classifier was built from
    at,           \* where the corpus is
    job           \* the rebuild in progress, or the last one

vars == <<log, views, acts, activations, at, job>>

-----------------------------------------------------------------------------

Classified(iris, list) ==
    [i \in 1..Len(iris) |-> [iri |-> iris[i], under |-> list]]

After(iris, mark) == SubSeq(iris, mark + 1, Len(iris))

Has(list, a) == \E i \in 1..Len(list) : list[i] = a

HasPrefix(list, a) == \E i \in 1..Len(list) : list[i].prefix = a.prefix

\* Storing a recognizer replaces the one with its prefix where it stands.
Recorded(list, a) ==
    IF a = None THEN list
    ELSE IF HasPrefix(list, a)
         THEN [i \in 1..Len(list) |-> IF list[i].prefix = a.prefix THEN a ELSE list[i]]
         ELSE Append(list, a)

\* The goal, what to classify with, the log mark, and what is answered.
NoJob == [goal |-> None, planned |-> <<>>, mark |-> 0, answer |-> FALSE]

-----------------------------------------------------------------------------

Observe(iri) ==
    /\ at = "idle"
    /\ Len(log) < MaxLog
    /\ log' = Append(log, iri)
    /\ views' = Append(views, [iri |-> iri, under |-> activations])
    /\ UNCHANGED <<acts, activations, at, job>>

\* `reinfer`, or the activation of a proposal; one already stored changes nothing.
CallRebuild(goal) ==
    /\ at = "idle"
    /\ job' = [NoJob EXCEPT
                 !.goal = goal,
                 !.planned = IF goal = None THEN acts ELSE Append(acts, goal)]
    /\ at' = IF goal # None /\ Has(acts, goal) THEN "answered" ELSE "build"
    /\ UNCHANGED <<log, views, acts, activations>>

\* Clear the views and replay the whole log into them.
Build ==
    /\ at = "build"
    /\ activations' = job.planned
    /\ views' = Classified(log, job.planned)
    /\ job' = [job EXCEPT !.mark = Len(log)]
    /\ at' = "install"
    /\ UNCHANGED <<log, acts>>

\* What a stale rebuild classifies with when it starts over.
KeepPlan(stored) == job.planned
Replan(stored) == stored

\* Record the activation; if the stored list is not the planned one, start over.
Install ==
    LET held == job.goal # None /\ Has(acts, job.goal)
        stored == IF held THEN acts ELSE Recorded(acts, job.goal)
        stale == ~held /\ stored # job.planned
        replayed == IF held \/ stale THEN <<>> ELSE After(log, job.mark)
    IN  /\ at = "install"
        /\ acts' = stored
        /\ views' = views \o Classified(replayed, stored)
        /\ activations' = stored
        /\ job' = IF stale THEN [job EXCEPT !.planned = Replan(stored)]
                  ELSE [job EXCEPT !.answer = ~held]
        /\ at' = IF stale THEN "build" ELSE "answered"
        /\ UNCHANGED log

Return ==
    /\ at = "answered"
    /\ at' = "idle"
    /\ job' = NoJob
    /\ UNCHANGED <<log, views, acts, activations>>

Init ==
    /\ log = <<>> /\ views = <<>> /\ acts = <<>> /\ activations = <<>>
    /\ at = "idle" /\ job = NoJob

Next ==
    \/ \E iri \in Iris : Observe(iri)
    \/ \E goal \in Recognizer \union {None} : CallRebuild(goal)
    \/ Build \/ Install \/ Return

Spec == Init /\ [][Next]_vars

-----------------------------------------------------------------------------
(* Properties. *)

Places == {"idle", "build", "install", "answered"}

Views == Seq([iri : Iris, under : Seq(Recognizer)])

Job == [goal : Recognizer \union {None}, planned : Seq(Recognizer), mark : Nat,
        answer : BOOLEAN]

\* Every variable has its type (the fields of MemoryStorage and Corpus).
TypeOK ==
    /\ log \in Seq(Iris)
    /\ views \in Views
    /\ acts \in Seq(Recognizer)
    /\ activations \in Seq(Recognizer)
    /\ at \in Places
    /\ job \in Job

\* Between calls the views are the log classified with the stored recognizers,
\* and so is whatever is observed next, as if the corpus were reopened (corpus.rs
\* `rebuild`, `reapply_activated_recognizers`).
Settled ==
    at \in {"idle", "answered"} =>
        /\ views = Classified(log, acts)
        /\ activations = acts

\* No prefix is ever stored twice (storage_memory.rs `record_activated_recognizer`).
OnePerPrefix ==
    \A i, j \in 1..Len(acts) : acts[i].prefix = acts[j].prefix => i = j

=============================================================================
