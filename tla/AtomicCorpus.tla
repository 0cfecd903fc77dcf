---------------------------- MODULE AtomicCorpus ----------------------------
(***************************************************************************)
(* What a shared corpus promises its callers: a log that only grows, a set *)
(* of activated recognizers, and views that are at every moment exactly    *)
(* the log replayed with those recognizers.  Each committed batch appends  *)
(* to the log in one step; each activation changes the recognizers and     *)
(* reclassifies every view in one step; a rebuild of the views changes     *)
(* nothing.                                                                *)
(***************************************************************************)
EXTENDS Integers, Sequences

CONSTANTS Iris, Recognizer, Upsert(_, _), StoredList(_)

VARIABLE db

\* The log replayed with one list of recognizers.
Replayed(log, list) ==
    [i \in 1..Len(log) |-> [iri |-> log[i], under |-> list]]

Extends(longer, log) ==
    /\ Len(longer) >= Len(log)
    /\ \A i \in 1..Len(log) : longer[i] = log[i]

Init == db = [log |-> <<>>, views |-> <<>>, acts |-> {}]

CommitBatch ==
    /\ Extends(db'.log, db.log)
    /\ db'.log \in Seq(Iris)
    /\ db'.acts = db.acts
    /\ db'.views = Replayed(db'.log, StoredList(db.acts))

Activate(a) ==
    /\ a \notin db.acts
    /\ db'.log = db.log
    /\ db'.acts = Upsert(db.acts, a)
    /\ db'.views = Replayed(db.log, StoredList(db'.acts))

Next == CommitBatch \/ \E a \in Recognizer : Activate(a)

Spec == Init /\ [][Next]_db
=============================================================================
