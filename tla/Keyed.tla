-------------------------------- MODULE Keyed --------------------------------
(* Maps and tables: functions from the keys held to what is held of each. *)
EXTENDS Integers, SequencesExt

With(map, k, row) == [j \in DOMAIN map \union {k} |-> IF j = k THEN row ELSE map[j]]

\* One more counted of `k`.
Increment(counts, k) ==
    With(counts, k, IF k \in DOMAIN counts THEN counts[k] + 1 ELSE 1)

\* The keys by the number each holds, which no two share.
InOrder(order) ==
    LET Earlier(k) == {j \in DOMAIN order : order[j] < order[k]}
    IN  [i \in 1..Cardinality(DOMAIN order) |->
            CHOOSE k \in DOMAIN order : Cardinality(Earlier(k)) = i - 1]
=============================================================================
