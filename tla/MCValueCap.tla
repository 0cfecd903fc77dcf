----------------------------- MODULE MCValueCap -----------------------------
(* ValueCap on small instances: the .cfg files give the bounds. *)
EXTENDS ValueCap, TLC

\* Connections are interchangeable, and so are values: neither is ordered.
Symmetry == Permutations(Conns) \union Permutations(Values)

\* MemorySlot is what observing one value after the other leaves.
ASSUME MemorySlotIsReplayed ==
    \A log \in BoundedSeq(Values, MaxLog + 2) : MemorySlot(log) = PositionStats(log)
=============================================================================
