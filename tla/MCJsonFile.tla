----------------------------- MODULE MCJsonFile -----------------------------
(* A small instance of JsonFile for TLC: h3 is in a process of its own.      *)
EXTENDS JsonFile, TLC
CONSTANTS h3, p1, p2
MCPid == [h \in Handles |-> IF h = h3 THEN p2 ELSE p1]

\* The corpora of one process are interchangeable.
Symmetry == Permutations(Handles \ {h3})
=============================================================================
