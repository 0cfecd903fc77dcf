----------------------------- MODULE MCLockTurns -----------------------------
(* LockTurns on small instances: the .cfg files give the bounds. *)
EXTENDS LockTurns, TLC

\* Processes are interchangeable.
Symmetry == Permutations(Procs)
=============================================================================
