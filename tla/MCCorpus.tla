------------------------------ MODULE MCCorpus ------------------------------
(* Corpus on small instances: the .cfg files give the bounds. *)
EXTENDS Corpus, TLC

\* Connections are interchangeable: nothing compares or orders them.
Symmetry == Permutations(Conns)
=============================================================================
