---------------------------- MODULE MCIncremental ----------------------------
(* Incremental on small instances. *)
EXTENDS Incremental, TLC

Symmetry == Permutations(Row) \cup Permutations(Run)
=============================================================================
