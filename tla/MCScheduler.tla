----------------------------- MODULE MCScheduler -----------------------------
(* Scheduler on small instances. *)
EXTENDS Scheduler, TLC

Symmetry == Permutations(Pipeline) \cup Permutations(Schedule) \cup Permutations(Request)
=============================================================================
