------------------------------ MODULE MCTenancy ------------------------------
(* Tenancy on small instances: whoever is there at the start, any two      *)
(* requests then meet in every order.                                      *)
EXTENDS Tenancy, TLC

Symmetry == Permutations(Request) \cup Permutations(Workspace) \cup Permutations(User)
=============================================================================
