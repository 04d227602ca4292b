------------------------------ MODULE MCCatalog ------------------------------
(* Catalog on small instances: two frames that differ by a rename and in   *)
(* whether they have the numeric column.                                   *)
EXTENDS Catalog, TLC

CONSTANTS id, amount, b, c, renaming, plain

Frames  == {{id, b, amount}, {id, c}}
Renames == [p \in Pipeline |-> IF p = renaming THEN {<<b, c>>} ELSE {}]

Symmetry == Permutations(Ingest)
=============================================================================
