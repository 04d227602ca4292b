----------------------------- MODULE MCWarehouse -----------------------------
(* Warehouse on small instances: two loads, two or three rows, chunks of two. *)
EXTENDS Warehouse, TLC

CONSTANTS k1, k2, k3,
  a, b,            \* texts
  five, fiveText,  \* a number, and its text
  nan, nanText     \* an empty cell once pandas has read it, and its text

StoredAs == [v \in Value \cup {OldVal} |->
  CASE v = five -> fiveText [] v = nan -> nanText [] OTHER -> v]

R(k, v) == [key |-> k, val |-> v]

(* A source whose last chunk is not full, one that has its customers in the *)
(* opposite order, a number and an empty cell, and one that lists a        *)
(* customer again in the same and in the next chunk.                       *)
Sources == {
  <<R(k1, a), R(k2, b), R(k3, a)>>,
  <<R(k2, five), R(k1, nan)>>,
  <<R(k1, a), R(k1, b), R(k1, nan)>>}

Symmetry == Permutations(Loader)
=============================================================================
