------------------------------- MODULE MCVal -------------------------------
(***************************************************************************)
(* Instances of Val for TLC.                                               *)
(***************************************************************************)
EXTENDS Val, TLC

CONSTANTS v1, v2, v3, k1, k2, o1, bx1, bx2, bx3

Symmetry == Permutations(Vars) \cup Permutations(Boxes) \cup Permutations(Keys)
=============================================================================
