----------------------------- MODULE MCViewTree -----------------------------
(***************************************************************************)
(* An instance of ViewTree for TLC.                                         *)
(***************************************************************************)
EXTENDS ViewTree, TLC

CONSTANTS v1, v2, v3, a, b

Symmetry == Permutations(Views \ {Root}) \cup Permutations(Ids)

(* A process that ended takes no further step: one state for each way out. *)
OneEnd == IF running \in {"loading", "yes"} THEN vars ELSE <<running>>
=============================================================================
