--------------------------- MODULE MCAcornString ---------------------------
(***************************************************************************)
(* Instances of AcornString for TLC.                                       *)
(***************************************************************************)
EXTENDS AcornString, TLC

CONSTANTS h1, h2, h3, b1, b2, b3, lit

(* "a" where only the number of bytes matters, " a" where their values do. *)
UniformText == [l \in Lits |-> <<"a">>]
MixedText   == [l \in Lits |-> <<" ", "a">>]

LetterA == {<<"a">>}

(* No call reads ret, so exploring a state once per ret is enough for the  *)
(* invariants that do not mention it.                                      *)
WithoutRet == <<refs, mem, str, fault>>

Symmetry == Permutations(Strings) \cup Permutations(Blocks)
=============================================================================
