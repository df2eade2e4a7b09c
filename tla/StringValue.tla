---------------------------- MODULE StringValue ----------------------------
(***************************************************************************)
(* What acorn::string promises its callers (base/string_.h): a string is a *)
(* value.  Every string variable holds a sequence of bytes of its own, a   *)
(* call changes the string it is made on and no other, and c_str() hands   *)
(* out exactly the bytes of the string.  Buffers, reference counts and     *)
(* sharing are invisible here; AcornString shows how the code gets them.   *)
(***************************************************************************)
EXTENDS Integers, Sequences

CONSTANTS
  Strings,  \* the string objects of the program
  Texts,    \* byte sequences that come from outside (char*, literals, files)
  NoRet     \* "the last call returned nothing"

VARIABLES
  val,      \* the value of each string
  ret       \* what the last call returned

vars == <<val, ret>>

Init ==
  /\ val = [h \in Strings |-> <<>>]
  /\ ret = NoRet

(* What a call may make of a value v.                                      *)
Slices(v)     == {SubSeq(v, i, j) : i \in 1..Len(v) + 1, j \in 0..Len(v)}
Cuts(v)       == {SubSeq(v, 1, i) \o SubSeq(v, i + k + 1, Len(v)) :
                    i \in 0..Len(v), k \in 0..Len(v)}
Splices(v, t) == {SubSeq(v, 1, o) \o t \o SubSeq(v, o + 1, Len(v)) : o \in 0..Len(v)}

(* What one call may make of the value of h: a text from outside, a slice  *)
(* of a string, its own value with a range cut out or a value put in.      *)
Results(h) ==
  LET mine == val[h]
      all  == {val[g] : g \in Strings}
  IN  Texts \cup (UNION {Slices(v) : v \in all}) \cup Cuts(mine)
            \cup (UNION {Splices(mine, t) : t \in Texts \cup all})

(* One string takes a new value; every other string keeps its own.         *)
Change(h) ==
  /\ ret' = NoRet
  /\ val' = [val EXCEPT ![h] = val'[h]]
  /\ val'[h] \in Results(h)

Move(h, g) ==
  /\ g # h
  /\ ret' = NoRet
  /\ val' = [val EXCEPT ![h] = val[g], ![g] = <<>>]

Read(h) ==
  /\ ret' = val[h]
  /\ UNCHANGED val

Next ==
  \E h \in Strings : Change(h) \/ Read(h) \/ \E g \in Strings : Move(h, g)

Spec == Init /\ [][Next]_vars
=============================================================================
