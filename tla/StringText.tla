----------------------------- MODULE StringText -----------------------------
(***************************************************************************)
(* Searching and splitting of src/base/string.cpp as operators on sequences *)
(* of characters.  Offsets count from 0, as in the code.                    *)
(***************************************************************************)
EXTENDS Integers, Sequences, FiniteSetsExt

At(t, o)  == t[o + 1]
Cut(t, from, to) == SubSeq(t, from + 1, to)     \* substr(from, to), from <= to

Matches(t, o, s) == o + Len(s) <= Len(t) /\ Cut(t, o, o + Len(s)) = s

(* What a search answers that runs outside its buffer.                      *)
Outside == -1

(* Mutant: the last position is not tried.                                  *)
FindStrShort(t, o, s) ==
    LET hits == {p \in o .. Len(t) - Len(s) - 1 : Matches(t, p, s)}
    IN  IF Len(s) > (Len(t) - o) + 1 THEN Outside
        ELSE IF hits = {} THEN Len(t) - o ELSE Min(hits) - o

(* findStr in the part of t from o: the distance to the first match, or the *)
(* length of that part.  (buflen - textLen) + 1 is computed in unsigned     *)
(* arithmetic: a text that is two bytes longer than the buffer, or more,    *)
(* wraps, and memchr goes on behind the end.                                *)
FindStr(t, o, s) ==
    LET hits == {p \in o .. Len(t) - Len(s) : Matches(t, p, s)}
    IN  IF Len(s) > (Len(t) - o) + 1 THEN Outside
        ELSE IF hits = {} THEN Len(t) - o ELSE Min(hits) - o

(* split(delimiter, maxSplits), from offset o: the pieces, or Outside.      *)
RECURSIVE SplitFrom(_, _, _, _)
SplitFrom(t, o, d, maxSplits) ==
    IF o >= Len(t) THEN [ok |-> TRUE, pieces |-> <<>>]
    ELSE LET f == FindStr(t, o, d) IN
         IF f = Outside THEN [ok |-> FALSE, pieces |-> <<>>]
         ELSE LET piece == Cut(t, o, o + f)
                  rest  == IF maxSplits = 1 THEN [ok |-> TRUE, pieces |-> <<>>]
                           ELSE SplitFrom(t, o + f + Len(d), d, maxSplits - 1)
              IN  [rest EXCEPT !.pieces = <<piece>> \o @]

(* maxSplits 0 is no limit.                                                 *)
Split(t, d, maxSplits) ==
    IF d = <<>> THEN [ok |-> TRUE, pieces |-> <<t>>] ELSE SplitFrom(t, 0, d, maxSplits)

RECURSIVE Join(_, _)
Join(pieces, d) ==
    IF pieces = <<>> THEN <<>>
    ELSE IF Len(pieces) = 1 THEN pieces[1]
    ELSE pieces[1] \o d \o Join(Tail(pieces), d)

(* replace(search, replacement), from offset start: the text is changed     *)
(* while it is searched.                                                    *)
RECURSIVE ReplaceFrom(_, _, _, _)
ReplaceFrom(t, start, search, replacement) ==
    IF start >= Len(t) THEN [ok |-> TRUE, text |-> t]
    ELSE LET f == FindStr(t, start, search) IN
         IF f = Outside THEN [ok |-> FALSE, text |-> t]
         ELSE IF start + f >= Len(t) THEN [ok |-> TRUE, text |-> t]
         ELSE LET p == start + f
                  changed == Cut(t, 0, p) \o replacement \o Cut(t, p + Len(search), Len(t))
              IN  ReplaceFrom(changed, p + Len(replacement), search, replacement)

Replace(t, search, replacement) == ReplaceFrom(t, 0, search, replacement)

(* findLast(search), from offset o, with the last match so far in found:    *)
(* matches do not overlap.                                                  *)
NotFound == -2

RECURSIVE FindLastFrom(_, _, _, _)
FindLastFrom(t, o, s, found) ==
    LET f == FindStr(t, o, s) IN
    IF o >= Len(t) THEN found
    ELSE IF f = Outside THEN Outside
    ELSE IF f >= Len(t) - o THEN found
    ELSE FindLastFrom(t, o + f + Len(s), s, o + f)

FindLast(t, s) == FindLastFrom(t, 0, s, NotFound)

(* find(text, fromOffset); buf says whether the string has a buffer, which  *)
(* an empty one may not.                                                    *)
Find(t, buf, o, s) ==
    LET f == FindStr(t, o, s)
    IN  IF s = <<>> \/ ~buf THEN NotFound
        ELSE IF f = Outside THEN Outside ELSE o + f

(* readUpTo and readPast from offset o: what is read, unless the search     *)
(* runs outside.                                                            *)
Reading(t, o, n) ==
    [ok |-> n # Outside, text |-> IF n = Outside THEN <<>> ELSE Cut(t, o, o + n)]

ReadUpTo(t, o, s) == Reading(t, o, FindStr(t, o, s))

ReadPast(t, o, s) ==
    LET f == FindStr(t, o, s)
    IN  Reading(t, o, IF f # Outside /\ f < Len(t) - o THEN f + Len(s) ELSE f)
=============================================================================
