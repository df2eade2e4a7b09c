------------------------------ MODULE ValParse ------------------------------
(***************************************************************************)
(* val::parse and val::toJson (src/base/val.cpp): JSON documents written    *)
(* one after the other and read back, and a window's asset in the looser    *)
(* notation, typed by a person.                                             *)
(*                                                                         *)
(* A text is a sequence of characters.  Numbers are decimal integers:       *)
(* fractions, hexadecimal digits and the suffixes KB, MB, GB, pt, em and px *)
(* are left out, and so are null characters inside a text.                  *)
(***************************************************************************)
EXTENDS StringText, TLC

CONSTANTS
    Alphabet,     \* the characters a person types
    Beginnings,   \* what the asset begins with
    MaxTyped,     \* bound on the characters typed after that
    Docs,         \* the vals written as JSON
    MaxDocs,      \* bound on the documents in a text
    KeyOrder,     \* the keys of maps, in the order of std::map
    Searches,     \* texts searched for
    Replacements  \* texts put in their place

VARIABLES
    phase,    \* "typing", "loaded", "hung" or "json"
    text,     \* the text
    typed,    \* characters typed so far
    it,       \* the offset parse() goes on from
    wrote,    \* the vals written into the text
    read      \* the vals read from it

vars == <<phase, text, typed, it, wrote, read>>

(***************************************************************************)
(* Values                                                                  *)
(***************************************************************************)
Empty  == [type |-> "EMPTY"]
Int32(n) == [type |-> "INT32", n |-> n]
Percent(n) == [type |-> "MEASUREMENT", pc |-> n]
Str(s) == [type |-> "STRING", s |-> s]
Array(es) == [type |-> "ARRAY", vec |-> es]
Map(f) == [type |-> "MAP", fields |-> f]

Digits == <<"0", "1", "2", "3", "4", "5", "6", "7", "8", "9">>
DigitOf(c) == CHOOSE n \in 0 .. 9 : Digits[n + 1] = c
IsDigit(c) == \E n \in 1 .. 10 : Digits[n] = c

RECURSIVE Decimal(_)
Decimal(n) ==
    IF n < 0 THEN <<"-">> \o Decimal(-n)
    ELSE IF n < 10 THEN <<Digits[n + 1]>>
    ELSE Append(Decimal(n \div 10), Digits[(n % 10) + 1])

Quote     == "\""
Quoted(s) == <<Quote>> \o s \o <<Quote>>
Escape    == "\\"
Newline   == "\n"

(* What "%s" prints of c_str(): an empty string has no buffer, as parse()   *)
(* and setType() leave it, and prints as a null pointer.                    *)
CStr(s) == IF s = <<>> THEN <<"(", "n", "u", "l", "l", ")">> ELSE s

(* measurement::toString of a percentage.                                   *)
MeasurementText(n) == Decimal(n) \o <<".", "0", "0", "0", "0", "0", "0", "p", "c">>

(* toJson: the text of a string goes between quotes as it is.               *)
RECURSIVE ToJson(_)
ToJson(v) ==
    CASE v.type = "EMPTY"  -> <<>>
      [] v.type = "INT32"  -> Decimal(v.n)
      [] v.type = "STRING" -> Quoted(CStr(v.s))
      [] v.type = "MEASUREMENT" -> Quoted(MeasurementText(v.pc))
      [] v.type = "ARRAY"  ->
           <<"[">> \o Join([i \in DOMAIN v.vec |-> ToJson(v.vec[i])], <<",">>) \o <<"]">>
      [] v.type = "MAP"    ->
           LET keys == SelectSeq(KeyOrder, LAMBDA k : k \in DOMAIN v.fields)
           IN  <<"{">> \o Join([i \in DOMAIN keys |->
                                  Quoted(CStr(keys[i])) \o <<":">> \o ToJson(v.fields[keys[i]])],
                               <<",">>) \o <<"}">>

(***************************************************************************)
(* The parser                                                              *)
(***************************************************************************)
(* peekChar: the terminator at the end.                                     *)
Peek(t, o) == IF o < Len(t) THEN At(t, o) ELSE "NUL"

Blanks   == {" ", "\t"}
LineEnds == {Newline, "\r"}

CommentAt(t, o) == Peek(t, o) = "#" \/ Matches(t, o, <<"/", "/">>)

LineEnd(t, o) == Min({p \in o .. Len(t) : p = Len(t) \/ At(t, p) \in LineEnds})

(* skipWhitespaceAndComments: a comment begins on a line of its own.        *)
RECURSIVE SkipBlank(_, _, _)
SkipBlank(t, o, newLine) ==
    IF Peek(t, o) \in LineEnds THEN SkipBlank(t, o + 1, TRUE)
    ELSE IF Peek(t, o) \in Blanks THEN SkipBlank(t, o + 1, newLine)
    ELSE IF newLine /\ CommentAt(t, o) THEN SkipBlank(t, LineEnd(t, o), TRUE)
    ELSE o

SkipWhitespace(t, o) ==
    Min({p \in o .. Len(t) : Peek(t, p) \notin Blanks \cup LineEnds})

SkipSpacesAndTabs(t, o) == Min({p \in o .. Len(t) : Peek(t, p) \notin Blanks})

(* Where a string without quotes ends.                                      *)
Stops == LineEnds \cup {" ", ",", ":", "}"}

(* The characters an escape may stand for, inside and outside quotes.       *)
LegalEscapes(quoted) ==
    {Quote, "'", Escape, "n"} \cup (IF quoted THEN {} ELSE {",", ":", "}"})

RECURSIVE ScanString(_, _, _, _)
ScanString(t, o, quoted, s) ==
    LET c == Peek(t, o) IN
    IF o >= Len(t) \/ (~quoted /\ c \in Stops) THEN [s |-> s, at |-> o]
    ELSE IF quoted /\ c = Quote THEN [s |-> s, at |-> o + 1]
    ELSE IF c # Escape THEN ScanString(t, o + 1, quoted, Append(s, c))
    ELSE LET e == Peek(t, o + 1) IN
         ScanString(t, IF e = "NUL" THEN o + 1 ELSE o + 2, quoted,
                    IF e \in LegalEscapes(quoted)
                    THEN Append(s, IF e = "n" THEN Newline ELSE e) ELSE s)

ParseString(t, o) ==
    IF Peek(t, o) = Quote THEN ScanString(t, o + 1, TRUE, <<>>)
    ELSE ScanString(t, o, FALSE, <<>>)

(* parseNumber: signs with white space between, digits, and a percent sign. *)
RECURSIVE ParseSigned(_, _, _)
ParseSigned(t, o, sign) ==
    IF Peek(t, o) = "-" THEN ParseSigned(t, SkipWhitespace(t, o + 1), -sign)
    ELSE IF Peek(t, o) = "+" THEN ParseSigned(t, SkipWhitespace(t, o + 1), sign)
    ELSE LET end  == Min({p \in o .. Len(t) : ~IsDigit(Peek(t, p))})
             Value[p \in o .. end] ==
               IF p = o THEN 0 ELSE 10 * Value[p - 1] + DigitOf(At(t, p - 1))
         IN  IF Peek(t, end) = "%"
             THEN [val |-> Percent(sign * Value[end]), at |-> end + 1]
             ELSE [val |-> Int32(sign * Value[end]), at |-> end]

(* What a call of parse comes to: it is done, it gave up inside a map, or   *)
(* it goes round without moving.                                            *)
Done(v, o)   == [how |-> "done", val |-> v, at |-> o]
GaveUp(v, o) == [how |-> "gave up", val |-> v, at |-> o]
Stuck(v, o)  == [how |-> "stuck", val |-> v, at |-> o]

Word(w) == CASE w = "null" -> <<"n", "u", "l", "l">>
             [] w = "true" -> <<"t", "r", "u", "e">>
             [] w = "false" -> <<"f", "a", "l", "s", "e">>

(* Mutant: the end of an object does not end an implicit array.             *)
EndsImplicitOpen(c) == c \in {"NUL", "]", ","} \cup LineEnds

(* Where an implicit array ends.                                            *)
EndsImplicit(c) == c \in {"NUL", "]", "}", ","} \cup LineEnds

(* Mutant: the comma behind a field is left for the next field name.        *)
SeparatorKept(t, o, flags) == o

(* Fields of JSON objects are separated by commas, those of an asset by     *)
(* white space alone.                                                       *)
Separator(t, o, flags) ==
    IF "JSON" \in flags /\ Peek(t, o) = "," THEN SkipWhitespace(t, o + 1) ELSE o

RECURSIVE Parse(_, _, _), ParseFields(_, _, _, _), ParseElements(_, _, _, _),
          ParseImplicit(_, _, _, _)

(* The fields of an object from offset o on, added to those in f.           *)
ParseFields(t, o, f, flags) ==
    IF Peek(t, o) = "}" \/ o >= Len(t)
    THEN Done(Map(f), IF o < Len(t) THEN o + 1 ELSE o)
    ELSE LET name == ParseString(t, SkipBlank(t, o, FALSE))
             p    == SkipBlank(t, name.at, FALSE)
             r    == Parse(t, p + 1, flags)
         IN  IF name.s = <<>> THEN GaveUp(Map(f), name.at)
             ELSE IF Peek(t, p) # ":"
             THEN GaveUp(Map(f), IF p < Len(t) THEN p + 1 ELSE p)
             ELSE IF r.how = "stuck" THEN r
             ELSE ParseFields(t, Separator(t, SkipBlank(t, r.at, FALSE), flags),
                              (name.s :> r.val) @@ f, flags)

(* The elements of an explicit array.                                       *)
ParseElements(t, o, es, flags) ==
    IF Peek(t, o) = "]" THEN Done(Array(es), o + 1)
    ELSE IF o >= Len(t) THEN Done(Array(es), o)
    ELSE LET r == Parse(t, o, flags)
             p == SkipBlank(t, r.at, FALSE)
             grown == Append(es, r.val)
         IN  IF r.how = "stuck" THEN r
             ELSE IF Peek(t, p) = "," THEN ParseElements(t, p + 1, grown, flags)
             ELSE Done(Array(grown), IF Peek(t, p) = "]" THEN p + 1 ELSE p)

(* Elements that follow a value on its line.  An element that takes no      *)
(* character leaves the loop where it was, for ever.                        *)
ParseImplicit(t, o, v, flags) ==
    LET p == SkipSpacesAndTabs(t, o)
        r == Parse(t, p, flags \cup {"IN_IMPLICIT_ARRAY"})
        es == IF v.type = "ARRAY" THEN v.vec ELSE <<v>>
    IN  IF EndsImplicit(Peek(t, p)) THEN Done(v, p)
        ELSE IF r.at = p THEN Stuck(v, p)
        ELSE ParseImplicit(t, r.at, Array(Append(es, r.val)), flags)

ParseOne(t, o, flags) ==
    LET c == Peek(t, o)
        number == ParseSigned(t, o, 1)
        str    == ParseString(t, o)
    IN  IF c = "{" THEN ParseFields(t, SkipBlank(t, o + 1, FALSE), <<>>, flags)
        ELSE IF c = "[" THEN ParseElements(t, SkipBlank(t, o + 1, FALSE), <<>>, flags)
        ELSE IF IsDigit(c) \/ c \in {"-", "+"} THEN Done(number.val, number.at)
        ELSE IF Matches(t, o, Word("null")) THEN Done(Empty, o + 4)
        ELSE IF Matches(t, o, Word("true")) THEN Done(Int32(1), o + 4)
        ELSE IF Matches(t, o, Word("false")) THEN Done(Int32(0), o + 5)
        ELSE Done(Str(str.s), str.at)

Parse(t, o, flags) ==
    LET r == ParseOne(t, SkipBlank(t, o, FALSE), flags) IN
    IF o >= Len(t) THEN Done(Empty, o)
    ELSE IF flags # {} \/ r.how # "done" THEN r
    ELSE ParseImplicit(t, r.at, r.val, flags)

(***************************************************************************)
(* Steps                                                                   *)
(***************************************************************************)
Init ==
    /\ \/ phase = "typing" /\ text \in Beginnings
       \/ phase = "json" /\ text = <<>>
    /\ typed = 0
    /\ it = 0
    /\ wrote = <<>>
    /\ read = <<>>

Type(c) ==
    /\ phase = "typing"
    /\ typed < MaxTyped
    /\ text' = Append(text, c)
    /\ typed' = typed + 1
    /\ UNCHANGED <<phase, it, wrote, read>>

(* Window(uiAsset) parses the asset.                                        *)
LoadAsset ==
    LET r == Parse(text, 0, {}) IN
    /\ phase = "typing"
    /\ it' = r.at
    /\ phase' = IF r.how = "stuck" THEN "hung" ELSE "loaded"
    /\ UNCHANGED <<text, typed, wrote, read>>

WriteJson(v) ==
    /\ phase = "json"
    /\ Len(wrote) < MaxDocs
    /\ text' = text \o ToJson(v)
    /\ wrote' = Append(wrote, v)
    /\ UNCHANGED <<phase, typed, it, read>>

(* Bound: at most one document is read that was not written.                *)
ReadJson ==
    LET r == Parse(text, it, {"JSON"}) IN
    /\ phase = "json"
    /\ it < Len(text) /\ Len(read) <= Len(wrote)
    /\ it' = r.at
    /\ read' = Append(read, r.val)
    /\ phase' = IF r.how = "stuck" THEN "hung" ELSE phase
    /\ UNCHANGED <<text, typed, wrote>>

Next ==
    \/ \E c \in Alphabet : Type(c)
    \/ LoadAsset
    \/ \E v \in Docs : WriteJson(v)
    \/ ReadJson

Spec == Init /\ [][Next]_vars

(***************************************************************************)
(* Properties                                                              *)
(***************************************************************************)
(* parse() comes to an end: with PARSEFLAG_JSON for every text, and for an  *)
(* asset unless its implicit array has run into a ':', the one character    *)
(* that ends a word and does not end the array.  It never goes past the     *)
(* end of the text.                                                         *)
ParseEnds ==
    /\ it <= Len(text)
    /\ phase = "hung" => Peek(text, it) = ":" /\ read = <<>>
    /\ phase = "typing" => LET r == Parse(text, 0, {"JSON"})
                           IN  r.how # "stuck" /\ r.at <= Len(text)

(* The vals whose text ends by itself and says what they are: no empty val, *)
(* no quote or escape in a string, no empty key; and no number on its own,  *)
(* which the next document's text would go on with.                         *)
RECURSIVE Closed(_)
Closed(v) ==
    CASE v.type = "EMPTY"  -> FALSE
      [] v.type = "STRING" -> \A i \in DOMAIN v.s : v.s[i] \notin {Quote, Escape}
      [] v.type = "ARRAY"  -> \A i \in DOMAIN v.vec : Closed(v.vec[i])
      [] v.type = "MAP"    ->
           \A k \in DOMAIN v.fields :
             /\ k # <<>> /\ \A i \in DOMAIN k : k[i] \notin {Quote, Escape}
             /\ Closed(v.fields[k])
      [] OTHER -> TRUE

Document(v) == Closed(v) /\ v.type # "INT32"

(* What a val is after toJson() and parse(): an empty string has become the *)
(* text (null), a measurement the string it is written as.                  *)
RECURSIVE ComesBackAs(_)
ComesBackAs(v) ==
    CASE v.type = "STRING"      -> Str(CStr(v.s))
      [] v.type = "MEASUREMENT" -> Str(MeasurementText(v.pc))
      [] v.type = "ARRAY"       -> Array([i \in DOMAIN v.vec |-> ComesBackAs(v.vec[i])])
      [] v.type = "MAP"         -> Map([k \in DOMAIN v.fields |-> ComesBackAs(v.fields[k])])
      [] OTHER -> v

(* Documents that toJson() wrote one behind the other, with nothing between *)
(* them, are read back one by one by parse(): each call stops at the end of *)
(* its document, and the values are those written, but for empty strings    *)
(* and measurements, inside arrays and maps too.  It holds for vals whose    *)
(* text ends by itself (Document); others are in the run and not compared.   *)
JsonReadsBack ==
    phase = "json" /\ (\A i \in DOMAIN wrote : Document(wrote[i])) =>
      /\ Len(read) <= Len(wrote)
      /\ \A i \in DOMAIN read : read[i] = ComesBackAs(wrote[i])
      /\ it = Len(text) => Len(read) = Len(wrote)

(* What split() leaves of a text, its empty last piece included.            *)
Pieces(t, s) ==
    LET p == Split(t, s, 0).pieces
    IN  p \o (IF Join(p, s) = t THEN <<>> ELSE <<(<<>>)>>)

(* The three searches from one place agree with what split() makes of the   *)
(* rest, and run outside together: when the text is longer than the rest by *)
(* two or more.                                                             *)
SearchesFrom(t, o, s) ==
    LET rest == Cut(t, o, Len(t))
        upTo == ReadUpTo(t, o, s)
        past == ReadPast(t, o, s)
        f    == Find(t, TRUE, o, s)
    IN  IF Len(s) > Len(rest) + 1 THEN ~upTo.ok /\ ~past.ok /\ f = Outside
        ELSE /\ upTo.ok /\ past.ok
             /\ f = o + Len(upTo.text)
             /\ upTo.text = IF rest = <<>> THEN <<>> ELSE Pieces(rest, s)[1]
             /\ past.text = IF upTo.text = rest THEN rest ELSE upTo.text \o s

(* The searches agree with each other and with what a match is: split() cuts *)
(* the text at its matches and drops an empty last piece, join() undoes it,  *)
(* replace() is split() and join() although it searches a text that changes  *)
(* under it, findLast() finds the last cut; find(), readUpTo() and            *)
(* readPast() stop at the first, from every offset.  split(), replace() and  *)
(* findLast() never search an empty rest, so that only a text of three bytes *)
(* or more takes them outside the string; the others are taken outside at    *)
(* its end by two bytes.                                                     *)
SearchesAgree ==
    phase = "typing" => \A s \in Searches :
      LET all == Pieces(text, s)
      IN  /\ ~Split(text, s, 0).ok => Len(s) > 2
          /\ Split(text, s, 0).ok =>
               /\ Join(all, s) = text
               /\ \A i \in DOMAIN all, o \in 0 .. Len(text) : ~Matches(all[i], o, s)
               /\ \A r \in Replacements : Replace(text, s, r) = [ok |-> TRUE, text |-> Join(all, r)]
               /\ FindLast(text, s) = IF Len(all) < 2 THEN NotFound
                                      ELSE Len(text) - Len(all[Len(all)]) - Len(s)
          /\ \A o \in 0 .. Len(text) : SearchesFrom(text, o, s)
=============================================================================
