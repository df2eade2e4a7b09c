----------------------------- MODULE ValStream -----------------------------
(***************************************************************************)
(* bytestream::write(const val&) and read(val&) of base/bytestream.cpp: a  *)
(* sequence of vals is written to a stream, the stream may lose its end,   *)
(* and vals are read back one by one.                                      *)
(*                                                                         *)
(* The stream is a sequence of 2-byte units: a type or a 32-bit number is  *)
(* two units, a pointer four, a measurement's unit one.  A val is a record *)
(* of its type and its data; an array's data is the sequence of its        *)
(* elements, a map's the sequence of its entries: in key order when it is  *)
(* written or read into a new val, behind the entries it held otherwise.   *)
(***************************************************************************)
EXTENDS Integers, Sequences

CONSTANTS
  Vals,        \* the vals the program writes
  MaxVals,     \* bound on how many
  MaxNest,     \* bound on how deep arrays and maps nest
  Wild         \* a pointer made of bytes from the stream, or bytes never set

VARIABLES
  written,     \* the vals written so far
  stream,      \* the units in the stream
  cut,         \* it has lost its end
  offsetRead,  \* the read cursor
  out,         \* the reads so far: the val read into, before and after
  short        \* the last read(val&) returned false

vars == <<written, stream, cut, offsetRead, out, short>>

-----------------------------------------------------------------------------
(* Vals.                                                                   *)

(* val::type, as written.                                                  *)
Types == [EMPTY |-> 0, INT32 |-> 1, INT64 |-> 2, UINT32 |-> 3, UINT64 |-> 4,
          FLOAT32 |-> 5, FLOAT64 |-> 6, MEASUREMENT |-> 7, STRING |-> 8,
          BYTEARRAY |-> 9, ARRAY |-> 10, MAP |-> 11, ERROR |-> 13]

TypeNamed(n) == CHOOSE t \in DOMAIN Types : Types[t] = n

(* The units of a number.                                                  *)
Width == [INT32 |-> 2, UINT32 |-> 2, FLOAT32 |-> 2,
          INT64 |-> 4, UINT64 |-> 4, FLOAT64 |-> 4]

Numbers == DOMAIN Width

Text == Seq(Nat)

(* A measurement's unit is four bytes in memory, of which two are written  *)
(* and two are read.                                                       *)
Plain ==
  [type : {"EMPTY"}, data : {<<>>}]
    \cup [type : {t \in Numbers : Width[t] = 2}, data : [1..2 -> Nat]]
    \cup [type : {t \in Numbers : Width[t] = 4}, data : [1..4 -> Nat]]
    \cup [type : {"MEASUREMENT"}, data : (Nat \X Nat) \cup (Nat \X Nat \X {Wild})]

Errors == [type : {"ERROR"}, data : Nat \X Text]

Blobs == [type : {"STRING", "BYTEARRAY"}, data : Text]

(* The vals over some leaves, with less than d arrays and maps around one. *)
Nested(leaves) ==
  LET level[d \in 0..MaxNest] ==
        IF d = 0 THEN {}
        ELSE leaves \cup [type : {"ARRAY"}, data : Seq(level[d - 1])]
                    \cup [type : {"MAP"}, data : Seq(Text \X level[d - 1])]
  IN  level

AnyVal == Nested(Plain \cup Errors \cup Blobs)

ASSUME ValsAssumption ==
  MaxVals \in Nat /\ MaxNest \in Nat /\ Vals \subseteq AnyVal[MaxNest]

-----------------------------------------------------------------------------
(* Writing.                                                                *)

Word(n) == <<n, 0>>

EncodeText(s) == Word(Len(s)) \o s

(* Sequences one after the other, the first i of them.                     *)
Joins(ss) ==
  LET join[i \in 0..Len(ss)] == IF i = 0 THEN <<>> ELSE join[i - 1] \o ss[i]
  IN  join

Joined(ss) == Joins(ss)[Len(ss)]

(* What follows the type; enc writes the vals inside.                      *)
EncodeBody(enc, v) ==
  CASE v.type = "EMPTY"                   -> <<>>
    [] v.type \in Numbers                 -> v.data
    [] v.type = "MEASUREMENT"             -> Word(v.data[1]) \o <<v.data[2]>>
    [] v.type \in {"STRING", "BYTEARRAY"} -> EncodeText(v.data)
    [] v.type = "ARRAY" ->
         Word(Len(v.data)) \o Joined([i \in DOMAIN v.data |-> enc[v.data[i]]])
    [] v.type = "MAP" ->
         Word(Len(v.data)) \o
         Joined([i \in DOMAIN v.data |-> EncodeText(v.data[i][1]) \o enc[v.data[i][2]]])
    [] v.type = "ERROR"                   -> Word(v.data[1]) \o EncodeText(v.data[2])

(* write(const val&), of vals that nest less than d deep.                  *)
Encoding ==
  LET enc[d \in 0..MaxNest] ==
        IF d = 0 THEN <<>>
        ELSE [v \in AnyVal[d] |-> Word(Types[v.type]) \o EncodeBody(enc[d - 1], v)]
  IN  enc

Encode(v) == Encoding[MaxNest][v]

-----------------------------------------------------------------------------
(* Reading.  A read yields its outcome, what it read and the cursor after. *)

Result(ok, x, o) == [ok |-> ok, val |-> x, at |-> o]

(* Bug: a short read takes nothing.                                        *)
TakeAll(s, o, n) ==
  IF n <= Len(s) - o THEN Result(TRUE, SubSeq(s, o + 1, o + n), o + n)
  ELSE Result(FALSE, <<>>, o)

(* readBytes(n).                                                           *)
Take(s, o, n) ==
  LET k == IF n <= Len(s) - o THEN n ELSE Len(s) - o IN
  Result(k = n, SubSeq(s, o + 1, o + k), o + k)

(* read(uint32_t&).                                                        *)
TakeWord(s, o) ==
  LET r == Take(s, o, 2) IN Result(r.ok, IF r.ok THEN r.val[1] ELSE 0, r.at)

(* Bug: a terminator is read after the text.                               *)
TakeTextTerminated(s, o) ==
  LET n == TakeWord(s, o) IN
  IF n.ok THEN Take(s, n.at, n.val + 1) ELSE Result(FALSE, <<>>, n.at)

(* read(string&).                                                          *)
TakeText(s, o) ==
  LET n == TakeWord(s, o) IN
  IF n.ok THEN Take(s, n.at, n.val) ELSE Result(FALSE, <<>>, n.at)

(* The stream is read into the pointer, not into what it points at.        *)
TakePointer(s, o, type) ==
  LET r == Take(s, o, 4) IN Result(r.ok, [type |-> type, data |-> <<Wild>>], r.at)

Failed(o) == Result(FALSE, <<>>, o)

(* Bug: the outcome of reading an element is not checked.                  *)
AfterItemUnchecked(p, e) ==
  Result(TRUE, Append(p.val, IF e.ok THEN e.val ELSE [type |-> "EMPTY", data |-> <<>>]), e.at)

(* An element or entry e has been read after those of p.                   *)
AfterItem(p, e) ==
  IF e.ok THEN Result(TRUE, Append(p.val, e.val), e.at) ELSE Failed(e.at)

(* What the loops over elements and entries add, i times around; item[o]   *)
(* is what reading one at o yields.  An entry is insert()ed, which for the *)
(* keys of one map, all different, appends it.                             *)
Items(item, o, n) ==
  LET loop[i \in 0..n] ==
        IF i = 0 THEN Result(TRUE, <<>>, o)
        ELSE IF loop[i - 1].ok THEN AfterItem(loop[i - 1], item[loop[i - 1].at])
        ELSE loop[i - 1]
  IN  loop

(* An entry of a map; dec reads the vals inside.                           *)
DecodeEntry(dec, s, o) ==
  LET k == TakeText(s, o) IN
  IF ~k.ok THEN Failed(k.at)
  ELSE IF dec[k.at].ok THEN Result(TRUE, <<k.val, dec[k.at].val>>, dec[k.at].at)
  ELSE Failed(dec[k.at].at)

Typed(type, r) == Result(r.ok, [type |-> type, data |-> r.val], r.at)

(* An array or map from its count on: the elements or entries it adds to   *)
(* the val read into (see Onto).                                           *)
DecodeItems(type, item, s, o) ==
  LET n == TakeWord(s, o) IN
  IF n.ok THEN Typed(type, Items(item, n.at, n.val)[n.val]) ELSE Failed(n.at)

(* The rest of read(val&), after the type.  The vals inside an array or    *)
(* map are each read into a new val.                                       *)
DecodeBody(type, dec, s, o) ==
  CASE type = "EMPTY"       -> Typed(type, Result(TRUE, <<>>, o))
    [] type \in Numbers     -> Typed(type, Take(s, o, Width[type]))
    [] type \in {"STRING", "BYTEARRAY"} -> TakePointer(s, o, type)
    [] type = "MEASUREMENT" ->
         LET f == TakeWord(s, o)
             u == Take(s, f.at, 1)
         IN  IF ~f.ok THEN Failed(f.at)
             ELSE IF ~u.ok THEN Failed(u.at)
             ELSE Typed(type, Result(TRUE, <<f.val, u.val[1], Wild>>, u.at))
    [] type = "ARRAY"       -> DecodeItems(type, dec, s, o)
    [] type = "MAP"         ->
         DecodeItems(type, [p \in 0..Len(s) |-> DecodeEntry(dec, s, p)], s, o)
    [] type = "ERROR" ->   \* neither read is checked
         LET c == TakeWord(s, o)
             m == TakeText(s, c.at)
         IN  Typed(type, Result(TRUE, <<c.val, m.val>>, m.at))

DecodeVal(dec, s, o) ==
  LET t == TakeWord(s, o) IN
  IF t.ok THEN DecodeBody(TypeNamed(t.val), dec, s, t.at) ELSE Failed(t.at)

(* read(val&) at each place of a stream, of vals that nest less than d     *)
(* deep.                                                                   *)
Decoding(s) ==
  LET dec[d \in 0..MaxNest] ==
        IF d = 0 THEN [o \in 0..Len(s) |-> Failed(o)]
        ELSE [o \in 0..Len(s) |-> DecodeVal(dec[d - 1], s, o)]
  IN  dec

Decode(s, o) == Decoding(s)[MaxNest][o]

Empty == [type |-> "EMPTY", data |-> <<>>]

Containers == {"ARRAY", "MAP"}

HasKey(entries, k) == \E i \in DOMAIN entries : entries[i][1] = k

(* What a val holds when v has been read into it: setType() leaves an      *)
(* array or map that already is one as it is, push_back() adds to its      *)
(* elements and insert() only adds the entries whose keys are new.         *)
Onto(old, v) ==
  IF v.type \notin Containers \/ old.type # v.type THEN v
  ELSE LET New(e) == ~HasKey(old.data, e[1])
           added  == IF v.type = "ARRAY" THEN v.data ELSE SelectSeq(v.data, New)
       IN  [type |-> v.type, data |-> old.data \o added]

-----------------------------------------------------------------------------

Init ==
  /\ written = <<>> /\ stream = <<>>
  /\ cut = FALSE
  /\ offsetRead = 0 /\ out = <<>> /\ short = FALSE

WriteVal(v) ==
  /\ ~cut /\ Len(written) < MaxVals
  /\ written' = Append(written, v)
  /\ stream' = stream \o Encode(v)
  /\ UNCHANGED <<cut, offsetRead, out, short>>

(* The stream reaches its reader without its end; it holds no ERROR val,   *)
(* since read(val&) does not check what it reads of one.                   *)
Cut(n) ==
  /\ ~cut /\ \A i \in DOMAIN written : written[i] \in Nested(Plain)[MaxNest]
  /\ cut' = TRUE
  /\ stream' = SubSeq(stream, 1, n)
  /\ UNCHANGED <<written, offsetRead, out, short>>

(* read(val&) into a val that holds old.  No read follows one that failed, *)
(* so what that leaves in the val is not kept.                             *)
ReadVal(old) ==
  LET r == Decode(stream, offsetRead) IN
  /\ ~short
  /\ offsetRead' = r.at
  /\ short' = ~r.ok
  /\ out' = IF r.ok THEN Append(out, [into |-> old, val |-> Onto(old, r.val)]) ELSE out
  /\ UNCHANGED <<written, stream, cut>>

(* The program reads into a new val, or into one it has read into before.  *)
Targets == {Empty} \cup {out[i].val : i \in DOMAIN out}

Next ==
  \/ \E v \in Vals : WriteVal(v)
  \/ \E n \in offsetRead..Len(stream) : Cut(n)
  \/ \E old \in Targets : ReadVal(old)

Spec == Init /\ [][Next]_vars

-----------------------------------------------------------------------------
(* Properties.                                                             *)

(* Read into a val that was no array or map of the same type, every val    *)
(* that read(val&) accepts is the one that was written in its place, also  *)
(* when the stream has lost its end anywhere inside a val: the two agree   *)
(* in everything the stream carries, which of a measurement's unit is only *)
(* half.  Read into a val that was an array, the array written stands      *)
(* behind the elements it had, which setType() left.  A map read into a    *)
(* map is left out: entries under keys it had are lost to insert().        *)
ReadBack ==
  /\ Len(out) <= Len(written)
  /\ \A i \in DOMAIN out :
       LET old == out[i].into
           v   == out[i].val
       IN  /\ v.type \notin Containers \/ old.type # v.type
                => Encode(v) = Encode(written[i])
           /\ v.type = "ARRAY" /\ old.type = "ARRAY"
                => /\ SubSeq(v.data, 1, Len(old.data)) = old.data
                   /\ Encode([type |-> "ARRAY",
                              data |-> SubSeq(v.data, Len(old.data) + 1, Len(v.data))])
                        = Encode(written[i])

(* As long as reads succeed the cursor stands between two vals: exactly    *)
(* what write(val&) put in for a val is taken out for it.                  *)
InStep ==
  ~short => offsetRead = Len(Joined([i \in 1..Len(out) |-> Encode(written[i])]))

(* read(val&) fails only by running into the end of the stream: it never   *)
(* gives up in the middle, with vals left unread.                          *)
FailsAtEnd == [][short' /\ ~short => offsetRead' = Len(stream)]_vars
=============================================================================
