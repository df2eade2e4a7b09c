---------------------------- MODULE AcornString ----------------------------
(***************************************************************************)
(* acorn::string of base/string.cpp and base/string_.h: string objects     *)
(* that are slices (_offset, _cb) of reference-counted heap buffers or of  *)
(* literals, shared by copying and separated again by copy-on-write.       *)
(*                                                                         *)
(* A heap buffer b has a reference count refs[b] (0: not allocated) and    *)
(* bytes mem[b], hdr->cap + 1 of them (hdr->cb always equals hdr->cap).    *)
(* A call the code answers by undefined behaviour or a failed assertion    *)
(* sets fault and stops the program.  Malloc never hands out a block that  *)
(* a string still points at, so every use of a freed block is noticed.     *)
(***************************************************************************)
EXTENDS Integers, Sequences, FiniteSets

CONSTANTS
  Strings,    \* the string objects
  Blocks,     \* what malloc can return
  Lits,       \* the string literals of the program
  LitText,    \* their bytes, without the terminating null
  Null,       \* nullptr
  Char,       \* the non-null bytes
  Blank,      \* those in WHITESPACE_CHARS
  Nul,        \* '\0'
  Uninit,     \* a byte malloc or realloc left uninitialised
  Texts,      \* byte sequences that reach the API as char* or from a stream
  MaxLen,     \* bound on the capacity of a buffer
  RefLimit,   \* buf_release asserts refs < RefLimit (1000 in the code)
  NoRet,      \* "the last call returned no text"
  Hazards     \* the hazardous call patterns (HazardKinds) the callers use

VARIABLES
  refs,       \* bufhdr.refs of every block
  mem,        \* the bytes of every allocated block
  str,        \* the fields of every string object
  ret,        \* what c_str() returned, if it was the last call
  fault       \* how the program died, or "none"

vars == <<refs, mem, str, ret, fault>>

Standard == 0   \* kTypeStandard
Static   == 1   \* kTypeStatic
Bytes    == Char \cup {Nul, Uninit}

(* Calls the class does not handle: assigning a sole owner to itself,      *)
(* inserting a sole owner into itself, clear() of a static string,         *)
(* assign() to a static string, substr() of a null string, erase() inside  *)
(* a slice that owns its buffer alone, c_str() of a slice the code takes   *)
(* for a whole buffer, insert() past the end, using what read(string&)     *)
(* left when it returned false.                                            *)
HazardKinds == {"self_assign", "self_insert", "clear_static", "assign_static",
                "substr_null", "erase_slice", "cstr_slice", "insert_past",
                "short_read"}

Faults == {"assert", "bad_header", "null_deref", "use_after_free", "out_of_bounds"}

ASSUME StringsAssumption  == IsFiniteSet(Strings)
ASSUME ValuesAssumption   == /\ Null \notin Blocks \cup Lits
                             /\ Blocks \cap Lits = {}
                             /\ Nul \notin Char /\ Uninit \notin Char \cup {Nul}
                             /\ Blank \subseteq Char
(* _offset is a 24-bit field: buffers this small never make it wrap.       *)
ASSUME MaxLenAssumption   == MaxLen \in Nat /\ MaxLen < 16777216
ASSUME TextsAssumption    == /\ LitText \in [Lits -> Seq(Char)]
                             /\ Texts \subseteq Seq(Char)
                             /\ \A l \in Lits : Len(LitText[l]) <= MaxLen
                             /\ \A t \in Texts : Len(t) <= MaxLen
ASSUME RefLimitAssumption == RefLimit \in Nat /\ RefLimit >= 2
ASSUME HazardsAssumption  == Hazards \subseteq HazardKinds
ASSUME RetAssumption      == Null \notin Seq(Bytes) /\ NoRet # Null

StringRec == [buf : Blocks \cup Lits \cup {Null}, cb : Nat, offset : Nat,
              type : {Standard, Static}]

Default == [buf |-> Null, cb |-> 0, offset |-> 0, type |-> Standard]

-----------------------------------------------------------------------------
(* Buffers.                                                                *)

BytesAt(m, p) ==
  IF p \in Blocks THEN m[p] ELSE IF p \in Lits THEN Append(LitText[p], Nul) ELSE <<>>

Cap(b) == Len(mem[b]) - 1

(* The bytes a string stands for: _cb of them from start().                *)
ValueIn(m, s) == SubSeq(BytesAt(m, s.buf), s.offset + 1, s.offset + s.cb)

Value(s) == ValueIn(mem, s)

Counted(s) == s.buf # Null /\ s.type = Standard

Keep(r, s) == IF Counted(s) THEN [r EXCEPT ![s.buf] = @ + 1] ELSE r

Drop(r, s) == IF Counted(s) THEN [r EXCEPT ![s.buf] = @ - 1] ELSE r

AssertFails(r, s) == Counted(s) /\ r[s.buf] >= RefLimit

New(r, b) == [r EXCEPT ![b] = 1]

Fresh == {b \in Blocks : refs[b] = 0 /\ \A h \in Strings : str[h].buf # b}

Dangling(s) == s.buf \in Blocks /\ refs[s.buf] = 0

Unreadable(s) == Dangling(s) /\ s.cb > 0

(* Bug: an off-by-one in the test refs > 1.                                *)
InPlaceShared(s) == s.type = Standard /\ refs[s.buf] <= 2

(* prepareToModify() leaves the buffer of such a string where it is.       *)
InPlace(s) == s.type = Standard /\ refs[s.buf] <= 1

Sole(s) == Counted(s) /\ refs[s.buf] = 1

Resize(d, n) == [i \in 1..n |-> IF i <= Len(d) THEN d[i] ELSE Uninit]

Write(d, at, bs) ==
  [i \in 1..Len(d) |-> IF at < i /\ i <= at + Len(bs) THEN bs[i - at] ELSE d[i]]

(* How many elements of d come before the first one outside S.             *)
Run(d, S) == Cardinality({i \in 1..Len(d) : \A j \in 1..i : d[j] \in S})

(* The text a char* reader sees in d: everything up to the first null.     *)
CString(d) == SubSeq(d, 1, Run(d, Bytes \ {Nul}))

-----------------------------------------------------------------------------
(* How a call ends.                                                        *)

Crash(kind) ==
  /\ fault' = kind
  /\ UNCHANGED <<refs, mem, str, ret>>

Frees(m, r) == [b \in Blocks |-> IF r[b] = 0 THEN <<>> ELSE m[b]]

Done(h, s, r, m) ==
  /\ str' = [str EXCEPT ![h] = s]
  /\ refs' = r
  /\ mem' = Frees(m, r)
  /\ ret' = NoRet
  /\ UNCHANGED fault

Nothing == ret' = NoRet /\ UNCHANGED <<refs, mem, str, fault>>

OnlyIf(kind, pattern) == pattern => kind \in Hazards

-----------------------------------------------------------------------------
(* Lifetime, copying and slicing.                                          *)

Init ==
  /\ refs = [b \in Blocks |-> 0]
  /\ mem = [b \in Blocks |-> <<>>]
  /\ str = [h \in Strings |-> Default]
  /\ ret = NoRet
  /\ fault = "none"

(* Bug: a destructor that, like clear(), does not look at _type.           *)
DestroyUntyped(h) ==
  \/ str[h].buf \in Lits /\ Crash("bad_header")
  \/ str[h].buf \notin Lits /\ Done(h, Default, Drop(refs, str[h]), mem)

(* ~string(); the object may be constructed again afterwards.              *)
Destroy(h) ==
  \/ AssertFails(refs, str[h]) /\ Crash("assert")
  \/ ~AssertFails(refs, str[h]) /\ Done(h, Default, Drop(refs, str[h]), mem)

(* Assignment of a literal: operator= from a temporary static string.      *)
AssignLiteral(h, l) ==
  \/ AssertFails(refs, str[h]) /\ Crash("assert")
  \/ /\ ~AssertFails(refs, str[h])
     /\ Done(h, [buf |-> l, cb |-> Len(LitText[l]), offset |-> 0, type |-> Static],
             Drop(refs, str[h]), mem)

(* operator=(const string&); the copy constructor when h is Default.       *)
CopyAssign(h, g) ==
  LET suicide == h = g /\ Sole(str[h]) IN
  /\ OnlyIf("self_assign", suicide)
  /\ \/ AssertFails(refs, str[h]) /\ Crash("assert")
     \/ ~AssertFails(refs, str[h]) /\ suicide /\ Crash("use_after_free")
     \/ /\ ~AssertFails(refs, str[h]) /\ ~suicide
        /\ Done(h, str[g], Keep(Drop(refs, str[h]), str[g]), mem)

(* string(string&&): h is under construction.                              *)
MoveConstruct(h, g) ==
  /\ h # g
  /\ str[h] = Default
  /\ str' = [str EXCEPT ![h] = str[g], ![g] = Default]
  /\ ret' = NoRet
  /\ UNCHANGED <<refs, mem, fault>>

(* h = g's bytes from..to-1: the substring constructor makes a temporary,  *)
(* operator= copies it into h, the temporary is destroyed.                 *)
AssignSlice(h, g, from, to) ==
  LET tmp   == [buf |-> str[g].buf, cb |-> to - from,
                offset |-> str[g].offset + from, type |-> str[g].type]
      held  == Keep(refs, tmp)
      moved == Keep(Drop(held, str[h]), tmp)
      null  == str[g].type = Standard /\ str[g].buf = Null
  IN
  /\ OnlyIf("substr_null", null)
  /\ \/ null /\ Crash("null_deref")
     \/ /\ ~null /\ (AssertFails(held, str[h]) \/ AssertFails(moved, tmp))
        /\ Crash("assert")
     \/ /\ ~null /\ ~AssertFails(held, str[h]) /\ ~AssertFails(moved, tmp)
        /\ Done(h, tmp, Drop(moved, tmp), mem)

(* substr() swaps offsets given the wrong way round and clamps them.       *)
Clamp(s, o) == IF o < s.cb THEN o ELSE s.cb

(* Bug: offsets that are not clamped to the string.                        *)
SubstrUnclamped(h, g, from, to) ==
  IF from <= to THEN AssignSlice(h, g, from, to) ELSE AssignSlice(h, g, to, from)

(* Bug: offsets that are not swapped.                                      *)
SubstrUnordered(h, g, from, to) ==
  AssignSlice(h, g, Clamp(str[g], from), Clamp(str[g], to))

Substr(h, g, from, to) ==
  IF from <= to
  THEN AssignSlice(h, g, Clamp(str[g], from), Clamp(str[g], to))
  ELSE AssignSlice(h, g, Clamp(str[g], to), Clamp(str[g], from))

(* strchr(chars, '\0') finds the terminator of chars: a null byte is blank. *)
Blanks == Blank \cup {Nul}

(* The leading and trailing blanks trim() counts; if all are blank the     *)
(* second loop finds nothing left to count.                                *)
Lead(v) == Run(v, Blanks)

Trail(v) ==
  IF Lead(v) = Len(v) THEN 0
  ELSE Cardinality({i \in 1..Len(v) : \A j \in i..Len(v) : v[j] \in Blanks})

Trim(h) ==
  LET v == Value(str[h]) IN
  \/ Unreadable(str[h]) /\ Crash("use_after_free")
  \/ /\ ~Unreadable(str[h])
     /\ IF Lead(v) + Trail(v) = 0 THEN Nothing
        ELSE AssignSlice(h, h, Lead(v), str[h].cb - Trail(v))

-----------------------------------------------------------------------------
(* New contents.                                                           *)

(* The string assign() or insert() into a null string leaves: _type is not *)
(* reset.                                                                  *)
Owning(h, b, n) == [buf |-> b, cb |-> n, offset |-> 0, type |-> str[h].type]

(* assign(p, cb), operator=(const char* ).                                 *)
Assign(h, t) ==
  /\ OnlyIf("assign_static", str[h].type = Static)
  /\ \/ AssertFails(refs, str[h]) /\ Crash("assert")
     \/ /\ ~AssertFails(refs, str[h])
        /\ \E b \in Fresh :
             Done(h, Owning(h, b, Len(t)), New(Drop(refs, str[h]), b),
                  [mem EXCEPT ![b] = Append(t, Nul)])

AssignNull(h) ==
  /\ OnlyIf("assign_static", str[h].type = Static)
  /\ \/ AssertFails(refs, str[h]) /\ Crash("assert")
     \/ /\ ~AssertFails(refs, str[h])
        /\ Done(h, Owning(h, Null, 0), Drop(refs, str[h]), mem)

(* Where prepareToModify() leaves the bytes of s, and what it releases.    *)
Targets(s) == IF InPlace(s) THEN {s.buf} ELSE Fresh

Prepared(s) == IF InPlace(s) THEN mem[s.buf] ELSE Append(Value(s), Uninit)

PreparedOffset(s) == IF InPlace(s) THEN s.offset ELSE 0

(* Bug: copying on write without releasing the shared buffer.              *)
PreparedKeeping(s, b) == IF InPlace(s) THEN refs ELSE New(refs, b)

PreparedRefs(s, b) == IF InPlace(s) THEN refs ELSE New(Drop(refs, s), b)

(* insert() after prepareToModify(): realloc, move the tail, copy the n    *)
(* bytes in, terminate.                                                    *)
Opened(s, o, n) ==
  LET d   == Prepared(s)
      at  == PreparedOffset(s) + o
  IN  Write(Resize(d, Len(d) + n), at + n, SubSeq(d, at + 1, at + s.cb - o))

(* Bug: the bytes are copied in before the tail has moved.                 *)
InsertedOver(s, o, t) ==
  LET d  == Resize(Prepared(s), Len(Prepared(s)) + Len(t))
      at == PreparedOffset(s)
  IN  Write(Write(d, at + o, t), at + s.cb + Len(t), <<Nul>>)

Inserted(s, o, t) ==
  LET at == PreparedOffset(s) IN
  Write(Write(Opened(s, o, Len(t)), at + o, t), at + s.cb + Len(t), <<Nul>>)

Modified(h, b, n, d) ==
  LET s == str[h] IN
  Done(h, [buf |-> b, cb |-> n, offset |-> PreparedOffset(s), type |-> Standard],
       PreparedRefs(s, b), [mem EXCEPT ![b] = d])

(* insert(o, p, cb) with p outside the string.                             *)
InsertText(h, o, t) ==
  LET s == str[h] IN
  \/ t = <<>> /\ Nothing
  \/ t # <<>> /\ s.buf = Null /\ Assign(h, t)
  \/ t # <<>> /\ s.buf # Null /\ Unreadable(s) /\ Crash("use_after_free")
  \/ t # <<>> /\ s.buf # Null /\ AssertFails(refs, s) /\ Crash("assert")
  \/ /\ t # <<>> /\ s.buf # Null /\ ~Unreadable(s) /\ ~AssertFails(refs, s)
     /\ Len(Prepared(s)) - 1 + Len(t) <= MaxLen
     /\ \E b \in Targets(s) : Modified(h, b, s.cb + Len(t), Inserted(s, o, t))

(* insert(o, g): append, prepend, operator+= and operator+ too.  A string  *)
(* inserted into itself while it owns its buffer alone is read through a   *)
(* pointer taken before realloc(): the block has moved, or the bytes are   *)
(* those memmove() has left there.                                         *)
InsertString(h, o, g) ==
  LET s == str[h]
      self == g = h /\ Sole(s) /\ s.cb > 0
  IN
  /\ OnlyIf("self_insert", self)
  /\ \/ ~self /\ Unreadable(str[g]) /\ Crash("use_after_free")
     \/ ~self /\ ~Unreadable(str[g]) /\ InsertText(h, o, Value(str[g]))
     \/ self /\ Crash("use_after_free")
     \/ /\ self /\ Cap(s.buf) + s.cb <= MaxLen
        /\ LET t == SubSeq(Opened(s, o, s.cb), s.offset + 1, s.offset + s.cb)
           IN  Modified(h, s.buf, 2 * s.cb, Inserted(s, o, t))

(* insert() of a text at an offset past the end: _cb - byteOffset wraps,   *)
(* and memmove() runs out of the buffer.                                   *)
InsertPast(h) ==
  /\ OnlyIf("insert_past", TRUE)
  /\ str[h].buf # Null /\ ~Unreadable(str[h]) /\ ~AssertFails(refs, str[h])
  /\ Crash("out_of_bounds")

(* erase() of a range that is not empty once swapped and clamped.  The     *)
(* terminator goes to _buf[_cb], not to start()[_cb].                      *)
Erased(s, from, to) ==
  LET d    == Prepared(s)
      at   == PreparedOffset(s)
      tail == SubSeq(d, at + to + 1, at + s.cb)
  IN  Resize(Write(Write(d, at + from, tail), s.cb - (to - from), <<Nul>>),
             Len(d) - (to - from))

EraseRange(h, from, to) ==
  LET s == str[h] IN
  /\ OnlyIf("erase_slice", from < to /\ InPlace(s) /\ s.offset > 0)
  /\ \/ from = to /\ Nothing
     \/ from < to /\ Dangling(s) /\ Crash("use_after_free")
     \/ from < to /\ AssertFails(refs, s) /\ Crash("assert")
     \/ /\ from < to /\ ~Dangling(s) /\ ~AssertFails(refs, s)
        /\ \E b \in Targets(s) :
             Modified(h, b, s.cb - (to - from), Erased(s, from, to))

Erase(h, from, to) ==
  IF from <= to
  THEN EraseRange(h, Clamp(str[h], from), Clamp(str[h], to))
  ELSE EraseRange(h, Clamp(str[h], to), Clamp(str[h], from))

-----------------------------------------------------------------------------
(* c_str(), and clear() with its callers.                                  *)

(* c_str() tells a slice from a whole buffer by its end alone, and only in *)
(* a standard string.                                                      *)
TakenForWhole(s) ==
  \/ s.type = Static
  \/ s.buf \in Blocks /\ s.offset + s.cb >= Cap(s.buf)

CStr(h) ==
  LET s == str[h] IN
  /\ OnlyIf("cstr_slice", /\ TakenForWhole(s)
                          /\ s.offset > 0 \/ s.cb < Len(BytesAt(mem, s.buf)) - 1)
  /\ \/ s.buf = Null /\ ret' = Null /\ UNCHANGED <<refs, mem, str, fault>>
     \/ s.buf # Null /\ Dangling(s) /\ Crash("use_after_free")
     \/ /\ s.buf # Null /\ ~Dangling(s) /\ TakenForWhole(s)
        /\ ret' = CString(BytesAt(mem, s.buf))
        /\ UNCHANGED <<refs, mem, str, fault>>
     \/ /\ s.buf # Null /\ ~Dangling(s) /\ ~TakenForWhole(s)
        /\ AssertFails(refs, s) /\ Crash("assert")
     \/ /\ s.buf # Null /\ ~Dangling(s) /\ ~TakenForWhole(s) /\ ~AssertFails(refs, s)
        /\ \E b \in Fresh :
             LET r == New(Drop(refs, s), b) IN
             /\ str' = [str EXCEPT ![h] = Owning(h, b, s.cb)]
             /\ refs' = r
             /\ mem' = Frees([mem EXCEPT ![b] = Append(Value(s), Nul)], r)
             /\ ret' = Value(s)
             /\ UNCHANGED fault

(* clear() releases whatever _buf points at, a literal included.           *)
ClearFault(s) ==
  CASE s.buf \in Lits                              -> "bad_header"
    [] s.buf \in Blocks /\ refs[s.buf] = 0         -> "use_after_free"
    [] s.buf \in Blocks /\ refs[s.buf] >= RefLimit -> "assert"
    [] OTHER                                       -> "none"

(* Bug: a clear() that forgets buf_release().                              *)
ClearNot(s) == refs

ClearRefs(s) == IF s.buf \in Blocks THEN [refs EXCEPT ![s.buf] = @ - 1] ELSE refs

ClearHazard(s) == OnlyIf("clear_static", s.buf # Null /\ s.type = Static)

Clear(h) ==
  /\ ClearHazard(str[h])
  /\ \/ ClearFault(str[h]) # "none" /\ Crash(ClearFault(str[h]))
     \/ /\ ClearFault(str[h]) = "none"
        /\ Done(h, Owning(h, Null, 0), ClearRefs(str[h]), mem)

MutateToStatic(h, l) ==
  /\ ClearHazard(str[h])
  /\ \/ ClearFault(str[h]) # "none" /\ Crash(ClearFault(str[h]))
     \/ /\ ClearFault(str[h]) = "none"
        /\ Done(h, [buf |-> l, cb |-> Len(LitText[l]), offset |-> 0, type |-> Static],
                ClearRefs(str[h]), mem)

(* A text of which the stream lost the last k bytes: readBytes() copies    *)
(* the others and the rest of the buffer stays as malloc left it.          *)
Received(t, k) == [i \in 1..Len(t) |-> IF i <= Len(t) - k THEN t[i] ELSE Uninit]

(* bytestream::read(string&): alloc() the length found in the stream, then *)
(* fill it; with bytes missing it returns false and keeps length and       *)
(* buffer.                                                                 *)
ReadString(h, t, k) ==
  /\ ClearHazard(str[h])
  /\ OnlyIf("assign_static", str[h].buf = Null /\ str[h].type = Static)
  /\ OnlyIf("short_read", k > 0)
  /\ \/ ClearFault(str[h]) # "none" /\ Crash(ClearFault(str[h]))
     \/ /\ ClearFault(str[h]) = "none"
        /\ \E b \in Fresh :
             Done(h, Owning(h, b, Len(t)), New(ClearRefs(str[h]), b),
                  [mem EXCEPT ![b] = Append(Received(t, k), Nul)])

(* The stream ends inside the length.                                      *)
ReadStringEof(h) ==
  Done(h, [str[h] EXCEPT !.cb = 0], refs, mem)

-----------------------------------------------------------------------------

Next ==
  /\ fault = "none"
  /\ \E h \in Strings :
       \/ Destroy(h)
       \/ \E l \in Lits : AssignLiteral(h, l)
       \/ \E g \in Strings : CopyAssign(h, g)
       \/ \E g \in Strings : MoveConstruct(h, g)
       \/ \E g \in Strings : \E from, to \in 0..str[g].cb + 1 : Substr(h, g, from, to)
       \/ Trim(h)
       \/ \E t \in Texts : Assign(h, t)
       \/ AssignNull(h)
       \/ \E t \in Texts : \E o \in 0..str[h].cb : InsertText(h, o, t)
       \/ \E g \in Strings : \E o \in 0..str[h].cb : InsertString(h, o, g)
       \/ InsertPast(h)
       \/ \E from, to \in 0..str[h].cb + 1 : Erase(h, from, to)
       \/ CStr(h)
       \/ Clear(h)
       \/ \E l \in Lits : MutateToStatic(h, l)
       \/ \E t \in Texts : \E k \in 0..Len(t) : ReadString(h, t, k)
       \/ ReadStringEof(h)

Spec == Init /\ [][Next]_vars

-----------------------------------------------------------------------------
(* Properties.                                                             *)

(* Every variable has its type.                                            *)
TypeOK ==
  /\ refs \in [Blocks -> Nat]
  /\ mem \in [Blocks -> Seq(Bytes)]
  /\ str \in [Strings -> StringRec]
  /\ ret \in Seq(Bytes) \cup {Null, NoRet}
  /\ fault \in Faults \cup {"none"}

Owners(b) == {h \in Strings : Counted(str[h]) /\ str[h].buf = b}

(* The count in a buffer's header is the number of standard strings that   *)
(* point at it, whatever the callers do: buf_release never frees a buffer  *)
(* a standard string still uses, and prepareToModify's refs > 1 test tells *)
(* exactly whether writing in place would be seen by another string.       *)
RefsExact ==
  \A b \in Blocks : Owners(b) # {} => refs[b] = Cardinality(Owners(b))

(* Every slice lies inside the buffer it points into, with room for the    *)
(* terminating null: start()[_cb] is never outside the allocation.         *)
InBounds ==
  \A h \in Strings :
    IF str[h].buf = Null THEN str[h].cb = 0
    ELSE \/ Dangling(str[h])
         \/ str[h].offset + str[h].cb < Len(BytesAt(mem, str[h].buf))

(* Copy-on-write: a call that leaves a string object alone leaves the text *)
(* it stands for alone, however its buffer is shared.                      *)
Isolation ==
  [][\A h \in Strings :
       str'[h] = str[h] /\ ~Dangling(str[h]) /\ ~Dangling(str[h])'
         => Value(str[h])' = Value(str[h])]_vars

(* No call reaches freed memory, a null pointer, the "header" of a literal *)
(* or a failing assertion.                                                 *)
NoFault == fault = "none"

(* c_str() returns the text of the string it was called on.                *)
CStrFaithful ==
  ret \notin {NoRet, Null} => \E h \in Strings : ret = Value(str[h])

(* Every allocated buffer is still reachable from a string.                *)
NoLeak == \A b \in Blocks : refs[b] > 0 => \E h \in Strings : str[h].buf = b

(* Outside the hazardous patterns a string is a value: see StringValue.    *)
Abs == INSTANCE StringValue WITH
         Texts <- Texts \cup {LitText[l] : l \in Lits},
         val <- [h \in Strings |-> Value(str[h])],
         ret <- IF ret = Null THEN <<>> ELSE ret

ValueSemantics == Abs!Spec
=============================================================================
