------------------------- MODULE AcornStringProofs -------------------------
(***************************************************************************)
(* Proofs about AcornString for every set of strings, blocks and literals, *)
(* every bound and every set of hazardous call patterns; and what the      *)
(* class promises callers that keep to its contract: no call on a pattern  *)
(* of HazardKinds, and fewer string objects than the assertion of          *)
(* buf_release allows for.  Then no call faults (NoFault), no buffer is    *)
(* lost (NoLeak), and a string is a value (ValueSemantics): the refinement *)
(* of StringValue, for any number of strings and any texts.                *)
(***************************************************************************)
EXTENDS AcornString, FiniteSetTheorems, SequenceTheorems, TLAPS

(* The standard strings of st that point at b, and whether s is one.       *)
OwnersIn(st, b) == {h \in Strings : Counted(st[h]) /\ st[h].buf = b}

Own(s, b) == IF Counted(s) /\ s.buf = b THEN 1 ELSE 0

-----------------------------------------------------------------------------
(* Counting owners.                                                        *)

(* Replacing one string object changes the number of owners of a buffer by *)
(* what the old object contributed and what the new one does.              *)
LEMMA OwnersChange ==
  ASSUME NEW st \in [Strings -> StringRec], NEW new \in [Strings -> StringRec],
         NEW h \in Strings, \A g \in Strings \ {h} : new[g] = st[g], NEW b
  PROVE  /\ Cardinality(OwnersIn(new, b))
              = Cardinality(OwnersIn(st, b)) - Own(st[h], b) + Own(new[h], b)
         /\ Cardinality(OwnersIn(st, b)) \in Nat
         /\ OwnersIn(st, b) = {} <=> Cardinality(OwnersIn(st, b)) = 0
<1> DEFINE O  == OwnersIn(st, b)
           N  == OwnersIn(new, b)
           R  == O \ {h}
<1>1. IsFiniteSet(O) /\ IsFiniteSet(R)
  BY StringsAssumption, FS_Subset DEF OwnersIn
<1>2. h \notin R /\ Cardinality(R) \in Nat /\ Cardinality(O) \in Nat
  BY <1>1, FS_CardinalityType
<1>3. Cardinality(R \cup {h}) = Cardinality(R) + 1
  BY <1>1, <1>2, FS_AddElement
<1>4. O = IF Counted(st[h]) /\ st[h].buf = b THEN R \cup {h} ELSE R
  BY DEF OwnersIn
<1>5. N = IF Counted(new[h]) /\ new[h].buf = b THEN R \cup {h} ELSE R
  BY DEF OwnersIn
<1>6. Cardinality(O) = Cardinality(R) + Own(st[h], b)
  <2>1. CASE Counted(st[h]) /\ st[h].buf = b
    BY <1>2, <1>3, <1>4, <2>1 DEF Own
  <2>2. CASE ~(Counted(st[h]) /\ st[h].buf = b)
    BY <1>2, <1>4, <2>2 DEF Own
  <2> QED
    BY <2>1, <2>2
<1>7. Cardinality(N) = Cardinality(R) + Own(new[h], b)
  BY <1>2, <1>3, <1>5 DEF Own
<1>8. O = {} <=> Cardinality(O) = 0
  BY <1>1, FS_EmptySet
<1> QED
  BY <1>2, <1>6, <1>7, <1>8 DEF Own

-----------------------------------------------------------------------------
(* Byte sequences.                                                         *)

LEMMA ResizeType ==
  ASSUME NEW d \in Seq(Bytes), NEW n \in Nat
  PROVE  Resize(d, n) \in Seq(Bytes) /\ Len(Resize(d, n)) = n
<1>1. \A i \in 1..n : (IF i <= Len(d) THEN d[i] ELSE Uninit) \in Bytes
  BY DEF Bytes
<1> QED
  BY <1>1 DEF Resize

LEMMA WriteType ==
  ASSUME NEW d \in Seq(Bytes), NEW at \in Nat, NEW bs \in Seq(Bytes)
  PROVE  Write(d, at, bs) \in Seq(Bytes) /\ Len(Write(d, at, bs)) = Len(d)
<1>1. \A i \in 1..Len(d) :
        (IF at < i /\ i <= at + Len(bs) THEN bs[i - at] ELSE d[i]) \in Bytes
  OBVIOUS
<1> QED
  BY <1>1 DEF Write

LEMMA SliceType ==
  ASSUME NEW d \in Seq(Bytes), NEW m \in Nat, NEW n \in Nat, m + n <= Len(d)
  PROVE  SubSeq(d, m + 1, m + n) \in Seq(Bytes) /\ Len(SubSeq(d, m + 1, m + n)) = n
  OBVIOUS

LEMMA RunType ==
  ASSUME NEW d \in Seq(Bytes), NEW S
  PROVE  Run(d, S) \in 0..Len(d)
<1> DEFINE R == {i \in 1..Len(d) : \A j \in 1..i : d[j] \in S}
<1>1. IsFiniteSet(1..Len(d)) /\ Cardinality(1..Len(d)) = Len(d)
  <2>1. Len(d) \in Nat
    OBVIOUS
  <2>2. 1 \in Int /\ Len(d) \in Int
    BY <2>1
  <2>3. Cardinality(1..Len(d)) = IF 1 > Len(d) THEN 0 ELSE Len(d) - 1 + 1
    BY <2>2, FS_Interval
  <2> QED
    BY <2>1, <2>2, <2>3, FS_Interval
<1>2. R \subseteq 1..Len(d)
  OBVIOUS
<1>3. IsFiniteSet(R) /\ Cardinality(R) <= Cardinality(1..Len(d))
  BY <1>1, <1>2, FS_Subset
<1>4. Cardinality(R) \in Nat
  BY <1>3, FS_CardinalityType
<1> QED
  BY <1>1, <1>3, <1>4 DEF Run

LEMMA CStringType ==
  ASSUME NEW d \in Seq(Bytes)
  PROVE  CString(d) \in Seq(Bytes)
<1> DEFINE n == Run(d, Bytes \ {Nul})
<1>1. n \in 0..Len(d)
  BY RunType
<1> HIDE DEF n
<1>2. SubSeq(d, 1, n) \in Seq(Bytes)
  BY <1>1
<1> QED
  BY <1>2 DEF CString, n

-----------------------------------------------------------------------------
(* The inductive invariant.                                                *)

(* A standard string points at the heap: buf_retain and buf_release never  *)
(* take a literal's bytes for a header.                                    *)
CountedBlocks == \A h \in Strings : Counted(str[h]) => str[h].buf \in Blocks

(* Two strings that share a heap buffer agree on whether it is counted.    *)
OneLabel ==
  \A h, g \in Strings :
    str[h].buf \in Blocks /\ str[g].buf = str[h].buf => str[g].type = str[h].type

IInv == TypeOK /\ CountedBlocks /\ OneLabel /\ RefsExact /\ InBounds

(* What a step may do to a count: one that had owners is exact afterwards, *)
(* down to zero; one that had none rises only for a string that points     *)
(* there now.                                                              *)
Counts ==
  \A b \in Blocks :
    IF Owners(b) # {} THEN refs'[b] = Cardinality(OwnersIn(str', b))
    ELSE refs'[b] <= refs[b] \/ \E g \in Strings : str'[g].buf = b

(* What a step may do to memory: a block whose bytes change is free        *)
(* afterwards, or every string that pointed at it has been replaced.       *)
Frame ==
  /\ Counts
  /\ \A b \in Blocks :
       \/ mem'[b] = mem[b]
       \/ refs'[b] = 0
       \/ \A g \in Strings : str[g].buf = b => str'[g] # str[g]

(* r is an exact count again once h has become s.                          *)
Recounts(r, h, s) ==
  \A b \in Blocks :
    \/ Owners(b) # {} /\ r[b] = refs[b] - Own(str[h], b) + Own(s, b)
    \/ Owners(b) = {} /\ (Own(s, b) = 0 \/ r[b] = 1) /\ (r[b] <= refs[b] \/ s.buf = b)

LEMMA Recount ==
  ASSUME TypeOK, RefsExact, NEW h \in Strings, NEW s \in StringRec,
         NEW r \in [Blocks -> Nat], Recounts(r, h, s),
         str' = [str EXCEPT ![h] = s], refs' = r
  PROVE  RefsExact' /\ Counts
<1> SUFFICES ASSUME NEW b \in Blocks
             PROVE  /\ OwnersIn(str', b) # {} => r[b] = Cardinality(OwnersIn(str', b))
                    /\ IF Owners(b) # {} THEN r[b] = Cardinality(OwnersIn(str', b))
                       ELSE r[b] <= refs[b] \/ \E g \in Strings : str'[g].buf = b
  BY DEF RefsExact, Counts, Owners, OwnersIn, Counted
<1>1. str \in [Strings -> StringRec] /\ refs[b] \in Nat
  BY DEF TypeOK
<1>2. str' \in [Strings -> StringRec]
  BY <1>1
<1>3. /\ Cardinality(OwnersIn(str', b))
           = Cardinality(OwnersIn(str, b)) - Own(str[h], b) + Own(s, b)
      /\ Cardinality(OwnersIn(str, b)) \in Nat
      /\ OwnersIn(str, b) = {} <=> Cardinality(OwnersIn(str, b)) = 0
  <2> DEFINE new == str'
  <2>1. new \in [Strings -> StringRec] /\ new[h] = s /\ \A g \in Strings \ {h} : new[g] = str[g]
    BY <1>1, <1>2
  <2> HIDE DEF new
  <2>2. /\ Cardinality(OwnersIn(new, b))
             = Cardinality(OwnersIn(str, b)) - Own(str[h], b) + Own(s, b)
        /\ Cardinality(OwnersIn(str, b)) \in Nat
        /\ OwnersIn(str, b) = {} <=> Cardinality(OwnersIn(str, b)) = 0
    BY <1>1, <2>1, OwnersChange
  <2> QED
    BY <2>2 DEF new
<1>4. OwnersIn(str, b) = Owners(b)
  BY DEF OwnersIn, Owners
<1>5. CASE Owners(b) # {}
  <2>1. refs[b] = Cardinality(OwnersIn(str, b))
    BY <1>4, <1>5 DEF RefsExact
  <2> QED
    BY <1>1, <1>3, <1>5, <2>1 DEF Recounts, Own
<1>6. CASE Owners(b) = {}
  <2>1. Own(str[h], b) = 0
    BY <1>6 DEF Owners, Own
  <2>2. Cardinality(OwnersIn(str', b)) = Own(s, b)
    BY <1>3, <1>4, <1>6, <2>1 DEF Own
  <2>3. OwnersIn(str', b) # {} => Cardinality(OwnersIn(str', b)) # 0
    BY <1>2, OwnersChange
  <2>4. (Own(s, b) = 0 \/ r[b] = 1) /\ (r[b] <= refs[b] \/ s.buf = b) /\ str'[h] = s
    BY <1>1, <1>6 DEF Recounts
  <2> QED
    BY <1>6, <2>2, <2>3, <2>4 DEF Own
<1> QED
  BY <1>5, <1>6

-----------------------------------------------------------------------------
(* One string object changes.                                              *)

(* s lies inside its buffer, unless that has been freed.                   *)
Fits(s, r, m) ==
  IF s.buf = Null THEN s.cb = 0
  ELSE \/ s.buf \in Blocks /\ r[s.buf] = 0
       \/ s.offset + s.cb < Len(BytesAt(m, s.buf))

(* The conditions under which h becoming s, with counts r and bytes m, is  *)
(* harmless to every other string.                                         *)
Safe(h, s, r, m) ==
  /\ s \in StringRec /\ r \in [Blocks -> Nat] /\ m \in [Blocks -> Seq(Bytes)]
  /\ Recounts(r, h, s)
  /\ Fits(s, r, m)
  /\ Counted(s) => s.buf \in Blocks
  /\ \A g \in Strings \ {h} :
       s.buf \in Blocks /\ str[g].buf = s.buf => str[g].type = s.type
  /\ \A b \in Blocks :
       \/ m[b] = mem[b]
       \/ \A g \in Strings : str[g].buf = b => g = h /\ s # str[h]
  /\ \A b \in Blocks : refs[b] = 0 /\ r[b] > 0 => \A g \in Strings : str[g].buf # b

LEMMA Update ==
  ASSUME IInv, NEW h \in Strings, NEW s, NEW r, NEW m, Safe(h, s, r, m),
         str' = [str EXCEPT ![h] = s], refs' = r, mem' = Frees(m, r),
         ret' \in Seq(Bytes) \cup {Null, NoRet}, fault' \in Faults \cup {"none"}
  PROVE  IInv' /\ Frame
<1>1. /\ str \in [Strings -> StringRec] /\ s \in StringRec
      /\ mem \in [Blocks -> Seq(Bytes)] /\ refs \in [Blocks -> Nat]
      /\ r \in [Blocks -> Nat] /\ m \in [Blocks -> Seq(Bytes)]
  BY DEF IInv, TypeOK, Safe
<1>2. mem' \in [Blocks -> Seq(Bytes)] /\ \A b \in Blocks : r[b] # 0 => mem'[b] = m[b]
  BY <1>1 DEF Frees
<1>3. TypeOK'
  BY <1>1, <1>2 DEF TypeOK
<1>4. CountedBlocks'
  BY <1>1 DEF CountedBlocks, Counted, IInv, Safe
<1>5. OneLabel'
  BY <1>1 DEF OneLabel, IInv, Safe
<1>6. RefsExact' /\ Counts
  BY <1>1, Recount DEF IInv, Safe
<1>7. InBounds'
  <2> SUFFICES ASSUME NEW g \in Strings
               PROVE  Fits(str'[g], r, mem')
    BY DEF InBounds, Fits, Dangling, BytesAt
  <2>1. CASE g = h
    <3>1. str'[g] = s
      BY <1>1, <2>1
    <3> QED
      BY <1>1, <1>2, <3>1 DEF Safe, Fits, BytesAt
  <2>2. CASE g # h
    <3>1. str'[g] = str[g]
      BY <1>1, <2>2
    <3>2. Fits(str[g], refs, mem)
      BY DEF IInv, InBounds, Fits, Dangling
    <3>3. ASSUME str[g].buf \in Blocks, r[str[g].buf] # 0
          PROVE  refs[str[g].buf] # 0 /\ mem'[str[g].buf] = mem[str[g].buf]
      <4> DEFINE b == str[g].buf
      <4>1. b \in Blocks /\ r[b] \in Nat /\ r[b] > 0
        BY <1>1, <3>3
      <4>2. refs[b] # 0
        BY <4>1 DEF Safe
      <4>3. m[b] = mem[b]
        BY <2>2, <4>1 DEF Safe
      <4> QED
        BY <1>2, <3>3, <4>2, <4>3
    <3> QED
      BY <1>1, <3>1, <3>2, <3>3 DEF Fits, BytesAt
  <2> QED
    BY <2>1, <2>2
<1>8. Frame
  BY <1>1, <1>2, <1>6 DEF Frame, Safe
<1> QED
  BY <1>3, <1>4, <1>5, <1>6, <1>7, <1>8 DEF IInv

(* A call that changes no string object and no buffer.                     *)
LEMMA Quiet ==
  ASSUME IInv, UNCHANGED <<refs, mem, str>>,
         ret' \in Seq(Bytes) \cup {Null, NoRet}, fault' \in Faults \cup {"none"}
  PROVE  IInv' /\ Frame
<1>1. IInv' /\ \A b \in Blocks : mem'[b] = mem[b]
  BY DEF IInv, TypeOK, CountedBlocks, OneLabel, RefsExact, Owners, InBounds,
         Dangling, Counted, BytesAt
<1>2. \A b \in Blocks : Owners(b) = OwnersIn(str', b) /\ refs'[b] = refs[b] /\ refs[b] \in Nat
  BY DEF IInv, TypeOK, Owners, OwnersIn
<1>3. Counts
  BY <1>2 DEF Counts, IInv, RefsExact
<1> QED
  BY <1>1, <1>3 DEF Frame

-----------------------------------------------------------------------------
(* Reference counts and ownership.                                         *)

LEMMA DropIs ==
  ASSUME NEW r \in [Blocks -> Int], NEW s \in StringRec, Counted(s) => s.buf \in Blocks
  PROVE  /\ Drop(r, s) \in [Blocks -> Int]
         /\ \A b \in Blocks : Drop(r, s)[b] = r[b] - Own(s, b)
  BY DEF Drop, Own

LEMMA KeepIs ==
  ASSUME NEW r \in [Blocks -> Int], NEW s \in StringRec, Counted(s) => s.buf \in Blocks
  PROVE  /\ Keep(r, s) \in [Blocks -> Int]
         /\ \A b \in Blocks : Keep(r, s)[b] = r[b] + Own(s, b)
  BY DEF Keep, Own

LEMMA NewIs ==
  ASSUME NEW r \in [Blocks -> Int], NEW b \in Blocks
  PROVE  /\ New(r, b) \in [Blocks -> Int]
         /\ \A c \in Blocks : New(r, b)[c] = IF c = b THEN 1 ELSE r[c]
  BY DEF New

(* What the invariant says of one string.                                  *)
LEMMA StringFacts ==
  ASSUME IInv, NEW h \in Strings
  PROVE  /\ str[h] \in StringRec
         /\ Counted(str[h]) => str[h].buf \in Blocks
         /\ Fits(str[h], refs, mem)
         /\ refs \in [Blocks -> Nat] /\ refs \in [Blocks -> Int]
         /\ mem \in [Blocks -> Seq(Bytes)]
<1>1. str[h] \in StringRec /\ refs \in [Blocks -> Nat] /\ mem \in [Blocks -> Seq(Bytes)]
  BY DEF IInv, TypeOK
<1>2. refs \in [Blocks -> Int]
  BY <1>1
<1> QED
  BY <1>1, <1>2 DEF IInv, CountedBlocks, InBounds, Dangling, Fits

(* A counted string makes the count of its buffer positive.                *)
LEMMA OwnedIsLive ==
  ASSUME IInv, NEW h \in Strings, NEW b \in Blocks, Own(str[h], b) # 0
  PROVE  Owners(b) # {} /\ refs[b] \in Nat /\ refs[b] >= 1
<1>1. h \in Owners(b)
  BY DEF Own, Owners
<1>2. Owners(b) = OwnersIn(str, b) /\ str \in [Strings -> StringRec]
  BY DEF Owners, OwnersIn, IInv, TypeOK
<1>3. Cardinality(Owners(b)) \in Nat /\ Cardinality(Owners(b)) # 0
  BY <1>1, <1>2, StringFacts, OwnersChange
<1> QED
  BY <1>1, <1>3 DEF IInv, RefsExact

(* A count of one means that no other string points at the buffer: writing *)
(* in place is invisible.                                                  *)
LEMMA SoleOwner ==
  ASSUME IInv, NEW h \in Strings, Counted(str[h]), refs[str[h].buf] <= 1
  PROVE  \A g \in Strings : str[g].buf = str[h].buf => g = h
<1> DEFINE b == str[h].buf
<1>1. b \in Blocks /\ h \in Owners(b)
  BY DEF IInv, CountedBlocks, Owners
<1>2. refs[b] \in Nat /\ refs[b] >= 1
  BY <1>1, OwnedIsLive DEF Own
<1>3. Cardinality(Owners(b)) = 1
  BY <1>1, <1>2 DEF IInv, RefsExact
<1>4. IsFiniteSet(Owners(b))
  BY StringsAssumption, FS_Subset DEF Owners
<1>5. Owners(b) = {h}
  <2>1. \E x : Owners(b) = {x}
    BY <1>3, <1>4, FS_Singleton
  <2> QED
    BY <1>1, <2>1
<1> SUFFICES ASSUME NEW g \in Strings, str[g].buf = b PROVE g = h
  OBVIOUS
<1>6. Counted(str[g])
  BY <1>1 DEF IInv, OneLabel, Counted
<1>7. g \in Owners(b)
  BY <1>6 DEF Owners
<1> QED
  BY <1>5, <1>7

(* A block malloc may return is nobody's.                                  *)
LEMMA FreshFacts ==
  ASSUME NEW b \in Fresh
  PROVE  /\ b \in Blocks /\ refs[b] = 0 /\ Owners(b) = {}
         /\ \A g \in Strings : str[g].buf # b
  BY DEF Fresh, Owners
-----------------------------------------------------------------------------
(* The four ways a call changes a string object, each of them safe.        *)

(* The counts r are those left when h lets go of its buffer.               *)
Releases(r, h) ==
  /\ r \in [Blocks -> Nat]
  /\ \A b \in Blocks : \/ r[b] = refs[b] - Own(str[h], b)
                       \/ Owners(b) = {} /\ r[b] <= refs[b]

LEMMA DropReleases ==
  ASSUME IInv, NEW h \in Strings
  PROVE  Releases(Drop(refs, str[h]), h)
<1> DEFINE r == Drop(refs, str[h])
<1>1. r \in [Blocks -> Int] /\ \A b \in Blocks : r[b] = refs[b] - Own(str[h], b)
  BY StringFacts, DropIs
<1> HIDE DEF r
<1>2. \A b \in Blocks : r[b] \in Nat
  <2> TAKE b \in Blocks
  <2>1. CASE Own(str[h], b) = 0
    BY <1>1, <2>1, StringFacts
  <2>2. CASE Own(str[h], b) # 0
    BY <1>1, <2>2, OwnedIsLive DEF Own
  <2> QED
    BY <2>1, <2>2
<1> QED
  BY <1>1, <1>2 DEF Releases, r

(* clear() does not look at _type, but where it matters nobody counts.     *)
LEMMA ClearReleases ==
  ASSUME IInv, NEW h \in Strings, ClearFault(str[h]) = "none"
  PROVE  Releases(ClearRefs(str[h]), h)
<1> DEFINE c == str[h].buf
<1>1. str[h] \in StringRec /\ refs \in [Blocks -> Nat] /\ (Counted(str[h]) => c \in Blocks)
  BY StringFacts
<1>2. CASE c \in Blocks
  <2>1. refs[c] # 0 /\ c \notin Lits
    BY <1>2, ValuesAssumption DEF ClearFault
  <2>2. ClearRefs(str[h]) = [refs EXCEPT ![c] = @ - 1]
    BY <1>2 DEF ClearRefs
  <2>3. [refs EXCEPT ![c] = @ - 1] \in [Blocks -> Nat]
    BY <1>1, <1>2, <2>1
  <2>4. Counted(str[h]) \/ Owners(c) = {}
    BY <1>1, <1>2, ValuesAssumption DEF IInv, OneLabel, Owners, Counted
  <2>5. \A b \in Blocks : b # c => Own(str[h], b) = 0
    BY DEF Own
  <2>6. Counted(str[h]) => Own(str[h], c) = 1
    BY DEF Own
  <2> QED
    BY <1>1, <1>2, <2>2, <2>3, <2>4, <2>5, <2>6 DEF Releases
<1>3. CASE c \notin Blocks
  <2>1. \A b \in Blocks : Own(str[h], b) = 0
    BY <1>3 DEF Own
  <2> QED
    BY <1>1, <1>3, <2>1 DEF Releases, ClearRefs
<1> QED
  BY <1>2, <1>3

(* h lets go and no longer points at the heap.                             *)
LEMMA ReleaseSafe ==
  ASSUME IInv, NEW h \in Strings, NEW s \in StringRec, NEW r, Releases(r, h),
         s.buf \notin Blocks, ~Counted(s), Fits(s, r, mem)
  PROVE  Safe(h, s, r, mem)
<1>1. \A b \in Blocks : Own(s, b) = 0
  BY DEF Own
<1>2. /\ refs \in [Blocks -> Nat] /\ mem \in [Blocks -> Seq(Bytes)]
      /\ r \in [Blocks -> Nat]
  BY StringFacts DEF Releases
<1>3. Recounts(r, h, s)
  BY <1>1, <1>2 DEF Recounts, Releases, Own
<1>4. \A b \in Blocks : ~(refs[b] = 0 /\ r[b] > 0)
  <2> TAKE b \in Blocks
  <2>1. Own(str[h], b) \in {0, 1} /\ refs[b] \in Nat /\ r[b] \in Nat
    BY <1>2 DEF Own
  <2>2. r[b] = refs[b] - Own(str[h], b) \/ r[b] <= refs[b]
    BY DEF Releases
  <2> QED
    BY <2>1, <2>2
<1> QED
  BY <1>2, <1>3, <1>4 DEF Safe

(* h comes to share the buffer of g.                                       *)
LEMMA AliasSafe ==
  ASSUME IInv, NEW h \in Strings, NEW g \in Strings, NEW s \in StringRec,
         s.buf = str[g].buf, s.type = str[g].type, Fits(s, refs, mem),
         NEW r \in [Blocks -> Int],
         \A b \in Blocks : r[b] = refs[b] - Own(str[h], b) + Own(str[g], b)
  PROVE  Safe(h, s, r, mem)
<1>1. refs \in [Blocks -> Nat] /\ mem \in [Blocks -> Seq(Bytes)]
  BY StringFacts
<1>2. \A b \in Blocks : Own(s, b) = Own(str[g], b) /\ Own(s, b) \in {0, 1}
  BY DEF Own, Counted
<1>3. \A b \in Blocks : \/ Own(str[h], b) = 0
                        \/ Own(str[h], b) = 1 /\ refs[b] >= 1 /\ Owners(b) # {}
  BY OwnedIsLive DEF Own
<1>4. \A b \in Blocks : \/ Own(str[g], b) = 0
                        \/ Own(str[g], b) = 1 /\ refs[b] >= 1 /\ Owners(b) # {}
  BY OwnedIsLive DEF Own
<1>5. \A b \in Blocks : r[b] \in Nat /\ (refs[b] = 0 => r[b] = 0)
  <2> TAKE b \in Blocks
  <2>1. refs[b] \in Nat /\ r[b] = refs[b] - Own(str[h], b) + Own(str[g], b)
    BY <1>1
  <2> QED
    BY <1>3, <1>4, <2>1
<1>6. Recounts(r, h, s)
  <2> SUFFICES ASSUME NEW b \in Blocks
               PROVE  \/ Owners(b) # {} /\ r[b] = refs[b] - Own(str[h], b) + Own(s, b)
                      \/ Owners(b) = {} /\ Own(s, b) = 0 /\ r[b] <= refs[b]
    BY DEF Recounts
  <2>1. refs[b] \in Nat /\ r[b] = refs[b] - Own(str[h], b) + Own(s, b)
    BY <1>1, <1>2
  <2> QED
    BY <1>2, <1>3, <1>4, <2>1
<1>7. r \in [Blocks -> Nat]
  BY <1>5
<1>8. Fits(s, r, mem)
  BY <1>5 DEF Fits
<1>9. Counted(s) => s.buf \in Blocks
  BY StringFacts DEF Counted
<1>10. \A f \in Strings : s.buf \in Blocks /\ str[f].buf = s.buf => str[f].type = s.type
  BY DEF IInv, OneLabel
<1> QED
  BY <1>1, <1>5, <1>6, <1>7, <1>8, <1>9, <1>10 DEF Safe

(* h lets go and owns a block malloc has just returned.                    *)
LEMMA FreshSafe ==
  ASSUME IInv, NEW h \in Strings, NEW b \in Fresh, NEW s \in StringRec, s.buf = b,
         NEW d \in Seq(Bytes), s.offset + s.cb < Len(d), NEW q, Releases(q, h)
  PROVE  Safe(h, s, New(q, b), [mem EXCEPT ![b] = d])
<1> DEFINE r == New(q, b)
           m == [mem EXCEPT ![b] = d]
<1>1. refs \in [Blocks -> Nat] /\ mem \in [Blocks -> Seq(Bytes)] /\ q \in [Blocks -> Nat]
  BY StringFacts DEF Releases
<1>2. b \in Blocks /\ refs[b] = 0 /\ Owners(b) = {} /\ \A g \in Strings : str[g].buf # b
  BY FreshFacts
<1>3. r \in [Blocks -> Nat] /\ r[b] = 1 /\ \A c \in Blocks \ {b} : r[c] = q[c]
  BY <1>1, <1>2 DEF New
<1>4. m \in [Blocks -> Seq(Bytes)] /\ m[b] = d /\ \A c \in Blocks \ {b} : m[c] = mem[c]
  BY <1>1, <1>2
<1> HIDE DEF r, m
<1>5. \A c \in Blocks \ {b} : Own(s, c) = 0
  BY DEF Own
<1>6. Recounts(r, h, s)
  <2> SUFFICES ASSUME NEW c \in Blocks
               PROVE  \/ Owners(c) # {} /\ r[c] = refs[c] - Own(str[h], c) + Own(s, c)
                      \/ /\ Owners(c) = {} /\ (Own(s, c) = 0 \/ r[c] = 1)
                         /\ r[c] <= refs[c] \/ s.buf = c
    BY DEF Recounts
  <2>1. CASE c = b
    BY <1>2, <1>3, <2>1
  <2>2. CASE c # b
    BY <1>1, <1>3, <1>5, <2>2 DEF Releases, Own
  <2> QED
    BY <2>1, <2>2
<1>7. Fits(s, r, m)
  BY <1>2, <1>4, ValuesAssumption DEF Fits, BytesAt
<1>8. \A c \in Blocks : refs[c] = 0 /\ r[c] > 0 => c = b
  <2> TAKE c \in Blocks
  <2>1. Own(str[h], c) \in {0, 1} /\ refs[c] \in Nat /\ q[c] \in Nat
    BY <1>1 DEF Own
  <2>2. q[c] = refs[c] - Own(str[h], c) \/ q[c] <= refs[c]
    BY DEF Releases
  <2> QED
    BY <1>3, <2>1, <2>2
<1>9. Safe(h, s, r, m)
  BY <1>1, <1>2, <1>3, <1>4, <1>6, <1>7, <1>8 DEF Safe
<1> QED
  BY <1>9 DEF r, m

(* h, the only owner of its buffer, rewrites it.                           *)
LEMMA InPlaceSafe ==
  ASSUME IInv, NEW h \in Strings, Counted(str[h]), refs[str[h].buf] <= 1,
         NEW s \in StringRec, s.buf = str[h].buf, s.type = Standard, s # str[h],
         NEW d \in Seq(Bytes), s.offset + s.cb < Len(d)
  PROVE  Safe(h, s, refs, [mem EXCEPT ![s.buf] = d])
<1> DEFINE b == s.buf
           m == [mem EXCEPT ![b] = d]
<1>1. /\ refs \in [Blocks -> Nat] /\ mem \in [Blocks -> Seq(Bytes)]
      /\ str[h] \in StringRec /\ b \in Blocks
  BY StringFacts
<1>2. \A g \in Strings : str[g].buf = b => g = h
  BY SoleOwner
<1>3. m \in [Blocks -> Seq(Bytes)] /\ m[b] = d /\ \A c \in Blocks \ {b} : m[c] = mem[c]
  BY <1>1
<1>4. \A c \in Blocks : Own(s, c) = Own(str[h], c) /\ Own(s, c) \in {0, 1}
  BY DEF Own, Counted
<1>5. Recounts(refs, h, s)
  <2> SUFFICES ASSUME NEW c \in Blocks
               PROVE  \/ Owners(c) # {} /\ refs[c] = refs[c] - Own(str[h], c) + Own(s, c)
                      \/ /\ Owners(c) = {} /\ (Own(s, c) = 0 \/ refs[c] = 1)
                         /\ refs[c] <= refs[c] \/ s.buf = c
    BY DEF Recounts
  <2>1. Owners(c) = {} => Own(str[h], c) = 0
    BY DEF Owners, Own
  <2> QED
    BY <1>1, <1>4, <2>1
<1> HIDE DEF m
<1>6. Fits(s, refs, m)
  BY <1>1, <1>3, ValuesAssumption DEF Fits, BytesAt
<1>7. Safe(h, s, refs, m)
  BY <1>1, <1>2, <1>3, <1>5, <1>6 DEF Safe
<1> QED
  BY <1>7 DEF m
LEMMA DoneIsSafe ==
  ASSUME IInv, NEW h \in Strings, NEW s, NEW r, NEW m, Safe(h, s, r, m), Done(h, s, r, m)
  PROVE  IInv' /\ Frame
<1>1. fault' \in Faults \cup {"none"}
  BY DEF Done, IInv, TypeOK
<1> QED
  BY <1>1, Update DEF Done

LEMMA CrashIsQuiet ==
  ASSUME IInv, NEW kind \in Faults, Crash(kind)
  PROVE  IInv' /\ Frame
<1>1. ret' \in Seq(Bytes) \cup {Null, NoRet}
  BY DEF Crash, IInv, TypeOK
<1> QED
  BY <1>1, Quiet DEF Crash

LEMMA NothingIsQuiet ==
  ASSUME IInv, Nothing
  PROVE  IInv' /\ Frame
<1>1. fault' \in Faults \cup {"none"}
  BY DEF Nothing, IInv, TypeOK
<1> QED
  BY <1>1, Quiet DEF Nothing

-----------------------------------------------------------------------------
(* One lemma per action.                                                   *)

(* The object a literal is turned into.                                    *)
LEMMA LiteralFits ==
  ASSUME NEW l \in Lits, NEW s, NEW r,
         s = [buf |-> l, cb |-> Len(LitText[l]), offset |-> 0, type |-> Static]
  PROVE  s \in StringRec /\ s.buf \notin Blocks /\ ~Counted(s) /\ Fits(s, r, mem)
<1>1. LitText[l] \in Seq(Char) /\ l \notin Blocks /\ l # Null
  BY ValuesAssumption, TextsAssumption
<1>2. Len(LitText[l]) \in Nat /\ Len(Append(LitText[l], Nul)) = Len(LitText[l]) + 1
  BY <1>1
<1> QED
  BY <1>1, <1>2 DEF StringRec, Counted, Fits, BytesAt, Standard, Static

LEMMA NullFits ==
  ASSUME NEW s \in StringRec, NEW r, s.buf = Null, s.cb = 0
  PROVE  s.buf \notin Blocks /\ ~Counted(s) /\ Fits(s, r, mem)
  BY ValuesAssumption DEF Counted, Fits

LEMMA DestroyStep ==
  ASSUME IInv, NEW h \in Strings, Destroy(h)
  PROVE  IInv' /\ Frame
<1>1. CASE Crash("assert")
  BY <1>1, CrashIsQuiet DEF Faults
<1>2. CASE Done(h, Default, Drop(refs, str[h]), mem)
  <2>1. Default \in StringRec /\ Default.buf = Null /\ Default.cb = 0
    BY DEF Default, StringRec, Standard, Static
  <2>2. Safe(h, Default, Drop(refs, str[h]), mem)
    BY <2>1, NullFits, DropReleases, ReleaseSafe
  <2> QED
    BY <1>2, <2>2, DoneIsSafe
<1> QED
  BY <1>1, <1>2 DEF Destroy

LEMMA AssignLiteralStep ==
  ASSUME IInv, NEW h \in Strings, NEW l \in Lits, AssignLiteral(h, l)
  PROVE  IInv' /\ Frame
<1> DEFINE s == [buf |-> l, cb |-> Len(LitText[l]), offset |-> 0, type |-> Static]
<1>1. CASE Crash("assert")
  BY <1>1, CrashIsQuiet DEF Faults
<1>2. CASE Done(h, s, Drop(refs, str[h]), mem)
  <2>1. Safe(h, s, Drop(refs, str[h]), mem)
    BY LiteralFits, DropReleases, ReleaseSafe
  <2> QED
    BY <1>2, <2>1, DoneIsSafe
<1> QED
  BY <1>1, <1>2 DEF AssignLiteral

LEMMA CopyAssignStep ==
  ASSUME IInv, NEW h \in Strings, NEW g \in Strings, CopyAssign(h, g)
  PROVE  IInv' /\ Frame
<1>1. CASE Crash("assert") \/ Crash("use_after_free")
  BY <1>1, CrashIsQuiet DEF Faults
<1> DEFINE q == Drop(refs, str[h])
           r == Keep(q, str[g])
<1>2. CASE Done(h, str[g], r, mem)
  <2>1. q \in [Blocks -> Int] /\ \A b \in Blocks : q[b] = refs[b] - Own(str[h], b)
    BY StringFacts, DropIs
  <2> HIDE DEF q
  <2>2. r \in [Blocks -> Int] /\ \A b \in Blocks : r[b] = q[b] + Own(str[g], b)
    BY <2>1, StringFacts, KeepIs
  <2>3. Safe(h, str[g], r, mem)
    BY <2>1, <2>2, StringFacts, AliasSafe
  <2> QED
    BY <1>2, <2>3, DoneIsSafe
<1> QED
  BY <1>1, <1>2 DEF CopyAssign
LEMMA MoveConstructStep ==
  ASSUME IInv, NEW h \in Strings, NEW g \in Strings, MoveConstruct(h, g)
  PROVE  IInv' /\ Frame
<1> DEFINE st == [str EXCEPT ![h] = str[g]]
<1>1. /\ h # g /\ str[h] = Default /\ str' = [st EXCEPT ![g] = Default]
      /\ refs' = refs /\ mem' = mem /\ fault' = fault /\ ret' = NoRet
  BY DEF MoveConstruct
<1>2. /\ str \in [Strings -> StringRec] /\ Default \in StringRec
      /\ Default.buf = Null /\ Default.cb = 0
  BY DEF IInv, TypeOK, Default, StringRec, Standard, Static
<1>3. /\ str' \in [Strings -> StringRec] /\ str'[h] = str[g] /\ str'[g] = Default
      /\ \A f \in Strings \ {h, g} : str'[f] = str[f]
  BY <1>1, <1>2
<1>4. TypeOK'
  BY <1>1, <1>3 DEF IInv, TypeOK
<1>5. ~Counted(Default) /\ Default.buf \notin Blocks
  BY <1>2, ValuesAssumption DEF Counted
<1>6. CountedBlocks'
  BY <1>3, <1>5 DEF IInv, CountedBlocks, Counted
<1>7. OneLabel'
  BY <1>3, <1>5 DEF IInv, OneLabel
<1>8. InBounds'
  BY <1>1, <1>2, <1>3 DEF IInv, InBounds, Dangling, BytesAt
<1>9. RefsExact' /\ Counts
  <2> SUFFICES ASSUME NEW b \in Blocks
               PROVE  /\ OwnersIn(str', b) # {} \/ Owners(b) # {}
                           => refs[b] = Cardinality(OwnersIn(str', b))
                      /\ refs[b] <= refs[b]
    BY <1>1 DEF RefsExact, Counts, Owners, OwnersIn, Counted
  <2>1. st \in [Strings -> StringRec] /\ st[g] = str[g] /\ st[h] = str[g]
    BY <1>1, <1>2
  <2>2. Own(Default, b) = 0 /\ Own(str[g], b) \in {0, 1}
    BY <1>5 DEF Own
  <2>3. /\ Cardinality(OwnersIn(st, b))
             = Cardinality(OwnersIn(str, b)) - Own(str[h], b) + Own(str[g], b)
        /\ Cardinality(OwnersIn(str, b)) \in Nat
        /\ OwnersIn(str, b) = {} <=> Cardinality(OwnersIn(str, b)) = 0
    <3>1. str \in [Strings -> StringRec] /\ \A f \in Strings \ {h} : st[f] = str[f]
      BY <1>2
    <3> HIDE DEF st
    <3> QED
      BY <2>1, <3>1, OwnersChange
  <2> HIDE DEF st
  <2>4. Cardinality(OwnersIn(str', b))
          = Cardinality(OwnersIn(st, b)) - Own(st[g], b) + Own(Default, b)
    <3>1. \A f \in Strings \ {g} : str'[f] = st[f]
      BY <1>1, <2>1
    <3> QED
      BY <1>3, <2>1, <3>1, OwnersChange
  <2>5. Cardinality(OwnersIn(str', b)) = Cardinality(OwnersIn(str, b))
    <3>1. Own(str[h], b) = 0
      BY <1>1, <2>2
    <3>2. Cardinality(OwnersIn(str, b)) \in Nat
      BY <2>3
    <3> QED
      BY <2>1, <2>2, <2>3, <2>4, <3>1, <3>2
  <2>6. OwnersIn(str', b) # {} => Cardinality(OwnersIn(str', b)) # 0
    BY <1>3, OwnersChange
  <2>7. /\ OwnersIn(str', b) # {} => OwnersIn(str, b) # {}
        /\ OwnersIn(str, b) = Owners(b)
    BY <2>3, <2>5, <2>6 DEF OwnersIn, Owners
  <2>8. refs[b] \in Nat
    BY DEF IInv, TypeOK
  <2> QED
    BY <2>5, <2>7, <2>8 DEF IInv, RefsExact
<1>10. Frame
  BY <1>1, <1>9 DEF Frame
<1> QED
  BY <1>4, <1>6, <1>7, <1>8, <1>9, <1>10 DEF IInv

LEMMA AssignSliceStep ==
  ASSUME IInv, NEW h \in Strings, NEW g \in Strings, NEW from \in Nat, NEW to \in Nat,
         from <= to, to <= str[g].cb, AssignSlice(h, g, from, to)
  PROVE  IInv' /\ Frame
<1> DEFINE tmp   == [buf |-> str[g].buf, cb |-> to - from,
                     offset |-> str[g].offset + from, type |-> str[g].type]
           held  == Keep(refs, tmp)
           let   == Drop(held, str[h])
           moved == Keep(let, tmp)
           r     == Drop(moved, tmp)
<1>1. CASE Crash("assert") \/ Crash("null_deref")
  BY <1>1, CrashIsQuiet DEF Faults
<1>2. CASE Done(h, tmp, r, mem)
  <2>1. str[g] \in StringRec /\ refs \in [Blocks -> Int]
    BY StringFacts
  <2>2. /\ tmp \in StringRec /\ tmp.buf = str[g].buf /\ tmp.type = str[g].type
        /\ tmp.offset = str[g].offset + from /\ tmp.cb = to - from
    BY <2>1 DEF StringRec
  <2> HIDE DEF tmp
  <2>3. Counted(tmp) => tmp.buf \in Blocks
    BY <2>2, StringFacts DEF Counted
  <2>4. \A b \in Blocks : Own(tmp, b) = Own(str[g], b)
    BY <2>2 DEF Own, Counted
  <2>5. held \in [Blocks -> Int] /\ \A b \in Blocks : held[b] = refs[b] + Own(tmp, b)
    BY <2>1, <2>2, <2>3, KeepIs
  <2> HIDE DEF held
  <2>6. let \in [Blocks -> Int] /\ \A b \in Blocks : let[b] = held[b] - Own(str[h], b)
    BY <2>5, StringFacts, DropIs
  <2> HIDE DEF let
  <2>7. moved \in [Blocks -> Int] /\ \A b \in Blocks : moved[b] = let[b] + Own(tmp, b)
    BY <2>2, <2>3, <2>6, KeepIs
  <2> HIDE DEF moved
  <2>8. r \in [Blocks -> Int] /\ \A b \in Blocks : r[b] = moved[b] - Own(tmp, b)
    BY <2>2, <2>3, <2>7, DropIs
  <2> HIDE DEF r
  <2>9. \A b \in Blocks : r[b] = refs[b] - Own(str[h], b) + Own(str[g], b)
    <3> TAKE b \in Blocks
    <3>1. Own(tmp, b) \in Int /\ Own(str[h], b) \in Int /\ refs[b] \in Int
      BY <2>1 DEF Own
    <3> QED
      BY <2>4, <2>5, <2>6, <2>7, <2>8, <3>1
  <2>10. Fits(tmp, refs, mem)
    <3>1. Fits(str[g], refs, mem) /\ mem \in [Blocks -> Seq(Bytes)]
      BY StringFacts
    <3>2. str[g].offset \in Nat /\ str[g].cb \in Nat
      BY <2>1 DEF StringRec
    <3>3. Len(BytesAt(mem, str[g].buf)) \in Nat
      BY <3>1, TextsAssumption DEF BytesAt
    <3> QED
      BY <2>2, <3>1, <3>2, <3>3 DEF Fits
  <2>11. Safe(h, tmp, r, mem)
    BY <2>2, <2>8, <2>9, <2>10, AliasSafe
  <2> QED
    BY <1>2, <2>11, DoneIsSafe DEF r, moved, let, held, tmp
<1> QED
  BY <1>1, <1>2 DEF AssignSlice

LEMMA SubstrStep ==
  ASSUME IInv, NEW h \in Strings, NEW g \in Strings, NEW from \in Nat, NEW to \in Nat,
         Substr(h, g, from, to)
  PROVE  IInv' /\ Frame
<1>1. str[g].cb \in Nat
  BY StringFacts DEF StringRec
<1>2. /\ Clamp(str[g], from) \in Nat /\ Clamp(str[g], from) <= str[g].cb
      /\ Clamp(str[g], to) \in Nat /\ Clamp(str[g], to) <= str[g].cb
      /\ from <= to => Clamp(str[g], from) <= Clamp(str[g], to)
      /\ ~(from <= to) => Clamp(str[g], to) <= Clamp(str[g], from)
  BY <1>1 DEF Clamp
<1> QED
  BY <1>2, AssignSliceStep DEF Substr
LEMMA BytesAtType ==
  ASSUME IInv, NEW p
  PROVE  BytesAt(mem, p) \in Seq(Bytes)
<1>1. CASE p \in Blocks
  BY <1>1 DEF BytesAt, IInv, TypeOK
<1>2. CASE p \in Lits /\ p \notin Blocks
  <2>1. LitText[p] \in Seq(Bytes)
    BY <1>2, TextsAssumption DEF Bytes
  <2>2. Append(LitText[p], Nul) \in Seq(Bytes)
    BY <2>1 DEF Bytes
  <2> QED
    BY <1>2, <2>2 DEF BytesAt
<1>3. CASE p \notin Blocks /\ p \notin Lits
  BY <1>3 DEF BytesAt
<1> QED
  BY <1>1, <1>2, <1>3

(* A string whose bytes are there reads as _cb bytes.                      *)
LEMMA ValueType ==
  ASSUME IInv, NEW h \in Strings, ~Unreadable(str[h])
  PROVE  Value(str[h]) \in Seq(Bytes) /\ Len(Value(str[h])) = str[h].cb
<1> DEFINE s == str[h]
           d == BytesAt(mem, s.buf)
<1>1. s \in StringRec /\ Fits(s, refs, mem) /\ mem \in [Blocks -> Seq(Bytes)]
  BY StringFacts
<1>2. s.offset \in Nat /\ s.cb \in Nat
  BY <1>1 DEF StringRec
<1>3. d \in Seq(Bytes)
  BY BytesAtType
<1> HIDE DEF d
<1>4. s.cb = 0 \/ s.offset + s.cb <= Len(d)
  <2>1. s.cb > 0 => ~Dangling(s)
    BY DEF Unreadable
  <2>2. s.cb = 0 \/ s.offset + s.cb < Len(d)
    BY <1>1, <1>2, <2>1 DEF Fits, Dangling, d
  <2> QED
    BY <1>2, <1>3, <2>2
<1>5. SubSeq(d, s.offset + 1, s.offset + s.cb) \in Seq(Bytes)
      /\ Len(SubSeq(d, s.offset + 1, s.offset + s.cb)) = s.cb
  <2>1. CASE s.cb = 0
    BY <1>2, <1>3, <2>1
  <2>2. CASE s.offset + s.cb <= Len(d)
    BY <1>2, <1>3, <2>2, SliceType
  <2> QED
    BY <1>4, <2>1, <2>2
<1> QED
  BY <1>5 DEF Value, ValueIn, d

(* The runs of blanks trim() finds at the two ends do not overlap.         *)
LEMMA TrimBounds ==
  ASSUME NEW v \in Seq(Bytes)
  PROVE  /\ Lead(v) \in Nat /\ Trail(v) \in Nat
         /\ Lead(v) + Trail(v) <= Len(v)
<1> DEFINE L == {i \in 1..Len(v) : \A j \in 1..i : v[j] \in Blanks}
           T == {i \in 1..Len(v) : \A j \in i..Len(v) : v[j] \in Blanks}
<1>1. Lead(v) = Cardinality(L) /\ Lead(v) \in 0..Len(v)
  BY RunType DEF Lead, Run
<1>2. CASE Lead(v) = Len(v)
  <2>1. Trail(v) = 0
    BY <1>2 DEF Trail
  <2>2. Len(v) \in Nat
    OBVIOUS
  <2> QED
    BY <1>2, <2>1, <2>2
<1>3. CASE Lead(v) # Len(v)
  <2>1. Len(v) \in Nat /\ 1 \in Int /\ Len(v) \in Int
    OBVIOUS
  <2>2. IsFiniteSet(1..Len(v))
        /\ Cardinality(1..Len(v)) = IF 1 > Len(v) THEN 0 ELSE Len(v) - 1 + 1
    BY <2>1, FS_Interval
  <2>3. Cardinality(1..Len(v)) = Len(v)
    BY <2>1, <2>2
  <2>4. L \cap T = {}
    <3> SUFFICES ASSUME NEW i \in 1..Len(v), i \in L, i \in T PROVE FALSE
      OBVIOUS
    <3>1. \A j \in 1..Len(v) : j \in 1..i \/ j \in i..Len(v)
      BY <2>1
    <3>2. \A j \in 1..Len(v) : v[j] \in Blanks
      BY <3>1
    <3>3. L = 1..Len(v)
      BY <2>1, <3>2
    <3> QED
      BY <1>1, <1>3, <2>3, <3>3
  <2>5. IsFiniteSet(L) /\ IsFiniteSet(T) /\ L \cup T \subseteq 1..Len(v)
    BY <2>2, FS_Subset
  <2>6. Cardinality(L \cup T) = Cardinality(L) + Cardinality(T) - Cardinality(L \cap T)
    BY <2>5, FS_Union
  <2>7. Cardinality(L \cap T) = 0
    BY <2>4, FS_EmptySet
  <2>8. Cardinality(L \cup T) <= Cardinality(1..Len(v))
    BY <2>2, <2>5, FS_Subset
  <2>9. Cardinality(L) \in Nat /\ Cardinality(T) \in Nat
    BY <2>5, FS_CardinalityType
  <2>10. Trail(v) = Cardinality(T)
    BY <1>3 DEF Trail
  <2> HIDE DEF L, T
  <2>11. Cardinality(L) + Cardinality(T) <= Len(v)
    BY <2>1, <2>3, <2>6, <2>7, <2>8, <2>9
  <2> QED
    BY <1>1, <2>9, <2>10, <2>11
<1> QED
  BY <1>2, <1>3

LEMMA TrimStep ==
  ASSUME IInv, NEW h \in Strings, Trim(h)
  PROVE  IInv' /\ Frame
<1> DEFINE v == Value(str[h])
<1>1. CASE Crash("use_after_free")
  BY <1>1, CrashIsQuiet DEF Faults
<1>2. CASE Nothing
  BY <1>2, NothingIsQuiet
<1>3. CASE ~Unreadable(str[h]) /\ AssignSlice(h, h, Lead(v), str[h].cb - Trail(v))
  <2>1. v \in Seq(Bytes) /\ Len(v) = str[h].cb /\ str[h].cb \in Nat
    BY <1>3, ValueType, StringFacts DEF StringRec
  <2> HIDE DEF v
  <2>2. Lead(v) \in Nat /\ Trail(v) \in Nat /\ Lead(v) + Trail(v) <= str[h].cb
    BY <2>1, TrimBounds
  <2>3. /\ str[h].cb - Trail(v) \in Nat /\ Lead(v) <= str[h].cb - Trail(v)
        /\ str[h].cb - Trail(v) <= str[h].cb
    BY <2>1, <2>2
  <2> QED
    BY <1>3, <2>2, <2>3, AssignSliceStep
<1> QED
  BY <1>1, <1>2, <1>3 DEF Trim
(* What assign() and alloc() leave in a fresh block.                       *)
LEMMA OwningSafe ==
  ASSUME IInv, NEW h \in Strings, NEW b \in Fresh, NEW t \in Seq(Bytes), NEW q, Releases(q, h)
  PROVE  Safe(h, Owning(h, b, Len(t)), New(q, b), [mem EXCEPT ![b] = Append(t, Nul)])
<1> DEFINE s == Owning(h, b, Len(t))
           d == Append(t, Nul)
<1>1. b \in Blocks /\ str[h].type \in {Standard, Static}
  BY FreshFacts, StringFacts DEF StringRec
<1>2. t \in Seq(Bytes) /\ Nul \in Bytes
  BY DEF Bytes
<1>3. d \in Seq(Bytes) /\ Len(d) = Len(t) + 1 /\ Len(t) \in Nat
  BY <1>2
<1>4. s \in StringRec /\ s.buf = b /\ s.offset + s.cb < Len(d)
  BY <1>1, <1>3 DEF Owning, StringRec
<1> HIDE DEF s, d
<1>5. Safe(h, s, New(q, b), [mem EXCEPT ![b] = d])
  BY <1>3, <1>4, FreshSafe
<1> QED
  BY <1>5 DEF s, d

LEMMA OwningNothing ==
  ASSUME IInv, NEW h \in Strings, NEW q, Releases(q, h)
  PROVE  Safe(h, Owning(h, Null, 0), q, mem)
<1>1. str[h].type \in {Standard, Static}
  BY StringFacts DEF StringRec
<1>2. /\ Owning(h, Null, 0) \in StringRec /\ Owning(h, Null, 0).buf = Null
      /\ Owning(h, Null, 0).cb = 0
  BY <1>1 DEF Owning, StringRec
<1> QED
  BY <1>2, NullFits, ReleaseSafe

LEMMA AssignStep ==
  ASSUME IInv, NEW h \in Strings, NEW t \in Seq(Bytes), Assign(h, t)
  PROVE  IInv' /\ Frame
<1>1. CASE Crash("assert")
  BY <1>1, CrashIsQuiet DEF Faults
<1>2. ASSUME NEW b \in Fresh,
             Done(h, Owning(h, b, Len(t)), New(Drop(refs, str[h]), b),
                  [mem EXCEPT ![b] = Append(t, Nul)])
      PROVE  IInv' /\ Frame
  BY <1>2, OwningSafe, DropReleases, DoneIsSafe
<1> QED
  BY <1>1, <1>2 DEF Assign

LEMMA AssignNullStep ==
  ASSUME IInv, NEW h \in Strings, AssignNull(h)
  PROVE  IInv' /\ Frame
<1>1. CASE Crash("assert")
  BY <1>1, CrashIsQuiet DEF Faults
<1>2. CASE Done(h, Owning(h, Null, 0), Drop(refs, str[h]), mem)
  BY <1>2, OwningNothing, DropReleases, DoneIsSafe
<1> QED
  BY <1>1, <1>2 DEF AssignNull

LEMMA ClearFaultType ==
  ASSUME NEW s, ClearFault(s) # "none"
  PROVE  ClearFault(s) \in Faults
  BY DEF ClearFault, Faults

LEMMA ClearStep ==
  ASSUME IInv, NEW h \in Strings, Clear(h)
  PROVE  IInv' /\ Frame
<1>1. CASE ClearFault(str[h]) # "none" /\ Crash(ClearFault(str[h]))
  BY <1>1, CrashIsQuiet, ClearFaultType
<1>2. CASE /\ ClearFault(str[h]) = "none"
           /\ Done(h, Owning(h, Null, 0), ClearRefs(str[h]), mem)
  BY <1>2, OwningNothing, ClearReleases, DoneIsSafe
<1> QED
  BY <1>1, <1>2 DEF Clear

LEMMA MutateToStaticStep ==
  ASSUME IInv, NEW h \in Strings, NEW l \in Lits, MutateToStatic(h, l)
  PROVE  IInv' /\ Frame
<1> DEFINE s == [buf |-> l, cb |-> Len(LitText[l]), offset |-> 0, type |-> Static]
<1>1. CASE ClearFault(str[h]) # "none" /\ Crash(ClearFault(str[h]))
  BY <1>1, CrashIsQuiet, ClearFaultType
<1>2. CASE ClearFault(str[h]) = "none" /\ Done(h, s, ClearRefs(str[h]), mem)
  <2>1. Safe(h, s, ClearRefs(str[h]), mem)
    BY <1>2, LiteralFits, ClearReleases, ReleaseSafe
  <2> QED
    BY <1>2, <2>1, DoneIsSafe
<1> QED
  BY <1>1, <1>2 DEF MutateToStatic

LEMMA InsertPastStep ==
  ASSUME IInv, NEW h \in Strings, InsertPast(h)
  PROVE  IInv' /\ Frame
  BY CrashIsQuiet DEF InsertPast, Faults

(* What a short read leaves is bytes, as many as were announced.           *)
LEMMA ReceivedType ==
  ASSUME NEW t \in Seq(Bytes), NEW k \in 0..Len(t)
  PROVE  /\ Received(t, k) \in Seq(Bytes) /\ Len(Received(t, k)) = Len(t)
         /\ k = 0 => Received(t, k) = t
<1> DEFINE f == [i \in 1..Len(t) |-> IF i <= Len(t) - k THEN t[i] ELSE Uninit]
<1>1. Uninit \in Bytes /\ Len(t) \in Nat /\ \A i \in 1..Len(t) : t[i] \in Bytes
  BY DEF Bytes
<1>2. f \in [1..Len(t) -> Bytes]
  BY <1>1
<1>3. f \in Seq(Bytes) /\ Len(f) = Len(t)
  BY <1>1, <1>2
<1>4. ASSUME k = 0 PROVE f = t
  <2>1. \A i \in 1..Len(t) : f[i] = t[i]
    BY <1>1, <1>4
  <2> HIDE DEF f
  <2> QED
    BY <1>3, <2>1, SeqEqual
<1> QED
  BY <1>3, <1>4 DEF Received

LEMMA ReadStringStep ==
  ASSUME IInv, NEW h \in Strings, NEW t \in Seq(Bytes), NEW k \in 0..Len(t), ReadString(h, t, k)
  PROVE  IInv' /\ Frame
<1> DEFINE u == Received(t, k)
<1>3. u \in Seq(Bytes) /\ Len(u) = Len(t)
  BY ReceivedType
<1> HIDE DEF u
<1>1. CASE ClearFault(str[h]) # "none" /\ Crash(ClearFault(str[h]))
  BY <1>1, CrashIsQuiet, ClearFaultType
<1>2. ASSUME ClearFault(str[h]) = "none", NEW b \in Fresh,
             Done(h, Owning(h, b, Len(u)), New(ClearRefs(str[h]), b),
                  [mem EXCEPT ![b] = Append(u, Nul)])
      PROVE  IInv' /\ Frame
  BY <1>2, <1>3, OwningSafe, ClearReleases, DoneIsSafe
<1> QED
  BY <1>1, <1>2, <1>3 DEF ReadString, u

LEMMA ReadStringEofStep ==
  ASSUME IInv, NEW h \in Strings, ReadStringEof(h)
  PROVE  IInv' /\ Frame
<1> DEFINE s == [str[h] EXCEPT !.cb = 0]
<1>1. /\ str[h] \in StringRec /\ refs \in [Blocks -> Int] /\ Fits(str[h], refs, mem)
      /\ mem \in [Blocks -> Seq(Bytes)]
  BY StringFacts
<1>2. /\ s \in StringRec /\ s.buf = str[h].buf /\ s.type = str[h].type
      /\ s.offset = str[h].offset /\ s.cb = 0 /\ str[h].cb \in Nat /\ s.offset \in Nat
  BY <1>1 DEF StringRec
<1> HIDE DEF s
<1>3. Fits(s, refs, mem)
  <2>1. Len(BytesAt(mem, s.buf)) \in Nat
    BY <1>1, TextsAssumption DEF BytesAt
  <2> QED
    BY <1>1, <1>2, <2>1 DEF Fits
<1>4. \A b \in Blocks : refs[b] = refs[b] - Own(str[h], b) + Own(str[h], b)
  BY <1>1 DEF Own
<1>5. Safe(h, s, refs, mem)
  BY <1>1, <1>2, <1>3, <1>4, AliasSafe
<1> QED
  BY <1>5, DoneIsSafe DEF ReadStringEof, s
(* The bytes prepareToModify() leaves: s lies inside them.                 *)
LEMMA PreparedType ==
  ASSUME IInv, NEW h \in Strings, str[h].buf # Null, ~Unreadable(str[h])
  PROVE  /\ Prepared(str[h]) \in Seq(Bytes)
         /\ PreparedOffset(str[h]) \in Nat
         /\ PreparedOffset(str[h]) + str[h].cb < Len(Prepared(str[h]))
<1> DEFINE s == str[h]
<1>1. /\ s \in StringRec /\ (Counted(s) => s.buf \in Blocks) /\ Fits(s, refs, mem)
      /\ mem \in [Blocks -> Seq(Bytes)]
  BY StringFacts
<1>2. s.offset \in Nat /\ s.cb \in Nat
  BY <1>1 DEF StringRec
<1>3. CASE InPlace(s)
  <2>1. Counted(s) /\ s.buf \in Blocks
    BY <1>1, <1>3 DEF InPlace, Counted
  <2>2. refs[s.buf] \in Nat /\ refs[s.buf] >= 1
    BY <2>1, OwnedIsLive DEF Own
  <2>3. s.offset + s.cb < Len(mem[s.buf])
    BY <1>1, <2>1, <2>2 DEF Fits, BytesAt
  <2> QED
    BY <1>1, <1>2, <1>3, <2>1, <2>3 DEF Prepared, PreparedOffset
<1>4. CASE ~InPlace(s)
  <2>1. Value(s) \in Seq(Bytes) /\ Len(Value(s)) = s.cb
    BY ValueType
  <2>2. Append(Value(s), Uninit) \in Seq(Bytes) /\ Len(Append(Value(s), Uninit)) = s.cb + 1
    BY <2>1 DEF Bytes
  <2> QED
    BY <1>2, <1>4, <2>2 DEF Prepared, PreparedOffset
<1> QED
  BY <1>3, <1>4

LEMMA ModifiedStep ==
  ASSUME IInv, NEW h \in Strings, str[h].buf # Null, NEW b \in Targets(str[h]),
         NEW n \in Nat, n # str[h].cb, NEW d \in Seq(Bytes),
         PreparedOffset(str[h]) \in Nat, PreparedOffset(str[h]) + n < Len(d),
         Modified(h, b, n, d)
  PROVE  IInv' /\ Frame
<1> DEFINE s == [buf |-> b, cb |-> n, offset |-> PreparedOffset(str[h]), type |-> Standard]
<1>1. Done(h, s, PreparedRefs(str[h], b), [mem EXCEPT ![b] = d])
  BY DEF Modified
<1>2. b \in Blocks
  BY FreshFacts, StringFacts DEF Targets, InPlace, Counted
<1>3. s \in StringRec /\ s.buf = b /\ s.type = Standard /\ s.offset + s.cb < Len(d) /\ s.cb = n
  BY <1>2 DEF StringRec
<1> HIDE DEF s
<1>4. CASE InPlace(str[h])
  <2>1. /\ Counted(str[h]) /\ b = str[h].buf /\ refs[str[h].buf] <= 1 /\ s # str[h]
        /\ PreparedRefs(str[h], b) = refs
    BY <1>3, <1>4 DEF InPlace, Counted, Targets, PreparedRefs
  <2>2. Safe(h, s, refs, [mem EXCEPT ![s.buf] = d])
    BY <1>3, <2>1, InPlaceSafe
  <2> QED
    BY <1>1, <1>3, <2>1, <2>2, DoneIsSafe
<1>5. CASE ~InPlace(str[h])
  <2>1. b \in Fresh /\ PreparedRefs(str[h], b) = New(Drop(refs, str[h]), b)
    BY <1>5 DEF Targets, PreparedRefs
  <2>2. Safe(h, s, New(Drop(refs, str[h]), b), [mem EXCEPT ![b] = d])
    BY <1>3, <2>1, DropReleases, FreshSafe
  <2> QED
    BY <1>1, <2>1, <2>2, DoneIsSafe
<1> QED
  BY <1>4, <1>5

(* insert() writes inside the buffer it has just enlarged.                 *)
LEMMA InsertedType ==
  ASSUME IInv, NEW h \in Strings, str[h].buf # Null, ~Unreadable(str[h]),
         NEW o \in 0..str[h].cb, NEW t \in Seq(Bytes)
  PROVE  /\ Opened(str[h], o, Len(t)) \in Seq(Bytes)
         /\ Len(Opened(str[h], o, Len(t))) = Len(Prepared(str[h])) + Len(t)
         /\ Inserted(str[h], o, t) \in Seq(Bytes)
         /\ Len(Inserted(str[h], o, t)) = Len(Prepared(str[h])) + Len(t)
<1> DEFINE s  == str[h]
           d  == Prepared(s)
           p  == PreparedOffset(s)
           at == p + o
           e  == Resize(d, Len(d) + Len(t))
           tail == SubSeq(d, at + 1, at + s.cb - o)
           x  == Write(e, at + Len(t), tail)
           y  == Write(x, at, t)
<1>1. d \in Seq(Bytes) /\ p \in Nat /\ p + s.cb < Len(d) /\ s.cb \in Nat
  BY PreparedType, StringFacts DEF StringRec
<1>2. Len(t) \in Nat /\ Len(d) \in Nat /\ Len(d) + Len(t) \in Nat /\ at \in Nat
  BY <1>1
<1>3. tail \in Seq(Bytes)
  <2>1. /\ at \in Nat /\ s.cb - o \in Nat /\ at + (s.cb - o) <= Len(d)
        /\ at + (s.cb - o) = at + s.cb - o
    <3> HIDE DEF d, p
    <3> QED
      BY <1>1, <1>2
  <2> HIDE DEF d, at
  <2> QED
    BY <1>1, <2>1, SliceType
<1>4. e \in Seq(Bytes) /\ Len(e) = Len(d) + Len(t)
  BY <1>1, <1>2, ResizeType
<1>5. x \in Seq(Bytes) /\ Len(x) = Len(d) + Len(t)
  <2> HIDE DEF e, tail, at, d
  <2> QED
    BY <1>2, <1>3, <1>4, WriteType
<1>6. y \in Seq(Bytes) /\ Len(y) = Len(d) + Len(t)
  <2> HIDE DEF x, at, d
  <2> QED
    BY <1>2, <1>5, WriteType
<1>7. <<Nul>> \in Seq(Bytes) /\ p + s.cb + Len(t) \in Nat
  BY <1>1, <1>2 DEF Bytes
<1>8. Write(y, p + s.cb + Len(t), <<Nul>>) \in Seq(Bytes)
      /\ Len(Write(y, p + s.cb + Len(t), <<Nul>>)) = Len(d) + Len(t)
  <2> HIDE DEF y, p, d
  <2> QED
    BY <1>6, <1>7, WriteType
<1>9. Opened(s, o, Len(t)) = x
  BY DEF Opened
<1>10. Inserted(s, o, t) = Write(y, p + s.cb + Len(t), <<Nul>>)
  BY DEF Inserted, Opened
<1> QED
  BY <1>5, <1>8, <1>9, <1>10
LEMMA InsertTextStep ==
  ASSUME IInv, NEW h \in Strings, NEW o \in 0..str[h].cb, NEW t \in Seq(Bytes),
         InsertText(h, o, t)
  PROVE  IInv' /\ Frame
<1> DEFINE s == str[h]
<1>1. CASE Nothing
  BY <1>1, NothingIsQuiet
<1>2. CASE Assign(h, t)
  BY <1>2, AssignStep
<1>3. CASE Crash("assert") \/ Crash("use_after_free")
  BY <1>3, CrashIsQuiet DEF Faults
<1>4. ASSUME t # <<>>, s.buf # Null, ~Unreadable(s), NEW b \in Targets(s),
             Modified(h, b, s.cb + Len(t), Inserted(s, o, t))
      PROVE  IInv' /\ Frame
  <2>1. Len(t) \in Nat /\ Len(t) # 0 /\ s.cb \in Nat
    BY <1>4, StringFacts DEF StringRec
  <2>2. /\ Prepared(s) \in Seq(Bytes) /\ PreparedOffset(s) \in Nat
        /\ PreparedOffset(s) + s.cb < Len(Prepared(s))
    BY <1>4, PreparedType
  <2>3. /\ Inserted(s, o, t) \in Seq(Bytes)
        /\ Len(Inserted(s, o, t)) = Len(Prepared(s)) + Len(t)
    BY <1>4, InsertedType
  <2>4. /\ s.cb + Len(t) \in Nat /\ s.cb + Len(t) # s.cb
        /\ PreparedOffset(s) + (s.cb + Len(t)) < Len(Inserted(s, o, t))
    BY <2>1, <2>2, <2>3
  <2> QED
    BY <1>4, <2>2, <2>3, <2>4, ModifiedStep
<1> QED
  BY <1>1, <1>2, <1>3, <1>4 DEF InsertText

LEMMA InsertStringStep ==
  ASSUME IInv, NEW h \in Strings, NEW g \in Strings, NEW o \in 0..str[h].cb,
         InsertString(h, o, g)
  PROVE  IInv' /\ Frame
<1> DEFINE s == str[h]
           t == SubSeq(Opened(s, o, s.cb), s.offset + 1, s.offset + s.cb)
<1>1. CASE Crash("use_after_free")
  BY <1>1, CrashIsQuiet DEF Faults
<1>2. CASE ~Unreadable(str[g]) /\ InsertText(h, o, Value(str[g]))
  BY <1>2, ValueType, InsertTextStep
<1>3. CASE /\ g = h /\ Sole(s) /\ s.cb > 0
           /\ Modified(h, s.buf, 2 * s.cb, Inserted(s, o, t))
  <2>1. s.buf # Null /\ InPlace(s) /\ ~Unreadable(s) /\ s.buf \in Targets(s)
    <3>1. Counted(s) /\ refs[s.buf] = 1
      BY <1>3 DEF Sole
    <3> QED
      BY <3>1 DEF Counted, InPlace, Unreadable, Dangling, Targets
  <2>2. s.cb \in Nat /\ s.offset \in Nat
    BY StringFacts DEF StringRec
  <2>3. /\ Prepared(s) \in Seq(Bytes) /\ PreparedOffset(s) = s.offset
        /\ PreparedOffset(s) + s.cb < Len(Prepared(s))
    BY <2>1, PreparedType DEF PreparedOffset
  <2>4. Value(s) \in Seq(Bytes) /\ Len(Value(s)) = s.cb
    BY <2>1, ValueType
  <2>5. /\ Opened(s, o, Len(Value(s))) \in Seq(Bytes)
        /\ Len(Opened(s, o, Len(Value(s)))) = Len(Prepared(s)) + Len(Value(s))
    BY <2>1, <2>4, InsertedType
  <2>6. Opened(s, o, s.cb) \in Seq(Bytes) /\ s.offset + s.cb <= Len(Opened(s, o, s.cb))
    BY <2>2, <2>3, <2>4, <2>5
  <2>7. t \in Seq(Bytes) /\ Len(t) = s.cb
    BY <2>2, <2>6, SliceType
  <2> HIDE DEF t
  <2>8. /\ Inserted(s, o, t) \in Seq(Bytes)
        /\ Len(Inserted(s, o, t)) = Len(Prepared(s)) + Len(t)
    BY <2>1, <2>7, InsertedType
  <2>9. /\ 2 * s.cb \in Nat /\ 2 * s.cb # s.cb /\ PreparedOffset(s) \in Nat
        /\ PreparedOffset(s) + 2 * s.cb < Len(Inserted(s, o, t))
    <3>1. s.cb > 0
      BY <1>3
    <3>2. Len(Prepared(s)) \in Nat
      BY <2>3
    <3>3. Len(Inserted(s, o, t)) = Len(Prepared(s)) + s.cb
      BY <2>7, <2>8
    <3> HIDE DEF s
    <3> QED
      BY <3>1, <3>2, <3>3, <2>2, <2>3
  <2> QED
    BY <1>3, <2>1, <2>8, <2>9, ModifiedStep
<1> QED
  BY <1>1, <1>2, <1>3 DEF InsertString

LEMMA ErasedType ==
  ASSUME IInv, NEW h \in Strings, str[h].buf # Null, ~Unreadable(str[h]),
         NEW from \in Nat, NEW to \in Nat, from < to, to <= str[h].cb
  PROVE  /\ Erased(str[h], from, to) \in Seq(Bytes)
         /\ Len(Erased(str[h], from, to)) = Len(Prepared(str[h])) - (to - from)
<1> DEFINE s  == str[h]
           d  == Prepared(s)
           at == PreparedOffset(s)
           tail == SubSeq(d, at + to + 1, at + s.cb)
           x  == Write(d, at + from, tail)
           y  == Write(x, s.cb - (to - from), <<Nul>>)
<1>1. d \in Seq(Bytes) /\ at \in Nat /\ at + s.cb < Len(d) /\ s.cb \in Nat
  BY PreparedType, StringFacts DEF StringRec
<1>2. /\ Len(d) \in Nat /\ at + from \in Nat /\ s.cb - (to - from) \in Nat
      /\ Len(d) - (to - from) \in Nat
  BY <1>1
<1>3. tail \in Seq(Bytes) /\ <<Nul>> \in Seq(Bytes)
  <2>1. /\ at + to \in Nat /\ s.cb - to \in Nat /\ at + to + (s.cb - to) <= Len(d)
        /\ at + to + (s.cb - to) = at + s.cb
    <3> HIDE DEF d, at
    <3> QED
      BY <1>1, <1>2
  <2>2. tail \in Seq(Bytes)
    <3> HIDE DEF d, at
    <3> QED
      BY <1>1, <2>1, SliceType
  <2> QED
    BY <2>2 DEF Bytes
<1>4. x \in Seq(Bytes) /\ Len(x) = Len(d)
  <2> HIDE DEF tail, d, at
  <2> QED
    BY <1>1, <1>2, <1>3, WriteType
<1>5. y \in Seq(Bytes)
  <2> HIDE DEF x
  <2> QED
    BY <1>2, <1>3, <1>4, WriteType
<1>6. /\ Resize(y, Len(d) - (to - from)) \in Seq(Bytes)
      /\ Len(Resize(y, Len(d) - (to - from))) = Len(d) - (to - from)
  <2> HIDE DEF y, d
  <2> QED
    BY <1>2, <1>5, ResizeType
<1> QED
  BY <1>6 DEF Erased

LEMMA EraseRangeStep ==
  ASSUME IInv, NEW h \in Strings, NEW from \in Nat, NEW to \in Nat, from <= to,
         to <= str[h].cb, EraseRange(h, from, to)
  PROVE  IInv' /\ Frame
<1> DEFINE s == str[h]
           n == s.cb - (to - from)
<1>1. CASE Nothing
  BY <1>1, NothingIsQuiet
<1>2. CASE Crash("assert") \/ Crash("use_after_free")
  BY <1>2, CrashIsQuiet DEF Faults
<1>3. ASSUME from < to, ~Dangling(s), NEW b \in Targets(s),
             Modified(h, b, n, Erased(s, from, to))
      PROVE  IInv' /\ Frame
  <2>1. s.cb \in Nat /\ Fits(s, refs, mem)
    BY StringFacts DEF StringRec
  <2>2. s.buf # Null /\ ~Unreadable(s)
    BY <1>3, <2>1 DEF Fits, Unreadable
  <2>3. /\ Prepared(s) \in Seq(Bytes) /\ PreparedOffset(s) \in Nat
        /\ PreparedOffset(s) + s.cb < Len(Prepared(s))
    BY <2>2, PreparedType
  <2>4. /\ Erased(s, from, to) \in Seq(Bytes)
        /\ Len(Erased(s, from, to)) = Len(Prepared(s)) - (to - from)
    BY <1>3, <2>2, ErasedType
  <2>5. n \in Nat /\ n # s.cb /\ PreparedOffset(s) + n < Len(Erased(s, from, to))
    BY <1>3, <2>1, <2>3, <2>4
  <2> QED
    BY <1>3, <2>2, <2>3, <2>4, <2>5, ModifiedStep
<1> QED
  BY <1>1, <1>2, <1>3 DEF EraseRange

LEMMA EraseStep ==
  ASSUME IInv, NEW h \in Strings, NEW from \in Nat, NEW to \in Nat, Erase(h, from, to)
  PROVE  IInv' /\ Frame
<1>1. str[h].cb \in Nat
  BY StringFacts DEF StringRec
<1>2. /\ Clamp(str[h], from) \in Nat /\ Clamp(str[h], from) <= str[h].cb
      /\ Clamp(str[h], to) \in Nat /\ Clamp(str[h], to) <= str[h].cb
      /\ from <= to => Clamp(str[h], from) <= Clamp(str[h], to)
      /\ ~(from <= to) => Clamp(str[h], to) <= Clamp(str[h], from)
  BY <1>1 DEF Clamp
<1> QED
  BY <1>2, EraseRangeStep DEF Erase
LEMMA CStrStep ==
  ASSUME IInv, NEW h \in Strings, CStr(h)
  PROVE  IInv' /\ Frame
<1> DEFINE s == str[h]
<1>1. CASE Crash("assert") \/ Crash("use_after_free")
  BY <1>1, CrashIsQuiet DEF Faults
<1>2. CASE /\ ret' \in {Null, CString(BytesAt(mem, s.buf))}
           /\ UNCHANGED <<refs, mem, str, fault>>
  <2>1. ret' \in Seq(Bytes) \cup {Null, NoRet}
    BY <1>2, BytesAtType, CStringType
  <2>2. fault' \in Faults \cup {"none"}
    BY <1>2 DEF IInv, TypeOK
  <2> QED
    BY <1>2, <2>1, <2>2, Quiet
<1>3. ASSUME ~Dangling(s), NEW b \in Fresh,
             str' = [str EXCEPT ![h] = Owning(h, b, s.cb)],
             refs' = New(Drop(refs, s), b),
             mem' = Frees([mem EXCEPT ![b] = Append(Value(s), Nul)], New(Drop(refs, s), b)),
             ret' = Value(s), UNCHANGED fault
      PROVE  IInv' /\ Frame
  <2>1. Value(s) \in Seq(Bytes) /\ Len(Value(s)) = s.cb
    BY <1>3, ValueType DEF Unreadable
  <2>2. Safe(h, Owning(h, b, Len(Value(s))), New(Drop(refs, s), b),
             [mem EXCEPT ![b] = Append(Value(s), Nul)])
    BY <1>3, <2>1, OwningSafe, DropReleases
  <2>3. ret' \in Seq(Bytes) \cup {Null, NoRet} /\ fault' \in Faults \cup {"none"}
    BY <1>3, <2>1 DEF IInv, TypeOK
  <2> QED
    BY <1>3, <2>1, <2>2, <2>3, Update
<1> QED
  BY <1>1, <1>2, <1>3 DEF CStr

-----------------------------------------------------------------------------
(* The specification.                                                      *)

LEMMA InitIInv == Init => IInv
<1> SUFFICES ASSUME Init PROVE IInv
  OBVIOUS
<1>1. Default \in StringRec /\ ~Counted(Default) /\ Default.buf = Null /\ Default.cb = 0
  BY DEF Default, StringRec, Counted, Standard, Static
<1>2. \A h \in Strings : str[h] = Default
  BY DEF Init
<1>3. TypeOK
  BY <1>1 DEF Init, TypeOK
<1>4. CountedBlocks
  BY <1>1, <1>2 DEF CountedBlocks
<1>5. OneLabel
  BY <1>2 DEF OneLabel
<1>6. RefsExact
  BY <1>1, <1>2 DEF RefsExact, Owners
<1>7. InBounds
  BY <1>1, <1>2 DEF InBounds
<1> QED
  BY <1>3, <1>4, <1>5, <1>6, <1>7 DEF IInv

LEMMA StepIInv ==
  ASSUME IInv, [Next]_vars
  PROVE  IInv' /\ Frame
<1>1. CASE UNCHANGED vars
  <2>1. ret' \in Seq(Bytes) \cup {Null, NoRet} /\ fault' \in Faults \cup {"none"}
    BY <1>1 DEF vars, IInv, TypeOK
  <2> QED
    BY <1>1, <2>1, Quiet DEF vars
<1>2. ASSUME Next PROVE IInv' /\ Frame
  <2>1. PICK h \in Strings :
       \/ Destroy(h)
       \/ \E l \in Lits : AssignLiteral(h, l)
       \/ \E g \in Strings : CopyAssign(h, g)
       \/ \E g \in Strings : MoveConstruct(h, g)
       \/ \E g \in Strings : \E from, to \in 0..str[g].cb + 1 : Substr(h, g, from, to)
       \/ Trim(h)
       \/ \E t \in Texts : Assign(h, t)
       \/ AssignNull(h)
       \/ \E t \in Texts : \E o \in 0..str[h].cb : InsertText(h, o, t)
       \/ \E g \in Strings : \E o \in 0..str[h].cb : InsertString(h, o, g)
       \/ InsertPast(h)
       \/ \E from, to \in 0..str[h].cb + 1 : Erase(h, from, to)
       \/ CStr(h)
       \/ Clear(h)
       \/ \E l \in Lits : MutateToStatic(h, l)
       \/ \E t \in Texts : \E k \in 0..Len(t) : ReadString(h, t, k)
       \/ ReadStringEof(h)
    BY <1>2 DEF Next
  <2>2. Texts \subseteq Seq(Bytes)
    BY TextsAssumption DEF Bytes
  <2>3. \A g \in Strings : 0..str[g].cb + 1 \subseteq Nat
    BY StringFacts DEF StringRec
  <2>4. CASE Destroy(h)
    BY <2>4, DestroyStep
  <2>5. CASE \E l \in Lits : AssignLiteral(h, l)
    BY <2>5, AssignLiteralStep
  <2>6. CASE \E g \in Strings : CopyAssign(h, g)
    BY <2>6, CopyAssignStep
  <2>7. CASE \E g \in Strings : MoveConstruct(h, g)
    BY <2>7, MoveConstructStep
  <2>8. CASE \E g \in Strings : \E from, to \in 0..str[g].cb + 1 : Substr(h, g, from, to)
    <3>1. PICK g \in Strings, from \in Nat, to \in Nat : Substr(h, g, from, to)
      BY <2>3, <2>8
    <3> QED
      BY <3>1, SubstrStep
  <2>9. CASE Trim(h)
    BY <2>9, TrimStep
  <2>10. CASE \E t \in Texts : Assign(h, t)
    BY <2>2, <2>10, AssignStep
  <2>11. CASE AssignNull(h)
    BY <2>11, AssignNullStep
  <2>12. CASE \E t \in Texts : \E o \in 0..str[h].cb : InsertText(h, o, t)
    BY <2>2, <2>12, InsertTextStep
  <2>13. CASE \E g \in Strings : \E o \in 0..str[h].cb : InsertString(h, o, g)
    BY <2>13, InsertStringStep
  <2>14. CASE \E from, to \in 0..str[h].cb + 1 : Erase(h, from, to)
    <3>1. PICK from \in Nat, to \in Nat : Erase(h, from, to)
      BY <2>3, <2>14
    <3> QED
      BY <3>1, EraseStep
  <2>15. CASE CStr(h)
    BY <2>15, CStrStep
  <2>16. CASE Clear(h)
    BY <2>16, ClearStep
  <2>17. CASE \E l \in Lits : MutateToStatic(h, l)
    BY <2>17, MutateToStaticStep
  <2>18. CASE \E t \in Texts : \E k \in 0..Len(t) : ReadString(h, t, k)
    BY <2>2, <2>18, ReadStringStep
  <2>19. CASE ReadStringEof(h)
    BY <2>19, ReadStringEofStep
  <2>20. CASE InsertPast(h)
    BY <2>20, InsertPastStep
  <2> QED
    BY <2>1, <2>4, <2>5, <2>6, <2>7, <2>8, <2>9, <2>10, <2>11, <2>12, <2>13,
       <2>14, <2>15, <2>16, <2>17, <2>18, <2>19, <2>20
<1> QED
  BY <1>1, <1>2

(* In every behaviour, whatever the callers do, the invariant holds.       *)
THEOREM Invariance == Spec => []IInv
<1>1. Init => IInv
  BY InitIInv
<1>2. IInv /\ [Next]_vars => IInv'
  BY StepIInv
<1> QED
  BY <1>1, <1>2, PTL DEF Spec

(* Type correctness of the string library.                                 *)
THEOREM TypeCorrect == Spec => []TypeOK
<1>1. IInv => TypeOK
  BY DEF IInv
<1> QED
  BY <1>1, Invariance, PTL

(* A buffer's count is the number of standard strings that point at it.    *)
THEOREM RefCounting == Spec => []RefsExact
<1>1. IInv => RefsExact
  BY DEF IInv
<1> QED
  BY <1>1, Invariance, PTL

(* No slice reaches outside its buffer.                                    *)
THEOREM SlicesInBounds == Spec => []InBounds
<1>1. IInv => InBounds
  BY DEF IInv
<1> QED
  BY <1>1, Invariance, PTL

(* No call changes the text of a string object it leaves alone.            *)
THEOREM CopyOnWrite == Spec => Isolation
<1> DEFINE Same == \A h \in Strings :
                     str'[h] = str[h] /\ ~Dangling(str[h]) /\ ~Dangling(str[h])'
                       => Value(str[h])' = Value(str[h])
<1>1. ASSUME IInv, [Next]_vars PROVE [Same]_vars
  <2>1. IInv' /\ Frame
    BY <1>1, StepIInv
  <2> SUFFICES ASSUME NEW h \in Strings, str'[h] = str[h],
                      ~Dangling(str[h]), ~Dangling(str[h])'
               PROVE  Value(str[h])' = Value(str[h])
    OBVIOUS
  <2>2. str[h].buf \in Blocks => mem'[str[h].buf] = mem[str[h].buf]
    BY <2>1 DEF Frame, Dangling
  <2> QED
    BY <2>2 DEF Value, ValueIn, BytesAt
<1> QED
  BY <1>1, Invariance, PTL DEF Spec, Isolation

-----------------------------------------------------------------------------
(* Callers that keep to the contract.                                      *)

(* substr() and trim() hold a buffer once more while they run.             *)
Contract == Hazards = {} /\ Cardinality(Strings) + 1 < RefLimit

-----------------------------------------------------------------------------
(* Byte sequences.                                                         *)

LEMMA Same ==
  ASSUME NEW S, NEW u \in Seq(S), NEW v \in Seq(S), Len(u) = Len(v),
         \A i \in 1..Len(u) : u[i] = v[i]
  PROVE  u = v
  BY SeqEqual

(* u is the n elements of d after the first m; w is u and then v; x is d    *)
(* with bs over the bytes after at; x is d cut or filled up to n bytes.    *)
IsSlice(u, d, m, n) ==
  u \in Seq(Bytes) /\ Len(u) = n /\ \A i \in 1..n : u[i] = d[m + i]

IsConcat(w, u, v) ==
  /\ w \in Seq(Bytes) /\ Len(w) = Len(u) + Len(v)
  /\ \A i \in 1..Len(u) : w[i] = u[i]
  /\ \A i \in 1..Len(v) : w[Len(u) + i] = v[i]

IsWrite(x, d, at, bs) ==
  /\ x \in Seq(Bytes) /\ Len(x) = Len(d)
  /\ \A i \in 1..Len(d) : x[i] = IF at < i /\ i <= at + Len(bs) THEN bs[i - at] ELSE d[i]

IsResize(x, d, n) ==
  x \in Seq(Bytes) /\ Len(x) = n /\ \A i \in 1..n : i <= Len(d) => x[i] = d[i]

LEMMA SliceIs ==
  ASSUME NEW d \in Seq(Bytes), NEW m \in Nat, NEW n \in Nat, m + n <= Len(d)
  PROVE  IsSlice(SubSeq(d, m + 1, m + n), d, m, n)
  BY DEF IsSlice

LEMMA PrefixIs ==
  ASSUME NEW d \in Seq(Bytes), NEW n \in Nat, n <= Len(d)
  PROVE  IsSlice(SubSeq(d, 1, n), d, 0, n)
  BY DEF IsSlice

LEMMA SuffixIs ==
  ASSUME NEW d \in Seq(Bytes), NEW m \in Nat, NEW l \in Nat, m <= l, l <= Len(d)
  PROVE  IsSlice(SubSeq(d, m + 1, l), d, m, l - m)
  BY DEF IsSlice

LEMMA SliceIsUnique ==
  ASSUME NEW d, NEW m, NEW n, NEW u, NEW v, IsSlice(u, d, m, n), IsSlice(v, d, m, n)
  PROVE  u = v
  BY Same DEF IsSlice

LEMMA ConcatIs ==
  ASSUME NEW u \in Seq(Bytes), NEW v \in Seq(Bytes)
  PROVE  IsConcat(u \o v, u, v)
<1>1. u \o v \in Seq(Bytes) /\ Len(u \o v) = Len(u) + Len(v)
  OBVIOUS
<1>2. \A i \in 1..Len(u) : (u \o v)[i] = u[i]
  OBVIOUS
<1>3. \A i \in 1..Len(v) : (u \o v)[Len(u) + i] = v[i]
  OBVIOUS
<1> QED
  BY <1>1, <1>2, <1>3 DEF IsConcat

LEMMA WriteIs ==
  ASSUME NEW d \in Seq(Bytes), NEW at \in Nat, NEW bs \in Seq(Bytes)
  PROVE  IsWrite(Write(d, at, bs), d, at, bs)
  BY WriteType DEF Write, IsWrite

LEMMA ResizeIs ==
  ASSUME NEW d \in Seq(Bytes), NEW n \in Nat
  PROVE  IsResize(Resize(d, n), d, n)
  BY ResizeType DEF Resize, IsResize

(* A slice of a slice.                                                     *)
LEMMA SliceOfSlice ==
  ASSUME NEW d \in Seq(Bytes), NEW m \in Nat, NEW n \in Nat, NEW v, IsSlice(v, d, m, n),
         NEW from \in Nat, NEW k \in Nat, from + k <= n, NEW a, IsSlice(a, d, m + from, k)
  PROVE  IsSlice(a, v, from, k)
<1> SUFFICES ASSUME NEW i \in 1..k PROVE d[(m + from) + i] = v[from + i]
  BY DEF IsSlice
<1>1. from + i \in 1..n /\ (m + from) + i = m + (from + i)
  OBVIOUS
<1> QED
  BY <1>1 DEF IsSlice

LEMMA WholeSlice ==
  ASSUME NEW v \in Seq(Bytes)
  PROVE  SubSeq(v, 1, Len(v)) = v
<1>1. IsSlice(v, v, 0, Len(v))
  BY DEF IsSlice
<1>2. Len(v) \in Nat
  OBVIOUS
<1> QED
  BY <1>1, <1>2, PrefixIs, SliceIsUnique

LEMMA IsSliceType ==
  ASSUME NEW d, NEW m, NEW n, NEW u, IsSlice(u, d, m, n)
  PROVE  u \in Seq(Bytes) /\ Len(u) = n
  BY DEF IsSlice

-----------------------------------------------------------------------------
(* What insert() and erase() do to bytes.                                  *)

(* v with t put in at o; v without from..to-1.                             *)
Splice(v, o, t) == SubSeq(v, 1, o) \o t \o SubSeq(v, o + 1, Len(v))

Cut(v, from, to) == SubSeq(v, 1, from) \o SubSeq(v, to + 1, Len(v))

(* insert() of t at o, in bytes d of which the string is cb after p.       *)
InsertBytes(d, p, cb, o, t) ==
  Write(Write(Write(Resize(d, Len(d) + Len(t)), (p + o) + Len(t),
                    SubSeq(d, (p + o) + 1, (p + o) + cb - o)),
              p + o, t),
        p + cb + Len(t), <<Nul>>)

(* Its steps, one variable for the bytes each leaves; v, the string, is    *)
(* a up to o and b from there, and w is what it should become.             *)
InsertTrace(d, p, cb, l, o, t, n, tail, e, x, y, nul, z, v, a, b, c, w) ==
  /\ d \in Seq(Bytes) /\ p \in Nat /\ cb \in Nat /\ l \in Nat /\ Len(d) = l /\ p + cb < l
  /\ o \in Nat /\ o <= cb /\ t \in Seq(Bytes) /\ n \in Nat /\ Len(t) = n
  /\ IsSlice(tail, d, p + o, cb - o) /\ IsResize(e, d, l + n)
  /\ IsWrite(x, e, (p + o) + n, tail) /\ IsWrite(y, x, p + o, t)
  /\ nul \in Seq(Bytes) /\ Len(nul) = 1 /\ nul[1] = Nul /\ IsWrite(z, y, p + cb + n, nul)
  /\ IsSlice(v, d, p, cb) /\ IsSlice(a, v, 0, o) /\ IsSlice(b, v, o, cb - o)
  /\ IsConcat(c, a, t) /\ IsConcat(w, c, b)

LEMMA InsertSteps ==
  ASSUME NEW d, NEW p, NEW cb, NEW l, NEW o, NEW t, NEW n, NEW tail, NEW e, NEW x, NEW y,
         NEW nul, NEW z, NEW v, NEW a, NEW b, NEW c, NEW w,
         InsertTrace(d, p, cb, l, o, t, n, tail, e, x, y, nul, z, v, a, b, c, w)
  PROVE  z \in Seq(Bytes) /\ Len(z) = l + n /\ z[p + cb + n + 1] = Nul /\ IsSlice(w, z, p, cb + n)
<1> USE DEF InsertTrace
<1> DEFINE m == l + n
           at == p + o
           q == (p + o) + n
           f == p + cb + n
           k == cb - o
<1>0. /\ m \in Nat /\ at \in Nat /\ q \in Nat /\ f \in Nat /\ k \in Nat
      /\ m = l + n /\ at = p + o /\ q = at + n /\ f = p + cb + n /\ k = cb - o
  OBVIOUS
<1>1. tail \in Seq(Bytes) /\ Len(tail) = k /\ \A i \in 1..k : tail[i] = d[at + i]
  BY DEF IsSlice
<1>2. e \in Seq(Bytes) /\ Len(e) = m /\ \A i \in 1..m : i <= l => e[i] = d[i]
  BY DEF IsResize
<1>3. /\ x \in Seq(Bytes) /\ Len(x) = m
      /\ \A i \in 1..m : x[i] = IF q < i /\ i <= q + k THEN tail[i - q] ELSE e[i]
  BY <1>1, <1>2 DEF IsWrite
<1>4. /\ y \in Seq(Bytes) /\ Len(y) = m
      /\ \A i \in 1..m : y[i] = IF at < i /\ i <= at + n THEN t[i - at] ELSE x[i]
  BY <1>3 DEF IsWrite
<1>5. /\ z \in Seq(Bytes) /\ Len(z) = m
      /\ \A i \in 1..m : z[i] = IF f < i /\ i <= f + 1 THEN nul[i - f] ELSE y[i]
  BY <1>4 DEF IsWrite
<1>6. v \in Seq(Bytes) /\ Len(v) = cb /\ \A i \in 1..cb : v[i] = d[p + i]
  BY DEF IsSlice
<1>7. a \in Seq(Bytes) /\ Len(a) = o /\ \A i \in 1..o : a[i] = v[i]
  BY DEF IsSlice
<1>8. b \in Seq(Bytes) /\ Len(b) = k /\ \A i \in 1..k : b[i] = v[o + i]
  BY DEF IsSlice
<1>9. /\ Len(c) = o + n
      /\ \A i \in 1..o : c[i] = a[i]
      /\ \A i \in 1..n : c[o + i] = t[i]
  BY <1>7 DEF IsConcat
<1>10. /\ w \in Seq(Bytes) /\ Len(w) = (o + n) + k
       /\ \A i \in 1..(o + n) : w[i] = c[i]
       /\ \A i \in 1..k : w[(o + n) + i] = b[i]
  BY <1>8, <1>9 DEF IsConcat
<1> HIDE DEF m, at, q, f, k
<1>11. z[f + 1] = Nul
  <2>1. f + 1 \in 1..m /\ f < f + 1 /\ (f + 1) - f = 1
    BY <1>0
  <2> QED
    BY <1>5, <2>1
<1>12. \A i \in 1..(cb + n) : w[i] = z[p + i]
  <2> SUFFICES ASSUME NEW i \in 1..(cb + n) PROVE z[p + i] = w[i]
    OBVIOUS
  <2>1. p + i \in 1..m /\ ~(f < p + i)
    BY <1>0
  <2>2. z[p + i] = y[p + i]
    BY <1>5, <2>1
  <2>3. CASE i <= o
    <3>1. /\ ~(at < p + i) /\ ~(q < p + i) /\ p + i <= l
          /\ i \in 1..o /\ i \in 1..cb /\ i \in 1..(o + n)
      BY <1>0, <2>3
    <3>2. y[p + i] = x[p + i]
      BY <1>4, <2>1, <3>1
    <3>3. x[p + i] = e[p + i]
      BY <1>3, <2>1, <3>1
    <3>4. e[p + i] = d[p + i]
      BY <1>2, <2>1, <3>1
    <3>5. w[i] = c[i] /\ c[i] = a[i] /\ a[i] = v[i] /\ v[i] = d[p + i]
      BY <1>6, <1>7, <1>9, <1>10, <3>1
    <3> QED
      BY <2>2, <3>2, <3>3, <3>4, <3>5
  <2>4. CASE o < i /\ i <= o + n
    <3> DEFINE g == i - o
    <3>1. /\ g \in 1..n /\ i = o + g /\ (p + i) - at = g /\ at < p + i /\ p + i <= at + n
          /\ i \in 1..(o + n)
      BY <1>0, <2>4
    <3> HIDE DEF g
    <3>2. y[p + i] = t[g]
      BY <1>4, <2>1, <3>1
    <3>3. w[i] = c[i] /\ c[i] = t[g]
      BY <1>9, <1>10, <3>1
    <3> QED
      BY <2>2, <3>2, <3>3
  <2>5. CASE o + n < i
    <3> DEFINE g == i - (o + n)
    <3>1. g \in 1..k /\ i = (o + n) + g /\ (p + i) - q = g /\ at + g = p + (o + g)
      BY <1>0, <2>5
    <3>2. ~(p + i <= at + n) /\ q < p + i /\ p + i <= q + k /\ o + g \in 1..cb
      BY <1>0, <2>5
    <3> HIDE DEF g
    <3>3. y[p + i] = x[p + i]
      BY <1>4, <2>1, <3>2
    <3>4. x[p + i] = tail[g]
      BY <1>3, <2>1, <3>1, <3>2
    <3>5. tail[g] = d[p + (o + g)]
      BY <1>1, <3>1
    <3>6. w[i] = b[g] /\ b[g] = v[o + g] /\ v[o + g] = d[p + (o + g)]
      BY <1>6, <1>8, <1>10, <3>1, <3>2
    <3> QED
      BY <2>2, <3>3, <3>4, <3>5, <3>6
  <2> QED
    BY <2>3, <2>4, <2>5
<1>13. Len(w) = cb + n
  BY <1>0, <1>10
<1> QED
  BY <1>0, <1>5, <1>10, <1>11, <1>12, <1>13 DEF IsSlice

(* The bytes before o, the text, those from o on, a null.                  *)
LEMMA InsertBytesAre ==
  ASSUME NEW d \in Seq(Bytes), NEW p \in Nat, NEW cb \in Nat, p + cb < Len(d),
         NEW o \in Nat, o <= cb, NEW t \in Seq(Bytes), NEW v, IsSlice(v, d, p, cb)
  PROVE  /\ InsertBytes(d, p, cb, o, t) \in Seq(Bytes)
         /\ Len(InsertBytes(d, p, cb, o, t)) = Len(d) + Len(t)
         /\ IsSlice(Splice(v, o, t), InsertBytes(d, p, cb, o, t), p, cb + Len(t))
         /\ InsertBytes(d, p, cb, o, t)[p + cb + Len(t) + 1] = Nul
<1> DEFINE n == Len(t)
           l == Len(d)
           tail == SubSeq(d, (p + o) + 1, (p + o) + (cb - o))
           e == Resize(d, l + n)
           x == Write(e, (p + o) + n, tail)
           y == Write(x, p + o, t)
           nul == <<Nul>>
           z == Write(y, p + cb + n, nul)
           a == SubSeq(v, 1, o)
           b == SubSeq(v, o + 1, cb)
           c == a \o t
           w == c \o b
<1>1. /\ l \in Nat /\ n \in Nat /\ l + n \in Nat /\ p + o \in Nat /\ (p + o) + n \in Nat
      /\ p + cb + n \in Nat /\ cb - o \in Nat /\ (p + o) + (cb - o) = (p + o) + cb - o
      /\ (p + o) + (cb - o) <= l
  OBVIOUS
<1>2. z = InsertBytes(d, p, cb, o, t)
  BY <1>1 DEF InsertBytes
<1>3. IsSlice(tail, d, p + o, cb - o)
  <2> HIDE DEF l
  <2>1. (p + o) + (cb - o) <= Len(d)
    BY <1>1 DEF l
  <2> DEFINE i == p + o
             k == cb - o
  <2> HIDE DEF i, k
  <2> SUFFICES IsSlice(SubSeq(d, i + 1, i + k), d, i, k)
    BY DEF i, k
  <2> QED
    BY <1>1, <2>1, SliceIs DEF i, k
<1>4. IsResize(e, d, l + n)
  <2> HIDE DEF l, n
  <2> QED
    BY <1>1, ResizeIs
<1>5. tail \in Seq(Bytes) /\ e \in Seq(Bytes)
  BY <1>3, <1>4 DEF IsSlice, IsResize
<1> HIDE DEF e, tail, l, n
<1>6. IsWrite(x, e, (p + o) + n, tail) /\ x \in Seq(Bytes)
  BY <1>1, <1>5, WriteIs, WriteType
<1> HIDE DEF x
<1>7. IsWrite(y, x, p + o, t) /\ y \in Seq(Bytes)
  BY <1>1, <1>6, WriteIs, WriteType
<1>8. nul \in Seq(Bytes) /\ Len(nul) = 1 /\ nul[1] = Nul
  BY DEF Bytes
<1> HIDE DEF y, nul
<1>9. IsWrite(z, y, p + cb + n, nul)
  BY <1>1, <1>7, <1>8, WriteIs
<1>10. v \in Seq(Bytes) /\ Len(v) = cb
  BY IsSliceType
<1>11. IsSlice(a, v, 0, o) /\ IsSlice(b, v, o, cb - o)
  BY <1>10, PrefixIs, SuffixIs
<1>12. a \in Seq(Bytes) /\ b \in Seq(Bytes)
  BY <1>11, IsSliceType
<1> HIDE DEF a, b
<1>13. IsConcat(c, a, t) /\ c \in Seq(Bytes)
  BY <1>12, ConcatIs
<1> HIDE DEF c
<1>14. IsConcat(w, c, b)
  BY <1>12, <1>13, ConcatIs
<1> HIDE DEF w, z
<1>15. z \in Seq(Bytes) /\ Len(z) = l + n /\ z[p + cb + n + 1] = Nul /\ IsSlice(w, z, p, cb + n)
  <2>1. p + cb < l /\ Len(d) = l /\ Len(t) = n
    BY DEF l, n
  <2>2. InsertTrace(d, p, cb, l, o, t, n, tail, e, x, y, nul, z, v, a, b, c, w)
    BY <1>1, <1>3, <1>4, <1>6, <1>7, <1>8, <1>9, <1>11, <1>13, <1>14, <2>1 DEF InsertTrace
  <2> QED
    BY <2>2, InsertSteps
<1>16. w = Splice(v, o, t)
  BY <1>10 DEF Splice, w, c, a, b
<1> QED
  BY <1>2, <1>15, <1>16 DEF l, n

(* erase() of from..to-1 in bytes d that the string begins.                *)
EraseBytes(d, cb, from, to) ==
  Resize(Write(Write(d, from, SubSeq(d, to + 1, cb)), cb - (to - from), <<Nul>>),
         Len(d) - (to - from))

EraseTrace(d, cb, l, from, to, tail, x, nul, y, z, v, a, b, w) ==
  /\ d \in Seq(Bytes) /\ cb \in Nat /\ l \in Nat /\ Len(d) = l /\ cb < l
  /\ from \in Nat /\ to \in Nat /\ from < to /\ to <= cb
  /\ IsSlice(tail, d, to, cb - to) /\ IsWrite(x, d, from, tail)
  /\ nul \in Seq(Bytes) /\ Len(nul) = 1 /\ nul[1] = Nul
  /\ IsWrite(y, x, cb - (to - from), nul) /\ IsResize(z, y, l - (to - from))
  /\ IsSlice(v, d, 0, cb) /\ IsSlice(a, v, 0, from) /\ IsSlice(b, v, to, cb - to)
  /\ IsConcat(w, a, b)

LEMMA EraseSteps ==
  ASSUME NEW d, NEW cb, NEW l, NEW from, NEW to, NEW tail, NEW x, NEW nul, NEW y, NEW z,
         NEW v, NEW a, NEW b, NEW w,
         EraseTrace(d, cb, l, from, to, tail, x, nul, y, z, v, a, b, w)
  PROVE  /\ z \in Seq(Bytes) /\ Len(z) = l - (to - from) /\ z[cb - (to - from) + 1] = Nul
         /\ IsSlice(w, z, 0, cb - (to - from))
<1> USE DEF EraseTrace
<1> DEFINE n == cb - (to - from)
           m == l - (to - from)
           k == cb - to
<1>0. /\ n \in Nat /\ m \in Nat /\ k \in Nat /\ k = cb - to /\ n = from + k
      /\ m = l - (to - from) /\ n + 1 <= m /\ m <= l
  OBVIOUS
<1>1. tail \in Seq(Bytes) /\ Len(tail) = k /\ \A i \in 1..k : tail[i] = d[to + i]
  BY DEF IsSlice
<1>2. /\ x \in Seq(Bytes) /\ Len(x) = l
      /\ \A i \in 1..l : x[i] = IF from < i /\ i <= from + k THEN tail[i - from] ELSE d[i]
  BY <1>1 DEF IsWrite
<1>3. /\ y \in Seq(Bytes) /\ Len(y) = l
      /\ \A i \in 1..l : y[i] = IF n < i /\ i <= n + 1 THEN nul[i - n] ELSE x[i]
  BY <1>2 DEF IsWrite
<1>4. z \in Seq(Bytes) /\ Len(z) = m /\ \A i \in 1..m : i <= l => z[i] = y[i]
  BY <1>3 DEF IsResize
<1>5. v \in Seq(Bytes) /\ Len(v) = cb /\ \A i \in 1..cb : v[i] = d[i]
  BY DEF IsSlice
<1>6. a \in Seq(Bytes) /\ Len(a) = from /\ \A i \in 1..from : a[i] = v[i]
  BY DEF IsSlice
<1>7. b \in Seq(Bytes) /\ Len(b) = k /\ \A i \in 1..k : b[i] = v[to + i]
  BY DEF IsSlice
<1>8. /\ w \in Seq(Bytes) /\ Len(w) = from + k
      /\ \A i \in 1..from : w[i] = a[i]
      /\ \A i \in 1..k : w[from + i] = b[i]
  BY <1>6, <1>7 DEF IsConcat
<1> HIDE DEF n, m, k
<1>9. z[n + 1] = Nul
  <2>1. n + 1 \in 1..m /\ n + 1 \in 1..l /\ n < n + 1 /\ (n + 1) - n = 1
    BY <1>0
  <2>2. z[n + 1] = y[n + 1]
    BY <1>4, <2>1
  <2> QED
    BY <1>3, <2>1, <2>2
<1>10. \A i \in 1..n : w[i] = z[i]
  <2> SUFFICES ASSUME NEW i \in 1..n PROVE z[i] = w[i]
    OBVIOUS
  <2>1. i \in 1..m /\ i \in 1..l /\ i <= l /\ ~(n < i)
    BY <1>0
  <2>2. z[i] = y[i] /\ y[i] = x[i]
    BY <1>3, <1>4, <2>1
  <2>3. CASE i <= from
    <3>1. i \in 1..from /\ i \in 1..cb /\ ~(from < i)
      BY <1>0, <2>3
    <3> QED
      BY <1>2, <1>5, <1>6, <1>8, <2>1, <2>2, <3>1
  <2>4. CASE from < i
    <3> DEFINE g == i - from
    <3>1. g \in 1..k /\ i = from + g /\ i <= from + k /\ to + g \in 1..cb
      BY <1>0, <2>4
    <3>2. i - from = g
      OBVIOUS
    <3> HIDE DEF g
    <3>3. x[i] = tail[g] /\ tail[g] = d[to + g]
      BY <1>1, <1>2, <2>1, <2>4, <3>1, <3>2
    <3>4. w[i] = b[g] /\ b[g] = v[to + g] /\ v[to + g] = d[to + g]
      BY <1>5, <1>7, <1>8, <3>1
    <3> QED
      BY <2>2, <3>3, <3>4
  <2> QED
    BY <2>3, <2>4
<1>11. /\ z \in Seq(Bytes) /\ Len(z) = m /\ z[n + 1] = Nul /\ IsSlice(w, z, 0, n)
  BY <1>0, <1>4, <1>8, <1>9, <1>10 DEF IsSlice
<1> QED
  BY <1>11 DEF n, m

(* The bytes before the range, those after it, a null.                     *)
LEMMA EraseBytesAre ==
  ASSUME NEW d \in Seq(Bytes), NEW cb \in Nat, cb < Len(d),
         NEW from \in Nat, NEW to \in Nat, from < to, to <= cb,
         NEW v, IsSlice(v, d, 0, cb)
  PROVE  /\ EraseBytes(d, cb, from, to) \in Seq(Bytes)
         /\ Len(EraseBytes(d, cb, from, to)) = Len(d) - (to - from)
         /\ EraseBytes(d, cb, from, to)[cb - (to - from) + 1] = Nul
         /\ IsSlice(Cut(v, from, to), EraseBytes(d, cb, from, to), 0, cb - (to - from))
<1> DEFINE l == Len(d)
           n == cb - (to - from)
           m == l - (to - from)
           tail == SubSeq(d, to + 1, cb)
           x == Write(d, from, tail)
           nul == <<Nul>>
           y == Write(x, n, nul)
           z == Resize(y, m)
           a == SubSeq(v, 1, from)
           b == SubSeq(v, to + 1, cb)
           w == a \o b
<1>1. /\ l \in Nat /\ n \in Nat /\ m \in Nat /\ cb - to \in Nat /\ cb <= l
  OBVIOUS
<1>2. z = EraseBytes(d, cb, from, to)
  BY DEF EraseBytes
<1>3. IsSlice(tail, d, to, cb - to)
  BY <1>1, SuffixIs
<1>4. tail \in Seq(Bytes)
  BY <1>3, IsSliceType
<1> HIDE DEF tail, l, n, m
<1>5. IsWrite(x, d, from, tail) /\ x \in Seq(Bytes)
  BY <1>1, <1>4, WriteIs, WriteType
<1>6. nul \in Seq(Bytes) /\ Len(nul) = 1 /\ nul[1] = Nul
  BY DEF Bytes
<1> HIDE DEF x, nul
<1>7. IsWrite(y, x, n, nul) /\ y \in Seq(Bytes)
  BY <1>1, <1>5, <1>6, WriteIs, WriteType
<1> HIDE DEF y
<1>8. IsResize(z, y, m)
  BY <1>1, <1>7, ResizeIs
<1>9. v \in Seq(Bytes) /\ Len(v) = cb
  BY IsSliceType
<1>10. IsSlice(a, v, 0, from) /\ IsSlice(b, v, to, cb - to)
  <2>1. from <= cb
    OBVIOUS
  <2> QED
    BY <1>9, <2>1, PrefixIs, SuffixIs
<1>11. a \in Seq(Bytes) /\ b \in Seq(Bytes)
  BY <1>10, IsSliceType
<1> HIDE DEF a, b
<1>12. IsConcat(w, a, b)
  BY <1>11, ConcatIs
<1> HIDE DEF w, z
<1>13. /\ z \in Seq(Bytes) /\ Len(z) = l - (to - from) /\ z[cb - (to - from) + 1] = Nul
       /\ IsSlice(w, z, 0, cb - (to - from))
  <2>1. Len(d) = l /\ cb < l /\ n = cb - (to - from) /\ m = l - (to - from)
    BY DEF l, n, m
  <2>2. EraseTrace(d, cb, l, from, to, tail, x, nul, y, z, v, a, b, w)
    BY <1>1, <1>3, <1>5, <1>6, <1>7, <1>8, <1>10, <1>12, <2>1 DEF EraseTrace
  <2> QED
    BY <2>2, EraseSteps
<1>14. w = Cut(v, from, to)
  BY <1>9 DEF Cut, w, a, b
<1> QED
  BY <1>2, <1>13, <1>14 DEF l

-----------------------------------------------------------------------------
(* The invariant of callers that keep to the contract.                     *)

(* s is a string such a caller may have: only a literal is static, a slice *)
(* that ends where its buffer does is followed by a null, and its bytes    *)
(* are text.                                                               *)
GoodIn(m, s) ==
  /\ s.type = Static => s.buf \in Lits
  /\ s.buf \in Blocks /\ s.offset + s.cb = Len(m[s.buf]) - 1
       => m[s.buf][s.offset + s.cb + 1] = Nul
  /\ ValueIn(m, s) \in Seq(Char)

(* The count of every block is exact, that of a block nobody points at     *)
(* included: it is free.                                                   *)
AllCounted == \A b \in Blocks : refs[b] = Cardinality(Owners(b))

CInv ==
  /\ IInv /\ NoFault /\ AllCounted
  /\ \A h \in Strings : GoodIn(mem, str[h])

(* A string points at the heap exactly if it is counted, and then its      *)
(* buffer is there.                                                        *)
LEMMA Readable ==
  ASSUME CInv, NEW h \in Strings
  PROVE  /\ str[h] \in StringRec /\ str[h].cb \in Nat /\ str[h].offset \in Nat
         /\ str[h].buf \in Blocks <=> Counted(str[h])
         /\ ~Dangling(str[h]) /\ ~Unreadable(str[h])
         /\ str[h].buf = Null => str[h].cb = 0 /\ str[h].type = Standard
         /\ str[h].buf # Null => str[h].offset + str[h].cb < Len(BytesAt(mem, str[h].buf))
         /\ BytesAt(mem, str[h].buf) \in Seq(Bytes)
         /\ IsSlice(Value(str[h]), BytesAt(mem, str[h].buf), str[h].offset, str[h].cb)
         /\ Value(str[h]) \in Seq(Char) /\ Len(Value(str[h])) = str[h].cb
<1> DEFINE s == str[h]
           d == BytesAt(mem, s.buf)
<1>1. /\ IInv /\ GoodIn(mem, s) /\ s \in StringRec /\ (Counted(s) => s.buf \in Blocks)
      /\ Fits(s, refs, mem)
  BY StringFacts DEF CInv
<1>2. /\ s.cb \in Nat /\ s.offset \in Nat /\ s.type \in {Standard, Static}
      /\ s.buf \in Blocks \cup Lits \cup {Null}
  BY <1>1 DEF StringRec
<1>3. s.type = Static => s.buf \notin Blocks /\ s.buf # Null
  BY <1>1, ValuesAssumption DEF GoodIn
<1>4. s.buf \in Blocks <=> Counted(s)
  BY <1>1, <1>2, <1>3, ValuesAssumption DEF Counted
<1>5. ~Dangling(s)
  <2>1. ASSUME s.buf \in Blocks PROVE refs[s.buf] # 0
    <3>1. refs[s.buf] \in Nat /\ refs[s.buf] >= 1
      BY <1>1, <1>4, <2>1, OwnedIsLive DEF Own
    <3> QED
      BY <3>1
  <2> QED
    BY <2>1 DEF Dangling
<1>6. ~Unreadable(s)
  BY <1>5 DEF Unreadable
<1>7. Value(s) \in Seq(Bytes) /\ Len(Value(s)) = s.cb
  BY <1>1, <1>6, ValueType
<1>8. d \in Seq(Bytes)
  BY <1>1, BytesAtType
<1>9. /\ s.buf = Null => s.cb = 0
      /\ s.buf # Null => s.offset + s.cb < Len(d)
  BY <1>1, <1>5 DEF Fits, Dangling
<1>10. IsSlice(Value(s), d, s.offset, s.cb)
  <2> HIDE DEF d
  <2>1. CASE s.buf = Null
    <3>1. s.cb = 0
      BY <1>9, <2>1
    <3> QED
      BY <1>7, <3>1 DEF IsSlice
  <2>2. CASE s.buf # Null
    <3>1. s.offset + s.cb <= Len(d)
      BY <1>2, <1>8, <1>9, <2>2
    <3>2. Value(s) = SubSeq(d, s.offset + 1, s.offset + s.cb)
      BY DEF Value, ValueIn, d
    <3> QED
      BY <1>2, <1>8, <3>1, <3>2, SliceIs
  <2> QED
    BY <2>1, <2>2
<1>11. Value(s) \in Seq(Char)
  BY <1>1 DEF GoodIn, Value
<1> QED
  BY <1>1, <1>2, <1>3, <1>4, <1>5, <1>6, <1>7, <1>8, <1>9, <1>10, <1>11

(* A count is at most the number of string objects, and stays there when h *)
(* becomes an owner.                                                       *)
LEMMA RefBound ==
  ASSUME CInv, NEW h \in Strings, NEW b \in Blocks
  PROVE  /\ Cardinality(Strings) \in Nat /\ refs[b] \in Nat
         /\ refs[b] <= Cardinality(Strings)
         /\ refs[b] - Own(str[h], b) + 1 <= Cardinality(Strings)
<1> DEFINE s == [buf |-> b, cb |-> 0, offset |-> 0, type |-> Standard]
           new == [str EXCEPT ![h] = s]
           N == Cardinality(Strings)
<1>1. str \in [Strings -> StringRec] /\ refs[b] \in Nat
  BY DEF CInv, IInv, TypeOK
<1>2. s \in StringRec /\ Own(s, b) = 1
  BY ValuesAssumption DEF StringRec, Own, Counted
<1>3. /\ new \in [Strings -> StringRec] /\ new[h] = s
      /\ \A g \in Strings \ {h} : new[g] = str[g]
  BY <1>1, <1>2
<1> HIDE DEF new, s
<1>4. Cardinality(OwnersIn(new, b))
        = Cardinality(OwnersIn(str, b)) - Own(str[h], b) + Own(new[h], b)
  BY <1>1, <1>3, OwnersChange
<1>5. N \in Nat /\ Cardinality(OwnersIn(new, b)) <= N /\ Cardinality(OwnersIn(str, b)) <= N
  <2>1. OwnersIn(new, b) \subseteq Strings /\ OwnersIn(str, b) \subseteq Strings
    BY DEF OwnersIn
  <2> QED
    BY <2>1, StringsAssumption, FS_Subset, FS_CardinalityType
<1>6. refs[b] = Cardinality(OwnersIn(str, b))
  BY DEF CInv, AllCounted, Owners, OwnersIn
<1> QED
  BY <1>1, <1>2, <1>3, <1>4, <1>5, <1>6

(* buf_release() never finds too many references.                          *)
LEMMA NoAssert ==
  ASSUME CInv, Contract, NEW h \in Strings
  PROVE  ~AssertFails(refs, str[h])
<1> SUFFICES ASSUME Counted(str[h]) PROVE ~(refs[str[h].buf] >= RefLimit)
  BY DEF AssertFails
<1>1. str[h].buf \in Blocks
  BY Readable
<1>2. /\ Cardinality(Strings) \in Nat /\ refs[str[h].buf] \in Nat
      /\ refs[str[h].buf] <= Cardinality(Strings)
  BY <1>1, RefBound
<1> QED
  BY <1>2, RefLimitAssumption DEF Contract

LEMMA NoHazard ==
  ASSUME Contract, NEW kind, NEW p, OnlyIf(kind, p)
  PROVE  ~p
  BY DEF Contract, OnlyIf

(* A counted string is at least one reference after the step as well.      *)
LEMMA LiveNow ==
  ASSUME IInv', NEW h \in Strings, Counted(str'[h])
  PROVE  str'[h].buf \in Blocks /\ refs'[str'[h].buf] # 0
<1> DEFINE b == str'[h].buf
<1>1. str' \in [Strings -> StringRec]
  BY DEF IInv, TypeOK
<1>2. b \in Blocks
  BY DEF IInv, CountedBlocks, Counted
<1>3. h \in OwnersIn(str', b)
  BY DEF OwnersIn
<1>4. refs'[b] = Cardinality(OwnersIn(str', b))
  BY <1>2, <1>3 DEF IInv, RefsExact, Owners, OwnersIn, Counted
<1>5. OwnersIn(str', b) = {} <=> Cardinality(OwnersIn(str', b)) = 0
  BY <1>1, OwnersChange
<1> QED
  BY <1>2, <1>3, <1>4, <1>5

-----------------------------------------------------------------------------
(* Every step keeps it if the strings it changes end up good.              *)

LEMMA Settle ==
  ASSUME CInv, IInv', Frame, fault' = fault,
         \A f \in Strings : str'[f] = str[f] \/ GoodIn(mem', str'[f])
  PROVE  /\ CInv'
         /\ \A f \in Strings : str'[f] = str[f] => ValueIn(mem', str'[f]) = Value(str[f])
<1>1. ASSUME NEW f \in Strings, str'[f] = str[f]
      PROVE  /\ ValueIn(mem', str'[f]) = Value(str[f])
             /\ GoodIn(mem', str'[f])
  <2>1. ASSUME str[f].buf \in Blocks PROVE mem'[str[f].buf] = mem[str[f].buf]
    <3>1. Counted(str'[f])
      BY <1>1, <2>1, Readable
    <3>2. refs'[str[f].buf] # 0
      BY <1>1, <3>1, LiveNow
    <3> QED
      BY <1>1, <2>1, <3>2 DEF Frame
  <2>2. GoodIn(mem, str[f])
    BY DEF CInv
  <2>3. ValueIn(mem', str'[f]) = Value(str[f])
    BY <1>1, <2>1 DEF Value, ValueIn, BytesAt
  <2> QED
    BY <1>1, <2>1, <2>2, <2>3 DEF GoodIn, Value
<1>2. \A f \in Strings : GoodIn(mem', str'[f])
  BY <1>1
<1>3. NoFault'
  BY DEF CInv, NoFault
<1>4. AllCounted'
  <2> SUFFICES ASSUME NEW b \in Blocks PROVE refs'[b] = Cardinality(OwnersIn(str', b))
    BY DEF AllCounted, Owners, OwnersIn, Counted
  <2>1. CASE Owners(b) # {}
    BY <2>1 DEF Frame, Counts
  <2>2. CASE OwnersIn(str', b) # {}
    BY <2>2 DEF IInv, RefsExact, Owners, OwnersIn, Counted
  <2>3. CASE Owners(b) = {} /\ OwnersIn(str', b) = {}
    <3>1. str' \in [Strings -> StringRec] /\ refs'[b] \in Nat
      BY DEF IInv, TypeOK
    <3>2. \A g \in Strings : str'[g].buf # b
      <4> SUFFICES ASSUME NEW g \in Strings, str'[g].buf = b PROVE FALSE
        OBVIOUS
      <4>1. str'[g].type # Static
        BY <1>2, ValuesAssumption DEF GoodIn
      <4>2. str'[g].type = Standard
        BY <3>1, <4>1 DEF StringRec
      <4> QED
        BY <2>3, <4>2, ValuesAssumption DEF OwnersIn, Counted
    <3>3. refs'[b] <= refs[b]
      BY <2>3, <3>2 DEF Frame, Counts
    <3>4. refs[b] = 0 /\ Cardinality(OwnersIn(str', b)) = 0
      BY <2>3, FS_EmptySet DEF CInv, AllCounted
    <3> QED
      BY <3>1, <3>3, <3>4
  <2> QED
    BY <2>1, <2>2, <2>3
<1> QED
  BY <1>1, <1>2, <1>3, <1>4 DEF CInv

(* h alone has changed, and reads as w now.                                *)
Takes(h, w) ==
  /\ fault' = fault
  /\ \A g \in Strings \ {h} : str'[g] = str[g]
  /\ GoodIn(mem', str'[h])
  /\ ValueIn(mem', str'[h]) = w

Changed(h, w) == Takes(h, w) /\ ret' = NoRet

(* What a step stores in h is what it finds there.                         *)
LEMMA Stores ==
  ASSUME CInv, IInv', NEW h \in Strings, NEW s, NEW r, NEW m, GoodIn(m, s),
         str' = [str EXCEPT ![h] = s], refs' = r, mem' = Frees(m, r), fault' = fault
  PROVE  Takes(h, ValueIn(m, s))
<1>1. str \in [Strings -> StringRec] /\ str' \in [Strings -> StringRec]
  BY DEF CInv, IInv, TypeOK
<1>2. str'[h] = s /\ \A g \in Strings \ {h} : str'[g] = str[g]
  BY <1>1
<1>3. s \in StringRec
  BY <1>1, <1>2
<1>4. ASSUME s.buf \in Blocks PROVE mem'[s.buf] = m[s.buf]
  <2>1. Counted(str'[h])
    BY <1>2, <1>3, <1>4, ValuesAssumption DEF GoodIn, StringRec, Counted
  <2>2. r[s.buf] # 0
    BY <1>2, <2>1, LiveNow
  <2> QED
    BY <1>4, <2>2 DEF Frees
<1>5. ValueIn(mem', s) = ValueIn(m, s)
  BY <1>4 DEF ValueIn, BytesAt
<1>6. GoodIn(mem', s)
  BY <1>4, <1>5 DEF GoodIn
<1> QED
  BY <1>2, <1>5, <1>6 DEF Takes

LEMMA DoneStores ==
  ASSUME CInv, IInv', NEW h \in Strings, NEW s, NEW r, NEW m, GoodIn(m, s), Done(h, s, r, m)
  PROVE  Changed(h, ValueIn(m, s))
  BY Stores DEF Done, Changed

LEMMA NothingChanges ==
  ASSUME CInv, NEW h \in Strings, Nothing
  PROVE  Changed(h, Value(str[h]))
<1>1. GoodIn(mem, str[h])
  BY DEF CInv
<1>2. str' = str /\ mem' = mem /\ fault' = fault /\ ret' = NoRet
  BY DEF Nothing
<1> QED
  BY <1>1, <1>2 DEF Changed, Takes, Value

-----------------------------------------------------------------------------
(* What StringValue allows a call to make of h.                            *)

(* The texts that come from outside and those of the strings.              *)
Sources ==
  Texts \cup {LitText[l] : l \in Lits} \cup {Value(str[g]) : g \in Strings}

LEMMA ResultsAre ==
  ASSUME NEW h \in Strings
  PROVE  /\ Texts \cup {LitText[l] : l \in Lits} \subseteq Abs!Results(h)
         /\ \A g \in Strings : Abs!Slices(Value(str[g])) \subseteq Abs!Results(h)
         /\ Abs!Cuts(Value(str[h])) \subseteq Abs!Results(h)
         /\ \A t \in Sources : Abs!Splices(Value(str[h]), t) \subseteq Abs!Results(h)
<1> DEFINE val == [f \in Strings |-> Value(str[f])]
           all == {val[g] : g \in Strings}
           outside == Texts \cup {LitText[l] : l \in Lits}
           A == UNION {Abs!Slices(v) : v \in all}
           B == Abs!Cuts(val[h])
           C == UNION {Abs!Splices(val[h], t) : t \in outside \cup all}
<1>1. val[h] = Value(str[h]) /\ \A g \in Strings : Value(str[g]) \in all
  <2>1. \A g \in Strings : val[g] = Value(str[g])
    OBVIOUS
  <2> QED
    BY <2>1
<1>2. Abs!Results(h) = outside \cup A \cup B \cup C
  BY DEF Abs!Results
<1>3. Sources \subseteq outside \cup all
  BY <1>1 DEF Sources
<1>4. \A g \in Strings : Abs!Slices(Value(str[g])) \subseteq A
  BY <1>1
<1>5. \A t \in Sources : Abs!Splices(val[h], t) \subseteq C
  BY <1>3
<1> HIDE DEF val, A, B, C, outside
<1>6. /\ outside \subseteq Abs!Results(h) /\ A \subseteq Abs!Results(h)
      /\ B \subseteq Abs!Results(h) /\ C \subseteq Abs!Results(h)
  BY <1>2
<1>7. \A t \in Sources : Abs!Splices(val[h], t) \subseteq Abs!Results(h)
  BY <1>5, <1>6
<1>8. \A g \in Strings : Abs!Slices(Value(str[g])) \subseteq Abs!Results(h)
  BY <1>4, <1>6
<1> QED
  BY <1>1, <1>6, <1>7, <1>8 DEF outside, B

LEMMA SourceAllowed ==
  ASSUME CInv, NEW h \in Strings, NEW t \in Sources
  PROVE  t \in Abs!Results(h) /\ t \in Seq(Char)
<1>1. CASE t \in Texts \cup {LitText[l] : l \in Lits}
  BY <1>1, TextsAssumption, ResultsAre
<1>2. ASSUME NEW g \in Strings, t = Value(str[g]) PROVE t \in Abs!Results(h) /\ t \in Seq(Char)
  <2>1. t \in Seq(Char)
    BY <1>2, Readable
  <2>2. t \in Seq(Bytes)
    BY <2>1 DEF Bytes
  <2>3. SubSeq(t, 1, Len(t)) = t /\ 1 \in 1..Len(t) + 1 /\ Len(t) \in 0..Len(t)
    BY <2>2, WholeSlice
  <2>4. t \in Abs!Slices(t)
    BY <2>3 DEF Abs!Slices
  <2> QED
    BY <1>2, <2>1, <2>4, ResultsAre
<1> QED
  BY <1>1, <1>2 DEF Sources

LEMMA SliceAllowed ==
  ASSUME CInv, NEW h \in Strings, NEW g \in Strings, NEW from \in Nat, NEW to \in Nat,
         from <= to, to <= str[g].cb
  PROVE  SubSeq(Value(str[g]), from + 1, to) \in Abs!Results(h)
<1> DEFINE v == Value(str[g])
<1>1. Len(v) = str[g].cb /\ str[g].cb \in Nat
  BY Readable
<1>2. from + 1 \in 1..Len(v) + 1 /\ to \in 0..Len(v)
  BY <1>1
<1> HIDE DEF v
<1>3. SubSeq(v, from + 1, to) \in Abs!Slices(v)
  <2>1. \E i \in 1..Len(v) + 1, j \in 0..Len(v) : SubSeq(v, from + 1, to) = SubSeq(v, i, j)
    BY <1>2, Zenon
  <2> QED
    BY <2>1 DEF Abs!Slices
<1> QED
  BY <1>3, ResultsAre DEF v

LEMMA EmptyAllowed ==
  ASSUME CInv, NEW h \in Strings
  PROVE  <<>> \in Abs!Results(h)
<1>1. Value(str[h]) \in Seq(Char) /\ str[h].cb \in Nat
  BY Readable
<1>2. SubSeq(Value(str[h]), 0 + 1, 0) = <<>>
  BY <1>1
<1>3. SubSeq(Value(str[h]), 0 + 1, 0) \in Abs!Results(h)
  BY <1>1, SliceAllowed
<1> QED
  BY <1>2, <1>3

LEMMA SpliceAllowed ==
  ASSUME CInv, NEW h \in Strings, NEW t \in Sources, NEW o \in 0..str[h].cb
  PROVE  Splice(Value(str[h]), o, t) \in Abs!Results(h) \cap Seq(Char)
<1> DEFINE v == Value(str[h])
           w == SubSeq(v, 1, o) \o t \o SubSeq(v, o + 1, Len(v))
<1>1. v \in Seq(Char) /\ Len(v) = str[h].cb
  BY Readable
<1>2. t \in Seq(Char) /\ o \in Nat /\ o <= Len(v)
  BY <1>1, SourceAllowed
<1> HIDE DEF v
<1>3. SubSeq(v, 1, o) \in Seq(Char) /\ SubSeq(v, o + 1, Len(v)) \in Seq(Char)
  BY <1>1, <1>2
<1>4. w \in Seq(Char)
  BY <1>2, <1>3
<1>5. w \in Abs!Splices(v, t)
  BY <1>1 DEF Abs!Splices
<1> HIDE DEF w
<1>6. w \in Abs!Results(h)
  BY <1>5, ResultsAre DEF v
<1> QED
  BY <1>4, <1>6 DEF v, w, Splice

LEMMA CutAllowed ==
  ASSUME CInv, NEW h \in Strings, NEW from \in Nat, NEW to \in Nat, from < to, to <= str[h].cb
  PROVE  Cut(Value(str[h]), from, to) \in Abs!Results(h) \cap Seq(Char)
<1> DEFINE v == Value(str[h])
           k == to - from
           a == SubSeq(v, 1, from)
           w == a \o SubSeq(v, to + 1, Len(v))
<1>1. v \in Seq(Char) /\ Len(v) = str[h].cb /\ str[h].cb \in Nat
  BY Readable
<1> HIDE DEF v
<1>2. from \in 0..Len(v) /\ k \in 0..Len(v) /\ from + k + 1 = to + 1
  BY <1>1
<1>3. a \in Seq(Char) /\ SubSeq(v, to + 1, Len(v)) \in Seq(Char)
  BY <1>1, <1>2
<1>4. w \in Seq(Char)
  <2> HIDE DEF a
  <2> QED
    BY <1>3
<1>5. w = SubSeq(v, 1, from) \o SubSeq(v, from + k + 1, Len(v))
  BY <1>2
<1> HIDE DEF w, k, a
<1>6. w \in Abs!Cuts(v)
  <2> DEFINE P(i, j) == SubSeq(v, 1, i) \o SubSeq(v, i + j + 1, Len(v))
  <2>1. Abs!Cuts(v) = {P(i, j) : i \in 0..Len(v), j \in 0..Len(v)}
    BY DEF Abs!Cuts
  <2>2. w = P(from, k)
    BY <1>5
  <2> HIDE DEF P
  <2> QED
    BY <1>2, <2>1, <2>2
<1>7. w \in Abs!Results(h)
  BY <1>6, ResultsAre DEF v
<1> QED
  BY <1>4, <1>7 DEF v, w, a, Cut

-----------------------------------------------------------------------------
(* The objects calls leave.                                                *)

Allowed(h) == \E w \in Abs!Results(h) : Changed(h, w)

LEMMA NullGood ==
  ASSUME NEW s \in StringRec, NEW m, s.buf = Null, s.cb = 0, s.type = Standard
  PROVE  GoodIn(m, s) /\ ValueIn(m, s) = <<>>
<1>1. BytesAt(m, s.buf) = <<>>
  BY ValuesAssumption DEF BytesAt
<1>2. s.offset \in Nat
  BY DEF StringRec
<1>3. ValueIn(m, s) = <<>>
  BY <1>1, <1>2 DEF ValueIn
<1> QED
  BY <1>3, ValuesAssumption DEF GoodIn, Standard, Static

LEMMA LiteralGood ==
  ASSUME NEW l \in Lits, NEW m,
         NEW s, s = [buf |-> l, cb |-> Len(LitText[l]), offset |-> 0, type |-> Static]
  PROVE  GoodIn(m, s) /\ ValueIn(m, s) = LitText[l]
<1> DEFINE t == LitText[l]
           d == Append(t, Nul)
<1>1. t \in Seq(Char) /\ l \notin Blocks
  BY TextsAssumption, ValuesAssumption
<1>2. t \in Seq(Bytes) /\ Nul \in Bytes
  BY <1>1 DEF Bytes
<1>3. SubSeq(d, 0 + 1, 0 + Len(t)) = t
  <2> HIDE DEF t
  <2> QED
    BY <1>2
<1>4. ValueIn(m, s) = t
  BY <1>1, <1>3 DEF ValueIn, BytesAt
<1> QED
  BY <1>1, <1>4 DEF GoodIn

(* A standard string that owns bytes d from p on.                          *)
LEMMA OwnedGood ==
  ASSUME CInv, NEW b \in Blocks, NEW d \in Seq(Bytes), NEW p \in Nat, NEW n \in Nat,
         p + n < Len(d), NEW w \in Seq(Char), IsSlice(w, d, p, n), d[p + n + 1] = Nul
  PROVE  /\ GoodIn([mem EXCEPT ![b] = d],
                   [buf |-> b, cb |-> n, offset |-> p, type |-> Standard])
         /\ ValueIn([mem EXCEPT ![b] = d],
                    [buf |-> b, cb |-> n, offset |-> p, type |-> Standard]) = w
<1> DEFINE s == [buf |-> b, cb |-> n, offset |-> p, type |-> Standard]
           m == [mem EXCEPT ![b] = d]
<1>1. mem \in [Blocks -> Seq(Bytes)]
  BY DEF CInv, IInv, TypeOK
<1>2. m[b] = d /\ BytesAt(m, b) = d
  BY <1>1 DEF BytesAt
<1>3. s.buf = b /\ s.cb = n /\ s.offset = p /\ s.type # Static
  BY DEF Standard, Static
<1>4. p + n <= Len(d)
  OBVIOUS
<1>5. IsSlice(SubSeq(d, p + 1, p + n), d, p, n)
  BY <1>4, SliceIs
<1>6. SubSeq(d, p + 1, p + n) = w
  BY <1>5, SliceIsUnique
<1> HIDE DEF m, s
<1>7. ValueIn(m, s) = w
  BY <1>2, <1>3, <1>6 DEF ValueIn
<1>8. GoodIn(m, s)
  BY <1>2, <1>3, <1>7 DEF GoodIn
<1> QED
  BY <1>7, <1>8 DEF m, s

(* What assign() and alloc() leave in a fresh block.                       *)
LEMMA OwningGood ==
  ASSUME CInv, NEW h \in Strings, str[h].type = Standard, NEW b \in Fresh, NEW t \in Seq(Char)
  PROVE  /\ GoodIn([mem EXCEPT ![b] = Append(t, Nul)], Owning(h, b, Len(t)))
         /\ ValueIn([mem EXCEPT ![b] = Append(t, Nul)], Owning(h, b, Len(t))) = t
<1> DEFINE d == Append(t, Nul)
           n == Len(t)
<1>1. t \in Seq(Bytes) /\ Nul \in Bytes /\ n \in Nat
  BY DEF Bytes
<1>2. d \in Seq(Bytes) /\ 0 + n < Len(d) /\ d[0 + n + 1] = Nul
  BY <1>1
<1>3. IsSlice(t, d, 0, n)
  BY <1>1 DEF IsSlice
<1>4. Owning(h, b, n) = [buf |-> b, cb |-> n, offset |-> 0, type |-> Standard]
  BY DEF Owning
<1>5. b \in Blocks
  BY FreshFacts
<1> HIDE DEF d, n
<1>6. /\ GoodIn([mem EXCEPT ![b] = d], [buf |-> b, cb |-> n, offset |-> 0, type |-> Standard])
      /\ ValueIn([mem EXCEPT ![b] = d],
                 [buf |-> b, cb |-> n, offset |-> 0, type |-> Standard]) = t
  BY <1>1, <1>2, <1>3, <1>5, OwnedGood
<1> QED
  BY <1>4, <1>6 DEF d, n

LEMMA OwningNullGood ==
  ASSUME CInv, NEW h \in Strings, str[h].type = Standard, NEW m
  PROVE  GoodIn(m, Owning(h, Null, 0)) /\ ValueIn(m, Owning(h, Null, 0)) = <<>>
<1> DEFINE s == Owning(h, Null, 0)
<1>1. s \in StringRec /\ s.buf = Null /\ s.cb = 0 /\ s.type = Standard
  BY DEF Owning, StringRec
<1> HIDE DEF s
<1>2. GoodIn(m, s) /\ ValueIn(m, s) = <<>>
  BY <1>1, NullGood
<1> QED
  BY <1>2 DEF s

-----------------------------------------------------------------------------
(* One lemma per action: no fault, and a result StringValue allows.        *)

LEMMA DestroyAllowed ==
  ASSUME CInv, Contract, IInv', NEW h \in Strings, Destroy(h)
  PROVE  Allowed(h)
<1>1. Done(h, Default, Drop(refs, str[h]), mem)
  BY NoAssert DEF Destroy
<1>2. Default \in StringRec /\ Default.buf = Null /\ Default.cb = 0 /\ Default.type = Standard
  BY DEF Default, StringRec
<1>3. GoodIn(mem, Default) /\ ValueIn(mem, Default) = <<>>
  BY <1>2, NullGood
<1>4. Changed(h, <<>>)
  BY <1>1, <1>3, DoneStores
<1> QED
  BY <1>4, EmptyAllowed DEF Allowed

LEMMA AssignLiteralAllowed ==
  ASSUME CInv, Contract, IInv', NEW h \in Strings, NEW l \in Lits, AssignLiteral(h, l)
  PROVE  Allowed(h)
<1> DEFINE s == [buf |-> l, cb |-> Len(LitText[l]), offset |-> 0, type |-> Static]
<1>1. Done(h, s, Drop(refs, str[h]), mem)
  BY NoAssert DEF AssignLiteral
<1>2. GoodIn(mem, s) /\ ValueIn(mem, s) = LitText[l]
  BY LiteralGood
<1>3. Changed(h, LitText[l])
  BY <1>1, <1>2, DoneStores
<1>4. LitText[l] \in Sources
  BY DEF Sources
<1> QED
  BY <1>3, <1>4, SourceAllowed DEF Allowed

LEMMA CopyAssignAllowed ==
  ASSUME CInv, Contract, IInv', NEW h \in Strings, NEW g \in Strings, CopyAssign(h, g)
  PROVE  Allowed(h)
<1>1. ~(h = g /\ Sole(str[h]))
  BY NoHazard DEF CopyAssign
<1>2. Done(h, str[g], Keep(Drop(refs, str[h]), str[g]), mem)
  BY <1>1, NoAssert DEF CopyAssign
<1>3. GoodIn(mem, str[g]) /\ ValueIn(mem, str[g]) = Value(str[g])
  BY DEF CInv, Value
<1>4. Changed(h, Value(str[g]))
  BY <1>2, <1>3, DoneStores
<1>5. Value(str[g]) \in Sources
  BY DEF Sources
<1> QED
  BY <1>4, <1>5, SourceAllowed DEF Allowed

(* The temporary of substr() and trim() holds the buffer once more.        *)
LEMMA SliceNoAssert ==
  ASSUME CInv, Contract, NEW h \in Strings, NEW g \in Strings,
         NEW tmp \in StringRec, tmp.buf = str[g].buf, tmp.type = str[g].type
  PROVE  /\ ~AssertFails(Keep(refs, tmp), str[h])
         /\ ~AssertFails(Keep(Drop(Keep(refs, tmp), str[h]), tmp), tmp)
<1> DEFINE held  == Keep(refs, tmp)
           let   == Drop(held, str[h])
           moved == Keep(let, tmp)
<1>1. /\ refs \in [Blocks -> Int] /\ str[h] \in StringRec
      /\ (Counted(str[h]) => str[h].buf \in Blocks) /\ (Counted(tmp) => tmp.buf \in Blocks)
  BY StringFacts DEF CInv, Counted
<1>2. held \in [Blocks -> Int] /\ \A b \in Blocks : held[b] = refs[b] + Own(tmp, b)
  BY <1>1, KeepIs
<1> HIDE DEF held
<1>3. let \in [Blocks -> Int] /\ \A b \in Blocks : let[b] = held[b] - Own(str[h], b)
  BY <1>1, <1>2, DropIs
<1> HIDE DEF let
<1>4. moved \in [Blocks -> Int] /\ \A b \in Blocks : moved[b] = let[b] + Own(tmp, b)
  BY <1>1, <1>3, KeepIs
<1> HIDE DEF moved
<1>5. \A b \in Blocks : held[b] < RefLimit /\ moved[b] < RefLimit
  <2> TAKE b \in Blocks
  <2>1. /\ Cardinality(Strings) \in Nat /\ refs[b] \in Nat /\ refs[b] <= Cardinality(Strings)
        /\ refs[b] - Own(str[h], b) + 1 <= Cardinality(Strings)
    BY RefBound
  <2>2. Own(tmp, b) \in {0, 1} /\ Own(str[h], b) \in {0, 1}
    BY DEF Own
  <2>3. Cardinality(Strings) + 1 < RefLimit /\ RefLimit \in Nat
    BY RefLimitAssumption DEF Contract
  <2>4. held[b] = refs[b] + Own(tmp, b)
        /\ moved[b] = refs[b] + Own(tmp, b) - Own(str[h], b) + Own(tmp, b)
    BY <1>2, <1>3, <1>4, <2>1, <2>2
  <2> QED
    BY <2>1, <2>2, <2>3, <2>4
<1>6. \A b \in Blocks : ~(held[b] >= RefLimit) /\ ~(moved[b] >= RefLimit)
  BY <1>2, <1>4, <1>5, RefLimitAssumption
<1> QED
  BY <1>1, <1>6 DEF AssertFails, held, moved, let

LEMMA AssignSliceAllowed ==
  ASSUME CInv, Contract, IInv', NEW h \in Strings, NEW g \in Strings,
         NEW from \in Nat, NEW to \in Nat, from <= to, to <= str[g].cb,
         AssignSlice(h, g, from, to)
  PROVE  Allowed(h)
<1> DEFINE s     == str[g]
           tmp   == [buf |-> s.buf, cb |-> to - from, offset |-> s.offset + from, type |-> s.type]
           r     == Drop(Keep(Drop(Keep(refs, tmp), str[h]), tmp), tmp)
           d     == BytesAt(mem, s.buf)
           v     == Value(s)
           k     == to - from
<1>1. /\ s \in StringRec /\ s.cb \in Nat /\ s.offset \in Nat
      /\ d \in Seq(Bytes) /\ IsSlice(v, d, s.offset, s.cb)
      /\ (s.buf # Null => s.offset + s.cb < Len(d))
      /\ v \in Seq(Char) /\ Len(v) = s.cb /\ (s.buf = Null => s.type = Standard)
  BY Readable
<1>2. ~(s.type = Standard /\ s.buf = Null)
  BY NoHazard DEF AssignSlice
<1>3. s.buf # Null /\ s.offset + s.cb < Len(d)
  BY <1>1, <1>2
<1>4. k \in Nat /\ s.offset + from \in Nat /\ from + k = to /\ from + k <= s.cb
  BY <1>1
<1>5. /\ tmp \in StringRec /\ tmp.buf = s.buf /\ tmp.type = s.type
      /\ tmp.cb = k /\ tmp.offset = s.offset + from
  BY <1>1, <1>4 DEF StringRec
<1>6. Done(h, tmp, r, mem)
  <2>1. ~AssertFails(Keep(refs, tmp), str[h])
        /\ ~AssertFails(Keep(Drop(Keep(refs, tmp), str[h]), tmp), tmp)
    <3> HIDE DEF tmp
    <3> QED
      BY <1>5, SliceNoAssert
  <2> QED
    BY <1>2, <2>1 DEF AssignSlice
<1> HIDE DEF tmp, r, d, v, k
<1>7. ValueIn(mem, tmp) = SubSeq(d, (s.offset + from) + 1, (s.offset + from) + k)
  BY <1>5 DEF ValueIn, d
<1>8. ValueIn(mem, tmp) = SubSeq(v, from + 1, to)
  <2>1. (s.offset + from) + k <= Len(d) /\ Len(d) \in Nat
    <3>1. Len(d) \in Nat
      BY <1>1
    <3>2. s.offset \in Nat /\ s.cb \in Nat /\ s.offset + s.cb < Len(d) /\ from + k <= s.cb
      BY <1>1, <1>3, <1>4
    <3> HIDE DEF s
    <3> QED
      BY <1>4, <3>1, <3>2
  <2>2. IsSlice(ValueIn(mem, tmp), d, s.offset + from, k)
    BY <1>1, <1>4, <1>7, <2>1, SliceIs
  <2>3. IsSlice(ValueIn(mem, tmp), v, from, k)
    BY <1>1, <1>4, <2>2, SliceOfSlice
  <2>4. v \in Seq(Bytes)
    BY <1>1, IsSliceType
  <2>5. IsSlice(SubSeq(v, from + 1, to), v, from, to - from)
    BY <1>1, <2>4, SuffixIs
  <2> QED
    BY <2>3, <2>5, SliceIsUnique DEF k
<1>9. GoodIn(mem, tmp)
  <2>1. GoodIn(mem, s)
    BY DEF CInv
  <2>2. ValueIn(mem, tmp) \in Seq(Char)
    BY <1>1, <1>8
  <2>3. ASSUME s.buf \in Blocks, tmp.offset + tmp.cb = Len(mem[s.buf]) - 1
        PROVE  mem[s.buf][tmp.offset + tmp.cb + 1] = Nul
    <3>1. d = mem[s.buf]
      BY <2>3 DEF d, BytesAt
    <3>2. Len(d) \in Nat
      BY <1>1
    <3>3. tmp.offset + tmp.cb = s.offset + (from + k) /\ tmp.offset + tmp.cb = Len(d) - 1
      BY <1>1, <1>4, <1>5, <2>3, <3>1
    <3>4. s.offset + s.cb <= Len(d) - 1
      BY <1>1, <1>3, <3>2
    <3>5. tmp.offset + tmp.cb = s.offset + s.cb
      BY <1>1, <1>4, <3>2, <3>3, <3>4
    <3> QED
      BY <2>1, <2>3, <3>5 DEF GoodIn
  <2> QED
    BY <1>5, <2>1, <2>2, <2>3 DEF GoodIn
<1>10. Changed(h, SubSeq(v, from + 1, to))
  BY <1>6, <1>8, <1>9, DoneStores
<1> QED
  BY <1>10, SliceAllowed DEF Allowed, v

LEMMA SubstrAllowed ==
  ASSUME CInv, Contract, IInv', NEW h \in Strings, NEW g \in Strings,
         NEW from \in Nat, NEW to \in Nat, Substr(h, g, from, to)
  PROVE  Allowed(h)
<1>1. str[g].cb \in Nat
  BY Readable
<1>2. /\ Clamp(str[g], from) \in Nat /\ Clamp(str[g], from) <= str[g].cb
      /\ Clamp(str[g], to) \in Nat /\ Clamp(str[g], to) <= str[g].cb
      /\ from <= to => Clamp(str[g], from) <= Clamp(str[g], to)
      /\ ~(from <= to) => Clamp(str[g], to) <= Clamp(str[g], from)
  BY <1>1 DEF Clamp
<1> QED
  BY <1>2, AssignSliceAllowed DEF Substr

LEMMA TrimAllowed ==
  ASSUME CInv, Contract, IInv', NEW h \in Strings, Trim(h)
  PROVE  Allowed(h)
<1> DEFINE v == Value(str[h])
<1>1. ~Unreadable(str[h]) /\ v \in Seq(Char) /\ Len(v) = str[h].cb /\ str[h].cb \in Nat
  BY Readable
<1>2. CASE Nothing
  <2>1. Changed(h, v) /\ v \in Sources
    BY <1>2, NothingChanges DEF Sources
  <2> QED
    BY <2>1, SourceAllowed DEF Allowed
<1>3. CASE AssignSlice(h, h, Lead(v), str[h].cb - Trail(v))
  <2>1. v \in Seq(Bytes)
    BY <1>1 DEF Bytes
  <2> HIDE DEF v
  <2>2. Lead(v) \in Nat /\ Trail(v) \in Nat /\ Lead(v) + Trail(v) <= str[h].cb
    BY <1>1, <2>1, TrimBounds
  <2>3. /\ str[h].cb - Trail(v) \in Nat /\ Lead(v) <= str[h].cb - Trail(v)
        /\ str[h].cb - Trail(v) <= str[h].cb
    BY <1>1, <2>2
  <2> QED
    BY <1>3, <2>2, <2>3, AssignSliceAllowed
<1> QED
  BY <1>1, <1>2, <1>3 DEF Trim

LEMMA AssignAllowed ==
  ASSUME CInv, Contract, IInv', NEW h \in Strings, NEW t \in Sources, Assign(h, t)
  PROVE  Allowed(h)
<1>1. str[h].type = Standard
  <2>1. str[h].type # Static /\ str[h] \in StringRec
    BY NoHazard, Readable DEF Assign
  <2> QED
    BY <2>1 DEF StringRec
<1>2. t \in Seq(Char) /\ t \in Abs!Results(h)
  BY SourceAllowed
<1>3. PICK b \in Fresh : Done(h, Owning(h, b, Len(t)), New(Drop(refs, str[h]), b),
                              [mem EXCEPT ![b] = Append(t, Nul)])
  BY NoAssert DEF Assign
<1>4. Changed(h, t)
  BY <1>1, <1>2, <1>3, OwningGood, DoneStores
<1> QED
  BY <1>2, <1>4 DEF Allowed

LEMMA AssignNullAllowed ==
  ASSUME CInv, Contract, IInv', NEW h \in Strings, AssignNull(h)
  PROVE  Allowed(h)
<1>1. str[h].type = Standard
  <2>1. str[h].type # Static /\ str[h] \in StringRec
    BY NoHazard, Readable DEF AssignNull
  <2> QED
    BY <2>1 DEF StringRec
<1>2. Done(h, Owning(h, Null, 0), Drop(refs, str[h]), mem)
  BY NoAssert DEF AssignNull
<1>3. Changed(h, <<>>)
  BY <1>1, <1>2, OwningNullGood, DoneStores
<1> QED
  BY <1>3, EmptyAllowed DEF Allowed

(* clear() and its callers meet neither a literal nor a freed buffer.      *)
LEMMA ClearIsFine ==
  ASSUME CInv, Contract, NEW h \in Strings, ClearHazard(str[h])
  PROVE  str[h].type = Standard /\ ClearFault(str[h]) = "none"
<1> DEFINE s == str[h]
<1>1. /\ s \in StringRec /\ (s.buf \in Blocks <=> Counted(s)) /\ ~Dangling(s)
      /\ (s.buf = Null => s.type = Standard) /\ ~AssertFails(refs, s)
  BY Readable, NoAssert
<1>2. ~(s.buf # Null /\ s.type = Static)
  BY NoHazard DEF ClearHazard
<1>3. s.type = Standard /\ s.buf \in Blocks \cup Lits \cup {Null}
  BY <1>1, <1>2 DEF StringRec
<1>4. s.buf \notin Lits
  BY <1>1, <1>3, ValuesAssumption DEF Counted
<1>5. ~(s.buf \in Blocks /\ refs[s.buf] = 0) /\ ~(s.buf \in Blocks /\ refs[s.buf] >= RefLimit)
  BY <1>1 DEF Dangling, AssertFails
<1> QED
  BY <1>3, <1>4, <1>5 DEF ClearFault

LEMMA ClearAllowed ==
  ASSUME CInv, Contract, IInv', NEW h \in Strings, Clear(h)
  PROVE  Allowed(h)
<1>1. str[h].type = Standard /\ Done(h, Owning(h, Null, 0), ClearRefs(str[h]), mem)
  BY ClearIsFine DEF Clear
<1>2. Changed(h, <<>>)
  BY <1>1, OwningNullGood, DoneStores
<1> QED
  BY <1>2, EmptyAllowed DEF Allowed

LEMMA MutateToStaticAllowed ==
  ASSUME CInv, Contract, IInv', NEW h \in Strings, NEW l \in Lits, MutateToStatic(h, l)
  PROVE  Allowed(h)
<1> DEFINE s == [buf |-> l, cb |-> Len(LitText[l]), offset |-> 0, type |-> Static]
<1>1. Done(h, s, ClearRefs(str[h]), mem)
  BY ClearIsFine DEF MutateToStatic
<1>2. GoodIn(mem, s) /\ ValueIn(mem, s) = LitText[l]
  BY LiteralGood
<1>3. Changed(h, LitText[l])
  BY <1>1, <1>2, DoneStores
<1>4. LitText[l] \in Sources
  BY DEF Sources
<1> QED
  BY <1>3, <1>4, SourceAllowed DEF Allowed

LEMMA ReadStringAllowed ==
  ASSUME CInv, Contract, IInv', NEW h \in Strings, NEW t \in Texts, NEW k \in 0..Len(t),
         ReadString(h, t, k)
  PROVE  Allowed(h)
<1>1. str[h].type = Standard /\ ClearFault(str[h]) = "none"
  BY ClearIsFine DEF ReadString
<1>2. t \in Sources
  BY DEF Sources
<1>3. t \in Seq(Char) /\ t \in Abs!Results(h)
  BY <1>2, SourceAllowed
<1>6. k = 0
  <2>1. ~(k > 0)
    BY DEF ReadString, OnlyIf, Contract
  <2>2. k \in Nat
    BY <1>3
  <2> QED
    BY <2>1, <2>2
<1>7. t \in Seq(Bytes)
  BY TextsAssumption DEF Bytes
<1>8. Received(t, k) = t
  BY <1>6, <1>7, ReceivedType
<1>4. PICK b \in Fresh : Done(h, Owning(h, b, Len(t)), New(ClearRefs(str[h]), b),
                              [mem EXCEPT ![b] = Append(t, Nul)])
  BY <1>1, <1>8 DEF ReadString
<1>5. Changed(h, t)
  BY <1>1, <1>3, <1>4, OwningGood, DoneStores
<1> QED
  BY <1>3, <1>5 DEF Allowed

LEMMA ReadStringEofAllowed ==
  ASSUME CInv, Contract, IInv', NEW h \in Strings, ReadStringEof(h)
  PROVE  Allowed(h)
<1> DEFINE s == [str[h] EXCEPT !.cb = 0]
           d == BytesAt(mem, str[h].buf)
<1>1. /\ str[h] \in StringRec /\ str[h].cb \in Nat /\ str[h].offset \in Nat /\ d \in Seq(Bytes)
      /\ (str[h].buf # Null => str[h].offset + str[h].cb < Len(d))
  BY Readable
<1>2. s.buf = str[h].buf /\ s.offset = str[h].offset /\ s.cb = 0 /\ s.type = str[h].type
  BY <1>1 DEF StringRec
<1> HIDE DEF s
<1>3. ValueIn(mem, s) = <<>>
  BY <1>1, <1>2 DEF ValueIn
<1>4. GoodIn(mem, s)
  <2>1. GoodIn(mem, str[h])
    BY DEF CInv
  <2>2. ASSUME s.buf \in Blocks, s.offset + s.cb = Len(mem[s.buf]) - 1
        PROVE  mem[s.buf][s.offset + s.cb + 1] = Nul
    <3>1. d = mem[str[h].buf] /\ str[h].buf # Null
      BY <1>2, <2>2, ValuesAssumption DEF BytesAt
    <3>2. Len(d) \in Nat
      BY <1>1
    <3>3. str[h].offset = Len(d) - 1 /\ str[h].offset + str[h].cb < Len(d)
      BY <1>1, <1>2, <2>2, <3>1
    <3>4. str[h].offset + str[h].cb = Len(d) - 1 /\ s.offset + s.cb = str[h].offset + str[h].cb
      BY <1>1, <1>2, <3>2, <3>3
    <3> QED
      BY <1>2, <2>1, <2>2, <3>1, <3>4 DEF GoodIn
  <2> QED
    BY <1>2, <1>3, <2>1, <2>2 DEF GoodIn
<1>5. Changed(h, <<>>)
  BY <1>3, <1>4, DoneStores DEF ReadStringEof, s
<1> QED
  BY <1>5, EmptyAllowed DEF Allowed

(* prepareToModify() keeps the text, wherever it puts the bytes.           *)
LEMMA PreparedIs ==
  ASSUME CInv, NEW h \in Strings, str[h].buf # Null
  PROVE  /\ Prepared(str[h]) \in Seq(Bytes) /\ PreparedOffset(str[h]) \in Nat
         /\ PreparedOffset(str[h]) + str[h].cb < Len(Prepared(str[h]))
         /\ IsSlice(Value(str[h]), Prepared(str[h]), PreparedOffset(str[h]), str[h].cb)
<1> DEFINE s == str[h]
           v == Value(s)
<1>1. /\ s \in StringRec /\ s.cb \in Nat /\ ~Unreadable(s) /\ v \in Seq(Char) /\ Len(v) = s.cb
      /\ (s.buf \in Blocks <=> Counted(s))
      /\ IsSlice(v, BytesAt(mem, s.buf), s.offset, s.cb)
  BY Readable
<1>2. /\ Prepared(s) \in Seq(Bytes) /\ PreparedOffset(s) \in Nat
      /\ PreparedOffset(s) + s.cb < Len(Prepared(s))
  BY <1>1, PreparedType DEF CInv
<1>3. CASE InPlace(s)
  <2>1. s.buf \in Blocks
    BY <1>1, <1>3 DEF InPlace, Counted
  <2> QED
    BY <1>1, <1>2, <1>3, <2>1 DEF Prepared, PreparedOffset, BytesAt
<1>4. CASE ~InPlace(s)
  <2>1. v \in Seq(Bytes) /\ Uninit \in Bytes
    BY <1>1 DEF Bytes
  <2> HIDE DEF v
  <2>2. IsSlice(v, Append(v, Uninit), 0, Len(v))
    BY <2>1 DEF IsSlice
  <2>3. Prepared(s) = Append(v, Uninit) /\ PreparedOffset(s) = 0
    BY <1>4 DEF Prepared, PreparedOffset, v
  <2> QED
    BY <1>1, <1>2, <2>2, <2>3 DEF v
<1> QED
  BY <1>3, <1>4

LEMMA ModifiedTakes ==
  ASSUME CInv, IInv', NEW h \in Strings, str[h].buf # Null, NEW b \in Targets(str[h]),
         NEW n \in Nat, NEW d \in Seq(Bytes), NEW w \in Seq(Char),
         PreparedOffset(str[h]) + n < Len(d), d[PreparedOffset(str[h]) + n + 1] = Nul,
         IsSlice(w, d, PreparedOffset(str[h]), n), Modified(h, b, n, d)
  PROVE  Changed(h, w)
<1> DEFINE p == PreparedOffset(str[h])
           s == [buf |-> b, cb |-> n, offset |-> p, type |-> Standard]
           m == [mem EXCEPT ![b] = d]
<1>1. Done(h, s, PreparedRefs(str[h], b), m)
  BY DEF Modified
<1>2. b \in Blocks /\ p \in Nat
  <2>1. InPlace(str[h]) => str[h].buf \in Blocks
    BY Readable DEF InPlace, Counted
  <2> QED
    BY <2>1, FreshFacts, PreparedIs DEF Targets
<1> HIDE DEF p
<1>3. p + n < Len(d) /\ d[p + n + 1] = Nul /\ IsSlice(w, d, p, n)
  BY DEF p
<1>4. GoodIn(m, s) /\ ValueIn(m, s) = w
  BY <1>2, <1>3, OwnedGood
<1> HIDE DEF m, s
<1> QED
  BY <1>1, <1>4, DoneStores

LEMMA InsertTextAllowed ==
  ASSUME CInv, Contract, IInv', NEW h \in Strings, NEW o \in 0..str[h].cb, NEW t \in Sources,
         InsertText(h, o, t)
  PROVE  Allowed(h)
<1> DEFINE s == str[h]
           v == Value(s)
           d == Prepared(s)
           p == PreparedOffset(s)
           z == Inserted(s, o, t)
           w == Splice(v, o, t)
<1>1. t \in Seq(Char) /\ t \in Seq(Bytes) /\ t \in Abs!Results(h) /\ Len(t) \in Nat
  <2>1. t \in Seq(Char) /\ t \in Abs!Results(h)
    BY SourceAllowed
  <2>2. t \in Seq(Bytes)
    BY <2>1 DEF Bytes
  <2> QED
    BY <2>1, <2>2
<1>2. ~Unreadable(s) /\ ~AssertFails(refs, s) /\ s.cb \in Nat /\ o \in Nat /\ o <= s.cb
  BY Readable, NoAssert
<1>3. CASE Nothing
  <2>1. Changed(h, v) /\ v \in Sources
    BY <1>3, NothingChanges DEF Sources
  <2> QED
    BY <2>1, SourceAllowed DEF Allowed
<1>4. CASE Assign(h, t)
  BY <1>4, AssignAllowed
<1>5. ASSUME s.buf # Null, NEW b \in Targets(s), Modified(h, b, s.cb + Len(t), z)
      PROVE  Allowed(h)
  <2>1. d \in Seq(Bytes) /\ p \in Nat /\ p + s.cb < Len(d) /\ IsSlice(v, d, p, s.cb)
    BY <1>5, PreparedIs
  <2>2. z = InsertBytes(d, p, s.cb, o, t)
    BY DEF Inserted, Opened, InsertBytes
  <2>3. w \in Abs!Results(h) /\ w \in Seq(Char)
    BY SpliceAllowed
  <2> HIDE DEF d, p, z, v
  <2>4. /\ z \in Seq(Bytes) /\ Len(z) = Len(d) + Len(t)
        /\ IsSlice(w, z, p, s.cb + Len(t)) /\ z[p + s.cb + Len(t) + 1] = Nul
    <3> DEFINE k == s.cb
               y == InsertBytes(d, p, k, o, t)
    <3>1. /\ d \in Seq(Bytes) /\ p \in Nat /\ k \in Nat /\ p + k < Len(d)
          /\ o \in Nat /\ o <= k /\ t \in Seq(Bytes) /\ IsSlice(v, d, p, k)
      BY <1>1, <1>2, <2>1
    <3> HIDE DEF k
    <3>2. /\ y \in Seq(Bytes) /\ Len(y) = Len(d) + Len(t)
          /\ IsSlice(w, y, p, k + Len(t)) /\ y[p + k + Len(t) + 1] = Nul
      BY <3>1, InsertBytesAre
    <3>3. z = y
      BY <2>2 DEF k
    <3> HIDE DEF y, w
    <3> QED
      BY <3>2, <3>3 DEF k
  <2> HIDE DEF w
  <2>5. /\ s.cb + Len(t) \in Nat /\ p + (s.cb + Len(t)) < Len(z)
        /\ p + (s.cb + Len(t)) + 1 = p + s.cb + Len(t) + 1
    <3>1. Len(d) \in Nat
      BY <2>1
    <3> QED
      BY <1>1, <1>2, <2>1, <2>4, <3>1
  <2>6. z[p + (s.cb + Len(t)) + 1] = Nul
    BY <2>4, <2>5
  <2>7. Changed(h, w)
    BY <1>5, <2>3, <2>4, <2>5, <2>6, ModifiedTakes DEF p
  <2> QED
    BY <2>3, <2>7 DEF Allowed
<1> QED
  BY <1>2, <1>3, <1>4, <1>5 DEF InsertText

LEMMA InsertStringAllowed ==
  ASSUME CInv, Contract, IInv', NEW h \in Strings, NEW g \in Strings, NEW o \in 0..str[h].cb,
         InsertString(h, o, g)
  PROVE  Allowed(h)
<1>1. ~(g = h /\ Sole(str[h]) /\ str[h].cb > 0)
  BY NoHazard DEF InsertString
<1>2. ~Unreadable(str[g]) /\ Value(str[g]) \in Sources
  BY Readable DEF Sources
<1>3. InsertText(h, o, Value(str[g]))
  BY <1>1, <1>2 DEF InsertString
<1> QED
  BY <1>2, <1>3, InsertTextAllowed

LEMMA EraseRangeAllowed ==
  ASSUME CInv, Contract, IInv', NEW h \in Strings, NEW from \in Nat, NEW to \in Nat,
         from <= to, to <= str[h].cb, EraseRange(h, from, to)
  PROVE  Allowed(h)
<1> DEFINE s == str[h]
           v == Value(s)
           d == Prepared(s)
           n == s.cb - (to - from)
           z == Erased(s, from, to)
           w == Cut(v, from, to)
<1>1. /\ ~Dangling(s) /\ ~AssertFails(refs, s) /\ s.cb \in Nat /\ s.offset \in Nat
      /\ (s.buf = Null => s.cb = 0)
  BY Readable, NoAssert
<1>2. ~(from < to /\ InPlace(s) /\ s.offset > 0)
  BY NoHazard DEF EraseRange
<1>3. CASE Nothing
  <2>1. Changed(h, v) /\ v \in Sources
    BY <1>3, NothingChanges DEF Sources
  <2> QED
    BY <2>1, SourceAllowed DEF Allowed
<1>4. ASSUME from < to, NEW b \in Targets(s), Modified(h, b, n, z)
      PROVE  Allowed(h)
  <2>1. s.buf # Null
    BY <1>1, <1>4
  <2>2. PreparedOffset(s) = 0
    BY <1>1, <1>2, <1>4 DEF PreparedOffset
  <2>3. d \in Seq(Bytes) /\ s.cb < Len(d) /\ IsSlice(v, d, 0, s.cb)
    BY <1>1, <2>1, <2>2, PreparedIs
  <2>4. z = EraseBytes(d, s.cb, from, to)
    <3>1. /\ z = Resize(Write(Write(d, 0 + from, SubSeq(d, 0 + to + 1, 0 + s.cb)),
                              s.cb - (to - from), <<Nul>>), Len(d) - (to - from))
          /\ 0 + from = from /\ 0 + to + 1 = to + 1 /\ 0 + s.cb = s.cb
      BY <1>1, <2>2 DEF Erased
    <3> QED
      BY <3>1 DEF EraseBytes
  <2>5. w \in Abs!Results(h) /\ w \in Seq(Char)
    BY <1>4, CutAllowed
  <2> HIDE DEF d, z, v
  <2>6. /\ z \in Seq(Bytes) /\ Len(z) = Len(d) - (to - from)
        /\ z[n + 1] = Nul /\ IsSlice(w, z, 0, n)
    <3> DEFINE k == s.cb
               y == EraseBytes(d, k, from, to)
    <3>1. /\ d \in Seq(Bytes) /\ k \in Nat /\ k < Len(d) /\ from < to /\ to <= k
          /\ IsSlice(v, d, 0, k)
      BY <1>1, <1>4, <2>3
    <3> HIDE DEF k
    <3>2. /\ y \in Seq(Bytes) /\ Len(y) = Len(d) - (to - from)
          /\ y[k - (to - from) + 1] = Nul /\ IsSlice(w, y, 0, k - (to - from))
      BY <3>1, EraseBytesAre
    <3>3. z = y
      BY <2>4 DEF k
    <3> HIDE DEF y, w
    <3> QED
      BY <3>2, <3>3 DEF k
  <2> HIDE DEF w
  <2>7. n \in Nat /\ 0 + n < Len(z) /\ 0 + n + 1 = n + 1
    <3>1. Len(d) \in Nat
      BY <2>3
    <3> QED
      BY <1>1, <1>4, <2>3, <2>6, <3>1
  <2>8. z[0 + n + 1] = Nul
    BY <2>6, <2>7
  <2> HIDE DEF n
  <2>9. Changed(h, w)
    BY <1>4, <2>1, <2>2, <2>5, <2>6, <2>7, <2>8, ModifiedTakes
  <2> QED
    BY <2>5, <2>9 DEF Allowed
<1> QED
  BY <1>1, <1>3, <1>4 DEF EraseRange

LEMMA EraseAllowed ==
  ASSUME CInv, Contract, IInv', NEW h \in Strings, NEW from \in Nat, NEW to \in Nat,
         Erase(h, from, to)
  PROVE  Allowed(h)
<1>1. str[h].cb \in Nat
  BY Readable
<1>2. /\ Clamp(str[h], from) \in Nat /\ Clamp(str[h], from) <= str[h].cb
      /\ Clamp(str[h], to) \in Nat /\ Clamp(str[h], to) <= str[h].cb
      /\ from <= to => Clamp(str[h], from) <= Clamp(str[h], to)
      /\ ~(from <= to) => Clamp(str[h], to) <= Clamp(str[h], from)
  BY <1>1 DEF Clamp
<1> QED
  BY <1>2, EraseRangeAllowed DEF Erase

(* A char* reader finds the text of a string that is its whole buffer.     *)
LEMMA CStringIs ==
  ASSUME NEW d \in Seq(Bytes), NEW n \in Nat, Len(d) = n + 1, d[n + 1] = Nul,
         NEW v \in Seq(Char), IsSlice(v, d, 0, n)
  PROVE  CString(d) = v
<1> DEFINE R == {i \in 1..Len(d) : \A j \in 1..i : d[j] \in Bytes \ {Nul}}
<1>1. Len(v) = n /\ \A j \in 1..n : d[j] = v[j]
  BY DEF IsSlice
<1>2. \A j \in 1..n : d[j] \in Bytes \ {Nul}
  <2> TAKE j \in 1..n
  <2>1. v[j] \in Char
    BY <1>1
  <2> QED
    BY <1>1, <2>1, ValuesAssumption DEF Bytes
<1>3. R = 1..n
  <2>1. ASSUME NEW i \in 1..n PROVE i \in R
    <3>1. i \in 1..Len(d) /\ \A j \in 1..i : j \in 1..n
      OBVIOUS
    <3> QED
      BY <1>2, <3>1
  <2>2. ASSUME NEW i \in R PROVE i \in 1..n
    <3>1. i \in 1..Len(d) /\ (i = n + 1 \/ i \in 1..n)
      OBVIOUS
    <3>2. i # n + 1
      <4>1. n + 1 \in 1..n + 1
        OBVIOUS
      <4> QED
        BY <4>1
    <3> QED
      BY <3>1, <3>2
  <2> QED
    BY <2>1, <2>2
<1>4. Cardinality(1..n) = n
  <2>1. 1 \in Int /\ n \in Int
    OBVIOUS
  <2>2. Cardinality(1..n) = IF 1 > n THEN 0 ELSE n - 1 + 1
    BY <2>1, FS_Interval
  <2> QED
    BY <2>2
<1>5. CString(d) = SubSeq(d, 1, n)
  BY <1>3, <1>4 DEF CString, Run
<1>6. IsSlice(SubSeq(d, 1, n), d, 0, n)
  BY PrefixIs
<1> QED
  BY <1>5, <1>6, SliceIsUnique

LEMMA CStrReads ==
  ASSUME CInv, Contract, IInv', NEW h \in Strings, CStr(h)
  PROVE  Takes(h, Value(str[h])) /\ (IF ret' = Null THEN <<>> ELSE ret') = Value(str[h])
<1> DEFINE s == str[h]
           v == Value(s)
           d == BytesAt(mem, s.buf)
<1>1. /\ s \in StringRec /\ s.cb \in Nat /\ s.offset \in Nat /\ ~Dangling(s)
      /\ (s.buf = Null => s.cb = 0) /\ (s.buf # Null => s.offset + s.cb < Len(d))
      /\ d \in Seq(Bytes) /\ IsSlice(v, d, s.offset, s.cb) /\ v \in Seq(Char) /\ Len(v) = s.cb
  BY Readable
<1>2. ~AssertFails(refs, s) /\ GoodIn(mem, s)
  BY NoAssert DEF CInv
<1>3. v \in Seq(Bytes) /\ v # Null
  <2>1. v \in Seq(Bytes)
    BY <1>1 DEF Bytes
  <2> QED
    BY <2>1, RetAssumption
<1>4. ASSUME UNCHANGED <<refs, mem, str, fault>> PROVE Takes(h, v)
  <2>1. str' = str /\ mem' = mem /\ fault' = fault
    BY <1>4
  <2> QED
    BY <1>2, <2>1 DEF Takes, Value
<1>5. CASE s.buf = Null /\ ret' = Null /\ UNCHANGED <<refs, mem, str, fault>>
  <2>1. v = <<>>
    BY <1>1, <1>5
  <2> QED
    BY <1>4, <1>5, <2>1
<1>6. CASE /\ s.buf # Null /\ TakenForWhole(s) /\ ret' = CString(d)
           /\ UNCHANGED <<refs, mem, str, fault>>
  <2>1. ~(TakenForWhole(s) /\ (s.offset > 0 \/ s.cb < Len(d) - 1))
    BY NoHazard DEF CStr
  <2>2. Len(d) \in Nat
    BY <1>1
  <2>3. s.offset = 0 /\ Len(d) = s.cb + 1
    BY <1>1, <1>6, <2>1, <2>2
  <2>4. d[s.cb + 1] = Nul
    <3>1. CASE s.buf \in Blocks
      <4>1. d = mem[s.buf] /\ s.offset + s.cb = Len(d) - 1 /\ s.offset + s.cb + 1 = s.cb + 1
        BY <1>1, <2>3, <3>1 DEF BytesAt
      <4> QED
        BY <1>2, <3>1, <4>1 DEF GoodIn
    <3>2. CASE s.buf \notin Blocks
      <4>1. s.buf \in Lits
        BY <1>1, <1>6, <3>2 DEF StringRec
      <4>2. d = Append(LitText[s.buf], Nul) /\ LitText[s.buf] \in Seq(Char)
        BY <3>2, <4>1, TextsAssumption DEF BytesAt
      <4> HIDE DEF d
      <4>3. Len(d) = Len(LitText[s.buf]) + 1 /\ d[Len(LitText[s.buf]) + 1] = Nul
        BY <4>2
      <4> QED
        BY <1>1, <2>3, <4>2, <4>3
    <3> QED
      BY <3>1, <3>2
  <2>5. CString(d) = v
    <3>1. IsSlice(v, d, 0, s.cb)
      BY <1>1, <2>3
    <3> HIDE DEF d, v
    <3> QED
      BY <1>1, <2>3, <2>4, <3>1, CStringIs
  <2> QED
    BY <1>3, <1>4, <1>6, <2>5
<1>7. ASSUME s.buf # Null, ~TakenForWhole(s), NEW b \in Fresh,
             str' = [str EXCEPT ![h] = Owning(h, b, s.cb)],
             refs' = New(Drop(refs, s), b),
             mem' = Frees([mem EXCEPT ![b] = Append(Value(s), Nul)], New(Drop(refs, s), b)),
             ret' = Value(s), UNCHANGED fault
      PROVE  Takes(h, v) /\ (IF ret' = Null THEN <<>> ELSE ret') = v
  <2>1. s.type = Standard
    BY <1>1, <1>7 DEF TakenForWhole, StringRec
  <2>2. /\ GoodIn([mem EXCEPT ![b] = Append(v, Nul)], Owning(h, b, Len(v)))
        /\ ValueIn([mem EXCEPT ![b] = Append(v, Nul)], Owning(h, b, Len(v))) = v
    BY <1>1, <2>1, OwningGood
  <2>3. Takes(h, v)
    BY <1>1, <1>7, <2>2, Stores
  <2> QED
    BY <1>3, <1>7, <2>3
<1> QED
  BY <1>1, <1>2, <1>5, <1>6, <1>7 DEF CStr

-----------------------------------------------------------------------------
(* Every step is one of StringValue.                                       *)

LEMMA TakesSettles ==
  ASSUME CInv, IInv', Frame, NEW h \in Strings, NEW w, Takes(h, w)
  PROVE  /\ CInv' /\ ValueIn(mem', str'[h]) = w
         /\ \A g \in Strings \ {h} : ValueIn(mem', str'[g]) = Value(str[g])
<1>1. /\ fault' = fault /\ ValueIn(mem', str'[h]) = w
      /\ \A f \in Strings : str'[f] = str[f] \/ GoodIn(mem', str'[f])
      /\ \A f \in Strings \ {h} : str'[f] = str[f]
  BY DEF Takes
<1>2. CInv' /\ \A f \in Strings : str'[f] = str[f] => ValueIn(mem', str'[f]) = Value(str[f])
  BY <1>1, Settle
<1> QED
  BY <1>1, <1>2

LEMMA AllowedStep ==
  ASSUME CInv, IInv', Frame, NEW h \in Strings, Allowed(h)
  PROVE  CInv' /\ Abs!Next
<1>1. PICK w \in Abs!Results(h) : Takes(h, w) /\ ret' = NoRet
  BY DEF Allowed, Changed
<1>2. /\ CInv' /\ ValueIn(mem', str'[h]) = w
      /\ \A g \in Strings \ {h} : ValueIn(mem', str'[g]) = Value(str[g])
  BY <1>1, TakesSettles
<1> DEFINE val == [f \in Strings |-> Value(str[f])]
           new == [f \in Strings |-> ValueIn(mem', str'[f])]
<1>3. new = [val EXCEPT ![h] = w] /\ new[h] = w
  BY <1>2
<1>4. (IF ret' = Null THEN <<>> ELSE ret') = NoRet
  BY <1>1, RetAssumption
<1>5. Abs!Change(h)
  <2>1. new = [val EXCEPT ![h] = new[h]] /\ new[h] \in Abs!Results(h)
    BY <1>3
  <2> QED
    BY <1>4, <2>1 DEF Abs!Change, Value
<1> QED
  BY <1>2, <1>5 DEF Abs!Next

LEMMA CStrIsRead ==
  ASSUME CInv, Contract, IInv', Frame, NEW h \in Strings, CStr(h)
  PROVE  CInv' /\ Abs!Next
<1>1. Takes(h, Value(str[h])) /\ (IF ret' = Null THEN <<>> ELSE ret') = Value(str[h])
  BY CStrReads
<1>2. CInv' /\ \A g \in Strings : ValueIn(mem', str'[g]) = Value(str[g])
  BY <1>1, TakesSettles
<1> DEFINE val == [f \in Strings |-> Value(str[f])]
           new == [f \in Strings |-> ValueIn(mem', str'[f])]
<1>3. new = val /\ val[h] = Value(str[h])
  BY <1>2
<1>4. Abs!Read(h)
  BY <1>1, <1>3 DEF Abs!Read, Value
<1> QED
  BY <1>2, <1>4 DEF Abs!Next

LEMMA MoveIsMove ==
  ASSUME CInv, IInv', Frame, NEW h \in Strings, NEW g \in Strings, MoveConstruct(h, g)
  PROVE  CInv' /\ Abs!Next
<1>1. /\ h # g /\ str' = [str EXCEPT ![h] = str[g], ![g] = Default]
      /\ mem' = mem /\ fault' = fault /\ ret' = NoRet
  BY DEF MoveConstruct
<1>2. str \in [Strings -> StringRec]
  BY DEF CInv, IInv, TypeOK
<1>3. /\ str'[h] = str[g] /\ str'[g] = Default
      /\ \A f \in Strings \ {h, g} : str'[f] = str[f]
  BY <1>1, <1>2
<1>4. GoodIn(mem', str'[h]) /\ ValueIn(mem', str'[h]) = Value(str[g])
  BY <1>1, <1>3 DEF CInv, Value
<1>5. GoodIn(mem', str'[g]) /\ ValueIn(mem', str'[g]) = <<>>
  <2>1. Default \in StringRec /\ Default.buf = Null /\ Default.cb = 0 /\ Default.type = Standard
    BY DEF Default, StringRec
  <2> QED
    BY <1>3, <2>1, NullGood
<1>6. CInv' /\ \A f \in Strings : str'[f] = str[f] => ValueIn(mem', str'[f]) = Value(str[f])
  <2>1. \A f \in Strings : str'[f] = str[f] \/ GoodIn(mem', str'[f])
    BY <1>3, <1>4, <1>5
  <2> QED
    BY <1>1, <2>1, Settle
<1> DEFINE val == [f \in Strings |-> Value(str[f])]
           new == [f \in Strings |-> ValueIn(mem', str'[f])]
<1>7. new = [val EXCEPT ![h] = val[g], ![g] = <<>>]
  <2>1. \A f \in Strings \ {h, g} : new[f] = val[f]
    BY <1>3, <1>6
  <2>2. new[h] = val[g] /\ new[g] = <<>>
    BY <1>4, <1>5
  <2> QED
    BY <1>1, <2>1, <2>2
<1>8. (IF ret' = Null THEN <<>> ELSE ret') = NoRet
  BY <1>1, RetAssumption
<1>9. Abs!Move(h, g)
  BY <1>1, <1>7, <1>8 DEF Abs!Move, Value
<1> QED
  BY <1>6, <1>9 DEF Abs!Next

LEMMA InitCInv == Init => CInv /\ Abs!Init
<1> SUFFICES ASSUME Init PROVE CInv /\ Abs!Init
  OBVIOUS
<1>1. IInv /\ NoFault
  BY InitIInv DEF Init, NoFault
<1>2. Default \in StringRec /\ Default.buf = Null /\ Default.cb = 0 /\ Default.type = Standard
  BY DEF Default, StringRec
<1>3. \A h \in Strings : str[h] = Default /\ GoodIn(mem, str[h]) /\ Value(str[h]) = <<>>
  BY <1>2, NullGood DEF Init, Value
<1>4. AllCounted
  <2> SUFFICES ASSUME NEW b \in Blocks PROVE refs[b] = Cardinality(Owners(b))
    BY DEF AllCounted
  <2>1. Owners(b) = {}
    BY <1>2, <1>3 DEF Owners, Counted
  <2> QED
    BY <2>1, FS_EmptySet DEF Init
<1>5. Abs!Init
  <2>1. [h \in Strings |-> Value(str[h])] = [h \in Strings |-> <<>>]
    BY <1>3
  <2> QED
    BY <2>1, RetAssumption DEF Init, Abs!Init
<1> QED
  BY <1>1, <1>3, <1>4, <1>5 DEF CInv

LEMMA StepCInv ==
  ASSUME Contract, CInv, [Next]_vars
  PROVE  CInv' /\ [Abs!Next]_(Abs!vars)
<1>1. IInv' /\ Frame
  BY StepIInv DEF CInv
<1>2. CASE UNCHANGED vars
  <2>1. /\ fault' = fault /\ mem' = mem /\ ret' = ret
        /\ \A f \in Strings : str'[f] = str[f]
    BY <1>2 DEF vars
  <2>2. CInv' /\ \A f \in Strings : ValueIn(mem', str'[f]) = Value(str[f])
    BY <1>1, <2>1, Settle
  <2>3. UNCHANGED (Abs!vars)
    BY <2>1, <2>2 DEF Abs!vars, Value
  <2> QED
    BY <2>2, <2>3
<1>3. ASSUME Next PROVE CInv' /\ Abs!Next
  <2>1. PICK h \in Strings :
       \/ Destroy(h)
       \/ \E l \in Lits : AssignLiteral(h, l)
       \/ \E g \in Strings : CopyAssign(h, g)
       \/ \E g \in Strings : MoveConstruct(h, g)
       \/ \E g \in Strings : \E from, to \in 0..str[g].cb + 1 : Substr(h, g, from, to)
       \/ Trim(h)
       \/ \E t \in Texts : Assign(h, t)
       \/ AssignNull(h)
       \/ \E t \in Texts : \E o \in 0..str[h].cb : InsertText(h, o, t)
       \/ \E g \in Strings : \E o \in 0..str[h].cb : InsertString(h, o, g)
       \/ InsertPast(h)
       \/ \E from, to \in 0..str[h].cb + 1 : Erase(h, from, to)
       \/ CStr(h)
       \/ Clear(h)
       \/ \E l \in Lits : MutateToStatic(h, l)
       \/ \E t \in Texts : \E k \in 0..Len(t) : ReadString(h, t, k)
       \/ ReadStringEof(h)
    BY <1>3 DEF Next
  <2>2. Texts \subseteq Sources
    BY DEF Sources
  <2>3. \A g \in Strings : 0..str[g].cb + 1 \subseteq Nat
    BY Readable
  <2>4. CASE Destroy(h)
    BY <1>1, <2>4, DestroyAllowed, AllowedStep
  <2>5. CASE \E l \in Lits : AssignLiteral(h, l)
    BY <1>1, <2>5, AssignLiteralAllowed, AllowedStep
  <2>6. CASE \E g \in Strings : CopyAssign(h, g)
    BY <1>1, <2>6, CopyAssignAllowed, AllowedStep
  <2>7. CASE \E g \in Strings : MoveConstruct(h, g)
    BY <1>1, <2>7, MoveIsMove
  <2>8. CASE \E g \in Strings : \E from, to \in 0..str[g].cb + 1 : Substr(h, g, from, to)
    <3>1. PICK g \in Strings, from \in Nat, to \in Nat : Substr(h, g, from, to)
      BY <2>3, <2>8
    <3> QED
      BY <1>1, <3>1, SubstrAllowed, AllowedStep
  <2>9. CASE Trim(h)
    BY <1>1, <2>9, TrimAllowed, AllowedStep
  <2>10. CASE \E t \in Texts : Assign(h, t)
    BY <1>1, <2>2, <2>10, AssignAllowed, AllowedStep
  <2>11. CASE AssignNull(h)
    BY <1>1, <2>11, AssignNullAllowed, AllowedStep
  <2>12. CASE \E t \in Texts : \E o \in 0..str[h].cb : InsertText(h, o, t)
    BY <1>1, <2>2, <2>12, InsertTextAllowed, AllowedStep
  <2>13. CASE \E g \in Strings : \E o \in 0..str[h].cb : InsertString(h, o, g)
    BY <1>1, <2>13, InsertStringAllowed, AllowedStep
  <2>14. CASE \E from, to \in 0..str[h].cb + 1 : Erase(h, from, to)
    <3>1. PICK from \in Nat, to \in Nat : Erase(h, from, to)
      BY <2>3, <2>14
    <3> QED
      BY <1>1, <3>1, EraseAllowed, AllowedStep
  <2>15. CASE CStr(h)
    BY <1>1, <2>15, CStrIsRead
  <2>16. CASE Clear(h)
    BY <1>1, <2>16, ClearAllowed, AllowedStep
  <2>17. CASE \E l \in Lits : MutateToStatic(h, l)
    BY <1>1, <2>17, MutateToStaticAllowed, AllowedStep
  <2>18. CASE \E t \in Texts : \E k \in 0..Len(t) : ReadString(h, t, k)
    BY <1>1, <2>18, ReadStringAllowed, AllowedStep
  <2>19. CASE ReadStringEof(h)
    BY <1>1, <2>19, ReadStringEofAllowed, AllowedStep
  <2>20. ~InsertPast(h)
    BY DEF InsertPast, OnlyIf, Contract
  <2> QED
    BY <2>1, <2>4, <2>5, <2>6, <2>7, <2>8, <2>9, <2>10, <2>11, <2>12, <2>13,
       <2>14, <2>15, <2>16, <2>17, <2>18, <2>19, <2>20
<1> QED
  BY <1>2, <1>3

(* What callers that keep to the contract of string_.h can rely on.        *)
THEOREM ContractInvariance == ASSUME Contract PROVE Spec => []CInv
<1>1. Init => CInv
  BY InitCInv
<1>2. CInv /\ [Next]_vars => CInv'
  BY StepCInv
<1> QED
  BY <1>1, <1>2, PTL DEF Spec

(* No call of theirs reaches freed memory, a null pointer, the "header" of *)
(* a literal or the assertion of buf_release.                              *)
THEOREM ContractNoFault == ASSUME Contract PROVE Spec => []NoFault
<1>1. CInv => NoFault
  BY DEF CInv
<1> QED
  BY <1>1, ContractInvariance, PTL

(* A buffer no string points at any more has been freed.                   *)
THEOREM ContractNoLeak == ASSUME Contract PROVE Spec => []NoLeak
<1>1. ASSUME CInv, NEW b \in Blocks, refs[b] > 0
      PROVE  \E h \in Strings : str[h].buf = b
  <2>1. refs[b] = Cardinality(Owners(b))
    BY <1>1 DEF CInv, AllCounted
  <2>2. Owners(b) # {}
    BY <1>1, <2>1, FS_EmptySet
  <2> QED
    BY <2>2 DEF Owners
<1>2. CInv => NoLeak
  BY <1>1 DEF NoLeak
<1> QED
  BY <1>2, ContractInvariance, PTL

(* The library implements StringValue: sharing, slicing and copy-on-write  *)
(* are invisible.                                                          *)
THEOREM StringsAreValues == ASSUME Contract PROVE Spec => ValueSemantics
<1>1. Init => Abs!Init
  BY InitCInv
<1>2. CInv /\ [Next]_vars => [Abs!Next]_(Abs!vars)
  BY StepCInv
<1> QED
  BY <1>1, <1>2, ContractInvariance, PTL DEF Spec, ValueSemantics, Abs!Spec
=============================================================================
