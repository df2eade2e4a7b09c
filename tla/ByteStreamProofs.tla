-------------------------- MODULE ByteStreamProofs --------------------------
(***************************************************************************)
(* Proofs about ByteStream, for every chunk size, every bound and every    *)
(* input: what callers that use it as a stream can rely on, and what the   *)
(* array's own calls do whatever the callers did before.                   *)
(***************************************************************************)
EXTENDS ByteStream, TLAPS

(* A buffer grown for n bytes has room for n bytes.                        *)
LEMMA GrownEnough ==
  ASSUME NEW n \in Nat
  PROVE  Grown(n) \in Nat /\ Grown(n) >= n
<1> DEFINE q == (n + Chunk - 1) \div Chunk
           r == (n + Chunk - 1) % Chunk
<1>1. Chunk \in Nat /\ Chunk > 0
  BY SizeAssumption
<1>2. q \in Int /\ r \in 0..Chunk - 1 /\ n + Chunk - 1 = Chunk * q + r
  BY <1>1
<1> HIDE DEF q, r
<1>3. q >= 0
  BY <1>1, <1>2
<1>4. Chunk * q \in Int /\ Chunk * q = q * Chunk
  BY <1>1, <1>2
<1>5. q * Chunk >= n
  BY <1>1, <1>2, <1>4
<1> QED
  BY <1>2, <1>4, <1>5 DEF Grown, q

LEMMA ResizeFacts ==
  ASSUME NEW d \in Seq(Bytes), NEW n \in Nat
  PROVE  /\ Resize(d, n) \in Seq(Bytes)
         /\ Len(Resize(d, n)) = n
         /\ \A i \in 1..n : i <= Len(d) => Resize(d, n)[i] = d[i]
<1>1. \A i \in 1..n : (IF i <= Len(d) THEN d[i] ELSE Uninit) \in Bytes
  BY DEF Bytes
<1> QED
  BY <1>1 DEF Resize

LEMMA WriteFacts ==
  ASSUME NEW d \in Seq(Bytes), NEW at \in Nat, NEW bs \in Seq(Bytes)
  PROVE  /\ Write(d, at, bs) \in Seq(Bytes)
         /\ Len(Write(d, at, bs)) = Len(d)
         /\ \A i \in 1..Len(d) :
              Write(d, at, bs)[i] = IF at < i /\ i <= at + Len(bs) THEN bs[i - at] ELSE d[i]
<1>1. \A i \in 1..Len(d) :
        (IF at < i /\ i <= at + Len(bs) THEN bs[i - at] ELSE d[i]) \in Bytes
  OBVIOUS
<1> QED
  BY <1>1 DEF Write

(* The bytes of a slice.                                                   *)
LEMMA SliceFacts ==
  ASSUME NEW d \in Seq(Bytes), NEW a \in Nat, NEW b \in Nat, a <= b, b <= Len(d)
  PROVE  /\ SubSeq(d, a + 1, b) \in Seq(Bytes)
         /\ Len(SubSeq(d, a + 1, b)) = b - a
         /\ \A i \in 1..b - a : SubSeq(d, a + 1, b)[i] = d[a + i]
  OBVIOUS

(* Two sequences that agree on a range have the same slice there.          *)
LEMMA SameSlice ==
  ASSUME NEW c \in Seq(Bytes), NEW d \in Seq(Bytes), NEW a \in Nat, NEW b \in Nat,
         a <= b, b <= Len(c), b <= Len(d), \A i \in 1..b : c[i] = d[i]
  PROVE  SubSeq(c, a + 1, b) = SubSeq(d, a + 1, b)
  OBVIOUS

-----------------------------------------------------------------------------
(* The invariant of a stream whose callers avoid the hazardous patterns.   *)

(* Kept, byte by byte.                                                     *)
Agree(m, s) == Len(s) <= Len(m) /\ \A i \in 1..Len(s) : m[i] = s[i]

(* The write cursor stays within what was put in, the read cursor within   *)
(* the buffer.                                                             *)
Inside(m, s, r, w) == r <= Len(m) /\ w <= Len(s)

(* What ReadsWhatWasWritten says of the last read.                         *)
ReadTrue ==
  /\ got.bytes = SubSeq(sent, got.from + 1, got.from + Len(got.bytes))
  /\ IF got.ok THEN Len(got.bytes) = got.asked
     ELSE got.from + Len(got.bytes) = Len(sent) /\ Len(got.bytes) < got.asked

StreamInv ==
  /\ TypeOK
  /\ fault = "none"
  /\ Agree(mem, sent)
  /\ Inside(mem, sent, offsetRead, offsetWrite)
  /\ ReadTrue

(* Agreement byte by byte is what Kept says.                               *)
LEMMA AgreeKept ==
  ASSUME NEW m \in Seq(Bytes), NEW s \in Seq(Bytes), Agree(m, s)
  PROVE  Len(s) <= Len(m) /\ SubSeq(m, 1, Len(s)) = s
<1>1. SubSeq(m, 1, Len(s)) \in Seq(Bytes) /\ Len(SubSeq(m, 1, Len(s))) = Len(s)
  BY DEF Agree
<1>2. \A i \in 1..Len(s) : SubSeq(m, 1, Len(s))[i] = s[i]
  BY DEF Agree
<1> QED
  BY <1>1, <1>2 DEF Agree

(* Nothing has been read: there is nothing to compare.                     *)
LEMMA NoReadFine ==
  ASSUME NEW s \in Seq(Bytes)
  PROVE  /\ NoRead \in [ok : BOOLEAN, from : Nat, asked : Nat, bytes : Seq(Bytes)]
         /\ NoRead.bytes = SubSeq(s, NoRead.from + 1, NoRead.from + Len(NoRead.bytes))
         /\ NoRead.ok /\ Len(NoRead.bytes) = NoRead.asked
<1>1. SubSeq(s, 0 + 1, 0 + 0) = <<>>
  OBVIOUS
<1> QED
  BY <1>1 DEF NoRead

LEMMA InitStream ==
  ASSUME Init
  PROVE  StreamInv
<1>1. mem \in Seq(Bytes) /\ sent \in Seq(Bytes) /\ Agree(mem, sent)
  <2>1. CASE mem \in Inputs \cup {<<>>} /\ sent = mem
    <3>1. mem \in Seq(Byte)
      <4>1. <<>> \in Seq(Byte)
        OBVIOUS
      <4> QED
        BY <2>1, <4>1, InputsAssumption
    <3> QED
      BY <3>1, <2>1 DEF Bytes, Agree
  <2>2. CASE \E n \in 1..MaxSize : mem = [i \in 1..n |-> Uninit] /\ sent = <<>>
    <3>1. PICK n \in 1..MaxSize : mem = [i \in 1..n |-> Uninit] /\ sent = <<>>
      BY <2>2
    <3>2. n \in Nat /\ Uninit \in Bytes
      BY SizeAssumption DEF Bytes
    <3>3. mem \in Seq(Bytes) /\ Len(mem) = n
      BY <3>1, <3>2
    <3> QED
      BY <3>1, <3>2, <3>3 DEF Agree
  <2> QED
    BY <2>1, <2>2 DEF Init
<1>2. ReadTrue /\ got \in [ok : BOOLEAN, from : Nat, asked : Nat, bytes : Seq(Bytes)]
  BY <1>1, NoReadFine DEF Init, ReadTrue
<1> QED
  BY <1>1, <1>2 DEF Init, StreamInv, TypeOK, Inside

(* What the invariant says of the buffer, the history and the cursors.     *)
LEMMA InvFacts ==
  ASSUME StreamInv
  PROVE  /\ mem \in Seq(Bytes) /\ sent \in Seq(Bytes)
         /\ offsetWrite \in Nat /\ offsetRead \in Nat
         /\ Len(mem) \in Nat /\ Len(sent) \in Nat
         /\ offsetWrite <= Len(sent) /\ offsetWrite <= Len(mem) /\ offsetRead <= Len(mem)
         /\ Len(sent) <= Len(mem) /\ \A i \in 1..Len(sent) : mem[i] = sent[i]
<1>1. TypeOK /\ Agree(mem, sent) /\ Inside(mem, sent, offsetRead, offsetWrite)
  BY DEF StreamInv
<1>2. /\ mem \in Seq(Bytes) /\ sent \in Seq(Bytes)
      /\ offsetWrite \in Nat /\ offsetRead \in Nat
  BY <1>1 DEF TypeOK
<1>3. Len(mem) \in Nat /\ Len(sent) \in Nat
  BY <1>2
<1>4. offsetRead <= Len(mem) /\ offsetWrite <= Len(sent)
  BY <1>1 DEF Inside
<1>5. Len(sent) <= Len(mem) /\ \A i \in 1..Len(sent) : mem[i] = sent[i]
  BY <1>1 DEF Agree
<1>6. offsetWrite <= Len(mem)
  BY <1>2, <1>3, <1>4, <1>5
<1> QED
  BY <1>2, <1>3, <1>4, <1>5, <1>6

(* A write in a stream that has room, or has been given it, keeps every    *)
(* byte outside the written range and agrees with the history inside it.   *)
LEMMA WriteStep ==
  ASSUME StreamInv, used' = {}, NEW t \in Inputs, WriteBytes(t)
  PROVE  StreamInv'
<1> DEFINE last == offsetWrite + Len(t)
           new  == IF Room(Len(t)) THEN mem ELSE Enlarged(Grown(last))
           size == IF last > Len(sent) THEN last ELSE Len(sent)
           old  == Resize(sent, size)
<1>1. /\ t \in Seq(Bytes) /\ mem \in Seq(Bytes) /\ sent \in Seq(Bytes)
      /\ offsetWrite \in Nat /\ offsetRead \in Nat /\ last \in Nat /\ size \in Nat
      /\ Len(t) \in Nat /\ Len(mem) \in Nat /\ Len(sent) \in Nat
      /\ offsetWrite <= Len(sent) /\ offsetRead <= Len(mem)
      /\ Len(sent) <= Len(mem) /\ \A i \in 1..Len(sent) : mem[i] = sent[i]
  <2>1. t \in Seq(Bytes) /\ Len(t) \in Nat
    <3>1. t \in Seq(Byte)
      BY InputsAssumption
    <3> QED
      BY <3>1 DEF Bytes
  <2>2. last \in Nat /\ size \in Nat
    BY <2>1, InvFacts
  <2> HIDE DEF last, size
  <2> QED
    BY <2>1, <2>2, InvFacts
<1>2. Grown(last) \in Nat /\ Grown(last) >= last
  BY <1>1, GrownEnough
<1>3. /\ new \in Seq(Bytes) /\ last <= Len(new) /\ Len(mem) <= Len(new) /\ Len(new) \in Nat
      /\ \A i \in 1..Len(mem) : new[i] = mem[i]
  <2>1. CASE Room(Len(t))
    BY <1>1, <2>1 DEF Room
  <2>2. CASE ~Room(Len(t))
    <3>1. Len(mem) < last
      BY <1>1, <2>2 DEF Room
    <3>2. new = Resize(mem, Grown(last))
      BY <2>2 DEF Enlarged
    <3>3. /\ Resize(mem, Grown(last)) \in Seq(Bytes)
          /\ Len(Resize(mem, Grown(last))) = Grown(last)
          /\ \A i \in 1..Grown(last) : i <= Len(mem) => Resize(mem, Grown(last))[i] = mem[i]
      BY <1>1, <1>2, ResizeFacts
    <3> HIDE DEF new, last
    <3> QED
      BY <1>1, <1>2, <3>1, <3>2, <3>3
  <2> QED
    BY <2>1, <2>2
<1>4. /\ old \in Seq(Bytes) /\ Len(old) = size
      /\ \A i \in 1..size : i <= Len(sent) => old[i] = sent[i]
  BY <1>1, ResizeFacts
<1>5. /\ mem' = Write(new, offsetWrite, t) /\ offsetWrite' = last
      /\ sent' = Write(old, offsetWrite, t) /\ got' = NoRead /\ want' = None
      /\ offsetRead' = offsetRead /\ fault' = fault
  <2>1. ~(last > Len(new))
    BY <1>1, <1>3
  <2> QED
    BY <2>1 DEF WriteBytes
<1> HIDE DEF new, old, last, size
<1>6. /\ mem' \in Seq(Bytes) /\ Len(mem') = Len(new)
      /\ \A i \in 1..Len(new) :
           mem'[i] = IF offsetWrite < i /\ i <= offsetWrite + Len(t)
                     THEN t[i - offsetWrite] ELSE new[i]
  <2>1. new \in Seq(Bytes) /\ offsetWrite \in Nat /\ t \in Seq(Bytes)
    BY <1>1, <1>3
  <2>2. /\ Write(new, offsetWrite, t) \in Seq(Bytes)
        /\ Len(Write(new, offsetWrite, t)) = Len(new)
        /\ \A i \in 1..Len(new) :
             Write(new, offsetWrite, t)[i] = IF offsetWrite < i /\ i <= offsetWrite + Len(t)
                                             THEN t[i - offsetWrite] ELSE new[i]
    BY <2>1, WriteFacts
  <2> QED
    BY <2>2, <1>5
<1>7. /\ sent' \in Seq(Bytes) /\ Len(sent') = size
      /\ \A i \in 1..size :
           sent'[i] = IF offsetWrite < i /\ i <= offsetWrite + Len(t)
                      THEN t[i - offsetWrite] ELSE old[i]
  <2>1. old \in Seq(Bytes) /\ offsetWrite \in Nat /\ t \in Seq(Bytes)
    BY <1>1, <1>4
  <2>2. /\ Write(old, offsetWrite, t) \in Seq(Bytes)
        /\ Len(Write(old, offsetWrite, t)) = Len(old)
        /\ \A i \in 1..Len(old) :
             Write(old, offsetWrite, t)[i] = IF offsetWrite < i /\ i <= offsetWrite + Len(t)
                                             THEN t[i - offsetWrite] ELSE old[i]
    BY <2>1, WriteFacts
  <2>3. Len(old) = size
    BY <1>4
  <2> QED
    BY <2>2, <2>3, <1>5
<1>8. size <= Len(new) /\ last <= size
  BY <1>1, <1>3 DEF size
<1>9. Agree(mem', sent')
  <2>1. \A i \in 1..size : mem'[i] = sent'[i]
    <3>1. TAKE i \in 1..size
    <3>0. i \in 1..Len(new)
      BY <1>1, <1>3, <1>8
    <3>2. CASE offsetWrite < i /\ i <= offsetWrite + Len(t)
      BY <1>6, <1>7, <3>0, <3>2
    <3>3. CASE ~(offsetWrite < i /\ i <= offsetWrite + Len(t))
      <4>1. i <= Len(sent)
        BY <1>1, <3>3 DEF size, last
      <4> QED
        <5>1. mem'[i] = new[i] /\ sent'[i] = old[i]
          BY <1>6, <1>7, <3>0, <3>3
        <5>2. i \in 1..Len(sent) /\ i \in 1..Len(mem)
          BY <1>1, <4>1
        <5> QED
          BY <1>1, <1>3, <1>4, <5>1, <5>2
    <3> QED
      BY <3>2, <3>3
  <2> QED
    BY <1>1, <1>3, <1>6, <1>7, <1>8, <2>1 DEF Agree
<1>10. Inside(mem', sent', offsetRead', offsetWrite')
  BY <1>1, <1>3, <1>5, <1>6, <1>7, <1>8 DEF Inside
<1>11. ReadTrue' /\ got' \in [ok : BOOLEAN, from : Nat, asked : Nat, bytes : Seq(Bytes)]
  BY <1>5, <1>7, NoReadFine DEF ReadTrue
<1>12. offsetWrite' \in Nat /\ offsetRead' \in Nat /\ want' = None /\ fault' = "none"
  BY <1>1, <1>5 DEF StreamInv
<1> QED
  BY <1>6, <1>7, <1>9, <1>10, <1>11, <1>12 DEF StreamInv, TypeOK
LEMMA SeekStep ==
  ASSUME StreamInv, used' = {}, NEW o \in 0..MaxSize, SetWriteOffset(o)
  PROVE  StreamInv'
<1>1. o \in Nat /\ o <= Len(sent)
  <2>1. ~(o > Len(sent))
    BY Zenon DEF SetWriteOffset, Uses
  <2> QED
    BY <2>1, SizeAssumption, InvFacts
<1>2. /\ offsetWrite' = o /\ got' = NoRead /\ want' = None /\ mem' = mem
      /\ offsetRead' = offsetRead /\ sent' = sent /\ fault' = fault
  BY DEF SetWriteOffset
<1>3. ReadTrue' /\ got' \in [ok : BOOLEAN, from : Nat, asked : Nat, bytes : Seq(Bytes)]
  BY <1>2, NoReadFine DEF ReadTrue, StreamInv, TypeOK
<1>4. offsetRead \in Nat /\ offsetRead <= Len(mem) /\ Agree(mem, sent)
  BY InvFacts DEF StreamInv
<1> QED
  BY <1>1, <1>2, <1>3, <1>4 DEF StreamInv, TypeOK, Inside

(* A read takes bytes from where history and buffer agree: before the end  *)
(* of the history, or up to a buffer's end that is the history's too.      *)
LEMMA ReadStep ==
  ASSUME StreamInv, used' = {}, NEW n \in 0..MaxSize, ReadBytes(n)
  PROVE  StreamInv'
<1> DEFINE k   == Taken(n)
           end == offsetRead + k
<1>1. /\ n \in Nat /\ mem \in Seq(Bytes) /\ sent \in Seq(Bytes)
      /\ offsetRead \in Nat /\ Len(mem) \in Nat /\ Len(sent) \in Nat
      /\ offsetRead <= Len(mem)
      /\ Len(sent) <= Len(mem) /\ \A i \in 1..Len(sent) : mem[i] = sent[i]
  BY SizeAssumption, InvFacts
<1>2. k = IF n <= Len(mem) - offsetRead THEN n ELSE Len(mem) - offsetRead
  BY <1>1 DEF Taken
<1>3. k \in Nat /\ end \in Nat /\ end <= Len(mem) /\ k <= n
  BY <1>1, <1>2
<1>4. offsetRead + n > Len(sent) => Len(mem) = Len(sent)
  <2>1. ~(offsetRead + n > Len(sent) /\ Len(mem) > Len(sent))
    BY Zenon DEF ReadBytes, Uses
  <2> QED
    BY <1>1, <2>1
<1>5. end <= Len(sent) /\ (k # n => end = Len(sent))
  BY <1>1, <1>2, <1>3, <1>4
<1>6. /\ offsetRead' = end
      /\ got' = [ok |-> k = n, from |-> offsetRead, asked |-> n,
                 bytes |-> SubSeq(mem, offsetRead + 1, end)]
      /\ want' = None /\ mem' = mem /\ offsetWrite' = offsetWrite /\ sent' = sent
      /\ fault' = fault
  <2>1. ~(end > Len(mem))
    BY <1>1, <1>3
  <2> QED
    BY <2>1 DEF ReadBytes, Advanced, Complete
<1> HIDE DEF k, end
<1>7. /\ SubSeq(mem, offsetRead + 1, end) \in Seq(Bytes)
      /\ Len(SubSeq(mem, offsetRead + 1, end)) = end - offsetRead
  BY <1>1, <1>3, SliceFacts DEF end
<1>8. SubSeq(mem, offsetRead + 1, end) = SubSeq(sent, offsetRead + 1, end)
  <2>1. offsetRead <= end /\ \A i \in 1..end : mem[i] = sent[i]
    BY <1>1, <1>3, <1>5 DEF end
  <2> QED
    BY <1>1, <1>3, <1>5, <2>1, SameSlice
<1>9. end - offsetRead = k /\ offsetRead + (end - offsetRead) = end
  BY <1>1, <1>3 DEF end
<1>10. ReadTrue'
  <2>1. got'.bytes = SubSeq(sent', got'.from + 1, got'.from + Len(got'.bytes))
    BY <1>6, <1>7, <1>8, <1>9
  <2>2. IF got'.ok THEN Len(got'.bytes) = got'.asked
        ELSE got'.from + Len(got'.bytes) = Len(sent') /\ Len(got'.bytes) < got'.asked
    <3>1. /\ got'.ok <=> k = n
          /\ got'.asked = n /\ got'.from = offsetRead /\ sent' = sent
          /\ Len(got'.bytes) = k
      BY <1>6, <1>7, <1>9
    <3>2. CASE k = n
      BY <3>1, <3>2
    <3>3. CASE k # n
      <4>1. offsetRead + k = Len(sent) /\ k < n
        BY <1>1, <1>3, <1>5, <3>3 DEF end
      <4> QED
        BY <3>1, <3>3, <4>1
    <3> QED
      BY <3>2, <3>3
  <2> QED
    BY <2>1, <2>2 DEF ReadTrue
<1>11. got' \in [ok : BOOLEAN, from : Nat, asked : Nat, bytes : Seq(Bytes)]
  <2>1. (k = n) \in BOOLEAN
    OBVIOUS
  <2> QED
    BY <1>1, <1>6, <1>7, <2>1
<1> QED
  BY <1>1, <1>3, <1>6, <1>10, <1>11 DEF StreamInv, TypeOK, Inside, Agree

LEMMA ReopenStep ==
  ASSUME StreamInv, used' = {}, Reopen
  PROVE  StreamInv'
<1>1. /\ mem \in Seq(Bytes) /\ sent \in Seq(Bytes)
      /\ offsetWrite \in Nat /\ Len(mem) \in Nat /\ Len(sent) \in Nat
      /\ offsetWrite <= Len(sent) /\ offsetWrite <= Len(mem)
      /\ Len(sent) <= Len(mem) /\ \A i \in 1..Len(sent) : mem[i] = sent[i]
  BY InvFacts
<1>2. /\ mem' = SubSeq(mem, 1, offsetWrite) /\ sent' = Resize(sent, offsetWrite)
      /\ offsetRead' = 0 /\ offsetWrite' = 0 /\ got' = NoRead /\ want' = None
      /\ fault' = fault
  <2>1. ~(offsetWrite > Len(mem))
    BY <1>1
  <2> QED
    BY <2>1 DEF Reopen
<1>3. /\ sent' \in Seq(Bytes) /\ Len(sent') = offsetWrite
      /\ \A i \in 1..offsetWrite : i <= Len(sent) => sent'[i] = sent[i]
  BY <1>1, <1>2, ResizeFacts
<1>4. /\ mem' \in Seq(Bytes) /\ Len(mem') = offsetWrite
      /\ \A i \in 1..offsetWrite : mem'[i] = mem[i]
  BY <1>1, <1>2
<1>5. Agree(mem', sent') /\ Inside(mem', sent', offsetRead', offsetWrite')
  <2>1. \A i \in 1..offsetWrite : mem'[i] = sent'[i]
    <3>1. TAKE i \in 1..offsetWrite
    <3>2. i <= Len(sent) /\ i \in 1..Len(sent)
      BY <1>1
    <3> QED
      BY <1>1, <1>3, <1>4, <3>2
  <2>2. Len(sent') <= Len(mem') /\ 0 <= Len(mem') /\ 0 <= Len(sent')
    BY <1>1, <1>3, <1>4
  <2> QED
    BY <1>2, <1>3, <2>1, <2>2 DEF Agree, Inside
<1>6. ReadTrue' /\ got' \in [ok : BOOLEAN, from : Nat, asked : Nat, bytes : Seq(Bytes)]
  BY <1>2, <1>3, NoReadFine DEF ReadTrue
<1>7. offsetRead' \in Nat /\ offsetWrite' \in Nat /\ want' = None /\ fault' = "none"
  BY <1>2 DEF StreamInv
<1> QED
  BY <1>3, <1>4, <1>5, <1>6, <1>7 DEF StreamInv, TypeOK

-----------------------------------------------------------------------------
(* The array's own calls, whatever the callers did before.                 *)

InputFacts == \A t \in Inputs : t \in Seq(Bytes) /\ Len(t) \in Nat

LEMMA InputsAreBytes == InputFacts
  BY InputsAssumption DEF InputFacts, Bytes

LEMMA SameBytes ==
  ASSUME NEW u \in Seq(Bytes), NEW v \in Seq(Bytes), Len(u) = Len(v),
         \A i \in 1..Len(u) : u[i] = v[i]
  PROVE  u = v
  OBVIOUS

LEMMA ConcatFacts ==
  ASSUME NEW u \in Seq(Bytes), NEW v \in Seq(Bytes)
  PROVE  /\ u \o v \in Seq(Bytes) /\ Len(u \o v) = Len(u) + Len(v)
         /\ \A i \in 1..Len(u) + Len(v) : (u \o v)[i] = IF i <= Len(u) THEN u[i] ELSE v[i - Len(u)]
  OBVIOUS

(* append() makes what a vector's end is extended to.                      *)
LEMMA AppendedIs ==
  ASSUME NEW d \in Seq(Bytes), NEW t \in Seq(Bytes)
  PROVE  /\ Write(Resize(d, Len(d) + Len(t)), Len(d), t) \in Seq(Bytes)
         /\ Write(Resize(d, Len(d) + Len(t)), Len(d), t) = d \o t
<1> DEFINE l == Len(d)
           k == Len(t)
           e == Resize(d, l + k)
           x == Write(e, l, t)
           w == d \o t
<1>1. l \in Nat /\ k \in Nat /\ l + k \in Nat
  OBVIOUS
<1>2. e \in Seq(Bytes) /\ Len(e) = l + k /\ \A i \in 1..l + k : i <= l => e[i] = d[i]
  BY <1>1, ResizeFacts
<1>3. /\ x \in Seq(Bytes) /\ Len(x) = l + k
      /\ \A i \in 1..l + k : x[i] = IF l < i /\ i <= l + k THEN t[i - l] ELSE e[i]
  <2> HIDE DEF e, l
  <2> QED
    BY <1>1, <1>2, WriteFacts
<1>4. w \in Seq(Bytes) /\ Len(w) = l + k
  OBVIOUS
<1>5. \A i \in 1..l + k : w[i] = IF i <= l THEN d[i] ELSE t[i - l]
  OBVIOUS
<1> HIDE DEF e, x, w, l, k
<1>6. \A i \in 1..l + k : x[i] = w[i]
  <2> SUFFICES ASSUME NEW i \in 1..l + k PROVE x[i] = w[i]
    OBVIOUS
  <2>1. CASE i <= l
    <3>1. x[i] = e[i]
      BY <1>1, <1>3, <2>1
    <3> QED
      BY <1>1, <1>2, <1>5, <2>1, <3>1
  <2>2. CASE ~(i <= l)
    <3>1. x[i] = t[i - l]
      BY <1>1, <1>3, <2>2
    <3> QED
      BY <1>5, <2>2, <3>1
  <2> QED
    BY <2>1, <2>2
<1>7. x = w
  BY <1>3, <1>4, <1>6, SameBytes
<1> QED
  BY <1>3, <1>7 DEF x, e, w, l, k

(* insert() moves the tail before it copies the bytes in: what is there     *)
(* afterwards is the head, the bytes and the tail.                         *)
LEMMA InsertedIs ==
  ASSUME mem \in Seq(Bytes), NEW t \in Seq(Bytes), NEW o \in 0..Len(mem)
  PROVE  /\ Inserted(o, t) \in Seq(Bytes)
         /\ Inserted(o, t) = SubSeq(mem, 1, o) \o t \o SubSeq(mem, o + 1, Len(mem))
<1> DEFINE l == Len(mem)
           k == Len(t)
           e == Resize(mem, l + k)
           tail == SubSeq(mem, o + 1, l)
           head == SubSeq(mem, 1, o)
           x == Write(e, o + k, tail)
           y == Write(x, o, t)
           u == head \o t
           w == u \o tail
<1>1. l \in Nat /\ k \in Nat /\ l + k \in Nat /\ o \in Nat /\ o <= l /\ o + k \in Nat /\ l - o \in Nat
  OBVIOUS
<1>2. e \in Seq(Bytes) /\ Len(e) = l + k /\ \A i \in 1..l + k : i <= l => e[i] = mem[i]
  BY <1>1, ResizeFacts
<1>3. tail \in Seq(Bytes) /\ Len(tail) = l - o /\ \A i \in 1..l - o : tail[i] = mem[o + i]
  BY <1>1, SliceFacts
<1>4. head \in Seq(Bytes) /\ Len(head) = o /\ \A i \in 1..o : head[i] = mem[i]
  BY <1>1
<1>5. /\ x \in Seq(Bytes) /\ Len(x) = l + k
      /\ \A i \in 1..l + k : x[i] = IF o + k < i /\ i <= o + k + Len(tail) THEN tail[i - (o + k)] ELSE e[i]
  <2>1. e \in Seq(Bytes) /\ tail \in Seq(Bytes) /\ o + k \in Nat /\ Len(e) = l + k
    BY <1>1, <1>2, <1>3
  <2> HIDE DEF e, tail, l, k
  <2> QED
    BY <2>1, WriteFacts
<1>6. /\ y \in Seq(Bytes) /\ Len(y) = l + k
      /\ \A i \in 1..l + k : y[i] = IF o < i /\ i <= o + k THEN t[i - o] ELSE x[i]
  <2> HIDE DEF x, l
  <2> QED
    BY <1>1, <1>5, WriteFacts
<1>7. /\ u \in Seq(Bytes) /\ Len(u) = o + k
      /\ \A i \in 1..o + k : u[i] = IF i <= o THEN head[i] ELSE t[i - o]
  <2> HIDE DEF head
  <2> QED
    BY <1>1, <1>4
<1>8. /\ w \in Seq(Bytes) /\ Len(w) = l + k
      /\ \A i \in 1..l + k : w[i] = IF i <= o + k THEN u[i] ELSE tail[i - (o + k)]
  <2>1. /\ u \in Seq(Bytes) /\ tail \in Seq(Bytes) /\ Len(u) = o + k /\ Len(tail) = l - o
        /\ o + k + (l - o) = l + k
    BY <1>1, <1>3, <1>7
  <2> HIDE DEF u, tail, l, k
  <2>2. /\ w \in Seq(Bytes) /\ Len(w) = Len(u) + Len(tail)
        /\ \A i \in 1..Len(u) + Len(tail) : w[i] = IF i <= Len(u) THEN u[i] ELSE tail[i - Len(u)]
    BY <2>1, ConcatFacts
  <2>3. Len(u) + Len(tail) = l + k
    BY <2>1
  <2> HIDE DEF w
  <2> QED
    BY <2>1, <2>2, <2>3
<1> HIDE DEF e, x, y, u, w, tail, head, l, k
<1>9. \A i \in 1..l + k : y[i] = w[i]
  <2> SUFFICES ASSUME NEW i \in 1..l + k PROVE y[i] = w[i]
    OBVIOUS
  <2>1. CASE i <= o
    <3>1. ~(o < i) /\ ~(o + k < i) /\ i <= l /\ i <= o + k /\ i \in 1..o /\ i \in 1..o + k
      BY <1>1, <2>1
    <3>2. y[i] = mem[i]
      BY <1>2, <1>5, <1>6, <3>1
    <3>3. w[i] = mem[i]
      BY <1>4, <1>7, <1>8, <2>1, <3>1
    <3> QED
      BY <3>2, <3>3
  <2>2. CASE o < i /\ i <= o + k
    <3>1. ~(i <= o) /\ i \in 1..o + k
      BY <1>1, <2>2
    <3> QED
      BY <1>6, <1>7, <1>8, <2>2, <3>1
  <2>3. CASE o + k < i
    <3>1. i <= o + k + Len(tail) /\ ~(i <= o + k)
      BY <1>1, <1>3, <2>3
    <3>2. y[i] = x[i]
      BY <1>6, <3>1
    <3> QED
      BY <1>5, <1>8, <2>3, <3>1, <3>2
  <2> QED
    BY <1>1, <2>1, <2>2, <2>3
<1>10. y = w
  BY <1>6, <1>8, <1>9, SameBytes
<1> QED
  BY <1>6, <1>10 DEF Inserted, y, x, e, w, u, tail, head, l, k

(* The patterns used are of the kinds there are, and none is forgotten.    *)
LEMMA UsesTypes ==
  ASSUME used \subseteq HazardKinds, NEW kind \in HazardKinds, NEW pattern, Uses(kind, pattern)
  PROVE  used' \subseteq HazardKinds /\ used \subseteq used'
  BY DEF Uses

LEMMA CrashTypes ==
  ASSUME TypeOK, NEW kind \in {"overrun", "use_after_free"}, Crash(kind),
         used' \subseteq HazardKinds
  PROVE  TypeOK'
  BY DEF TypeOK, Crash

LEMMA ArrayCallTypes ==
  ASSUME TypeOK, NEW m \in Seq(Bytes), NEW v \in Seq(Bytes) \cup {None}, ArrayCall(m, v)
  PROVE  TypeOK'
<1>1. NoRead \in [ok : BOOLEAN, from : Nat, asked : Nat, bytes : Seq(Bytes)]
  BY NoReadFine DEF TypeOK
<1>2. used' \subseteq HazardKinds
  BY UsesTypes DEF ArrayCall, TypeOK, HazardKinds
<1> QED
  BY <1>1, <1>2 DEF TypeOK, ArrayCall

LEMMA StreamTypes ==
  ASSUME TypeOK,
         \/ \E t \in Inputs : WriteBytes(t)
         \/ \E o \in 0..MaxSize : SetWriteOffset(o)
         \/ \E n \in 0..MaxSize : ReadBytes(n)
         \/ Reopen
  PROVE  TypeOK' /\ (fault' # "none" \/ want' = None)
<1>1. /\ mem \in Seq(Bytes) /\ sent \in Seq(Bytes) /\ offsetRead \in Nat /\ offsetWrite \in Nat
      /\ Len(mem) \in Nat /\ Len(sent) \in Nat
      /\ NoRead \in [ok : BOOLEAN, from : Nat, asked : Nat, bytes : Seq(Bytes)]
  BY NoReadFine DEF TypeOK
<1>2. ASSUME NEW kind \in {"overrun", "use_after_free"}, Crash(kind),
             used' \subseteq HazardKinds
      PROVE  TypeOK' /\ fault' # "none"
  BY <1>2, CrashTypes DEF Crash
<1>3. ASSUME NEW t \in Inputs, WriteBytes(t)
      PROVE  TypeOK' /\ (fault' # "none" \/ want' = None)
  <2> DEFINE last == offsetWrite + Len(t)
             new  == IF Room(Len(t)) THEN mem ELSE Enlarged(Grown(last))
             s    == Resize(sent, IF last > Len(sent) THEN last ELSE Len(sent))
  <2>1. t \in Seq(Bytes) /\ Len(t) \in Nat /\ last \in Nat
    BY <1>1, InputsAreBytes DEF InputFacts
  <2>2. new \in Seq(Bytes)
    BY <1>1, <2>1, GrownEnough, ResizeFacts DEF Enlarged
  <2>3. s \in Seq(Bytes)
    BY <1>1, <2>1, ResizeFacts
  <2>0. used' \subseteq HazardKinds
    BY <1>3 DEF WriteBytes, TypeOK
  <2>4. CASE Crash("overrun")
    BY <1>2, <2>0, <2>4
  <2>5. CASE ~Crash("overrun")
    <3>1. /\ mem' = Write(new, offsetWrite, t) /\ offsetWrite' = last
          /\ sent' = Write(s, offsetWrite, t)
          /\ got' = NoRead /\ want' = None /\ UNCHANGED <<offsetRead, fault>>
      BY <1>3, <2>5 DEF WriteBytes
    <3> HIDE DEF new, s, last
    <3>2. mem' \in Seq(Bytes) /\ sent' \in Seq(Bytes)
      BY <1>1, <2>1, <2>2, <2>3, <3>1, WriteFacts
    <3> QED
      BY <1>1, <2>0, <2>1, <3>1, <3>2 DEF TypeOK
  <2> QED
    BY <2>4, <2>5
<1>4. ASSUME NEW o \in 0..MaxSize, SetWriteOffset(o)
      PROVE  TypeOK' /\ want' = None
  <2>1. used' \subseteq HazardKinds
    BY <1>4, UsesTypes DEF SetWriteOffset, TypeOK, HazardKinds
  <2> QED
    BY <1>1, <1>4, <2>1, SizeAssumption DEF SetWriteOffset, TypeOK
<1>5. ASSUME NEW n \in 0..MaxSize, ReadBytes(n)
      PROVE  TypeOK' /\ (fault' # "none" \/ want' = None)
  <2> DEFINE end == offsetRead + Taken(n)
             bs  == SubSeq(mem, offsetRead + 1, end)
  <2>1. n \in Nat
    BY SizeAssumption
  <2>2. Taken(n) \in Nat /\ end \in Nat /\ offsetRead <= end /\ (n = 0 => end = offsetRead)
    BY <1>1, <2>1 DEF Taken
  <2>0. used' \subseteq HazardKinds
    BY <1>5, UsesTypes DEF ReadBytes, TypeOK, HazardKinds
  <2>3. CASE Crash("overrun")
    BY <1>2, <2>0, <2>3
  <2>4. CASE ~Crash("overrun")
    <3>1. /\ end <= Len(mem) \/ n = 0
          /\ offsetRead' = Advanced(n)
          /\ got' = [ok |-> Complete(n), from |-> offsetRead, asked |-> n, bytes |-> bs]
          /\ want' = None /\ UNCHANGED <<mem, offsetWrite, sent, fault>>
      BY <1>5, <2>4 DEF ReadBytes
    <3>2. ASSUME end <= Len(mem) PROVE bs \in Seq(Bytes)
      <4> HIDE DEF end
      <4> QED
        BY <1>1, <2>2, <3>2, SliceFacts
    <3>3. ASSUME n = 0 PROVE bs \in Seq(Bytes)
      <4>1. end = offsetRead
        BY <2>2, <3>3
      <4> HIDE DEF end
      <4> QED
        BY <1>1, <4>1
    <3>4. bs \in Seq(Bytes)
      BY <3>1, <3>2, <3>3
    <3> HIDE DEF bs
    <3>5. got' \in [ok : BOOLEAN, from : Nat, asked : Nat, bytes : Seq(Bytes)]
      BY <1>1, <2>1, <3>1, <3>4 DEF Complete
    <3>6. offsetRead' \in Nat
      BY <1>1, <2>2, <3>1 DEF Advanced
    <3> QED
      BY <2>0, <3>1, <3>5, <3>6 DEF TypeOK
  <2> QED
    BY <2>3, <2>4
<1>6. CASE Reopen
  <2>0. used' \subseteq HazardKinds
    BY <1>6 DEF Reopen, TypeOK
  <2>1. CASE Crash("overrun")
    BY <1>2, <2>0, <2>1
  <2>2. CASE ~Crash("overrun")
    <3>1. /\ offsetWrite <= Len(mem) /\ mem' = SubSeq(mem, 1, offsetWrite)
          /\ sent' = Resize(sent, offsetWrite) /\ offsetRead' = 0 /\ offsetWrite' = 0
          /\ got' = NoRead /\ want' = None /\ UNCHANGED fault
      BY <1>6, <2>2 DEF Reopen
    <3>2. mem' \in Seq(Bytes)
      BY <1>1, <3>1
    <3>3. sent' \in Seq(Bytes)
      BY <1>1, <3>1, ResizeFacts
    <3> QED
      BY <1>1, <2>0, <3>1, <3>2, <3>3 DEF TypeOK
  <2> QED
    BY <2>1, <2>2
<1> QED
  BY <1>3, <1>4, <1>5, <1>6

(* A step keeps the types, and one of the array's calls that is not erase() *)
(* leaves what a vector would hold.                                        *)
LEMMA ArrayStep ==
  ASSUME TypeOK, Next
  PROVE  /\ TypeOK'
         /\ \/ fault' # "none" \/ want' = None \/ mem' = want'
            \/ \E o \in 0..Len(mem) : \E n \in 0..Len(mem) - o : EraseArray(o, n)
<1>1. mem \in Seq(Bytes) /\ Len(mem) \in Nat /\ <<>> \in Seq(Bytes)
  BY DEF TypeOK
<1>2. \A m, v : ArrayCall(m, v) => mem' = m /\ want' = v
  BY DEF ArrayCall
<1>3. CASE \E t \in Inputs : WriteBytes(t)
  BY <1>3, StreamTypes
<1>4. CASE \E o \in 0..MaxSize : SetWriteOffset(o)
  BY <1>4, StreamTypes
<1>5. CASE \E n \in 0..MaxSize : ReadBytes(n)
  BY <1>5, StreamTypes
<1>6. CASE Reopen
  BY <1>6, StreamTypes
<1>7. ASSUME NEW t \in Inputs, AssignArray(t)
      PROVE  TypeOK' /\ mem' = want'
  BY <1>2, <1>7, InputsAreBytes, ArrayCallTypes DEF InputFacts, AssignArray
<1>8. ASSUME NEW t \in Inputs, AppendArray(t)
      PROVE  TypeOK' /\ mem' = want'
  <2> DEFINE x == Write(Resize(mem, Len(mem) + Len(t)), Len(mem), t)
             w == mem \o t
  <2>1. t \in Seq(Bytes)
    BY InputsAreBytes DEF InputFacts
  <2>2. x \in Seq(Bytes) /\ x = w /\ ArrayCall(x, w)
    BY <1>1, <1>8, <2>1, AppendedIs DEF AppendArray
  <2> HIDE DEF x, w
  <2> QED
    BY <1>2, <2>2, ArrayCallTypes
<1>9. ASSUME NEW t \in Inputs, NEW o \in 0..Len(mem), InsertArray(o, t)
      PROVE  TypeOK' /\ mem' = want'
  <2> DEFINE x == Inserted(o, t)
             w == SubSeq(mem, 1, o) \o t \o SubSeq(mem, o + 1, Len(mem))
  <2>1. t \in Seq(Bytes)
    BY InputsAreBytes DEF InputFacts
  <2>2. x \in Seq(Bytes) /\ x = w /\ ArrayCall(x, w)
    BY <1>1, <1>9, <2>1, InsertedIs DEF InsertArray
  <2> HIDE DEF x, w
  <2> QED
    BY <1>2, <2>2, ArrayCallTypes
<1>10. ASSUME NEW o \in 0..Len(mem), NEW n \in 0..Len(mem) - o, EraseArray(o, n)
       PROVE  TypeOK'
  <2> DEFINE k == Len(mem) - n
             a == SubSeq(mem, 1, k)
             x == Write(mem, o, a)
             y == Resize(x, k)
             u == SubSeq(mem, 1, o)
             v == SubSeq(mem, o + n + 1, Len(mem))
  <2>1. /\ o \in Nat /\ n \in Nat /\ k \in Nat /\ k <= Len(mem) /\ o + n \in Nat
        /\ o + n <= Len(mem)
    BY <1>1
  <2>2. a \in Seq(Bytes) /\ u \in Seq(Bytes)
    <3> HIDE DEF k
    <3> QED
      BY <1>1, <2>1
  <2>3. v \in Seq(Bytes)
    BY <1>1, <2>1, SliceFacts
  <2>4. y \in Seq(Bytes)
    <3> HIDE DEF a, k
    <3> QED
      BY <1>1, <2>1, <2>2, WriteFacts, ResizeFacts
  <2>5. u \o v \in Seq(Bytes)
    <3> HIDE DEF u, v
    <3> QED
      BY <2>2, <2>3
  <2>6. (Crash("overrun") /\ Uses("erase", TRUE)) \/ ArrayCall(y, u \o v)
    BY <1>10 DEF EraseArray
  <2>7. Uses("erase", TRUE) => used' \subseteq HazardKinds
    BY UsesTypes DEF TypeOK, HazardKinds
  <2> HIDE DEF y, u, v
  <2> QED
    BY <2>4, <2>5, <2>6, <2>7, CrashTypes, ArrayCallTypes
<1>11. ASSUME NEW n \in 0..MaxSize, ResizeArray(n)
       PROVE  TypeOK' /\ (want' = None \/ mem' = want')
  <2> DEFINE x == Resize(mem, n)
             w == IF n <= Len(mem) THEN SubSeq(mem, 1, n) ELSE None
  <2>1. n \in Nat
    BY SizeAssumption
  <2>2. x \in Seq(Bytes) /\ Len(x) = n /\ \A i \in 1..n : i <= Len(mem) => x[i] = mem[i]
    BY <1>1, <2>1, ResizeFacts
  <2>3. w = None \/ (w \in Seq(Bytes) /\ x = w)
    <3>1. CASE n <= Len(mem)
      <4> DEFINE u == SubSeq(mem, 1, n)
      <4>1. u \in Seq(Bytes) /\ Len(u) = n /\ \A i \in 1..n : u[i] = mem[i]
        BY <1>1, <2>1, <3>1
      <4>2. w = u
        BY <3>1
      <4> HIDE DEF u, w, x
      <4> QED
        BY <1>1, <2>1, <2>2, <3>1, <4>1, <4>2, SameBytes
    <3>2. CASE ~(n <= Len(mem))
      BY <3>2
    <3> QED
      BY <3>1, <3>2
  <2>4. ArrayCall(x, w)
    BY <1>11 DEF ResizeArray
  <2> HIDE DEF x, w
  <2> QED
    BY <1>2, <2>2, <2>3, <2>4, ArrayCallTypes
<1>12. CASE ClearArray
  BY <1>1, <1>2, <1>12, ArrayCallTypes DEF ClearArray
<1>13. CASE SelfArgument
  <2>1. used' \subseteq HazardKinds
    BY <1>13, UsesTypes DEF SelfArgument, TypeOK, HazardKinds
  <2> QED
    BY <1>13, <2>1, CrashTypes DEF SelfArgument, Crash
<1> QED
  BY <1>3, <1>4, <1>5, <1>6, <1>7, <1>8, <1>9, <1>10, <1>11, <1>12, <1>13 DEF Next

(* Every variable keeps its type, whatever the callers do to the array.    *)
THEOREM TypeCorrect == Spec => []TypeOK
<1>1. Init => TypeOK
  BY InitStream DEF StreamInv
<1>2. TypeOK /\ [Next]_vars => TypeOK'
  <2>1. TypeOK /\ UNCHANGED vars => TypeOK'
    BY DEF TypeOK, vars
  <2> QED
    BY <2>1, ArrayStep
<1> QED
  BY <1>1, <1>2, PTL DEF Spec

(* assign(), append(), insert(), clear() and a resize() to a smaller size   *)
(* leave in the array what a vector would hold, after any other calls,     *)
(* erase() and the hazardous ones included.                                *)
THEOREM ArrayIsVector == Spec => VectorCalls
<1>1. TypeOK /\ [Next]_vars
        => [\/ fault' # "none" \/ want' = None \/ mem' = want'
            \/ \E o \in 0..Len(mem) : \E n \in 0..Len(mem) - o : EraseArray(o, n)]_vars
  BY ArrayStep
<1> QED
  BY <1>1, TypeCorrect, PTL DEF Spec, VectorCalls

-----------------------------------------------------------------------------
(* Streams whose callers keep the contract.                                *)

(* A stream that has not been read or written holds what the array's calls *)
(* put there.                                                              *)
LEMMA ArrayCallStream ==
  ASSUME StreamInv, TypeOK', used' = {}, NEW m, NEW v, ArrayCall(m, v)
  PROVE  StreamInv'
<1>1. offsetRead' = 0 /\ offsetWrite' = 0
  <2>1. ~(offsetRead > 0 \/ offsetWrite > 0)
    BY Zenon DEF ArrayCall, Uses
  <2>2. offsetRead' = offsetRead /\ offsetWrite' = offsetWrite
    BY DEF ArrayCall
  <2> QED
    BY <2>1, <2>2, InvFacts
<1>2. mem' \in Seq(Bytes) /\ sent' = mem' /\ got' = NoRead /\ fault' = "none"
  BY DEF ArrayCall, TypeOK, StreamInv
<1>3. Agree(mem', sent') /\ Inside(mem', sent', offsetRead', offsetWrite')
  BY <1>1, <1>2 DEF Agree, Inside
<1>4. ReadTrue'
  BY <1>2, NoReadFine DEF ReadTrue
<1> QED
  BY <1>2, <1>3, <1>4 DEF StreamInv

(* No step forgets that a pattern was used.                                *)
LEMMA UsedGrows ==
  ASSUME TypeOK, [Next]_vars
  PROVE  used \subseteq used'
<1>1. \A kind, pattern : Uses(kind, pattern) => used \subseteq used'
  BY DEF Uses
<1>2. \A m, v : ArrayCall(m, v) => used \subseteq used'
  BY <1>1 DEF ArrayCall
<1>3. CASE \E t \in Inputs : WriteBytes(t)
  BY <1>3 DEF WriteBytes
<1>4. CASE \E o \in 0..MaxSize : SetWriteOffset(o)
  BY <1>1, <1>4 DEF SetWriteOffset
<1>5. CASE \E n \in 0..MaxSize : ReadBytes(n)
  BY <1>1, <1>5 DEF ReadBytes
<1>6. CASE Reopen
  BY <1>6 DEF Reopen
<1>7. CASE UNCHANGED vars
  BY <1>7 DEF vars
<1> QED
  BY <1>1, <1>2, <1>3, <1>4, <1>5, <1>6, <1>7, Zenon
     DEF Next, AssignArray, AppendArray, InsertArray, EraseArray, ResizeArray,
         ClearArray, SelfArgument

LEMMA StepStream ==
  ASSUME TypeOK, ByContract => StreamInv, [Next]_vars
  PROVE  (ByContract => StreamInv)'
<1> SUFFICES ASSUME used' = {} PROVE StreamInv'
  BY DEF ByContract
<1>0. StreamInv
  BY UsedGrows DEF ByContract
<1>1. CASE UNCHANGED vars
  BY <1>0, <1>1 DEF vars, StreamInv, TypeOK, Agree, Inside, ReadTrue
<1>2. CASE Next
  <2>1. TypeOK'
    BY <1>2, ArrayStep
  <2>2. CASE \E t \in Inputs : WriteBytes(t)
    BY <1>0, <2>2, WriteStep
  <2>3. CASE \E o \in 0..MaxSize : SetWriteOffset(o)
    BY <1>0, <2>3, SeekStep
  <2>4. CASE \E n \in 0..MaxSize : ReadBytes(n)
    BY <1>0, <2>4, ReadStep
  <2>5. CASE Reopen
    BY <1>0, <2>5, ReopenStep
  <2>6. \A m, v : ArrayCall(m, v) => StreamInv'
    BY <1>0, <2>1, ArrayCallStream
  <2>7. \A kind : ~Uses(kind, TRUE)
    BY DEF Uses
  <2> QED
    BY <1>2, <2>2, <2>3, <2>4, <2>5, <2>6, <2>7, Zenon
       DEF Next, AssignArray, AppendArray, InsertArray, EraseArray, ResizeArray,
           ClearArray, SelfArgument
<1> QED
  BY <1>1, <1>2

LEMMA StreamFacts ==
  ASSUME ByContract => StreamInv
  PROVE  NoFault /\ CursorsInside /\ Kept /\ ReadsWhatWasWritten
<1>1. StreamInv => Len(sent) <= Len(mem) /\ SubSeq(mem, 1, Len(sent)) = sent
  BY AgreeKept DEF StreamInv, TypeOK
<1>2. StreamInv => offsetRead <= Len(mem) /\ offsetWrite <= Len(mem)
  BY DEF StreamInv, TypeOK, Inside, Agree
<1> QED
  BY <1>1, <1>2 DEF NoFault, CursorsInside, Kept, ReadsWhatWasWritten, ReadTrue, StreamInv

(* What callers that keep the contract rely on, at every step.             *)
LEMMA StreamAlways == Spec => [](ByContract => StreamInv)
<1>1. Init => (ByContract => StreamInv)
  BY InitStream
<1> QED
  BY <1>1, StepStream, TypeCorrect, PTL DEF Spec

(* As long as the callers keep the contract, whatever the chunk size, no    *)
(* copy of writeBytes or readBytes runs out of the buffer it grew or was    *)
(* given.                                                                   *)
THEOREM StreamNoFault == Spec => []NoFault
  BY StreamAlways, StreamFacts, PTL

(* As long as the callers keep the contract neither cursor leaves the       *)
(* buffer: setWriteOffset, readBytes, the array's calls on a fresh stream   *)
(* and opening the stream again included.                                   *)
THEOREM StreamCursors == Spec => []CursorsInside
  BY StreamAlways, StreamFacts, PTL

(* writeBytes keeps every byte that was written when it grows the buffer,   *)
(* and a write changes none but the bytes it writes.                        *)
THEOREM StreamKept == Spec => []Kept
  BY StreamAlways, StreamFacts, PTL

(* readBytes returns what was written where it read, and says so when that  *)
(* is less than it was asked for, as long as the callers keep the contract. *)
THEOREM StreamContract == Spec => []ReadsWhatWasWritten
  BY StreamAlways, StreamFacts, PTL
=============================================================================
