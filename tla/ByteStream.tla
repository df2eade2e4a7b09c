----------------------------- MODULE ByteStream -----------------------------
(***************************************************************************)
(* bytearray and bytestream (base/bytearray.cpp, base/bytestream.cpp): an  *)
(* array of _cb bytes, and a read and a write cursor on it.  The stream    *)
(* grows in chunks, so _cb is its capacity and only the bytes before the   *)
(* write cursor are its contents; the array's own calls do not know the    *)
(* cursors.                                                                *)
(***************************************************************************)
EXTENDS Integers, Sequences

CONSTANTS
  Byte,      \* the bytes that are written
  Uninit,    \* a byte malloc left uninitialised
  Inputs,    \* byte sequences the callers write or assign
  Chunk,     \* the stream grows to a multiple of this (256 in the code)
  MaxSize,   \* bound on _cb and on the cursors
  None       \* "nothing to compare with"

VARIABLES
  mem,          \* the _cb bytes at _p
  offsetRead,
  offsetWrite,
  sent,         \* the bytes put into the stream so far (for properties)
  got,          \* what the last readBytes returned (for properties)
  want,         \* what a std::vector would hold after the last array call
  used,         \* the hazardous patterns the callers have used (for properties)
  fault         \* how the program died, or "none"

vars == <<mem, offsetRead, offsetWrite, sent, got, want, used, fault>>

(* Reading beyond what was written, moving the write cursor there, calling *)
(* bytearray's functions on a stream whose cursors have moved, erasing     *)
(* less than the bytes before the place, giving an array itself.           *)
HazardKinds == {"read_ahead", "seek_past", "array_calls", "erase", "self"}

ASSUME ByteAssumption    == Uninit \notin Byte
ASSUME InputsAssumption  == Inputs \subseteq Seq(Byte)
ASSUME SizeAssumption    == Chunk \in Nat \ {0} /\ MaxSize \in Nat

Bytes == Byte \cup {Uninit}

NoRead == [ok |-> TRUE, from |-> 0, asked |-> 0, bytes |-> <<>>]

Uses(kind, pattern) == used' = IF pattern THEN used \cup {kind} ELSE used

-----------------------------------------------------------------------------
(* realloc() and memcpy().                                                 *)

Resize(d, n) == [i \in 1..n |-> IF i <= Len(d) THEN d[i] ELSE Uninit]

Write(d, at, bs) ==
  [i \in 1..Len(d) |-> IF at < i /\ i <= at + Len(bs) THEN bs[i - at] ELSE d[i]]

Crash(kind) ==
  /\ fault' = kind
  /\ UNCHANGED <<mem, offsetRead, offsetWrite, sent, got, want>>

-----------------------------------------------------------------------------
(* The stream.                                                             *)

(* bytestream(), bytestream(cb), bytestream(bytearray&).                   *)
Init ==
  /\ \/ mem \in Inputs \cup {<<>>} /\ sent = mem
     \/ \E n \in 1..MaxSize : mem = [i \in 1..n |-> Uninit] /\ sent = <<>>
  /\ offsetRead = 0
  /\ offsetWrite = 0
  /\ got = NoRead
  /\ want = None
  /\ used = {}
  /\ fault = "none"

(* Bug: a new size that is not rounded up.                                 *)
GrownDown(n) == (n \div Chunk) * Chunk

Grown(n) == ((n + Chunk - 1) \div Chunk) * Chunk

(* malloc(), memcpy(), free().                                             *)
Enlarged(n) == Resize(mem, n)

(* The unsigned subtraction _cb - offsetWrite wraps when the cursor is     *)
(* past the end; there is then always "room".                              *)
Room(cb) == offsetWrite > Len(mem) \/ cb <= Len(mem) - offsetWrite

WriteBytes(t) ==
  LET new  == IF Room(Len(t)) THEN mem ELSE Enlarged(Grown(offsetWrite + Len(t)))
      last == offsetWrite + Len(t)
  IN
  /\ Len(new) <= MaxSize
  /\ \/ last > Len(new) /\ t # <<>> /\ Crash("overrun")
     \/ /\ last <= Len(new) \/ t = <<>>
        /\ mem' = Write(new, offsetWrite, t)
        /\ offsetWrite' = last
        /\ sent' = Write(Resize(sent, IF last > Len(sent) THEN last ELSE Len(sent)),
                         offsetWrite, t)
        /\ got' = NoRead /\ want' = None
        /\ UNCHANGED <<offsetRead, fault>>
  /\ UNCHANGED used

SetWriteOffset(o) ==
  /\ Uses("seek_past", o > Len(sent))
  /\ offsetWrite' = o
  /\ got' = NoRead /\ want' = None
  /\ UNCHANGED <<mem, offsetRead, sent, fault>>

(* MIN(cb, _cb - offsetRead), in unsigned arithmetic too.                  *)
Taken(n) ==
  IF offsetRead > Len(mem) \/ n <= Len(mem) - offsetRead THEN n ELSE Len(mem) - offsetRead

(* Bug: the cursor advances by what was asked for, not by what was there.  *)
AdvancedAsked(n) == offsetRead + n

Advanced(n) == offsetRead + Taken(n)

(* Bug: a short read that is not reported.                                 *)
CompleteAlways(n) == TRUE

Complete(n) == Taken(n) = n

ReadBytes(n) ==
  LET end == offsetRead + Taken(n) IN
  /\ Uses("read_ahead", offsetRead + n > Len(sent) /\ Len(mem) > Len(sent))
  /\ \/ end > Len(mem) /\ n > 0 /\ Crash("overrun")
     \/ /\ end <= Len(mem) \/ n = 0
        /\ offsetRead' = Advanced(n)
        /\ got' = [ok |-> Complete(n), from |-> offsetRead, asked |-> n,
                   bytes |-> SubSeq(mem, offsetRead + 1, end)]
        /\ want' = None
        /\ UNCHANGED <<mem, offsetWrite, sent, fault>>

(* bytestream(s.getWrittenBytes()): a stream of what was written, to read. *)
Reopen ==
  /\ \/ offsetWrite > Len(mem) /\ Crash("overrun")
     \/ /\ offsetWrite <= Len(mem)
        /\ mem' = SubSeq(mem, 1, offsetWrite)
        /\ sent' = Resize(sent, offsetWrite)
        /\ offsetRead' = 0 /\ offsetWrite' = 0
        /\ got' = NoRead /\ want' = None
        /\ UNCHANGED fault
  /\ UNCHANGED used

-----------------------------------------------------------------------------
(* The array: every call names what std::vector would make of it.  Before  *)
(* a stream is read or written, this is how it gets its contents.          *)

ArrayCall(m, v) ==
  /\ mem' = m /\ sent' = m
  /\ want' = v
  /\ got' = NoRead
  /\ Uses("array_calls", offsetRead > 0 \/ offsetWrite > 0)
  /\ UNCHANGED <<offsetRead, offsetWrite, fault>>

(* assign(), operator= from another array.                                 *)
AssignArray(t) == ArrayCall(t, t)

AppendArray(t) ==
  /\ Len(mem) + Len(t) <= MaxSize
  /\ ArrayCall(Write(Resize(mem, Len(mem) + Len(t)), Len(mem), t), mem \o t)

(* Bug: the bytes are copied in without moving the tail.                   *)
InsertedOver(o, t) == Write(Resize(mem, Len(mem) + Len(t)), o, t)

Inserted(o, t) ==
  Write(Write(Resize(mem, Len(mem) + Len(t)), o + Len(t), SubSeq(mem, o + 1, Len(mem))), o, t)

InsertArray(o, t) ==
  /\ Len(mem) + Len(t) <= MaxSize
  /\ ArrayCall(Inserted(o, t), SubSeq(mem, 1, o) \o t \o SubSeq(mem, o + 1, Len(mem)))

(* erase(o, n) moves the head of the array to o, not the tail.             *)
EraseArray(o, n) ==
  \/ o > n /\ Crash("overrun") /\ Uses("erase", TRUE)
  \/ /\ o <= n
     /\ ArrayCall(Resize(Write(mem, o, SubSeq(mem, 1, Len(mem) - n)), Len(mem) - n),
                  SubSeq(mem, 1, o) \o SubSeq(mem, o + n + 1, Len(mem)))

(* The bytes resize() adds are what realloc() found there; a vector's are  *)
(* zero, so that only a smaller array can be compared with one.            *)
ResizeArray(n) ==
  ArrayCall(Resize(mem, n), IF n <= Len(mem) THEN SubSeq(mem, 1, n) ELSE None)

(* clear(), detach().                                                      *)
ClearArray == ArrayCall(<<>>, <<>>)

(* a = a, a.append(a), a.insert(o, a): the argument's bytes are read after *)
(* free() or realloc().                                                    *)
SelfArgument ==
  /\ Len(mem) > 0
  /\ Crash("use_after_free") /\ Uses("self", TRUE)

-----------------------------------------------------------------------------

Next ==
  /\ fault = "none"
  /\ \/ \E t \in Inputs : WriteBytes(t)
     \/ \E o \in 0..MaxSize : SetWriteOffset(o)
     \/ \E n \in 0..MaxSize : ReadBytes(n)
     \/ Reopen
     \/ \E t \in Inputs : AssignArray(t) \/ AppendArray(t)
     \/ \E t \in Inputs : \E o \in 0..Len(mem) : InsertArray(o, t)
     \/ \E o \in 0..Len(mem) : \E n \in 0..Len(mem) - o : EraseArray(o, n)
     \/ \E n \in 0..MaxSize : ResizeArray(n)
     \/ ClearArray
     \/ SelfArgument

Spec == Init /\ [][Next]_vars

-----------------------------------------------------------------------------
(* Properties.                                                             *)

(* Every variable has its type.                                            *)
TypeOK ==
  /\ mem \in Seq(Bytes) /\ sent \in Seq(Bytes)
  /\ offsetRead \in Nat /\ offsetWrite \in Nat
  /\ got \in [ok : BOOLEAN, from : Nat, asked : Nat, bytes : Seq(Bytes)]
  /\ want \in Seq(Bytes) \cup {None}
  /\ used \subseteq HazardKinds
  /\ fault \in {"none", "overrun", "use_after_free"}

(* The callers have kept away from the hazardous patterns so far.          *)
ByContract == used = {}

(* No call of callers that keep the contract reads or writes outside the   *)
(* buffer or in freed memory, growth at a chunk's end included.            *)
NoFault == ByContract => fault = "none"

(* Both cursors stay inside the buffer under the contract, so that the     *)
(* unsigned subtractions _cb - offsetWrite and _cb - offsetRead never      *)
(* wrap.                                                                   *)
CursorsInside == ByContract => offsetRead <= Len(mem) /\ offsetWrite <= Len(mem)

(* Whatever the stream does when it grows, what was put into it is there.  *)
Kept == ByContract => Len(sent) <= Len(mem) /\ SubSeq(mem, 1, Len(sent)) = sent

(* Under the contract a read hands out the bytes that were written at the  *)
(* place it read from, as many as were asked for, or all that are left and *)
(* then says so.                                                           *)
ReadsWhatWasWritten ==
  ByContract =>
    /\ got.bytes = SubSeq(sent, got.from + 1, got.from + Len(got.bytes))
    /\ IF got.ok THEN Len(got.bytes) = got.asked
       ELSE got.from + Len(got.bytes) = Len(sent) /\ Len(got.bytes) < got.asked

(* "An alternative to std::vector<uint8_t>" (bytearray.h): assign(),       *)
(* append(), insert(), clear() and a resize() to a smaller size leave in   *)
(* the array what a vector would hold, whatever was done to it before,     *)
(* hazardous calls included.  Not so erase(), a resize() that adds bytes   *)
(* and calls that fault on being given the array itself.                   *)
VectorCalls ==
  [][\/ fault' # "none"
     \/ want' = None
     \/ mem' = want'
     \/ \E o \in 0..Len(mem) : \E n \in 0..Len(mem) - o : EraseArray(o, n)]_vars
=============================================================================
