-------------------------- MODULE ValStreamProofs --------------------------
(***************************************************************************)
(* Proofs about ValStream, for vals of any size and depth, any number of    *)
(* them and a stream cut anywhere.                                          *)
(***************************************************************************)
EXTENDS ValStream, WellFoundedInduction, SequenceTheorems, TLAPS

-----------------------------------------------------------------------------
(* Induction.                                                               *)

(* Every set of natural numbers has a least member.                         *)
LEMMA LeastNat ==
  ASSUME NEW T \in SUBSET Nat, T # {}
  PROVE  \E m \in T : \A n \in T : m <= n
<1> DEFINE R == OpToRel(<, Nat)
<1>1. IsWellFoundedOn(R, Nat)
  BY NatLessThanWellFounded
<1>2. \A x, y \in Nat : <<x, y>> \in R <=> x < y
  BY DEF OpToRel
<1> HIDE DEF R
<1>3. PICK m \in T : \A n \in T : ~(<<n, m>> \in R)
  BY <1>1, WFMin
<1>4. \A n \in T : ~(n < m)
  BY <1>2, <1>3
<1>5. \A n \in T : m <= n
  BY <1>4
<1> QED
  BY <1>5

(* Induction, for a set rather than a predicate, up to a bound.             *)
LEMMA Induction ==
  ASSUME NEW N \in Nat, NEW S, 0 \in S,
         \A n \in 0..N : n \in S /\ n < N => n + 1 \in S
  PROVE  \A n \in 0..N : n \in S
<1> DEFINE T == {n \in 0..N : n \notin S}
<1> SUFFICES ASSUME T # {} PROVE FALSE
  OBVIOUS
<1>1. PICK m \in T : \A n \in T : m <= n
  <2>1. T \in SUBSET Nat
    OBVIOUS
  <2> HIDE DEF T
  <2> QED
    BY <2>1, LeastNat
<1>2. m \in 0..N /\ m # 0
  BY <1>1
<1>3. m - 1 \in 0..N /\ m - 1 \notin T /\ m - 1 < N
  BY <1>1, <1>2
<1>4. m - 1 + 1 = m
  BY <1>2
<1> QED
  BY <1>1, <1>3, <1>4

-----------------------------------------------------------------------------
(* The recursive functions are what their definitions say.                  *)

(* Sequences one after the other.                                            *)
LEMMA JoinsIs ==
  ASSUME NEW ss, Len(ss) \in Nat
  PROVE  /\ Joins(ss)[0] = <<>>
         /\ \A i \in 0..Len(ss) : i # 0 => Joins(ss)[i] = Joins(ss)[i - 1] \o ss[i]
<1> DEFINE N == Len(ss)
           first == <<>>
           Step(i, x) == x \o ss[i]
           Def(f) == [i \in 0..N |-> IF i = 0 THEN first ELSE Step(i, f[i - 1])]
           S == {n \in 0..N : \E g : \A i \in 0..n :
                   g[i] = IF i = 0 THEN first ELSE Step(i, g[i - 1])}
<1>1. N \in Nat
  OBVIOUS
<1> HIDE DEF N, first, Step
<1>2. 0 \in S
  <2> DEFINE g == [i \in {0} |-> first]
  <2>1. \A i \in 0..0 : g[i] = IF i = 0 THEN first ELSE Step(i, g[i - 1])
    OBVIOUS
  <2>2. 0 \in 0..N
    BY <1>1
  <2> HIDE DEF g
  <2> QED
    BY <2>1, <2>2
<1>3. ASSUME NEW n \in 0..N, n \in S, n < N
      PROVE  n + 1 \in S
  <2>1. PICK g : \A i \in 0..n : g[i] = IF i = 0 THEN first ELSE Step(i, g[i - 1])
    BY <1>3
  <2> DEFINE h == [i \in 0..n + 1 |-> IF i <= n THEN g[i] ELSE Step(i, g[i - 1])]
  <2>2. ASSUME NEW i \in 0..n + 1
        PROVE  h[i] = IF i = 0 THEN first ELSE Step(i, h[i - 1])
    <3>1. i # 0 => h[i - 1] = g[i - 1]
      BY <1>1
    <3>2. h[i] = IF i <= n THEN g[i] ELSE Step(i, g[i - 1])
      OBVIOUS
    <3> HIDE DEF h
    <3> QED
      BY <1>1, <2>1, <3>1, <3>2
  <2>3. n + 1 \in 0..N
    BY <1>1, <1>3
  <2> HIDE DEF h
  <2> QED
    BY <2>2, <2>3
<1>4. N \in S
  <2>1. \A n \in 0..N : n \in S
    <3> HIDE DEF S
    <3> QED
      BY <1>1, <1>2, <1>3, Induction
  <2>2. N \in 0..N
    BY <1>1
  <2> QED
    BY <2>1, <2>2
<1>5. \E f : f = Def(f)
  <2>1. PICK g : \A i \in 0..N : g[i] = IF i = 0 THEN first ELSE Step(i, g[i - 1])
    BY <1>4
  <2> DEFINE f == [i \in 0..N |-> g[i]]
  <2>2. f = Def(f)
    <3>1. \A i \in 0..N : i # 0 => i - 1 \in 0..N
      BY <1>1
    <3> QED
      BY <2>1, <3>1
  <2> HIDE DEF f, Def
  <2> QED
    BY <2>2
<1>6. Joins(ss) = CHOOSE f : f = Def(f)
  BY DEF Joins, N, first, Step
<1>7. Joins(ss) = Def(Joins(ss))
  <2> HIDE DEF Def
  <2> QED
    BY <1>5, <1>6, Zenon
<1> DEFINE fn == Joins(ss)
<1> HIDE DEF fn
<1>8. fn = Def(fn)
  BY <1>7 DEF fn
<1>9. \A i \in 0..N : fn[i] = IF i = 0 THEN first ELSE Step(i, fn[i - 1])
  BY <1>8
<1>10. fn[0] = first /\ \A i \in 0..N : i # 0 => fn[i] = Step(i, fn[i - 1])
  BY <1>1, <1>9
<1>11. Joins(ss)[0] = <<>>
  BY <1>10 DEF fn, first
<1>12. ASSUME NEW i \in 0..Len(ss), i # 0
       PROVE  Joins(ss)[i] = Joins(ss)[i - 1] \o ss[i]
  BY <1>10, <1>12 DEF fn, N, Step
<1> QED
  BY <1>11, <1>12

Wrapped(leaves, inside) ==
  leaves \cup [type : {"ARRAY"}, data : Seq(inside)]
         \cup [type : {"MAP"}, data : Seq(Text \X inside)]

(* The vals over some leaves, by their depth.                                *)
LEMMA NestedIs ==
  ASSUME NEW leaves
  PROVE  /\ Nested(leaves)[0] = {}
         /\ \A i \in 0..MaxNest : i # 0 => Nested(leaves)[i] = Wrapped(leaves, Nested(leaves)[i - 1])
<1> DEFINE N == MaxNest
           first == {}
           Step(i, x) == Wrapped(leaves, x)
           Def(f) == [i \in 0..N |-> IF i = 0 THEN first ELSE Step(i, f[i - 1])]
           S == {n \in 0..N : \E g : \A i \in 0..n :
                   g[i] = IF i = 0 THEN first ELSE Step(i, g[i - 1])}
<1>1. N \in Nat
  BY ValsAssumption
<1> HIDE DEF N, first, Step
<1>2. 0 \in S
  <2> DEFINE g == [i \in {0} |-> first]
  <2>1. \A i \in 0..0 : g[i] = IF i = 0 THEN first ELSE Step(i, g[i - 1])
    OBVIOUS
  <2>2. 0 \in 0..N
    BY <1>1
  <2> HIDE DEF g
  <2> QED
    BY <2>1, <2>2
<1>3. ASSUME NEW n \in 0..N, n \in S, n < N
      PROVE  n + 1 \in S
  <2>1. PICK g : \A i \in 0..n : g[i] = IF i = 0 THEN first ELSE Step(i, g[i - 1])
    BY <1>3
  <2> DEFINE h == [i \in 0..n + 1 |-> IF i <= n THEN g[i] ELSE Step(i, g[i - 1])]
  <2>2. ASSUME NEW i \in 0..n + 1
        PROVE  h[i] = IF i = 0 THEN first ELSE Step(i, h[i - 1])
    <3>1. i # 0 => h[i - 1] = g[i - 1]
      BY <1>1
    <3>2. h[i] = IF i <= n THEN g[i] ELSE Step(i, g[i - 1])
      OBVIOUS
    <3> HIDE DEF h
    <3> QED
      BY <1>1, <2>1, <3>1, <3>2
  <2>3. n + 1 \in 0..N
    BY <1>1, <1>3
  <2> HIDE DEF h
  <2> QED
    BY <2>2, <2>3
<1>4. N \in S
  <2>1. \A n \in 0..N : n \in S
    <3> HIDE DEF S
    <3> QED
      BY <1>1, <1>2, <1>3, Induction
  <2>2. N \in 0..N
    BY <1>1
  <2> QED
    BY <2>1, <2>2
<1>5. \E f : f = Def(f)
  <2>1. PICK g : \A i \in 0..N : g[i] = IF i = 0 THEN first ELSE Step(i, g[i - 1])
    BY <1>4
  <2> DEFINE f == [i \in 0..N |-> g[i]]
  <2>2. f = Def(f)
    <3>1. \A i \in 0..N : i # 0 => i - 1 \in 0..N
      BY <1>1
    <3> QED
      BY <2>1, <3>1
  <2> HIDE DEF f, Def
  <2> QED
    BY <2>2
<1>6. Nested(leaves) = CHOOSE f : f = Def(f)
  BY DEF Nested, Wrapped, N, first, Step
<1>7. Nested(leaves) = Def(Nested(leaves))
  <2> HIDE DEF Def
  <2> QED
    BY <1>5, <1>6, Zenon
<1> DEFINE fn == Nested(leaves)
<1> HIDE DEF fn
<1>8. fn = Def(fn)
  BY <1>7 DEF fn
<1>9. \A i \in 0..N : fn[i] = IF i = 0 THEN first ELSE Step(i, fn[i - 1])
  BY <1>8
<1>10. fn[0] = first /\ \A i \in 0..N : i # 0 => fn[i] = Step(i, fn[i - 1])
  BY <1>1, <1>9
<1>11. Nested(leaves)[0] = {}
  BY <1>10 DEF fn, first
<1>12. ASSUME NEW i \in 0..MaxNest, i # 0
       PROVE  Nested(leaves)[i] = Wrapped(leaves, Nested(leaves)[i - 1])
  BY <1>10, <1>12 DEF fn, N, Step
<1> QED
  BY <1>11, <1>12

(* What write(const val&) makes of them.                                     *)
LEMMA EncodingIs ==
         /\ Encoding[0] = <<>>
         /\ \A i \in 0..MaxNest : i # 0 => Encoding[i] = [v \in AnyVal[i] |-> Word(Types[v.type]) \o EncodeBody(Encoding[i - 1], v)]
<1> DEFINE N == MaxNest
           first == <<>>
           Step(i, x) == [v \in AnyVal[i] |-> Word(Types[v.type]) \o EncodeBody(x, v)]
           Def(f) == [i \in 0..N |-> IF i = 0 THEN first ELSE Step(i, f[i - 1])]
           S == {n \in 0..N : \E g : \A i \in 0..n :
                   g[i] = IF i = 0 THEN first ELSE Step(i, g[i - 1])}
<1>1. N \in Nat
  BY ValsAssumption
<1> HIDE DEF N, first, Step
<1>2. 0 \in S
  <2> DEFINE g == [i \in {0} |-> first]
  <2>1. \A i \in 0..0 : g[i] = IF i = 0 THEN first ELSE Step(i, g[i - 1])
    OBVIOUS
  <2>2. 0 \in 0..N
    BY <1>1
  <2> HIDE DEF g
  <2> QED
    BY <2>1, <2>2
<1>3. ASSUME NEW n \in 0..N, n \in S, n < N
      PROVE  n + 1 \in S
  <2>1. PICK g : \A i \in 0..n : g[i] = IF i = 0 THEN first ELSE Step(i, g[i - 1])
    BY <1>3
  <2> DEFINE h == [i \in 0..n + 1 |-> IF i <= n THEN g[i] ELSE Step(i, g[i - 1])]
  <2>2. ASSUME NEW i \in 0..n + 1
        PROVE  h[i] = IF i = 0 THEN first ELSE Step(i, h[i - 1])
    <3>1. i # 0 => h[i - 1] = g[i - 1]
      BY <1>1
    <3>2. h[i] = IF i <= n THEN g[i] ELSE Step(i, g[i - 1])
      OBVIOUS
    <3> HIDE DEF h
    <3> QED
      BY <1>1, <2>1, <3>1, <3>2
  <2>3. n + 1 \in 0..N
    BY <1>1, <1>3
  <2> HIDE DEF h
  <2> QED
    BY <2>2, <2>3
<1>4. N \in S
  <2>1. \A n \in 0..N : n \in S
    <3> HIDE DEF S
    <3> QED
      BY <1>1, <1>2, <1>3, Induction
  <2>2. N \in 0..N
    BY <1>1
  <2> QED
    BY <2>1, <2>2
<1>5. \E f : f = Def(f)
  <2>1. PICK g : \A i \in 0..N : g[i] = IF i = 0 THEN first ELSE Step(i, g[i - 1])
    BY <1>4
  <2> DEFINE f == [i \in 0..N |-> g[i]]
  <2>2. f = Def(f)
    <3>1. \A i \in 0..N : i # 0 => i - 1 \in 0..N
      BY <1>1
    <3> QED
      BY <2>1, <3>1
  <2> HIDE DEF f, Def
  <2> QED
    BY <2>2
<1>6. Encoding = CHOOSE f : f = Def(f)
  BY DEF Encoding, N, first, Step
<1>7. Encoding = Def(Encoding)
  <2> HIDE DEF Def
  <2> QED
    BY <1>5, <1>6, Zenon
<1> DEFINE fn == Encoding
<1> HIDE DEF fn
<1>8. fn = Def(fn)
  BY <1>7 DEF fn
<1>9. \A i \in 0..N : fn[i] = IF i = 0 THEN first ELSE Step(i, fn[i - 1])
  BY <1>8
<1>10. fn[0] = first /\ \A i \in 0..N : i # 0 => fn[i] = Step(i, fn[i - 1])
  BY <1>1, <1>9
<1>11. Encoding[0] = <<>>
  BY <1>10 DEF fn, first
<1>12. ASSUME NEW i \in 0..MaxNest, i # 0
       PROVE  Encoding[i] = [v \in AnyVal[i] |-> Word(Types[v.type]) \o EncodeBody(Encoding[i - 1], v)]
  BY <1>10, <1>12 DEF fn, N, Step
<1> QED
  BY <1>11, <1>12

(* What read(val&) makes of a stream.                                        *)
LEMMA DecodingIs ==
  ASSUME NEW s
  PROVE  /\ Decoding(s)[0] = [o \in 0..Len(s) |-> Failed(o)]
         /\ \A i \in 0..MaxNest : i # 0 => Decoding(s)[i] = [o \in 0..Len(s) |-> DecodeVal(Decoding(s)[i - 1], s, o)]
<1> DEFINE N == MaxNest
           first == [o \in 0..Len(s) |-> Failed(o)]
           Step(i, x) == [o \in 0..Len(s) |-> DecodeVal(x, s, o)]
           Def(f) == [i \in 0..N |-> IF i = 0 THEN first ELSE Step(i, f[i - 1])]
           S == {n \in 0..N : \E g : \A i \in 0..n :
                   g[i] = IF i = 0 THEN first ELSE Step(i, g[i - 1])}
<1>1. N \in Nat
  BY ValsAssumption
<1> HIDE DEF N, first, Step
<1>2. 0 \in S
  <2> DEFINE g == [i \in {0} |-> first]
  <2>1. \A i \in 0..0 : g[i] = IF i = 0 THEN first ELSE Step(i, g[i - 1])
    OBVIOUS
  <2>2. 0 \in 0..N
    BY <1>1
  <2> HIDE DEF g
  <2> QED
    BY <2>1, <2>2
<1>3. ASSUME NEW n \in 0..N, n \in S, n < N
      PROVE  n + 1 \in S
  <2>1. PICK g : \A i \in 0..n : g[i] = IF i = 0 THEN first ELSE Step(i, g[i - 1])
    BY <1>3
  <2> DEFINE h == [i \in 0..n + 1 |-> IF i <= n THEN g[i] ELSE Step(i, g[i - 1])]
  <2>2. ASSUME NEW i \in 0..n + 1
        PROVE  h[i] = IF i = 0 THEN first ELSE Step(i, h[i - 1])
    <3>1. i # 0 => h[i - 1] = g[i - 1]
      BY <1>1
    <3>2. h[i] = IF i <= n THEN g[i] ELSE Step(i, g[i - 1])
      OBVIOUS
    <3> HIDE DEF h
    <3> QED
      BY <1>1, <2>1, <3>1, <3>2
  <2>3. n + 1 \in 0..N
    BY <1>1, <1>3
  <2> HIDE DEF h
  <2> QED
    BY <2>2, <2>3
<1>4. N \in S
  <2>1. \A n \in 0..N : n \in S
    <3> HIDE DEF S
    <3> QED
      BY <1>1, <1>2, <1>3, Induction
  <2>2. N \in 0..N
    BY <1>1
  <2> QED
    BY <2>1, <2>2
<1>5. \E f : f = Def(f)
  <2>1. PICK g : \A i \in 0..N : g[i] = IF i = 0 THEN first ELSE Step(i, g[i - 1])
    BY <1>4
  <2> DEFINE f == [i \in 0..N |-> g[i]]
  <2>2. f = Def(f)
    <3>1. \A i \in 0..N : i # 0 => i - 1 \in 0..N
      BY <1>1
    <3> QED
      BY <2>1, <3>1
  <2> HIDE DEF f, Def
  <2> QED
    BY <2>2
<1>6. Decoding(s) = CHOOSE f : f = Def(f)
  BY DEF Decoding, N, first, Step
<1>7. Decoding(s) = Def(Decoding(s))
  <2> HIDE DEF Def
  <2> QED
    BY <1>5, <1>6, Zenon
<1> DEFINE fn == Decoding(s)
<1> HIDE DEF fn
<1>8. fn = Def(fn)
  BY <1>7 DEF fn
<1>9. \A i \in 0..N : fn[i] = IF i = 0 THEN first ELSE Step(i, fn[i - 1])
  BY <1>8
<1>10. fn[0] = first /\ \A i \in 0..N : i # 0 => fn[i] = Step(i, fn[i - 1])
  BY <1>1, <1>9
<1>11. Decoding(s)[0] = [o \in 0..Len(s) |-> Failed(o)]
  BY <1>10 DEF fn, first
<1>12. ASSUME NEW i \in 0..MaxNest, i # 0
       PROVE  Decoding(s)[i] = [o \in 0..Len(s) |-> DecodeVal(Decoding(s)[i - 1], s, o)]
  BY <1>10, <1>12 DEF fn, N, Step
<1> QED
  BY <1>11, <1>12

Further(item, p) == IF p.ok THEN AfterItem(p, item[p.at]) ELSE p

(* What the loops over elements and entries make of them.                    *)
LEMMA ItemsIs ==
  ASSUME NEW item, NEW o, NEW num \in Nat
  PROVE  /\ Items(item, o, num)[0] = Result(TRUE, <<>>, o)
         /\ \A i \in 0..num : i # 0 => Items(item, o, num)[i] = Further(item, Items(item, o, num)[i - 1])
<1> DEFINE N == num
           first == Result(TRUE, <<>>, o)
           Step(i, x) == Further(item, x)
           Def(f) == [i \in 0..N |-> IF i = 0 THEN first ELSE Step(i, f[i - 1])]
           S == {n \in 0..N : \E g : \A i \in 0..n :
                   g[i] = IF i = 0 THEN first ELSE Step(i, g[i - 1])}
<1>1. N \in Nat
  OBVIOUS
<1> HIDE DEF N, first, Step
<1>2. 0 \in S
  <2> DEFINE g == [i \in {0} |-> first]
  <2>1. \A i \in 0..0 : g[i] = IF i = 0 THEN first ELSE Step(i, g[i - 1])
    OBVIOUS
  <2>2. 0 \in 0..N
    BY <1>1
  <2> HIDE DEF g
  <2> QED
    BY <2>1, <2>2
<1>3. ASSUME NEW n \in 0..N, n \in S, n < N
      PROVE  n + 1 \in S
  <2>1. PICK g : \A i \in 0..n : g[i] = IF i = 0 THEN first ELSE Step(i, g[i - 1])
    BY <1>3
  <2> DEFINE h == [i \in 0..n + 1 |-> IF i <= n THEN g[i] ELSE Step(i, g[i - 1])]
  <2>2. ASSUME NEW i \in 0..n + 1
        PROVE  h[i] = IF i = 0 THEN first ELSE Step(i, h[i - 1])
    <3>1. i # 0 => h[i - 1] = g[i - 1]
      BY <1>1
    <3>2. h[i] = IF i <= n THEN g[i] ELSE Step(i, g[i - 1])
      OBVIOUS
    <3> HIDE DEF h
    <3> QED
      BY <1>1, <2>1, <3>1, <3>2
  <2>3. n + 1 \in 0..N
    BY <1>1, <1>3
  <2> HIDE DEF h
  <2> QED
    BY <2>2, <2>3
<1>4. N \in S
  <2>1. \A n \in 0..N : n \in S
    <3> HIDE DEF S
    <3> QED
      BY <1>1, <1>2, <1>3, Induction
  <2>2. N \in 0..N
    BY <1>1
  <2> QED
    BY <2>1, <2>2
<1>5. \E f : f = Def(f)
  <2>1. PICK g : \A i \in 0..N : g[i] = IF i = 0 THEN first ELSE Step(i, g[i - 1])
    BY <1>4
  <2> DEFINE f == [i \in 0..N |-> g[i]]
  <2>2. f = Def(f)
    <3>1. \A i \in 0..N : i # 0 => i - 1 \in 0..N
      BY <1>1
    <3> QED
      BY <2>1, <3>1
  <2> HIDE DEF f, Def
  <2> QED
    BY <2>2
<1>6. Items(item, o, num) = CHOOSE f : f = Def(f)
  BY DEF Items, Further, N, first, Step
<1>7. Items(item, o, num) = Def(Items(item, o, num))
  <2> HIDE DEF Def
  <2> QED
    BY <1>5, <1>6, Zenon
<1> DEFINE fn == Items(item, o, num)
<1> HIDE DEF fn
<1>8. fn = Def(fn)
  BY <1>7 DEF fn
<1>9. \A i \in 0..N : fn[i] = IF i = 0 THEN first ELSE Step(i, fn[i - 1])
  BY <1>8
<1>10. fn[0] = first /\ \A i \in 0..N : i # 0 => fn[i] = Step(i, fn[i - 1])
  BY <1>1, <1>9
<1>11. Items(item, o, num)[0] = Result(TRUE, <<>>, o)
  BY <1>10 DEF fn, first
<1>12. ASSUME NEW i \in 0..num, i # 0
       PROVE  Items(item, o, num)[i] = Further(item, Items(item, o, num)[i - 1])
  BY <1>10, <1>12 DEF fn, N, Step
<1> QED
  BY <1>11, <1>12

-----------------------------------------------------------------------------
(* Streams and what stands in them.                                         *)

(* e stands in s from o on, as far as s goes.                               *)
At(s, o, e) == \A i \in 1..Len(e) : o + i <= Len(s) => s[o + i] = e[i]

Fits(s, o, e) == o + Len(e) <= Len(s)

LEMMA ConcatText ==
  ASSUME NEW t \in Text, NEW u \in Text
  PROVE  /\ t \o u \in Text /\ Len(t \o u) = Len(t) + Len(u)
         /\ Len(t) \in Nat /\ Len(u) \in Nat
         /\ \A i \in 1..Len(t) : (t \o u)[i] = t[i]
         /\ \A i \in 1..Len(u) : (t \o u)[Len(t) + i] = u[i]
<1>1. /\ t \in Seq(Nat) /\ u \in Seq(Nat) /\ Len(t) \in Nat /\ Len(u) \in Nat
  BY DEF Text
<1>2. /\ t \o u \in Seq(Nat) /\ Len(t \o u) = Len(t) + Len(u)
      /\ \A i \in 1..Len(t) + Len(u) : (t \o u)[i] = IF i <= Len(t) THEN t[i] ELSE u[i - Len(t)]
  BY <1>1, ConcatProperties
<1>3. \A i \in 1..Len(t) : (t \o u)[i] = t[i]
  BY <1>1, <1>2
<1>4. ASSUME NEW i \in 1..Len(u)
      PROVE  (t \o u)[Len(t) + i] = u[i]
  <2>1. Len(t) + i \in 1..Len(t) + Len(u) /\ ~(Len(t) + i <= Len(t)) /\ Len(t) + i - Len(t) = i
    BY <1>1
  <2> QED
    BY <1>2, <2>1
<1> QED
  BY <1>1, <1>2, <1>3, <1>4 DEF Text

(* One thing after another.                                                 *)
LEMMA AtConcat ==
  ASSUME NEW s \in Text, NEW o \in Nat, NEW t \in Text, NEW u \in Text, At(s, o, t \o u)
  PROVE  At(s, o, t) /\ At(s, o + Len(t), u)
<1> DEFINE w == t \o u
<1>1. /\ Len(w) = Len(t) + Len(u) /\ Len(t) \in Nat /\ Len(u) \in Nat /\ Len(s) \in Nat
      /\ \A i \in 1..Len(t) : w[i] = t[i]
      /\ \A i \in 1..Len(u) : w[Len(t) + i] = u[i]
  BY ConcatText DEF Text
<1>2. At(s, o, w)
  OBVIOUS
<1> HIDE DEF w
<1>3. ASSUME NEW i \in 1..Len(t), o + i <= Len(s)
      PROVE  s[o + i] = t[i]
  BY <1>1, <1>2, <1>3 DEF At
<1>4. ASSUME NEW i \in 1..Len(u), o + Len(t) + i <= Len(s)
      PROVE  s[o + Len(t) + i] = u[i]
  <2>1. Len(t) + i \in 1..Len(w) /\ o + (Len(t) + i) = o + Len(t) + i
    BY <1>1
  <2>2. s[o + (Len(t) + i)] = w[Len(t) + i]
    BY <1>2, <1>4, <2>1 DEF At
  <2> QED
    BY <1>1, <2>1, <2>2
<1> QED
  BY <1>3, <1>4 DEF At

LEMMA WordText ==
  ASSUME NEW n \in Nat
  PROVE  Word(n) \in Text /\ Len(Word(n)) = 2 /\ Word(n)[1] = n /\ Word(n)[2] = 0
  BY DEF Word, Text

LEMMA EncodeTextText ==
  ASSUME NEW t \in Text
  PROVE  EncodeText(t) \in Text /\ Len(EncodeText(t)) = Len(t) + 2
<1>1. Len(t) \in Nat
  BY DEF Text
<1>2. Word(Len(t)) \in Text /\ Len(Word(Len(t))) = 2
  BY <1>1, WordText
<1>3. /\ Word(Len(t)) \o t \in Text
      /\ Len(Word(Len(t)) \o t) = Len(Word(Len(t))) + Len(t)
  BY <1>2, ConcatText
<1> QED
  BY <1>1, <1>2, <1>3 DEF EncodeText

-----------------------------------------------------------------------------
(* The reads without vals.                                                  *)

(* r is a read at o that finds x where e stands, or the end of the stream.  *)
Reads(r, s, o, e, x) ==
  IF Fits(s, o, e) THEN r = Result(TRUE, x, o + Len(e))
  ELSE r.ok = FALSE /\ r.at = Len(s)

LEMMA TakeReads ==
  ASSUME NEW s \in Text, NEW o \in 0..Len(s), NEW e \in Text, At(s, o, e)
  PROVE  Reads(Take(s, o, Len(e)), s, o, e, e)
<1>1. /\ Len(s) \in Nat /\ Len(e) \in Nat /\ o \in Nat
      /\ \A i \in 1..Len(s) : s[i] \in Nat
      /\ s \in Seq(Nat) /\ e \in Seq(Nat)
  BY DEF Text
<1>2. CASE Fits(s, o, e)
  <2> DEFINE x == SubSeq(s, o + 1, o + Len(e))
  <2>1. o + Len(e) <= Len(s) /\ Len(e) <= Len(s) - o
    BY <1>1, <1>2 DEF Fits
  <2>2. \A i \in o + 1..o + Len(e) : s[i] \in Nat
    BY <1>1, <2>1
  <2>3. /\ x \in Seq(Nat)
        /\ Len(x) = IF o + 1 <= o + Len(e) THEN o + Len(e) - (o + 1) + 1 ELSE 0
        /\ \A i \in 1..o + Len(e) - (o + 1) + 1 : x[i] = s[o + 1 + i - 1]
    <3>1. o + 1 \in Int /\ o + Len(e) \in Int
      BY <1>1
    <3> QED
      BY <2>2, <3>1, SubSeqProperties
  <2>4. Len(x) = Len(e)
    BY <1>1, <2>3
  <2>5. \A i \in 1..Len(e) : x[i] = e[i]
    <3> SUFFICES ASSUME NEW i \in 1..Len(e) PROVE x[i] = e[i]
      OBVIOUS
    <3>1. i \in 1..o + Len(e) - (o + 1) + 1 /\ o + 1 + i - 1 = o + i /\ o + i <= Len(s)
      BY <1>1, <2>1
    <3>2. x[i] = s[o + i]
      BY <2>3, <3>1
    <3> QED
      BY <3>1, <3>2 DEF At
  <2>6. x = e
    <3> HIDE DEF x
    <3> QED
      BY <1>1, <2>3, <2>4, <2>5, SeqEqual
  <2>7. Take(s, o, Len(e)) = Result(TRUE, x, o + Len(e))
    BY <2>1 DEF Take, Result
  <2> QED
    BY <1>2, <2>6, <2>7 DEF Reads
<1>3. CASE ~Fits(s, o, e)
  <2>1. ~(Len(e) <= Len(s) - o) /\ Len(s) - o # Len(e) /\ o + (Len(s) - o) = Len(s)
    BY <1>1, <1>3 DEF Fits
  <2>2. Take(s, o, Len(e)).ok = FALSE /\ Take(s, o, Len(e)).at = Len(s)
    BY <2>1 DEF Take, Result
  <2> QED
    BY <1>3, <2>2 DEF Reads
<1> QED
  BY <1>2, <1>3

LEMMA TakeWordReads ==
  ASSUME NEW s \in Text, NEW o \in 0..Len(s), NEW n \in Nat, At(s, o, Word(n))
  PROVE  Reads(TakeWord(s, o), s, o, Word(n), n)
<1> DEFINE r == Take(s, o, 2)
<1>1. Word(n) \in Text /\ Len(Word(n)) = 2 /\ Word(n)[1] = n
  BY WordText
<1>2. Reads(r, s, o, Word(n), Word(n))
  BY <1>1, TakeReads
<1>3. TakeWord(s, o) = Result(r.ok, IF r.ok THEN r.val[1] ELSE 0, r.at)
  BY DEF TakeWord
<1> HIDE DEF r
<1>4. CASE Fits(s, o, Word(n))
  <2>1. r = Result(TRUE, Word(n), o + Len(Word(n)))
    BY <1>2, <1>4 DEF Reads
  <2>2. r.ok = TRUE /\ r.val = Word(n) /\ r.at = o + Len(Word(n))
    BY <2>1 DEF Result
  <2>3. TakeWord(s, o) = Result(TRUE, n, o + Len(Word(n)))
    BY <1>1, <1>3, <2>2
  <2> QED
    BY <1>4, <2>3 DEF Reads
<1>5. CASE ~Fits(s, o, Word(n))
  <2>1. r.ok = FALSE /\ r.at = Len(s)
    BY <1>2, <1>5 DEF Reads
  <2>2. TakeWord(s, o).ok = FALSE /\ TakeWord(s, o).at = Len(s)
    BY <1>3, <2>1 DEF Result
  <2> QED
    BY <1>5, <2>2 DEF Reads
<1> QED
  BY <1>4, <1>5

LEMMA TakeTextReads ==
  ASSUME NEW s \in Text, NEW o \in 0..Len(s), NEW t \in Text, At(s, o, EncodeText(t))
  PROVE  Reads(TakeText(s, o), s, o, EncodeText(t), t)
<1> DEFINE w == Word(Len(t))
           n == TakeWord(s, o)
<1>1. Len(t) \in Nat /\ Len(s) \in Nat /\ o \in Nat
  BY DEF Text
<1>2. w \in Text /\ Len(w) = 2
  BY <1>1, WordText
<1>3. At(s, o, w) /\ At(s, o + 2, t)
  BY <1>1, <1>2, AtConcat DEF EncodeText
<1>4. Reads(n, s, o, w, Len(t))
  BY <1>1, <1>3, TakeWordReads
<1>5. TakeText(s, o) = IF n.ok THEN Take(s, n.at, n.val) ELSE Result(FALSE, <<>>, n.at)
  BY DEF TakeText
<1>6. Len(EncodeText(t)) = Len(t) + 2
  BY EncodeTextText
<1> HIDE DEF w, n
<1>7. CASE Fits(s, o, w)
  <2>1. n = Result(TRUE, Len(t), o + 2)
    BY <1>2, <1>4, <1>7 DEF Reads
  <2>2. TakeText(s, o) = Take(s, o + 2, Len(t))
    BY <1>5, <2>1 DEF Result
  <2>3. o + 2 \in 0..Len(s)
    BY <1>1, <1>2, <1>7 DEF Fits
  <2>4. Reads(Take(s, o + 2, Len(t)), s, o + 2, t, t)
    BY <1>3, <2>3, TakeReads
  <2>5. o + 2 + Len(t) = o + Len(EncodeText(t))
    BY <1>1, <1>6
  <2> QED
    BY <2>2, <2>4, <2>5 DEF Reads, Fits
<1>8. CASE ~Fits(s, o, w)
  <2>1. n.ok = FALSE /\ n.at = Len(s)
    BY <1>4, <1>8 DEF Reads
  <2>2. ~Fits(s, o, EncodeText(t))
    BY <1>1, <1>2, <1>6, <1>8 DEF Fits
  <2>3. TakeText(s, o) = Result(FALSE, <<>>, Len(s))
    BY <1>5, <2>1
  <2> QED
    BY <2>2, <2>3 DEF Reads, Result
<1> QED
  BY <1>7, <1>8

-----------------------------------------------------------------------------
(* Sequences one after the other.                                           *)

LEMMA JoinsNext ==
  ASSUME NEW ss \in Seq(Text), NEW i \in 0..Len(ss), i < Len(ss)
  PROVE  Joins(ss)[i + 1] = Joins(ss)[i] \o ss[i + 1]
<1> DEFINE k == i + 1
<1>1. Len(ss) \in Nat
  OBVIOUS
<1>2. k \in 0..Len(ss) /\ k # 0 /\ k - 1 = i
  BY <1>1
<1> HIDE DEF k
<1>3. Joins(ss)[k] = Joins(ss)[k - 1] \o ss[k]
  BY <1>1, <1>2, JoinsIs, Zenon
<1> QED
  BY <1>2, <1>3 DEF k

LEMMA JoinsFirst ==
  ASSUME NEW ss \in Seq(Text)
  PROVE  0 \in 0..Len(ss) /\ Joins(ss)[0] = <<>> /\ <<>> \in Text /\ Len(<<>>) = 0
<1>1. Len(ss) \in Nat
  OBVIOUS
<1>2. Joins(ss)[0] = <<>>
  BY <1>1, JoinsIs, Zenon
<1> QED
  BY <1>1, <1>2 DEF Text

LEMMA JoinsText ==
  ASSUME NEW ss \in Seq(Text)
  PROVE  \A i \in 0..Len(ss) : Joins(ss)[i] \in Text
<1> DEFINE S == {i \in 0..Len(ss) : Joins(ss)[i] \in Text}
<1>1. Len(ss) \in Nat /\ \A i \in 1..Len(ss) : ss[i] \in Text
  OBVIOUS
<1>2. 0 \in S
  BY JoinsFirst
<1>3. ASSUME NEW i \in 0..Len(ss), i \in S, i < Len(ss)
      PROVE  i + 1 \in S
  <2>1. i + 1 \in 0..Len(ss) /\ ss[i + 1] \in Text /\ Joins(ss)[i] \in Text
    BY <1>1, <1>3
  <2>2. Joins(ss)[i] \o ss[i + 1] \in Text
    BY <2>1, ConcatText
  <2>3. Joins(ss)[i + 1] = Joins(ss)[i] \o ss[i + 1]
    BY <1>3, JoinsNext
  <2> QED
    BY <2>1, <2>2, <2>3
<1>4. \A i \in 0..Len(ss) : i \in S
  <2> HIDE DEF S
  <2> QED
    BY <1>1, <1>2, <1>3, Induction
<1> QED
  BY <1>4

LEMMA JoinsLen ==
  ASSUME NEW ss \in Seq(Text), NEW i \in 0..Len(ss), i < Len(ss)
  PROVE  /\ i + 1 \in 0..Len(ss) /\ ss[i + 1] \in Text
         /\ Len(ss[i + 1]) \in Nat /\ Len(Joins(ss)[i]) \in Nat
         /\ Len(Joins(ss)[i + 1]) = Len(Joins(ss)[i]) + Len(ss[i + 1])
<1>1. Len(ss) \in Nat /\ \A k \in 1..Len(ss) : ss[k] \in Text
  OBVIOUS
<1>2. i + 1 \in 0..Len(ss) /\ i + 1 \in 1..Len(ss)
  BY <1>1
<1>3. ss[i + 1] \in Text /\ Joins(ss)[i] \in Text
  BY <1>1, <1>2, JoinsText
<1>4. Joins(ss)[i + 1] = Joins(ss)[i] \o ss[i + 1]
  BY JoinsNext
<1> QED
  BY <1>2, <1>3, <1>4, ConcatText

LEMMA JoinsGrow ==
  ASSUME NEW ss \in Seq(Text)
  PROVE  \A i \in 0..Len(ss) : Len(Joins(ss)[i]) <= Len(Joined(ss))
<1> DEFINE N == Len(ss)
           S == {k \in 0..N : Len(Joins(ss)[N - k]) <= Len(Joins(ss)[N])}
<1>1. N \in Nat /\ Len(Joins(ss)[N]) \in Nat
  <2>1. N \in Nat /\ N \in 0..N
    OBVIOUS
  <2> QED
    BY <2>1, JoinsText DEF Text
<1>2. 0 \in S
  <2>1. N - 0 = N /\ 0 \in 0..N
    BY <1>1
  <2> QED
    BY <1>1, <2>1
<1>3. ASSUME NEW k \in 0..N, k \in S, k < N
      PROVE  k + 1 \in S
  <2>1. /\ N - (k + 1) \in 0..N /\ N - (k + 1) < N
        /\ N - (k + 1) + 1 = N - k /\ k + 1 \in 0..N
    BY <1>1, <1>3
  <2>2. /\ Len(ss[N - k]) \in Nat /\ Len(Joins(ss)[N - (k + 1)]) \in Nat
        /\ Len(Joins(ss)[N - k]) = Len(Joins(ss)[N - (k + 1)]) + Len(ss[N - k])
    BY <2>1, JoinsLen
  <2>3. Len(Joins(ss)[N - k]) <= Len(Joins(ss)[N])
    BY <1>3
  <2>4. Len(Joins(ss)[N - (k + 1)]) <= Len(Joins(ss)[N])
    <3> DEFINE a == Len(Joins(ss)[N - (k + 1)])
               b == Len(ss[N - k])
               c == Len(Joins(ss)[N])
    <3>1. a \in Nat /\ b \in Nat /\ c \in Nat /\ a + b <= c
      BY <1>1, <2>2, <2>3
    <3> HIDE DEF a, b, c
    <3>2. a <= c
      BY <3>1
    <3> QED
      BY <3>2 DEF a, c
  <2> QED
    BY <2>1, <2>4
<1>4. \A k \in 0..N : k \in S
  <2> HIDE DEF S, N
  <2> QED
    BY <1>1, <1>2, <1>3, Induction
<1>5. ASSUME NEW i \in 0..N
      PROVE  Len(Joins(ss)[i]) <= Len(Joins(ss)[N])
  <2>1. N - i \in 0..N /\ N - (N - i) = i
    BY <1>1
  <2>2. Len(Joins(ss)[N - (N - i)]) <= Len(Joins(ss)[N])
    BY <1>4, <2>1
  <2> QED
    BY <2>1, <2>2
<1> QED
  BY <1>5 DEF Joined

LEMMA JoinedText ==
  ASSUME NEW ss \in Seq(Text)
  PROVE  Joined(ss) \in Text
<1>1. Len(ss) \in 0..Len(ss)
  OBVIOUS
<1> QED
  BY <1>1, JoinsText DEF Joined

(* They depend only on those that are joined.                               *)
LEMMA JoinsAgree ==
  ASSUME NEW ss \in Seq(Text), NEW tt \in Seq(Text), NEW n \in Nat,
         n <= Len(ss), n <= Len(tt), \A i \in 1..n : ss[i] = tt[i]
  PROVE  Joins(ss)[n] = Joins(tt)[n]
<1> DEFINE S == {i \in 0..n : Joins(ss)[i] = Joins(tt)[i]}
<1>1. Len(ss) \in Nat /\ Len(tt) \in Nat
  OBVIOUS
<1>2. 0 \in S
  <2>1. Joins(ss)[0] = <<>> /\ Joins(tt)[0] = <<>>
    BY JoinsFirst
  <2> QED
    BY <2>1
<1>3. ASSUME NEW i \in 0..n, i \in S, i < n
      PROVE  i + 1 \in S
  <2>1. /\ i + 1 \in 0..n /\ i + 1 \in 1..n /\ i \in 0..Len(ss) /\ i \in 0..Len(tt)
        /\ i < Len(ss) /\ i < Len(tt)
    BY <1>1, <1>3
  <2>2. /\ Joins(ss)[i + 1] = Joins(ss)[i] \o ss[i + 1]
        /\ Joins(tt)[i + 1] = Joins(tt)[i] \o tt[i + 1]
    BY <2>1, JoinsNext
  <2>3. ss[i + 1] = tt[i + 1] /\ Joins(ss)[i] = Joins(tt)[i]
    BY <1>3, <2>1
  <2> QED
    BY <2>1, <2>2, <2>3
<1>4. \A i \in 0..n : i \in S
  <2> HIDE DEF S
  <2> QED
    BY <1>2, <1>3, Induction
<1> QED
  BY <1>4

(* If all of them stand in a stream, so do the first ones, and then the     *)
(* next.                                                                    *)
LEMMA AtJoins ==
  ASSUME NEW s \in Text, NEW o \in Nat, NEW ss \in Seq(Text), At(s, o, Joined(ss))
  PROVE  \A i \in 0..Len(ss) :
           /\ At(s, o, Joins(ss)[i])
           /\ i < Len(ss) => At(s, o + Len(Joins(ss)[i]), ss[i + 1])
<1> DEFINE N == Len(ss)
           S == {k \in 0..N : At(s, o, Joins(ss)[N - k])}
<1>1. N \in Nat
  OBVIOUS
<1>2. ASSUME NEW i \in 0..N, i < N, At(s, o, Joins(ss)[i + 1])
      PROVE  At(s, o, Joins(ss)[i]) /\ At(s, o + Len(Joins(ss)[i]), ss[i + 1])
  <2>1. Joins(ss)[i] \in Text /\ ss[i + 1] \in Text
    BY <1>2, JoinsText, JoinsLen
  <2>2. At(s, o, Joins(ss)[i] \o ss[i + 1])
    BY <1>2, JoinsNext
  <2> QED
    BY <2>1, <2>2, AtConcat
<1>3. 0 \in S
  <2>1. N - 0 = N /\ 0 \in 0..N
    BY <1>1
  <2> QED
    BY <2>1 DEF Joined
<1>4. ASSUME NEW k \in 0..N, k \in S, k < N
      PROVE  k + 1 \in S
  <2>1. /\ N - (k + 1) \in 0..N /\ N - (k + 1) < N
        /\ N - (k + 1) + 1 = N - k /\ k + 1 \in 0..N
    BY <1>1, <1>4
  <2>2. At(s, o, Joins(ss)[N - (k + 1)])
    BY <1>2, <1>4, <2>1
  <2> QED
    BY <2>1, <2>2
<1>5. \A k \in 0..N : k \in S
  <2> HIDE DEF S, N
  <2> QED
    BY <1>1, <1>3, <1>4, Induction
<1>6. ASSUME NEW i \in 0..N
      PROVE  At(s, o, Joins(ss)[i])
  <2>1. N - i \in 0..N /\ N - (N - i) = i
    BY <1>1
  <2>2. At(s, o, Joins(ss)[N - (N - i)])
    BY <1>5, <2>1
  <2> QED
    BY <2>1, <2>2
<1>7. ASSUME NEW i \in 0..N, i < N
      PROVE  At(s, o + Len(Joins(ss)[i]), ss[i + 1])
  <2>1. i + 1 \in 0..N
    BY <1>1, <1>7
  <2> QED
    BY <1>2, <1>6, <1>7, <2>1
<1> QED
  BY <1>6, <1>7

-----------------------------------------------------------------------------
(* Arrays and maps: a loop that reads one thing after another.              *)

(* r is a read at o that finds in X what enc writes as e, where e stands,   *)
(* or else, if it is firm, the end of the stream.                           *)
ReadsAs(r, s, o, e, X, enc, firm) ==
  /\ Fits(s, o, e) => /\ r.ok = TRUE /\ r.at = o + Len(e)
                      /\ r.val \in X /\ enc[r.val] = e
  /\ firm /\ ~Fits(s, o, e) => r.ok = FALSE /\ r.at = Len(s)

(* The same for i things after another.                                     *)
ReadsAll(r, s, o, ss, i, X, enc, firm) ==
  /\ Fits(s, o, Joins(ss)[i]) =>
       /\ r.ok = TRUE /\ r.at = o + Len(Joins(ss)[i])
       /\ r.val \in Seq(X) /\ Len(r.val) = i
       /\ \A k \in 1..i : enc[r.val[k]] = ss[k]
  /\ firm /\ ~Fits(s, o, Joins(ss)[i]) => r.ok = FALSE /\ r.at = Len(s)

LEMMA LoopStep ==
  ASSUME NEW s \in Text, NEW o \in 0..Len(s), NEW ss \in Seq(Text), At(s, o, Joined(ss)),
         NEW item, NEW X, NEW enc, NEW firm \in BOOLEAN,
         \A i \in 1..Len(ss) : \A p \in 0..Len(s) :
           At(s, p, ss[i]) => ReadsAs(item[p], s, p, ss[i], X, enc, firm),
         NEW i \in 0..Len(ss), i < Len(ss), NEW r, ReadsAll(r, s, o, ss, i, X, enc, firm)
  PROVE  ReadsAll(Further(item, r), s, o, ss, i + 1, X, enc, firm)
<1> DEFINE e == ss[i + 1]
           a == Joins(ss)[i]
           b == Joins(ss)[i + 1]
           p == o + Len(a)
           x == item[p]
           q == Further(item, r)
<1>1. /\ Len(s) \in Nat /\ Len(ss) \in Nat /\ o \in Nat
      /\ i + 1 \in 1..Len(ss)
  BY DEF Text
<1>2. /\ e \in Text /\ Len(e) \in Nat /\ Len(a) \in Nat /\ Len(b) = Len(a) + Len(e)
  BY JoinsLen
<1>3. At(s, p, e)
  BY <1>1, AtJoins
<1> HIDE DEF a, b, e
<1>4. CASE Fits(s, o, a)
  <2>1. /\ r.ok = TRUE /\ r.at = p /\ r.val \in Seq(X) /\ Len(r.val) = i
        /\ \A k \in 1..i : enc[r.val[k]] = ss[k]
    BY <1>4 DEF ReadsAll, a
  <2>2. p \in 0..Len(s)
    BY <1>1, <1>2, <1>4 DEF Fits
  <2>3. ReadsAs(x, s, p, e, X, enc, firm)
    <3> HIDE DEF p
    <3> QED
      BY <1>1, <1>3, <2>2 DEF e
  <2>4. Fits(s, p, e) <=> Fits(s, o, b)
    BY <1>1, <1>2 DEF Fits
  <2>5. q = AfterItem(r, x)
    BY <2>1 DEF Further
  <2>6. CASE Fits(s, o, b)
    <3>1. x.ok = TRUE /\ x.at = p + Len(e) /\ x.val \in X /\ enc[x.val] = e
      BY <2>3, <2>4, <2>6 DEF ReadsAs
    <3> DEFINE y == Append(r.val, x.val)
    <3>2. q = Result(TRUE, y, x.at)
      BY <2>5, <3>1 DEF AfterItem
    <3>3. /\ y \in Seq(X) /\ Len(y) = i + 1 /\ y[i + 1] = x.val
          /\ \A k \in 1..i : y[k] = r.val[k]
      <4> DEFINE u == r.val
                 v == x.val
      <4>1. u \in Seq(X) /\ Len(u) = i /\ v \in X
        BY <2>1, <3>1
      <4> HIDE DEF u, v
      <4>2. /\ Append(u, v) \in Seq(X) /\ Len(Append(u, v)) = i + 1
            /\ Append(u, v)[i + 1] = v
            /\ \A k \in 1..i : Append(u, v)[k] = u[k]
        BY <4>1
      <4> QED
        BY <4>2 DEF u, v
    <3> HIDE DEF y, q, x
    <3>4. q.ok = TRUE /\ q.val = y /\ q.at = o + Len(b)
      <4>1. p + Len(e) = o + Len(b)
        BY <1>1, <1>2
      <4> QED
        BY <3>1, <3>2, <4>1 DEF Result
    <3>5. ASSUME NEW k \in 1..i + 1
          PROVE  enc[y[k]] = ss[k]
      <4>1. CASE k \in 1..i
        BY <2>1, <3>3, <4>1
      <4>2. CASE k = i + 1
        BY <3>1, <3>3, <4>2 DEF e
      <4> QED
        BY <4>1, <4>2
    <3>6. ReadsAll(q, s, o, ss, i + 1, X, enc, firm)
      BY <2>6, <3>3, <3>4, <3>5 DEF ReadsAll, b
    <3> QED
      BY <3>6 DEF q
  <2>7. CASE ~Fits(s, o, b)
    <3> SUFFICES ASSUME firm PROVE q.ok = FALSE /\ q.at = Len(s)
      BY <2>7 DEF ReadsAll, b
    <3>1. x.ok = FALSE /\ x.at = Len(s)
      BY <2>3, <2>4, <2>7 DEF ReadsAs
    <3>2. q = Failed(Len(s))
      BY <2>5, <3>1 DEF AfterItem
    <3> QED
      BY <3>2 DEF Failed, Result
  <2> QED
    BY <2>6, <2>7
<1>5. CASE ~Fits(s, o, a)
  <2>1. ~Fits(s, o, b)
    BY <1>1, <1>2, <1>5 DEF Fits
  <2> SUFFICES ASSUME firm PROVE q.ok = FALSE /\ q.at = Len(s)
    BY <2>1 DEF ReadsAll, b
  <2>2. r.ok = FALSE /\ r.at = Len(s)
    BY <1>5 DEF ReadsAll, a
  <2>3. q = r
    BY <2>2 DEF Further
  <2> QED
    BY <2>2, <2>3
<1> QED
  BY <1>4, <1>5

LEMMA LoopReads ==
  ASSUME NEW s \in Text, NEW o \in 0..Len(s), NEW ss \in Seq(Text), At(s, o, Joined(ss)),
         NEW item, NEW X, NEW enc, NEW firm \in BOOLEAN,
         \A i \in 1..Len(ss) : \A p \in 0..Len(s) :
           At(s, p, ss[i]) => ReadsAs(item[p], s, p, ss[i], X, enc, firm)
  PROVE  ReadsAll(Items(item, o, Len(ss))[Len(ss)], s, o, ss, Len(ss), X, enc, firm)
<1> DEFINE N == Len(ss)
           loop == Items(item, o, N)
           S == {i \in 0..N : ReadsAll(loop[i], s, o, ss, i, X, enc, firm)}
<1>1. N \in Nat
  OBVIOUS
<1>2. /\ loop[0] = Result(TRUE, <<>>, o)
      /\ \A i \in 0..N : i # 0 => loop[i] = Further(item, loop[i - 1])
  BY <1>1, ItemsIs, Zenon
<1> HIDE DEF loop
<1>3. 0 \in S
  <2>1. loop[0].ok = TRUE /\ loop[0].val = <<>> /\ loop[0].at = o
    BY <1>2 DEF Result
  <2>2. Joins(ss)[0] = <<>> /\ Len(Joins(ss)[0]) = 0
    BY JoinsFirst
  <2>3. /\ o + 0 = o /\ o + 0 <= Len(s) /\ <<>> \in Seq(X) /\ Len(<<>>) = 0
        /\ \A k \in 1..0 : FALSE
    BY DEF Text
  <2>4. ReadsAll(loop[0], s, o, ss, 0, X, enc, firm)
    BY <2>1, <2>2, <2>3 DEF ReadsAll, Fits
  <2> QED
    BY <1>1, <2>4
<1>4. ASSUME NEW i \in 0..N, i \in S, i < N
      PROVE  i + 1 \in S
  <2>1. i + 1 \in 0..N /\ i + 1 # 0 /\ i + 1 - 1 = i
    BY <1>1, <1>4
  <2>2. ReadsAll(Further(item, loop[i]), s, o, ss, i + 1, X, enc, firm)
    BY <1>4, LoopStep
  <2>3. loop[i + 1] = Further(item, loop[i])
    BY <1>2, <2>1
  <2> QED
    BY <2>1, <2>2, <2>3
<1>5. \A i \in 0..N : i \in S
  <2> HIDE DEF S, N
  <2> QED
    BY <1>1, <1>3, <1>4, Induction
<1>6. N \in 0..N
  BY <1>1
<1>7. ReadsAll(loop[N], s, o, ss, N, X, enc, firm)
  BY <1>5, <1>6
<1> QED
  BY <1>7 DEF loop

-----------------------------------------------------------------------------
(* Vals and what is written of them.                                        *)

LEMMA NumbersAre ==
  /\ Numbers = {"INT32", "UINT32", "FLOAT32", "INT64", "UINT64", "FLOAT64"}
  /\ \A t \in {"INT32", "UINT32", "FLOAT32"} : Width[t] = 2
  /\ \A t \in {"INT64", "UINT64", "FLOAT64"} : Width[t] = 4
  BY DEF Numbers, Width

LEMMA TypesAre ==
  /\ DOMAIN Types = {"EMPTY", "INT32", "INT64", "UINT32", "UINT64", "FLOAT32", "FLOAT64",
                     "MEASUREMENT", "STRING", "BYTEARRAY", "ARRAY", "MAP", "ERROR"}
  /\ \A t \in DOMAIN Types : Types[t] \in Nat
  /\ \A t, u \in DOMAIN Types : Types[t] = Types[u] => t = u
  BY DEF Types

(* The type that is read is the one that was written.                       *)
LEMMA TypeReadBack ==
  ASSUME NEW t \in DOMAIN Types
  PROVE  TypeNamed(Types[t]) = t
<1>1. \A u \in DOMAIN Types : Types[u] = Types[t] => u = t
  BY TypesAre
<1> QED
  BY <1>1, Zenon DEF TypeNamed

LEMMA FunctionText ==
  ASSUME NEW n \in Nat, NEW f \in [1..n -> Nat]
  PROVE  f \in Text /\ Len(f) = n
  BY DEF Text

LEMMA TextFunction ==
  ASSUME NEW t \in Text
  PROVE  t \in [1..Len(t) -> Nat] /\ Len(t) \in Nat
  BY DEF Text

(* The val read back from a number's units, a measurement's, an error's.    *)
Val(t, x) == [type |-> t, data |-> x]

LEMMA NumberKind ==
  ASSUME NEW t \in Numbers
  PROVE  /\ Width[t] \in Nat
         /\ \A x \in Text : Len(x) = Width[t] => Val(t, x) \in Plain
<1>1. Width[t] = 2 \/ Width[t] = 4
  BY NumbersAre
<1>2. ASSUME NEW x \in Text, Len(x) = Width[t]
      PROVE  Val(t, x) \in Plain
  <2>1. x \in [1..Width[t] -> Nat]
    BY <1>2, TextFunction
  <2>2. CASE Width[t] = 2
    BY <2>1, <2>2 DEF Plain, Val
  <2>3. CASE Width[t] = 4
    BY <2>1, <2>3 DEF Plain, Val
  <2> QED
    BY <1>1, <2>2, <2>3
<1> QED
  BY <1>1, <1>2

LEMMA PlainKinds ==
  ASSUME NEW v \in Plain
  PROVE  \/ v.type = "EMPTY" /\ v.data = <<>>
         \/ v.type \in Numbers /\ v.data \in Text /\ Len(v.data) = Width[v.type]
         \/ v.type = "MEASUREMENT" /\ v.data[1] \in Nat /\ v.data[2] \in Nat
<1>1. CASE v \in [type : {"EMPTY"}, data : {<<>>}]
  BY <1>1
<1>2. CASE v \in [type : {t \in Numbers : Width[t] = 2}, data : [1..2 -> Nat]]
  BY <1>2, FunctionText
<1>3. CASE v \in [type : {t \in Numbers : Width[t] = 4}, data : [1..4 -> Nat]]
  BY <1>3, FunctionText
<1>4. CASE v \in [type : {"MEASUREMENT"}, data : (Nat \X Nat) \cup (Nat \X Nat \X {Wild})]
  BY <1>4
<1> QED
  BY <1>1, <1>2, <1>3, <1>4 DEF Plain

(* EncodeBody and DecodeBody, type by type.                                 *)
LEMMA EncodeBodyIs ==
  ASSUME NEW enc, NEW v
  PROVE  /\ v.type = "EMPTY" => EncodeBody(enc, v) = <<>>
         /\ v.type \in Numbers => EncodeBody(enc, v) = v.data
         /\ v.type = "MEASUREMENT" =>
              EncodeBody(enc, v) = Word(v.data[1]) \o <<v.data[2]>>
         /\ v.type \in {"STRING", "BYTEARRAY"} => EncodeBody(enc, v) = EncodeText(v.data)
         /\ v.type = "ARRAY" =>
              EncodeBody(enc, v) =
                Word(Len(v.data)) \o Joined([i \in DOMAIN v.data |-> enc[v.data[i]]])
         /\ v.type = "MAP" =>
              EncodeBody(enc, v) =
                Word(Len(v.data)) \o
                Joined([i \in DOMAIN v.data |-> EncodeText(v.data[i][1]) \o enc[v.data[i][2]]])
         /\ v.type = "ERROR" =>
              EncodeBody(enc, v) = Word(v.data[1]) \o EncodeText(v.data[2])
<1> DEFINE a == Word(v.data[1]) \o <<v.data[2]>>
           b == EncodeText(v.data)
           c == Word(Len(v.data)) \o Joined([i \in DOMAIN v.data |-> enc[v.data[i]]])
           d == Word(Len(v.data)) \o
                Joined([i \in DOMAIN v.data |-> EncodeText(v.data[i][1]) \o enc[v.data[i][2]]])
           e == Word(v.data[1]) \o EncodeText(v.data[2])
           Body == CASE v.type = "EMPTY"                   -> <<>>
                     [] v.type \in Numbers                 -> v.data
                     [] v.type = "MEASUREMENT"             -> a
                     [] v.type \in {"STRING", "BYTEARRAY"} -> b
                     [] v.type = "ARRAY"                   -> c
                     [] v.type = "MAP"                     -> d
                     [] v.type = "ERROR"                   -> e
<1>1. EncodeBody(enc, v) = Body
  BY DEF EncodeBody
<1> HIDE DEF a, b, c, d, e
<1>2. /\ v.type = "EMPTY" => Body = <<>>
      /\ v.type \in Numbers => Body = v.data
      /\ v.type = "MEASUREMENT" => Body = a
      /\ v.type \in {"STRING", "BYTEARRAY"} => Body = b
      /\ v.type = "ARRAY" => Body = c
      /\ v.type = "MAP" => Body = d
      /\ v.type = "ERROR" => Body = e
  BY NumbersAre
<1> HIDE DEF Body
<1> QED
  BY <1>1, <1>2 DEF a, b, c, d, e

LEMMA DecodeEmpty ==
  ASSUME NEW dec, NEW s, NEW o
  PROVE  DecodeBody("EMPTY", dec, s, o) = Typed("EMPTY", Result(TRUE, <<>>, o))
  BY NumbersAre DEF DecodeBody

LEMMA DecodeNumber ==
  ASSUME NEW t \in Numbers, NEW dec, NEW s, NEW o
  PROVE  DecodeBody(t, dec, s, o) = Typed(t, Take(s, o, Width[t]))
  BY NumbersAre DEF DecodeBody

LEMMA DecodeMeasurement ==
  ASSUME NEW dec, NEW s, NEW o
  PROVE  LET p == TakeWord(s, o)
             q == Take(s, p.at, 1)
         IN
         DecodeBody("MEASUREMENT", dec, s, o) =
           IF ~p.ok THEN Failed(p.at)
           ELSE IF ~q.ok THEN Failed(q.at)
           ELSE Typed("MEASUREMENT", Result(TRUE, <<p.val, q.val[1], Wild>>, q.at))
  BY NumbersAre DEF DecodeBody

LEMMA DecodeArray ==
  ASSUME NEW dec, NEW s, NEW o
  PROVE  DecodeBody("ARRAY", dec, s, o) = DecodeItems("ARRAY", dec, s, o)
  BY NumbersAre DEF DecodeBody

LEMMA DecodeMap ==
  ASSUME NEW dec, NEW s, NEW o
  PROVE  DecodeBody("MAP", dec, s, o) =
           DecodeItems("MAP", [p \in 0..Len(s) |-> DecodeEntry(dec, s, p)], s, o)
  BY NumbersAre DEF DecodeBody

LEMMA DecodeError ==
  ASSUME NEW dec, NEW s, NEW o
  PROVE  LET p == TakeWord(s, o)
             q == TakeText(s, p.at)
         IN
         DecodeBody("ERROR", dec, s, o) = Typed("ERROR", Result(TRUE, <<p.val, q.val>>, q.at))
  BY NumbersAre DEF DecodeBody

LEMMA EncodeNumber ==
  ASSUME NEW t \in Numbers, NEW enc, NEW x
  PROVE  EncodeBody(enc, Val(t, x)) = x
<1>1. Val(t, x).type = t /\ Val(t, x).data = x
  BY DEF Val
<1> QED
  BY <1>1, EncodeBodyIs, Zenon

-----------------------------------------------------------------------------
(* What read(val&) makes of what write(const val&) wrote after the type.    *)

BodyReads(r, s, o, b, t, X, enc, firm) ==
  /\ Fits(s, o, b) => /\ r.ok = TRUE /\ r.at = o + Len(b)
                      /\ r.val \in X /\ r.val.type = t /\ EncodeBody(enc, r.val) = b
  /\ firm /\ ~Fits(s, o, b) => r.ok = FALSE /\ r.at = Len(s)

LEMMA TypedIs ==
  ASSUME NEW t, NEW r
  PROVE  Typed(t, r).ok = r.ok /\ Typed(t, r).val = Val(t, r.val) /\ Typed(t, r).at = r.at
  BY DEF Typed, Result, Val

LEMMA FailedIs ==
  ASSUME NEW o
  PROVE  Failed(o).ok = FALSE /\ Failed(o).at = o
  BY DEF Failed, Result

LEMMA ValIs ==
  ASSUME NEW t, NEW x
  PROVE  Val(t, x).type = t /\ Val(t, x).data = x
  BY DEF Val

LEMMA EmptyReads ==
  ASSUME NEW s \in Text, NEW o \in 0..Len(s), NEW enc, NEW dec, NEW firm \in BOOLEAN
  PROVE  BodyReads(DecodeBody("EMPTY", dec, s, o), s, o, <<>>, "EMPTY", Plain, enc, firm)
<1> DEFINE r == DecodeBody("EMPTY", dec, s, o)
<1>1. r = Typed("EMPTY", Result(TRUE, <<>>, o))
  BY DecodeEmpty
<1>2. r.ok = TRUE /\ r.at = o /\ r.val = Val("EMPTY", <<>>)
  BY <1>1 DEF Typed, Result, Val
<1>3. Val("EMPTY", <<>>) \in Plain
  BY DEF Val, Plain
<1>4. EncodeBody(enc, Val("EMPTY", <<>>)) = <<>>
  <2>1. Val("EMPTY", <<>>).type = "EMPTY"
    BY ValIs
  <2> QED
    BY <2>1, EncodeBodyIs, Zenon
<1>5. o + Len(<<>>) = o /\ Fits(s, o, <<>>)
  <2>1. Len(s) \in Nat /\ Len(<<>>) = 0
    BY DEF Text
  <2>2. o + 0 = o /\ o <= Len(s)
    BY <2>1
  <2> QED
    BY <2>1, <2>2 DEF Fits
<1>6. Val("EMPTY", <<>>).type = "EMPTY"
  BY DEF Val
<1> HIDE DEF r
<1>7. BodyReads(r, s, o, <<>>, "EMPTY", Plain, enc, firm)
  BY <1>2, <1>3, <1>4, <1>5, <1>6 DEF BodyReads
<1> QED
  BY <1>7 DEF r

LEMMA NumberReads ==
  ASSUME NEW s \in Text, NEW o \in 0..Len(s), NEW enc, NEW dec, NEW firm \in BOOLEAN,
         NEW t \in Numbers, NEW b \in Text, Len(b) = Width[t], At(s, o, b)
  PROVE  BodyReads(DecodeBody(t, dec, s, o), s, o, b, t, Plain, enc, firm)
<1> DEFINE r == DecodeBody(t, dec, s, o)
           q == Take(s, o, Len(b))
<1>1. r = Typed(t, q)
  BY DecodeNumber
<1>2. Reads(q, s, o, b, b)
  BY TakeReads
<1>3. r.ok = q.ok /\ r.val = Val(t, q.val) /\ r.at = q.at
  BY <1>1, TypedIs
<1>4. Val(t, b) \in Plain
  BY NumberKind
<1>5. EncodeBody(enc, Val(t, b)) = b
  BY EncodeNumber
<1> HIDE DEF r, q
<1>6. CASE Fits(s, o, b)
  <2>1. q.ok = TRUE /\ q.val = b /\ q.at = o + Len(b)
    <3>1. q = Result(TRUE, b, o + Len(b))
      BY <1>2, <1>6 DEF Reads
    <3> QED
      BY <3>1 DEF Result
  <2>2. BodyReads(r, s, o, b, t, Plain, enc, firm)
    BY <1>3, <1>4, <1>5, <1>6, <2>1, ValIs DEF BodyReads
  <2> QED
    BY <2>2 DEF r
<1>7. CASE ~Fits(s, o, b)
  <2>1. q.ok = FALSE /\ q.at = Len(s)
    BY <1>2, <1>7 DEF Reads
  <2>2. BodyReads(r, s, o, b, t, Plain, enc, firm)
    BY <1>3, <1>7, <2>1 DEF BodyReads
  <2> QED
    BY <2>2 DEF r
<1> QED
  BY <1>6, <1>7

LEMMA MeasurementReads ==
  ASSUME NEW s \in Text, NEW o \in 0..Len(s), NEW enc, NEW dec, NEW firm \in BOOLEAN,
         NEW f \in Nat, NEW u \in Nat, At(s, o, Word(f) \o <<u>>)
  PROVE  BodyReads(DecodeBody("MEASUREMENT", dec, s, o), s, o, Word(f) \o <<u>>,
                   "MEASUREMENT", Plain, enc, firm)
<1> DEFINE r == DecodeBody("MEASUREMENT", dec, s, o)
           b == Word(f) \o <<u>>
           y == <<u>>
           p == TakeWord(s, o)
           q == Take(s, o + 2, 1)
<1>1. Len(s) \in Nat /\ o \in Nat /\ y \in Text /\ Len(y) = 1 /\ y[1] = u
  BY DEF Text
<1>2. Word(f) \in Text /\ Len(Word(f)) = 2
  BY WordText
<1>3. At(s, o, Word(f)) /\ At(s, o + 2, y) /\ Len(b) = 3
  <2>1. Len(Word(f) \o y) = Len(Word(f)) + Len(y) /\ At(s, o, Word(f)) /\ At(s, o + Len(Word(f)), y)
    <3> HIDE DEF y
    <3>1. At(s, o, Word(f) \o y)
      BY DEF y
    <3> QED
      BY <1>1, <1>2, <3>1, AtConcat, ConcatText
  <2> QED
    BY <1>1, <1>2, <2>1
<1>4. Reads(p, s, o, Word(f), f)
  BY <1>3, TakeWordReads
<1>5. r = IF ~p.ok THEN Failed(p.at)
          ELSE IF ~Take(s, p.at, 1).ok THEN Failed(Take(s, p.at, 1).at)
          ELSE Typed("MEASUREMENT", Result(TRUE, <<p.val, Take(s, p.at, 1).val[1], Wild>>,
                                           Take(s, p.at, 1).at))
  BY DecodeMeasurement, Zenon
<1> HIDE DEF r, b, y, p
<1>6. CASE Fits(s, o, Word(f))
  <2>1. p.ok = TRUE /\ p.val = f /\ p.at = o + 2
    <3>1. p = Result(TRUE, f, o + 2)
      BY <1>2, <1>4, <1>6 DEF Reads
    <3> QED
      BY <3>1 DEF Result
  <2>2. r = IF ~q.ok THEN Failed(q.at)
            ELSE Typed("MEASUREMENT", Result(TRUE, <<f, q.val[1], Wild>>, q.at))
    BY <1>5, <2>1
  <2>3. o + 2 \in 0..Len(s)
    BY <1>1, <1>2, <1>6 DEF Fits
  <2>4. Reads(q, s, o + 2, y, y)
    BY <1>1, <1>3, <2>3, TakeReads
  <2> HIDE DEF q
  <2>5. Fits(s, o + 2, y) <=> Fits(s, o, b)
    BY <1>1, <1>3 DEF Fits
  <2>6. CASE Fits(s, o, b)
    <3>1. q.ok = TRUE /\ q.val = y /\ q.at = o + 3
      <4>1. q = Result(TRUE, y, o + 2 + Len(y))
        BY <2>4, <2>5, <2>6 DEF Reads
      <4>2. o + 2 + Len(y) = o + 3
        BY <1>1
      <4> QED
        BY <4>1, <4>2 DEF Result
    <3> DEFINE x == Val("MEASUREMENT", <<f, u, Wild>>)
    <3>2. r = Typed("MEASUREMENT", Result(TRUE, <<f, u, Wild>>, o + 3))
      BY <1>1, <2>2, <3>1
    <3>3. r.ok = TRUE /\ r.val = x /\ r.at = o + 3
      BY <3>2 DEF Typed, Result, Val
    <3>4. x \in Plain
      BY DEF Val, Plain
    <3>5. EncodeBody(enc, x) = b /\ x.type = "MEASUREMENT"
      <4>1. x.type = "MEASUREMENT" /\ x.data[1] = f /\ x.data[2] = u
        BY DEF Val
      <4> HIDE DEF x
      <4> QED
        BY <4>1, EncodeBodyIs DEF b, y
    <3> HIDE DEF x
    <3>6. BodyReads(r, s, o, b, "MEASUREMENT", Plain, enc, firm)
      BY <1>3, <2>6, <3>3, <3>4, <3>5 DEF BodyReads
    <3> QED
      BY <3>6 DEF r, b
  <2>7. CASE ~Fits(s, o, b)
    <3>1. q.ok = FALSE /\ q.at = Len(s)
      BY <2>4, <2>5, <2>7 DEF Reads
    <3>2. r.ok = FALSE /\ r.at = Len(s)
      BY <2>2, <3>1, FailedIs
    <3>3. BodyReads(r, s, o, b, "MEASUREMENT", Plain, enc, firm)
      BY <2>7, <3>2 DEF BodyReads
    <3> QED
      BY <3>3 DEF r, b
  <2> QED
    BY <2>6, <2>7
<1>7. CASE ~Fits(s, o, Word(f))
  <2>1. p.ok = FALSE /\ p.at = Len(s)
    BY <1>4, <1>7 DEF Reads
  <2>2. r.ok = FALSE /\ r.at = Len(s)
    BY <1>5, <2>1, FailedIs
  <2>3. ~Fits(s, o, b)
    BY <1>1, <1>2, <1>3, <1>7 DEF Fits
  <2>4. BodyReads(r, s, o, b, "MEASUREMENT", Plain, enc, firm)
    BY <2>2, <2>3 DEF BodyReads
  <2> QED
    BY <2>4 DEF r, b
<1> QED
  BY <1>6, <1>7

LEMMA ErrorReads ==
  ASSUME NEW s \in Text, NEW o \in 0..Len(s), NEW enc, NEW dec,
         NEW c \in Nat, NEW m \in Text, At(s, o, Word(c) \o EncodeText(m))
  PROVE  BodyReads(DecodeBody("ERROR", dec, s, o), s, o, Word(c) \o EncodeText(m),
                   "ERROR", Errors, enc, FALSE)
<1> DEFINE r == DecodeBody("ERROR", dec, s, o)
           e == EncodeText(m)
           b == Word(c) \o e
           p == TakeWord(s, o)
           q == TakeText(s, o + 2)
<1>1. Len(s) \in Nat /\ o \in Nat /\ e \in Text /\ Len(e) \in Nat
  BY EncodeTextText DEF Text
<1>2. Word(c) \in Text /\ Len(Word(c)) = 2
  BY WordText
<1>3. At(s, o, Word(c)) /\ At(s, o + 2, e) /\ Len(b) = 2 + Len(e)
  <2> HIDE DEF e
  <2>1. At(s, o, Word(c) \o e)
    BY DEF e
  <2>2. /\ At(s, o, Word(c)) /\ At(s, o + Len(Word(c)), e)
        /\ Len(Word(c) \o e) = Len(Word(c)) + Len(e)
    BY <1>1, <1>2, <2>1, AtConcat, ConcatText
  <2> QED
    BY <1>2, <2>2
<1>4. Reads(p, s, o, Word(c), c)
  BY <1>3, TakeWordReads
<1>5. r = Typed("ERROR", Result(TRUE, <<p.val, TakeText(s, p.at).val>>, TakeText(s, p.at).at))
  BY DecodeError, Zenon
<1> HIDE DEF r, b, p
<1> SUFFICES ASSUME Fits(s, o, b)
             PROVE  /\ r.ok = TRUE /\ r.at = o + Len(b)
                    /\ r.val \in Errors /\ r.val.type = "ERROR" /\ EncodeBody(enc, r.val) = b
  BY DEF BodyReads, r, b
<1>6. Fits(s, o, Word(c)) /\ Fits(s, o + 2, e) /\ o + 2 \in 0..Len(s)
  <2> HIDE DEF e
  <2> QED
    BY <1>1, <1>2, <1>3 DEF Fits
<1>7. p.val = c /\ p.at = o + 2
  <2>1. p = Result(TRUE, c, o + 2)
    BY <1>2, <1>4, <1>6 DEF Reads
  <2> QED
    BY <2>1 DEF Result
<1>8. Reads(q, s, o + 2, e, m)
  BY <1>3, <1>6, TakeTextReads
<1> HIDE DEF q
<1>9. q.val = m /\ q.at = o + Len(b)
  <2>1. q = Result(TRUE, m, o + 2 + Len(e))
    BY <1>6, <1>8 DEF Reads
  <2>2. o + 2 + Len(e) = o + Len(b)
    <3> HIDE DEF e
    <3> QED
      BY <1>1, <1>3
  <2> QED
    BY <2>1, <2>2 DEF Result
<1> DEFINE x == Val("ERROR", <<c, m>>)
<1>10. r = Typed("ERROR", Result(TRUE, <<c, m>>, o + Len(b)))
  BY <1>5, <1>7, <1>9 DEF q
<1>11. r.ok = TRUE /\ r.val = x /\ r.at = o + Len(b)
  BY <1>10 DEF Typed, Result, Val
<1>12. x \in Errors
  BY DEF Val, Errors
<1>13. EncodeBody(enc, x) = b /\ x.type = "ERROR"
  <2>1. x.type = "ERROR" /\ x.data[1] = c /\ x.data[2] = m
    BY DEF Val
  <2> HIDE DEF x
  <2> QED
    BY <2>1, EncodeBodyIs DEF b
<1> HIDE DEF x
<1> QED
  BY <1>11, <1>12, <1>13

(* A count and as many things after it.                                     *)
ItemsFound(r, s, o, b, t, ss, X, enc, firm) ==
  /\ Fits(s, o, b) =>
       /\ r.ok = TRUE /\ r.at = o + Len(b)
       /\ \E x \in Seq(X) : /\ r.val = Val(t, x) /\ Len(x) = Len(ss)
                            /\ \A i \in 1..Len(ss) : enc[x[i]] = ss[i]
  /\ firm /\ ~Fits(s, o, b) => r.ok = FALSE /\ r.at = Len(s)

LEMMA ItemsRead ==
  ASSUME NEW s \in Text, NEW o \in 0..Len(s), NEW ss \in Seq(Text), NEW t,
         NEW item, NEW X, NEW enc, NEW firm \in BOOLEAN,
         At(s, o, Word(Len(ss)) \o Joined(ss)),
         \A i \in 1..Len(ss) : \A p \in 0..Len(s) :
           At(s, p, ss[i]) => ReadsAs(item[p], s, p, ss[i], X, enc, firm)
  PROVE  ItemsFound(DecodeItems(t, item, s, o), s, o, Word(Len(ss)) \o Joined(ss),
                    t, ss, X, enc, firm)
<1> DEFINE N == Len(ss)
           w == Word(N)
           j == Joined(ss)
           b == w \o j
           n == TakeWord(s, o)
           r == DecodeItems(t, item, s, o)
           q == Items(item, o + 2, N)[N]
<1>1. Len(s) \in Nat /\ o \in Nat /\ N \in Nat
  BY DEF Text
<1>2. w \in Text /\ Len(w) = 2
  BY <1>1, WordText
<1>3. j \in Text /\ Len(j) \in Nat
  <2>1. Len(ss) \in 0..Len(ss)
    BY <1>1
  <2> QED
    BY <2>1, JoinsText DEF Joined, Text
<1> HIDE DEF w, j
<1>4. At(s, o, w) /\ At(s, o + 2, j) /\ Len(b) = 2 + Len(j)
  <2>1. At(s, o, w \o j)
    BY DEF w, j
  <2>2. /\ At(s, o, w) /\ At(s, o + Len(w), j) /\ Len(w \o j) = Len(w) + Len(j)
    BY <1>1, <1>2, <1>3, <2>1, AtConcat, ConcatText
  <2> QED
    BY <1>2, <2>2
<1>5. Reads(n, s, o, w, N)
  BY <1>1, <1>4, TakeWordReads DEF w
<1>6. r = IF n.ok THEN Typed(t, Items(item, n.at, n.val)[n.val]) ELSE Failed(n.at)
  BY DEF DecodeItems
<1> HIDE DEF b, r, n
<1>7. CASE Fits(s, o, w)
  <2>1. n.ok = TRUE /\ n.val = N /\ n.at = o + 2
    <3>1. n = Result(TRUE, N, o + 2)
      BY <1>2, <1>5, <1>7 DEF Reads
    <3> QED
      BY <3>1 DEF Result
  <2>2. r = Typed(t, q)
    BY <1>6, <2>1
  <2>3. o + 2 \in 0..Len(s)
    BY <1>1, <1>2, <1>7 DEF Fits
  <2>4. ReadsAll(q, s, o + 2, ss, N, X, enc, firm)
    BY <1>4, <2>3, LoopReads DEF j
  <2> HIDE DEF q
  <2>5. r.ok = q.ok /\ r.val = Val(t, q.val) /\ r.at = q.at
    BY <2>2, TypedIs
  <2>6. Fits(s, o + 2, j) <=> Fits(s, o, b)
    BY <1>1, <1>3, <1>4 DEF Fits
  <2>7. ASSUME Fits(s, o, b)
        PROVE  /\ r.ok = TRUE /\ r.at = o + Len(b)
               /\ \E x \in Seq(X) : /\ r.val = Val(t, x) /\ Len(x) = Len(ss)
                                    /\ \A i \in 1..Len(ss) : enc[x[i]] = ss[i]
    <3>1. /\ q.ok = TRUE /\ q.at = o + 2 + Len(j)
          /\ q.val \in Seq(X) /\ Len(q.val) = N
          /\ \A k \in 1..N : enc[q.val[k]] = ss[k]
      BY <2>4, <2>6, <2>7 DEF ReadsAll, j, Joined
    <3>2. o + 2 + Len(j) = o + Len(b)
      BY <1>1, <1>3, <1>4
    <3> QED
      BY <2>5, <3>1, <3>2
  <2>8. ASSUME firm, ~Fits(s, o, b)
        PROVE  r.ok = FALSE /\ r.at = Len(s)
    BY <2>4, <2>5, <2>6, <2>8 DEF ReadsAll, j, Joined
  <2>9. ItemsFound(r, s, o, b, t, ss, X, enc, firm)
    BY <2>7, <2>8 DEF ItemsFound
  <2> QED
    BY <2>9 DEF b, r, w, j
<1>8. CASE ~Fits(s, o, w)
  <2>1. n.ok = FALSE /\ n.at = Len(s)
    BY <1>5, <1>8 DEF Reads
  <2>2. r.ok = FALSE /\ r.at = Len(s)
    BY <1>6, <2>1, FailedIs
  <2>3. ~Fits(s, o, b)
    BY <1>1, <1>2, <1>3, <1>4, <1>8 DEF Fits
  <2>4. ItemsFound(r, s, o, b, t, ss, X, enc, firm)
    BY <2>2, <2>3 DEF ItemsFound
  <2> QED
    BY <2>4 DEF b, r, w, j
<1> QED
  BY <1>7, <1>8

(* The elements of an array and the entries of a map, one by one.           *)
Elems(enc, data) == [i \in DOMAIN data |-> enc[data[i]]]

EncodeEntry(enc, e) == EncodeText(e[1]) \o enc[e[2]]

Entries(enc, data) == [i \in DOMAIN data |-> EncodeText(data[i][1]) \o enc[data[i][2]]]

LEMMA EncodeArray ==
  ASSUME NEW enc, NEW v, v.type = "ARRAY"
  PROVE  EncodeBody(enc, v) = Word(Len(v.data)) \o Joined(Elems(enc, v.data))
  BY NumbersAre DEF EncodeBody, Elems

LEMMA EncodeMap ==
  ASSUME NEW enc, NEW v, v.type = "MAP"
  PROVE  EncodeBody(enc, v) = Word(Len(v.data)) \o Joined(Entries(enc, v.data))
  BY NumbersAre DEF EncodeBody, Entries

(* enc writes the vals of good.                                             *)
Writes(enc, good) == \A x \in good : enc[x] \in Text

LEMMA ElemsText ==
  ASSUME NEW good, NEW enc, Writes(enc, good), NEW data \in Seq(good)
  PROVE  /\ Elems(enc, data) \in Seq(Text) /\ Len(Elems(enc, data)) = Len(data)
         /\ \A i \in 1..Len(data) : Elems(enc, data)[i] = enc[data[i]]
<1>1. Len(data) \in Nat /\ DOMAIN data = 1..Len(data) /\ \A i \in 1..Len(data) : data[i] \in good
  OBVIOUS
<1>2. \A i \in 1..Len(data) : enc[data[i]] \in Text
  BY <1>1 DEF Writes
<1> QED
  BY <1>1, <1>2 DEF Elems

LEMMA EntriesText ==
  ASSUME NEW good, NEW enc, Writes(enc, good), NEW data \in Seq(Text \X good)
  PROVE  /\ Entries(enc, data) \in Seq(Text) /\ Len(Entries(enc, data)) = Len(data)
         /\ \A i \in 1..Len(data) : /\ Entries(enc, data)[i] = EncodeEntry(enc, data[i])
                                    /\ data[i][1] \in Text /\ data[i][2] \in good
<1>1. Len(data) \in Nat /\ DOMAIN data = 1..Len(data) /\ \A i \in 1..Len(data) : data[i] \in Text \X good
  OBVIOUS
<1>2. ASSUME NEW i \in 1..Len(data)
      PROVE  /\ data[i][1] \in Text /\ data[i][2] \in good
             /\ EncodeEntry(enc, data[i]) \in Text
  <2>1. data[i][1] \in Text /\ data[i][2] \in good
    BY <1>1
  <2>2. EncodeText(data[i][1]) \in Text /\ enc[data[i][2]] \in Text
    BY <2>1, EncodeTextText DEF Writes
  <2>3. EncodeText(data[i][1]) \o enc[data[i][2]] \in Text
    BY <2>2, ConcatText
  <2> QED
    BY <2>1, <2>3 DEF EncodeEntry
<1>3. Entries(enc, data) = [i \in 1..Len(data) |-> EncodeEntry(enc, data[i])]
  BY <1>1 DEF Entries, EncodeEntry
<1> QED
  BY <1>1, <1>2, <1>3

LEMMA ArrayReads ==
  ASSUME NEW s \in Text, NEW o \in 0..Len(s), NEW firm \in BOOLEAN, NEW inside, NEW good,
         inside \subseteq good, NEW enc, NEW dec, Writes(enc, good),
         \A x \in inside : \A p \in 0..Len(s) :
           At(s, p, enc[x]) => ReadsAs(dec[p], s, p, enc[x], good, enc, firm),
         NEW data \in Seq(inside), NEW b, b = Word(Len(data)) \o Joined(Elems(enc, data)),
         At(s, o, b)
  PROVE  BodyReads(DecodeBody("ARRAY", dec, s, o), s, o, b, "ARRAY",
                   [type : {"ARRAY"}, data : Seq(good)], enc, firm)
<1> DEFINE ss == Elems(enc, data)
           r == DecodeBody("ARRAY", dec, s, o)
<1>1. data \in Seq(good) /\ Len(data) \in Nat /\ \A i \in 1..Len(data) : data[i] \in inside
  BY SeqMonotonic
<1>2. /\ ss \in Seq(Text) /\ Len(ss) = Len(data)
      /\ \A i \in 1..Len(data) : ss[i] = enc[data[i]]
  BY <1>1, ElemsText
<1>3. \A i \in 1..Len(ss) : \A p \in 0..Len(s) :
        At(s, p, ss[i]) => ReadsAs(dec[p], s, p, ss[i], good, enc, firm)
  BY <1>1, <1>2
<1>4. r = DecodeItems("ARRAY", dec, s, o)
  BY DecodeArray
<1>5. b = Word(Len(ss)) \o Joined(ss)
  BY <1>2
<1> HIDE DEF ss
<1>6. ItemsFound(r, s, o, b, "ARRAY", ss, good, enc, firm)
  <2>1. At(s, o, Word(Len(ss)) \o Joined(ss))
    BY <1>5
  <2> HIDE DEF r
  <2> QED
    BY <1>2, <1>3, <1>4, <1>5, <2>1, ItemsRead
<1> HIDE DEF r
<1>7. ASSUME Fits(s, o, b)
      PROVE  /\ r.val \in [type : {"ARRAY"}, data : Seq(good)] /\ r.val.type = "ARRAY"
             /\ EncodeBody(enc, r.val) = b
  <2>1. PICK x \in Seq(good) : /\ r.val = Val("ARRAY", x) /\ Len(x) = Len(ss)
                               /\ \A i \in 1..Len(ss) : enc[x[i]] = ss[i]
    BY <1>6, <1>7 DEF ItemsFound
  <2>2. r.val.type = "ARRAY" /\ r.val.data = x
    BY <2>1, ValIs
  <2>3. EncodeBody(enc, r.val) = Word(Len(x)) \o Joined(Elems(enc, x))
    BY <2>2, EncodeArray
  <2>4. Elems(enc, x) = ss
    <3>1. /\ Elems(enc, x) \in Seq(Text) /\ Len(Elems(enc, x)) = Len(x)
          /\ \A i \in 1..Len(x) : Elems(enc, x)[i] = enc[x[i]]
      BY <2>1, ElemsText
    <3> QED
      BY <1>2, <2>1, <3>1, SeqEqual
  <2> QED
    BY <1>5, <2>1, <2>2, <2>3, <2>4 DEF Val
<1>8. BodyReads(r, s, o, b, "ARRAY", [type : {"ARRAY"}, data : Seq(good)], enc, firm)
  BY <1>6, <1>7 DEF BodyReads, ItemsFound
<1> QED
  BY <1>8 DEF r

LEMMA EntryReads ==
  ASSUME NEW s \in Text, NEW o \in 0..Len(s), NEW firm \in BOOLEAN, NEW good,
         NEW enc, NEW dec, NEW code, NEW k \in Text, NEW e \in Text,
         \A p \in 0..Len(s) : At(s, p, e) => ReadsAs(dec[p], s, p, e, good, enc, firm),
         \A x \in Text \X good : code[x] = EncodeEntry(enc, x),
         At(s, o, EncodeText(k) \o e)
  PROVE  ReadsAs(DecodeEntry(dec, s, o), s, o, EncodeText(k) \o e, Text \X good, code, firm)
<1> DEFINE r == DecodeEntry(dec, s, o)
           c == EncodeText(k)
           b == c \o e
           q == TakeText(s, o)
           p == o + Len(c)
           y == dec[p]
<1>1. Len(s) \in Nat /\ o \in Nat /\ Len(e) \in Nat
  BY DEF Text
<1>2. c \in Text /\ Len(c) \in Nat
  BY EncodeTextText DEF Text
<1>3. Reads(q, s, o, c, k) /\ At(s, p, e) /\ Len(b) = Len(c) + Len(e)
  <2> HIDE DEF c
  <2>1. At(s, o, c \o e)
    BY DEF c
  <2>2. At(s, o, c) /\ At(s, p, e) /\ Len(c \o e) = Len(c) + Len(e)
    BY <1>1, <1>2, <2>1, AtConcat, ConcatText
  <2>3. Reads(q, s, o, c, k)
    BY <2>2, TakeTextReads DEF c
  <2> QED
    BY <2>2, <2>3
<1>4. r = IF ~q.ok THEN Failed(q.at)
          ELSE IF dec[q.at].ok THEN Result(TRUE, <<q.val, dec[q.at].val>>, dec[q.at].at)
          ELSE Failed(dec[q.at].at)
  BY DEF DecodeEntry
<1> HIDE DEF r, q, b, c
<1>5. CASE Fits(s, o, c)
  <2>1. q.ok = TRUE /\ q.val = k /\ q.at = p
    <3>1. q = Result(TRUE, k, p)
      BY <1>3, <1>5 DEF Reads
    <3> HIDE DEF p
    <3> QED
      BY <3>1 DEF Result
  <2>2. r = IF y.ok THEN Result(TRUE, <<k, y.val>>, y.at) ELSE Failed(y.at)
    BY <1>4, <2>1
  <2>3. p \in 0..Len(s)
    BY <1>1, <1>2, <1>5 DEF Fits
  <2>4. ReadsAs(y, s, p, e, good, enc, firm)
    <3> HIDE DEF p
    <3> QED
      BY <1>3, <2>3
  <2>5. Fits(s, p, e) <=> Fits(s, o, b)
    BY <1>1, <1>2, <1>3 DEF Fits
  <2> HIDE DEF y
  <2>6. ASSUME Fits(s, o, b)
        PROVE  /\ r.ok = TRUE /\ r.at = o + Len(b)
               /\ r.val \in Text \X good /\ code[r.val] = b
    <3>1. y.ok = TRUE /\ y.at = p + Len(e) /\ y.val \in good /\ enc[y.val] = e
      BY <2>4, <2>5, <2>6 DEF ReadsAs
    <3> DEFINE x == <<k, y.val>>
    <3>2. r = Result(TRUE, x, y.at)
      BY <2>2, <3>1
    <3>3. x \in Text \X good /\ x[1] = k /\ x[2] = y.val
      BY <3>1
    <3> HIDE DEF x
    <3>4. r.ok = TRUE /\ r.val = x /\ r.at = y.at
      BY <3>2 DEF Result
    <3>5. y.at = o + Len(b)
      BY <1>1, <1>2, <1>3, <3>1
    <3>6. code[x] = b
      BY <3>1, <3>3 DEF EncodeEntry, b, c
    <3> QED
      BY <3>3, <3>4, <3>5, <3>6
  <2>7. ASSUME firm, ~Fits(s, o, b)
        PROVE  r.ok = FALSE /\ r.at = Len(s)
    <3>1. y.ok = FALSE /\ y.at = Len(s)
      BY <2>4, <2>5, <2>7 DEF ReadsAs
    <3> QED
      BY <2>2, <3>1, FailedIs
  <2>8. ReadsAs(r, s, o, b, Text \X good, code, firm)
    BY <2>6, <2>7 DEF ReadsAs
  <2> QED
    BY <2>8 DEF r, b, c
<1>6. CASE ~Fits(s, o, c)
  <2>1. q.ok = FALSE /\ q.at = Len(s)
    BY <1>3, <1>6 DEF Reads
  <2>2. r.ok = FALSE /\ r.at = Len(s)
    BY <1>4, <2>1, FailedIs
  <2>3. ~Fits(s, o, b)
    BY <1>1, <1>2, <1>3, <1>6 DEF Fits
  <2>4. ReadsAs(r, s, o, b, Text \X good, code, firm)
    BY <2>2, <2>3 DEF ReadsAs
  <2> QED
    BY <2>4 DEF r, b, c
<1> QED
  BY <1>5, <1>6

LEMMA MapReads ==
  ASSUME NEW s \in Text, NEW o \in 0..Len(s), NEW firm \in BOOLEAN, NEW inside, NEW good,
         inside \subseteq good, NEW enc, NEW dec, Writes(enc, good),
         \A x \in inside : \A p \in 0..Len(s) :
           At(s, p, enc[x]) => ReadsAs(dec[p], s, p, enc[x], good, enc, firm),
         NEW data \in Seq(Text \X inside), NEW b,
         b = Word(Len(data)) \o Joined(Entries(enc, data)), At(s, o, b)
  PROVE  BodyReads(DecodeBody("MAP", dec, s, o), s, o, b, "MAP",
                   [type : {"MAP"}, data : Seq(Text \X good)], enc, firm)
<1> DEFINE ss == Entries(enc, data)
           r == DecodeBody("MAP", dec, s, o)
           item == [p \in 0..Len(s) |-> DecodeEntry(dec, s, p)]
           X == Text \X good
           code == [x \in X |-> EncodeEntry(enc, x)]
<1>1. data \in Seq(X) /\ Len(data) \in Nat /\ \A i \in 1..Len(data) : data[i] \in Text \X inside
  <2>1. Text \X inside \subseteq X
    OBVIOUS
  <2> HIDE DEF X
  <2> QED
    BY <2>1, SeqMonotonic
<1>2. /\ ss \in Seq(Text) /\ Len(ss) = Len(data)
      /\ \A i \in 1..Len(data) : /\ ss[i] = EncodeEntry(enc, data[i])
                                 /\ data[i][1] \in Text /\ data[i][2] \in good
  BY <1>1, EntriesText
<1>3. \A x \in X : code[x] = EncodeEntry(enc, x)
  OBVIOUS
<1>4. r = DecodeItems("MAP", item, s, o)
  BY DecodeMap
<1>5. b = Word(Len(ss)) \o Joined(ss)
  BY <1>2
<1> HIDE DEF ss, code, r
<1>6. ASSUME NEW i \in 1..Len(ss), NEW p \in 0..Len(s), At(s, p, ss[i])
      PROVE  ReadsAs(item[p], s, p, ss[i], X, code, firm)
  <2> DEFINE k == data[i][1]
             z == data[i][2]
  <2>1. i \in 1..Len(data)
    BY <1>2
  <2>2. k \in Text /\ z \in inside /\ z \in good /\ enc[z] \in Text
    BY <1>1, <2>1 DEF Writes
  <2>3. ss[i] = EncodeText(k) \o enc[z]
    BY <1>2, <2>1 DEF EncodeEntry
  <2> HIDE DEF k, z
  <2>4. ReadsAs(DecodeEntry(dec, s, p), s, p, EncodeText(k) \o enc[z], X, code, firm)
    <3>1. \A m \in 0..Len(s) : At(s, m, enc[z]) => ReadsAs(dec[m], s, m, enc[z], good, enc, firm)
      BY <2>2
    <3>2. At(s, p, EncodeText(k) \o enc[z])
      BY <1>6, <2>3
    <3> QED
      BY <1>3, <2>2, <3>1, <3>2, EntryReads
  <2> QED
    BY <2>3, <2>4
<1> HIDE DEF item
<1>7. ItemsFound(r, s, o, b, "MAP", ss, X, code, firm)
  <2>1. At(s, o, Word(Len(ss)) \o Joined(ss))
    BY <1>5
  <2> HIDE DEF X
  <2> QED
    BY <1>2, <1>6, <1>4, <1>5, <2>1, ItemsRead
<1>8. ASSUME Fits(s, o, b)
      PROVE  /\ r.val \in [type : {"MAP"}, data : Seq(X)] /\ r.val.type = "MAP"
             /\ EncodeBody(enc, r.val) = b
  <2>1. PICK x \in Seq(X) : /\ r.val = Val("MAP", x) /\ Len(x) = Len(ss)
                            /\ \A i \in 1..Len(ss) : code[x[i]] = ss[i]
    BY <1>7, <1>8 DEF ItemsFound
  <2>2. r.val.type = "MAP" /\ r.val.data = x
    BY <2>1, ValIs
  <2>3. EncodeBody(enc, r.val) = Word(Len(x)) \o Joined(Entries(enc, x))
    BY <2>2, EncodeMap
  <2>4. Entries(enc, x) = ss
    <3>1. /\ Entries(enc, x) \in Seq(Text) /\ Len(Entries(enc, x)) = Len(x)
          /\ \A i \in 1..Len(x) : Entries(enc, x)[i] = EncodeEntry(enc, x[i])
      <4>1. x \in Seq(Text \X good)
        BY <2>1
      <4>2. /\ Entries(enc, x) \in Seq(Text) /\ Len(Entries(enc, x)) = Len(x)
            /\ \A i \in 1..Len(x) : /\ Entries(enc, x)[i] = EncodeEntry(enc, x[i])
                                    /\ x[i][1] \in Text /\ x[i][2] \in good
        BY <4>1, EntriesText, Zenon
      <4> QED
        BY <4>2
    <3>2. \A i \in 1..Len(x) : x[i] \in X
      <4> HIDE DEF X
      <4> QED
        BY <2>1
    <3>3. \A i \in 1..Len(x) : Entries(enc, x)[i] = ss[i]
      <4> HIDE DEF X
      <4> QED
        BY <1>3, <2>1, <3>1, <3>2
    <3> QED
      BY <1>2, <2>1, <3>1, <3>3, SeqEqual
  <2> HIDE DEF X
  <2> QED
    BY <1>5, <2>1, <2>2, <2>3, <2>4 DEF Val
<1>9. BodyReads(r, s, o, b, "MAP", [type : {"MAP"}, data : Seq(X)], enc, firm)
  <2> HIDE DEF X
  <2> QED
    BY <1>7, <1>8 DEF BodyReads, ItemsFound
<1> QED
  BY <1>9 DEF r

-----------------------------------------------------------------------------
(* The whole of a val.                                                      *)

(* Of vals with an ERROR inside only those that fit are read.               *)
Leaves(firm) == IF firm THEN Plain ELSE Plain \cup Errors

AllLeaves == Plain \cup Errors \cup Blobs

LEMMA LeavesGrow ==
  ASSUME NEW firm \in BOOLEAN
  PROVE  Leaves(firm) \subseteq Leaves(FALSE) /\ Leaves(firm) \subseteq AllLeaves
  BY DEF Leaves, AllLeaves

LEMMA WrappedGrow ==
  ASSUME NEW l, NEW m, l \subseteq m, NEW i, NEW j, i \subseteq j
  PROVE  Wrapped(l, i) \subseteq Wrapped(m, j)
<1>1. Seq(i) \subseteq Seq(j)
  BY SeqMonotonic
<1>2. Seq(Text \X i) \subseteq Seq(Text \X j)
  <2>1. Text \X i \subseteq Text \X j
    OBVIOUS
  <2> QED
    BY <2>1, SeqMonotonic
<1> QED
  BY <1>1, <1>2 DEF Wrapped

LEMMA NestedNext ==
  ASSUME NEW leaves, NEW d \in 0..MaxNest, d # 0
  PROVE  Nested(leaves)[d] = Wrapped(leaves, Nested(leaves)[d - 1]) /\ d - 1 \in 0..MaxNest
<1>1. Nested(leaves)[d] = Wrapped(leaves, Nested(leaves)[d - 1])
  BY NestedIs, Zenon
<1> QED
  BY <1>1, ValsAssumption

LEMMA NestedGrow ==
  ASSUME NEW l, NEW m, l \subseteq m
  PROVE  \A d \in 0..MaxNest : Nested(l)[d] \subseteq Nested(m)[d]
<1> DEFINE S == {d \in 0..MaxNest : Nested(l)[d] \subseteq Nested(m)[d]}
<1>1. MaxNest \in Nat
  BY ValsAssumption
<1>2. 0 \in S
  <2>1. Nested(l)[0] = {}
    BY NestedIs, Zenon
  <2> QED
    BY <1>1, <2>1
<1>3. ASSUME NEW d \in 0..MaxNest, d \in S, d < MaxNest
      PROVE  d + 1 \in S
  <2> DEFINE k == d + 1
  <2>1. k \in 0..MaxNest /\ k # 0 /\ k - 1 = d
    BY <1>1, <1>3
  <2> HIDE DEF k
  <2>2. Nested(l)[k] = Wrapped(l, Nested(l)[d]) /\ Nested(m)[k] = Wrapped(m, Nested(m)[d])
    BY <2>1, NestedNext
  <2>3. Nested(l)[d] \subseteq Nested(m)[d]
    BY <1>3
  <2>4. Nested(l)[k] \subseteq Nested(m)[k]
    BY <2>2, <2>3, WrappedGrow
  <2>5. k \in S
    BY <2>1, <2>4
  <2> QED
    BY <2>5 DEF k
<1>4. \A d \in 0..MaxNest : d \in S
  <2> HIDE DEF S
  <2> QED
    BY <1>1, <1>2, <1>3, Induction
<1> QED
  BY <1>4

(* The kinds of a val.                                                      *)
LEMMA WrappedKinds ==
  ASSUME NEW leaves, NEW inside, NEW v \in Wrapped(leaves, inside)
  PROVE  \/ v \in leaves
         \/ v.type = "ARRAY" /\ v.data \in Seq(inside)
         \/ v.type = "MAP" /\ v.data \in Seq(Text \X inside)
  BY DEF Wrapped

LEMMA ErrorKind ==
  ASSUME NEW v \in Errors
  PROVE  v.type = "ERROR" /\ v.data[1] \in Nat /\ v.data[2] \in Text
  BY DEF Errors

LEMMA BlobKind ==
  ASSUME NEW v \in Blobs
  PROVE  v.type \in {"STRING", "BYTEARRAY"} /\ v.data \in Text
  BY DEF Blobs

LEMMA BodyText ==
  ASSUME NEW inside, NEW enc, Writes(enc, inside), NEW v \in Wrapped(AllLeaves, inside)
  PROVE  EncodeBody(enc, v) \in Text /\ v.type \in DOMAIN Types
<1> DEFINE b == EncodeBody(enc, v)
<1>1. CASE v.type = "EMPTY" /\ v.data = <<>>
  <2>1. b = <<>>
    BY <1>1, EncodeBodyIs
  <2> QED
    BY <1>1, <2>1, TypesAre DEF Text
<1>2. CASE v.type \in Numbers /\ v.data \in Text
  <2>1. b = v.data
    BY <1>2, EncodeBodyIs
  <2> QED
    BY <1>2, <2>1, TypesAre, NumbersAre
<1>3. CASE v.type = "MEASUREMENT" /\ v.data[1] \in Nat /\ v.data[2] \in Nat
  <2>1. b = Word(v.data[1]) \o <<v.data[2]>>
    BY <1>3, EncodeBodyIs
  <2>2. Word(v.data[1]) \in Text
    BY <1>3, WordText
  <2>3. <<v.data[2]>> \in Text
    BY <1>3 DEF Text
  <2>4. b \in Text
    BY <2>1, <2>2, <2>3, ConcatText
  <2> QED
    BY <1>3, <2>4, TypesAre
<1>4. CASE v \in Errors
  <2>1. v.type = "ERROR" /\ v.data[1] \in Nat /\ v.data[2] \in Text
    BY <1>4, ErrorKind
  <2>2. b = Word(v.data[1]) \o EncodeText(v.data[2])
    BY <2>1, EncodeBodyIs
  <2>3. Word(v.data[1]) \in Text /\ EncodeText(v.data[2]) \in Text
    BY <2>1, WordText, EncodeTextText
  <2>4. b \in Text
    BY <2>2, <2>3, ConcatText
  <2> QED
    BY <2>1, <2>4, TypesAre
<1>5. CASE v \in Blobs
  <2>1. v.type \in {"STRING", "BYTEARRAY"} /\ v.data \in Text
    BY <1>5, BlobKind
  <2>2. b = EncodeText(v.data)
    BY <2>1, EncodeBodyIs
  <2> QED
    BY <2>1, <2>2, TypesAre, EncodeTextText
<1>6. CASE v.type = "ARRAY" /\ v.data \in Seq(inside)
  <2>1. b = Word(Len(v.data)) \o Joined(Elems(enc, v.data))
    BY <1>6, EncodeArray
  <2>2. Elems(enc, v.data) \in Seq(Text) /\ Len(v.data) \in Nat
    BY <1>6, ElemsText
  <2>3. Joined(Elems(enc, v.data)) \in Text /\ Word(Len(v.data)) \in Text
    BY <2>2, JoinedText, WordText
  <2>4. b \in Text
    BY <2>1, <2>3, ConcatText
  <2> QED
    BY <1>6, <2>4, TypesAre
<1>7. CASE v.type = "MAP" /\ v.data \in Seq(Text \X inside)
  <2>1. b = Word(Len(v.data)) \o Joined(Entries(enc, v.data))
    BY <1>7, EncodeMap
  <2>2. Entries(enc, v.data) \in Seq(Text) /\ Len(v.data) \in Nat
    <3> DEFINE w == v.data
    <3>1. w \in Seq(Text \X inside)
      BY <1>7
    <3> HIDE DEF w
    <3>2. Entries(enc, w) \in Seq(Text)
      BY <3>1, EntriesText, Zenon
    <3>3. Len(w) \in Nat
      BY <3>1, LenProperties, Zenon
    <3> QED
      BY <3>2, <3>3 DEF w
  <2>3. Joined(Entries(enc, v.data)) \in Text /\ Word(Len(v.data)) \in Text
    BY <2>2, JoinedText, WordText
  <2>4. b \in Text
    BY <2>1, <2>3, ConcatText
  <2> QED
    BY <1>7, <2>4, TypesAre
<1> HIDE DEF b
<1> QED
  BY <1>1, <1>2, <1>3, <1>4, <1>5, <1>6, <1>7, WrappedKinds, PlainKinds DEF AllLeaves, b

LEMMA EncodingNext ==
  ASSUME NEW d \in 0..MaxNest, d # 0
  PROVE  /\ d - 1 \in 0..MaxNest
         /\ \A v \in AnyVal[d] :
              Encoding[d][v] = Word(Types[v.type]) \o EncodeBody(Encoding[d - 1], v)
<1>1. Encoding[d] = [v \in AnyVal[d] |-> Word(Types[v.type]) \o EncodeBody(Encoding[d - 1], v)]
  BY EncodingIs, Zenon
<1>2. d - 1 \in 0..MaxNest
  BY ValsAssumption
<1> QED
  BY <1>1, <1>2, Zenon

(* Every val is written as units.                                           *)
LEMMA EncodingText ==
  \A d \in 0..MaxNest : Writes(Encoding[d], AnyVal[d])
<1> DEFINE S == {d \in 0..MaxNest : Writes(Encoding[d], AnyVal[d])}
<1>1. MaxNest \in Nat
  BY ValsAssumption
<1>2. 0 \in S
  <2>1. AnyVal[0] = {}
    BY NestedIs, Zenon DEF AnyVal
  <2> QED
    BY <1>1, <2>1 DEF Writes
<1>3. ASSUME NEW d \in 0..MaxNest, d \in S, d < MaxNest
      PROVE  d + 1 \in S
  <2> DEFINE k == d + 1
  <2>1. k \in 0..MaxNest /\ k # 0 /\ k - 1 = d
    BY <1>1, <1>3
  <2> HIDE DEF k
  <2>2. AnyVal[k] = Wrapped(AllLeaves, AnyVal[d])
    BY <2>1, NestedNext DEF AnyVal, AllLeaves
  <2>3. Writes(Encoding[d], AnyVal[d])
    BY <1>3
  <2>4. ASSUME NEW v \in AnyVal[k]
        PROVE  Encoding[k][v] \in Text
    <3>1. Encoding[k][v] = Word(Types[v.type]) \o EncodeBody(Encoding[d], v)
      BY <2>1, EncodingNext
    <3>2. EncodeBody(Encoding[d], v) \in Text /\ v.type \in DOMAIN Types
      BY <2>2, <2>3, BodyText
    <3>3. Word(Types[v.type]) \in Text
      BY <3>2, TypesAre, WordText
    <3> QED
      BY <3>1, <3>2, <3>3, ConcatText
  <2>5. k \in S
    BY <2>1, <2>4 DEF Writes
  <2> QED
    BY <2>5 DEF k
<1>4. \A d \in 0..MaxNest : d \in S
  <2> HIDE DEF S
  <2> QED
    BY <1>1, <1>2, <1>3, Induction
<1> QED
  BY <1>4

(* The vals inside are read back.                                           *)
ReadsInside(s, inside, good, enc, dec, firm) ==
  \A x \in inside : \A p \in 0..Len(s) :
    At(s, p, enc[x]) => ReadsAs(dec[p], s, p, enc[x], good, enc, firm)

LEMMA LargerSet ==
  ASSUME NEW r, NEW s, NEW o, NEW b, NEW t, NEW X, NEW Y, X \subseteq Y, NEW enc, NEW firm,
         BodyReads(r, s, o, b, t, X, enc, firm)
  PROVE  BodyReads(r, s, o, b, t, Y, enc, firm)
  BY DEF BodyReads

LEMMA BodyReadBack ==
  ASSUME NEW s \in Text, NEW o \in 0..Len(s), NEW firm \in BOOLEAN, NEW inside, NEW good,
         inside \subseteq good, NEW enc, NEW dec, Writes(enc, good),
         ReadsInside(s, inside, good, enc, dec, firm),
         NEW v \in Wrapped(Leaves(firm), inside), At(s, o, EncodeBody(enc, v))
  PROVE  BodyReads(DecodeBody(v.type, dec, s, o), s, o, EncodeBody(enc, v), v.type,
                   Wrapped(Leaves(FALSE), good), enc, firm)
<1> DEFINE b == EncodeBody(enc, v)
           r == DecodeBody(v.type, dec, s, o)
           X == Wrapped(Leaves(FALSE), good)
           A == [type : {"ARRAY"}, data : Seq(good)]
           M == [type : {"MAP"}, data : Seq(Text \X good)]
<1>1. Plain \subseteq X /\ Errors \subseteq X /\ A \subseteq X /\ M \subseteq X
  BY DEF Wrapped, Leaves
<1>2. At(s, o, b)
  OBVIOUS
<1>3. /\ v.type = "EMPTY" => b = <<>>
      /\ v.type \in Numbers => b = v.data
      /\ v.type = "MEASUREMENT" => b = Word(v.data[1]) \o <<v.data[2]>>
      /\ v.type = "ERROR" => b = Word(v.data[1]) \o EncodeText(v.data[2])
  BY EncodeBodyIs
<1> HIDE DEF X, A, M, b
<1>4. CASE v.type = "EMPTY" /\ v.data = <<>>
  <2>1. BodyReads(r, s, o, b, v.type, Plain, enc, firm)
    BY <1>3, <1>4, EmptyReads
  <2> QED
    BY <1>1, <2>1, LargerSet DEF X, b
<1>5. CASE v.type \in Numbers /\ v.data \in Text /\ Len(v.data) = Width[v.type]
  <2>1. BodyReads(r, s, o, b, v.type, Plain, enc, firm)
    BY <1>2, <1>3, <1>5, NumberReads
  <2> QED
    BY <1>1, <2>1, LargerSet DEF X, b
<1>6. CASE v.type = "MEASUREMENT" /\ v.data[1] \in Nat /\ v.data[2] \in Nat
  <2>1. BodyReads(r, s, o, b, v.type, Plain, enc, firm)
    BY <1>2, <1>3, <1>6, MeasurementReads
  <2> QED
    BY <1>1, <2>1, LargerSet DEF X, b
<1>7. CASE v \in Errors /\ ~firm
  <2>1. v.type = "ERROR" /\ v.data[1] \in Nat /\ v.data[2] \in Text /\ firm = FALSE
    BY <1>7, ErrorKind
  <2>2. BodyReads(r, s, o, b, v.type, Errors, enc, firm)
    BY <1>2, <1>3, <2>1, ErrorReads
  <2> QED
    BY <1>1, <2>2, LargerSet DEF X, b
<1>8. CASE v.type = "ARRAY" /\ v.data \in Seq(inside)
  <2>1. b = Word(Len(v.data)) \o Joined(Elems(enc, v.data))
    BY <1>8, EncodeArray DEF b
  <2>2. BodyReads(DecodeBody("ARRAY", dec, s, o), s, o, b, "ARRAY", A, enc, firm)
    BY <1>2, <1>8, <2>1, ArrayReads DEF A, ReadsInside
  <2>3. BodyReads(r, s, o, b, v.type, A, enc, firm)
    BY <1>8, <2>2
  <2> QED
    BY <1>1, <2>3, LargerSet DEF X, b
<1>9. CASE v.type = "MAP" /\ v.data \in Seq(Text \X inside)
  <2>1. b = Word(Len(v.data)) \o Joined(Entries(enc, v.data))
    BY <1>9, EncodeMap DEF b
  <2>2. BodyReads(DecodeBody("MAP", dec, s, o), s, o, b, "MAP", M, enc, firm)
    BY <1>2, <1>9, <2>1, MapReads DEF M, ReadsInside
  <2>3. BodyReads(r, s, o, b, v.type, M, enc, firm)
    BY <1>9, <2>2
  <2> QED
    BY <1>1, <2>3, LargerSet DEF X, b
<1>10. \/ v \in Plain
       \/ v \in Errors /\ ~firm
       \/ v.type = "ARRAY" /\ v.data \in Seq(inside)
       \/ v.type = "MAP" /\ v.data \in Seq(Text \X inside)
  BY WrappedKinds DEF Leaves
<1>11. CASE v \in Plain
  BY <1>4, <1>5, <1>6, <1>11, PlainKinds
<1> QED
  BY <1>7, <1>8, <1>9, <1>10, <1>11

(* The type and the rest.                                                   *)
LEMMA ValReadBack ==
  ASSUME NEW s \in Text, NEW o \in 0..Len(s), NEW firm \in BOOLEAN, NEW inside, NEW good,
         inside \subseteq good, NEW enc, NEW dec, Writes(enc, good),
         ReadsInside(s, inside, good, enc, dec, firm), NEW code,
         \A x \in Wrapped(Leaves(FALSE), good) :
           code[x] = Word(Types[x.type]) \o EncodeBody(enc, x),
         NEW v \in Wrapped(Leaves(firm), inside), At(s, o, code[v])
  PROVE  ReadsAs(DecodeVal(dec, s, o), s, o, code[v], Wrapped(Leaves(FALSE), good), code, firm)
<1> DEFINE X == Wrapped(Leaves(FALSE), good)
           b == EncodeBody(enc, v)
           w == Word(Types[v.type])
           e == code[v]
           t == TakeWord(s, o)
           r == DecodeVal(dec, s, o)
           q == DecodeBody(v.type, dec, s, o + 2)
<1>1. v \in X
  BY LeavesGrow, WrappedGrow
<1>2. b \in Text /\ v.type \in DOMAIN Types /\ Len(b) \in Nat
  <2>1. good \subseteq good /\ Leaves(FALSE) \subseteq AllLeaves
    BY LeavesGrow
  <2>2. X \subseteq Wrapped(AllLeaves, good)
    BY <2>1, WrappedGrow
  <2>3. v \in Wrapped(AllLeaves, good)
    BY <1>1, <2>2
  <2> QED
    BY <2>3, BodyText DEF Text
<1>3. Types[v.type] \in Nat /\ TypeNamed(Types[v.type]) = v.type
  BY <1>2, TypesAre, TypeReadBack
<1>4. w \in Text /\ Len(w) = 2 /\ Len(s) \in Nat /\ o \in Nat
  <2>1. w \in Text /\ Len(w) = 2
    BY <1>3, WordText
  <2>2. Len(s) \in Nat /\ o \in Nat
    BY DEF Text
  <2> QED
    BY <2>1, <2>2
<1>5. e = w \o b
  BY <1>1
<1> HIDE DEF X, b, e, w
<1>6. At(s, o, w) /\ At(s, o + 2, b) /\ Len(e) = 2 + Len(b)
  <2>1. At(s, o, w \o b)
    BY <1>5 DEF e
  <2>2. At(s, o, w) /\ At(s, o + Len(w), b) /\ Len(w \o b) = Len(w) + Len(b)
    BY <1>2, <1>4, <2>1, AtConcat, ConcatText
  <2> QED
    BY <1>4, <1>5, <2>2
<1>7. Reads(t, s, o, w, Types[v.type])
  BY <1>3, <1>6, TakeWordReads DEF w
<1>8. r = IF t.ok THEN DecodeBody(TypeNamed(t.val), dec, s, t.at) ELSE Failed(t.at)
  BY DEF DecodeVal
<1> HIDE DEF t, r
<1>9. CASE Fits(s, o, w)
  <2>1. t.ok = TRUE /\ t.val = Types[v.type] /\ t.at = o + 2
    <3>1. t = Result(TRUE, Types[v.type], o + 2)
      BY <1>4, <1>7, <1>9 DEF Reads
    <3> QED
      BY <3>1 DEF Result
  <2>2. r = q
    BY <1>3, <1>8, <2>1
  <2>3. o + 2 \in 0..Len(s)
    BY <1>4, <1>9 DEF Fits
  <2>4. BodyReads(q, s, o + 2, b, v.type, X, enc, firm)
    BY <1>6, <2>3, BodyReadBack DEF X, b
  <2> HIDE DEF q
  <2>5. Fits(s, o + 2, b) <=> Fits(s, o, e)
    BY <1>2, <1>4, <1>6 DEF Fits
  <2>6. ASSUME Fits(s, o, e)
        PROVE  r.ok = TRUE /\ r.at = o + Len(e) /\ r.val \in X /\ code[r.val] = e
    <3>1. /\ q.ok = TRUE /\ q.at = o + 2 + Len(b)
          /\ q.val \in X /\ q.val.type = v.type /\ EncodeBody(enc, q.val) = b
      BY <2>4, <2>5, <2>6 DEF BodyReads
    <3>2. o + 2 + Len(b) = o + Len(e)
      BY <1>2, <1>4, <1>6
    <3>3. code[q.val] = Word(Types[q.val.type]) \o EncodeBody(enc, q.val)
      BY <3>1 DEF X
    <3>4. code[q.val] = e
      BY <1>5, <3>1, <3>3 DEF w
    <3> QED
      BY <2>2, <3>1, <3>2, <3>4
  <2>7. ASSUME firm, ~Fits(s, o, e)
        PROVE  r.ok = FALSE /\ r.at = Len(s)
    BY <2>2, <2>4, <2>5, <2>7 DEF BodyReads
  <2>8. ReadsAs(r, s, o, e, X, code, firm)
    BY <2>6, <2>7 DEF ReadsAs
  <2> QED
    BY <2>8 DEF r, e, X
<1>10. CASE ~Fits(s, o, w)
  <2>1. t.ok = FALSE /\ t.at = Len(s)
    BY <1>7, <1>10 DEF Reads
  <2>2. r.ok = FALSE /\ r.at = Len(s)
    BY <1>8, <2>1, FailedIs
  <2>3. ~Fits(s, o, e)
    BY <1>2, <1>4, <1>6, <1>10 DEF Fits
  <2>4. ReadsAs(r, s, o, e, X, code, firm)
    BY <2>2, <2>3 DEF ReadsAs
  <2> QED
    BY <2>4 DEF r, e, X
<1> QED
  BY <1>9, <1>10

(* The vals of a depth, and that they can be written.                       *)
Level(firm, d) == Nested(Leaves(firm))[d]

LEMMA LevelFacts ==
  ASSUME NEW firm \in BOOLEAN, NEW d \in 0..MaxNest
  PROVE  /\ Level(firm, d) \subseteq Level(FALSE, d) /\ Level(firm, d) \subseteq AnyVal[d]
         /\ Writes(Encoding[d], Level(firm, d))
<1>1. Level(firm, d) \subseteq Level(FALSE, d)
  BY LeavesGrow, NestedGrow DEF Level
<1>2. Level(firm, d) \subseteq AnyVal[d]
  BY LeavesGrow, NestedGrow DEF Level, AnyVal, AllLeaves
<1>3. Writes(Encoding[d], AnyVal[d])
  BY EncodingText
<1> QED
  BY <1>1, <1>2, <1>3 DEF Writes

(* read(val&) is the inverse of write(const val&): wherever the units of a  *)
(* val stand it finds a val with the same units and moves behind them; if   *)
(* they do not all stand there it fails at the end of the stream, unless    *)
(* there is an ERROR inside.                                                *)
LEMMA RoundTrip ==
  ASSUME NEW s \in Text, NEW firm \in BOOLEAN
  PROVE  \A d \in 0..MaxNest :
           ReadsInside(s, Level(firm, d), Level(FALSE, d), Encoding[d], Decoding(s)[d], firm)
<1> DEFINE S == {d \in 0..MaxNest :
                   ReadsInside(s, Level(firm, d), Level(FALSE, d), Encoding[d],
                               Decoding(s)[d], firm)}
<1>1. MaxNest \in Nat
  BY ValsAssumption
<1>2. 0 \in S
  <2>1. Level(firm, 0) = {}
    BY NestedIs, Zenon DEF Level
  <2>2. ReadsInside(s, Level(firm, 0), Level(FALSE, 0), Encoding[0], Decoding(s)[0], firm)
    BY <2>1, Zenon DEF ReadsInside
  <2>3. 0 \in 0..MaxNest
    BY <1>1
  <2> QED
    BY <2>2, <2>3, Zenon
<1>3. ASSUME NEW d \in 0..MaxNest, d \in S, d < MaxNest
      PROVE  d + 1 \in S
  <2> DEFINE k == d + 1
             good == Level(FALSE, d)
             inside == Level(firm, d)
             enc == Encoding[d]
             dec == Decoding(s)[d]
             code == Encoding[k]
  <2>1. k \in 0..MaxNest /\ k # 0 /\ k - 1 = d
    BY <1>1, <1>3
  <2> HIDE DEF k
  <2>2. /\ Level(firm, k) = Wrapped(Leaves(firm), inside)
        /\ Level(FALSE, k) = Wrapped(Leaves(FALSE), good)
    BY <2>1, NestedNext DEF Level
  <2>3. inside \subseteq good /\ Writes(enc, good)
    BY LevelFacts
  <2>4. ReadsInside(s, inside, good, enc, dec, firm)
    BY <1>3
  <2>5. \A x \in Level(FALSE, k) : code[x] = Word(Types[x.type]) \o EncodeBody(enc, x)
    <3>1. Level(FALSE, k) \subseteq AnyVal[k]
      BY <2>1, LevelFacts
    <3> QED
      BY <2>1, <3>1, EncodingNext
  <2>6. \A o \in 0..Len(s) : Decoding(s)[k][o] = DecodeVal(dec, s, o)
    <3>1. Decoding(s)[k] = [o \in 0..Len(s) |-> DecodeVal(Decoding(s)[k - 1], s, o)]
      BY <2>1, DecodingIs, Zenon
    <3> QED
      BY <2>1, <3>1
  <2> HIDE DEF good, inside, enc, dec, code
  <2>7. ASSUME NEW v \in Level(firm, k), NEW o \in 0..Len(s), At(s, o, code[v])
        PROVE  ReadsAs(Decoding(s)[k][o], s, o, code[v], Level(FALSE, k), code, firm)
    <3>1. \A x \in Wrapped(Leaves(FALSE), good) : code[x] = Word(Types[x.type]) \o EncodeBody(enc, x)
      BY <2>2, <2>5
    <3>2. v \in Wrapped(Leaves(firm), inside)
      BY <2>2
    <3>3. ReadsAs(DecodeVal(dec, s, o), s, o, code[v], Wrapped(Leaves(FALSE), good), code, firm)
      BY <2>3, <2>4, <2>7, <3>1, <3>2, ValReadBack
    <3> QED
      BY <2>2, <2>6, <3>3
  <2>8. ReadsInside(s, Level(firm, k), Level(FALSE, k), Encoding[k], Decoding(s)[k], firm)
    BY <2>7 DEF ReadsInside, code
  <2>9. k \in S
    BY <2>1, <2>8
  <2> QED
    BY <2>9 DEF k
<1>4. \A d \in 0..MaxNest : d \in S
  <2> HIDE DEF S
  <2> QED
    BY <1>1, <1>2, <1>3, Induction
<1> QED
  BY <1>4

-----------------------------------------------------------------------------
(* Two vals that are written alike are alike.                               *)

(* What is split at the same place has the same parts.                      *)
LEMMA SameParts ==
  ASSUME NEW t \in Text, NEW u \in Text, NEW x \in Text, NEW y \in Text,
         Len(t) = Len(x), t \o u = x \o y
  PROVE  t = x /\ u = y
<1>1. /\ t \in Seq(Nat) /\ u \in Seq(Nat) /\ x \in Seq(Nat) /\ y \in Seq(Nat)
      /\ Len(t) \in Nat /\ Len(u) \in Nat /\ Len(x) \in Nat /\ Len(y) \in Nat
  BY DEF Text
<1> DEFINE c == t \o u
<1>2. /\ Len(c) = Len(t) + Len(u)
      /\ \A i \in 1..Len(t) : c[i] = t[i]
      /\ \A i \in 1..Len(u) : c[Len(t) + i] = u[i]
  BY ConcatText
<1>3. /\ Len(c) = Len(x) + Len(y)
      /\ \A i \in 1..Len(x) : c[i] = x[i]
      /\ \A i \in 1..Len(y) : c[Len(x) + i] = y[i]
  BY ConcatText
<1> HIDE DEF c
<1>4. Len(u) = Len(y)
  BY <1>1, <1>2, <1>3
<1>5. t = x
  BY <1>1, <1>2, <1>3, SeqEqual
<1>6. u = y
  BY <1>1, <1>2, <1>3, <1>4, SeqEqual
<1> QED
  BY <1>5, <1>6

(* Two things of one length that stand at one place are the same.           *)
LEMMA SameStanding ==
  ASSUME NEW s \in Text, NEW p \in Nat, NEW e \in Text, NEW f \in Text,
         At(s, p, e), At(s, p, f), Fits(s, p, e), Len(e) = Len(f)
  PROVE  e = f
<1>1. /\ e \in Seq(Nat) /\ f \in Seq(Nat) /\ Len(e) \in Nat /\ Len(s) \in Nat
  BY DEF Text
<1>2. ASSUME NEW i \in 1..Len(e)
      PROVE  e[i] = f[i]
  <2>1. p + i <= Len(s)
    BY <1>1 DEF Fits
  <2> QED
    BY <2>1 DEF At
<1> QED
  BY <1>1, <1>2, SeqEqual

(* If of two things that can stand in the place of each other both are the  *)
(* same, then what is joined alike is made of the same things.              *)
LEMMA SameJoined ==
  ASSUME NEW ss \in Seq(Text), NEW tt \in Seq(Text), Len(ss) = Len(tt),
         Joined(ss) = Joined(tt),
         \A i \in 1..Len(ss) : \A p \in 0..Len(Joined(ss)) :
           /\ At(Joined(ss), p, ss[i]) /\ Fits(Joined(ss), p, ss[i])
           /\ At(Joined(ss), p, tt[i]) /\ Fits(Joined(ss), p, tt[i])
           => ss[i] = tt[i]
  PROVE  \A i \in 1..Len(ss) : ss[i] = tt[i]
<1> DEFINE n == Len(ss)
           J == Joined(ss)
           S == {k \in 0..n : \A i \in 1..k : ss[i] = tt[i]}
<1>1. n \in Nat /\ J \in Text /\ J = Joined(tt) /\ Len(J) \in Nat
  BY JoinedText DEF Text
<1>2. At(J, 0, J)
  BY <1>1 DEF At
<1>3. \A i \in 0..n : Len(Joins(ss)[i]) <= Len(J) /\ Len(Joins(tt)[i]) <= Len(J)
  BY <1>1, JoinsGrow
<1>4. \A i \in 0..n : i < n => /\ At(J, 0 + Len(Joins(ss)[i]), ss[i + 1])
                               /\ At(J, 0 + Len(Joins(tt)[i]), tt[i + 1])
  <2> HIDE DEF J
  <2>1. 0 \in Nat
    OBVIOUS
  <2>2. At(J, 0, Joined(ss)) /\ At(J, 0, Joined(tt))
    BY <1>1, <1>2 DEF J
  <2> QED
    BY <1>1, <2>1, <2>2, AtJoins
<1>5. \A i \in 1..n : \A p \in 0..Len(J) :
        At(J, p, ss[i]) /\ Fits(J, p, ss[i]) /\ At(J, p, tt[i]) /\ Fits(J, p, tt[i])
        => ss[i] = tt[i]
  OBVIOUS
<1> HIDE DEF J
<1>6. 0 \in S
  BY <1>1
<1>7. ASSUME NEW k \in 0..n, k \in S, k < n
      PROVE  k + 1 \in S
  <2> DEFINE q == Len(Joins(ss)[k])
  <2>1. k + 1 \in 0..n /\ k + 1 \in 1..n /\ k \in Nat /\ k <= Len(tt) /\ k \in 0..Len(tt) /\ k < Len(tt)
    BY <1>1, <1>7
  <2>2. \A i \in 1..k : ss[i] = tt[i]
    BY <1>7
  <2>3. Joins(ss)[k] = Joins(tt)[k]
    BY <1>7, <2>1, <2>2, JoinsAgree
  <2>4. /\ q \in Nat /\ Len(ss[k + 1]) \in Nat /\ Len(tt[k + 1]) \in Nat
        /\ Len(Joins(ss)[k + 1]) = q + Len(ss[k + 1])
        /\ Len(Joins(tt)[k + 1]) = q + Len(tt[k + 1])
    BY <1>7, <2>1, <2>3, JoinsLen
  <2>5. At(J, 0 + q, ss[k + 1]) /\ At(J, 0 + q, tt[k + 1])
    BY <1>4, <1>7, <2>3
  <2> HIDE DEF q
  <2>6. q + Len(ss[k + 1]) <= Len(J) /\ q + Len(tt[k + 1]) <= Len(J)
    BY <1>3, <2>1, <2>4
  <2>7. q \in 0..Len(J) /\ 0 + q = q
    BY <1>1, <2>4, <2>6
  <2>8. ss[k + 1] = tt[k + 1]
    BY <1>5, <2>1, <2>5, <2>6, <2>7 DEF Fits
  <2>9. \A i \in 1..k + 1 : i \in 1..k \/ i = k + 1
    BY <2>1
  <2> QED
    BY <2>1, <2>2, <2>8, <2>9
<1>8. \A k \in 0..n : k \in S
  <2> HIDE DEF S, n
  <2> QED
    BY <1>1, <1>6, <1>7, Induction
<1>9. n \in 0..n
  BY <1>1
<1> QED
  BY <1>8, <1>9

(* One read cannot find two different things.                               *)
LEMMA SameRead ==
  ASSUME NEW s \in Text, NEW p \in Nat, NEW e \in Text, NEW f \in Text, NEW r, NEW X, NEW enc,
         ReadsAs(r, s, p, e, X, enc, FALSE), ReadsAs(r, s, p, f, X, enc, FALSE),
         At(s, p, e), At(s, p, f), Fits(s, p, e), Fits(s, p, f)
  PROVE  e = f
<1>1. r.at = p + Len(e) /\ r.at = p + Len(f)
  BY DEF ReadsAs
<1>2. Len(e) \in Nat /\ Len(f) \in Nat
  BY DEF Text
<1>3. Len(e) = Len(f)
  BY <1>1, <1>2
<1> QED
  BY <1>3, SameStanding

(* The vals inside can be read in every stream.                             *)
CanBeRead(enc, good) ==
  \A s \in Text : \E dec : ReadsInside(s, good, good, enc, dec, FALSE)

(* Elements that are written alike, all of them together, are written alike *)
(* one by one, if they can be read.                                         *)
LEMMA SameElems ==
  ASSUME NEW good, NEW enc, Writes(enc, good), NEW a \in Seq(good), NEW b \in Seq(good),
         Len(a) = Len(b), Joined(Elems(enc, a)) = Joined(Elems(enc, b)),
         CanBeRead(enc, good)
  PROVE  \A i \in 1..Len(a) : enc[a[i]] = enc[b[i]]
<1> DEFINE ss == Elems(enc, a)
           tt == Elems(enc, b)
           J == Joined(ss)
<1>1. /\ ss \in Seq(Text) /\ Len(ss) = Len(a) /\ \A i \in 1..Len(a) : ss[i] = enc[a[i]]
      /\ tt \in Seq(Text) /\ Len(tt) = Len(b) /\ \A i \in 1..Len(b) : tt[i] = enc[b[i]]
  BY ElemsText
<1>2. J = Joined(tt)
  OBVIOUS
<1> HIDE DEF ss, tt
<1>3. J \in Text /\ Len(J) \in Nat /\ J = Joined(ss)
  BY <1>1, JoinedText DEF Text
<1> HIDE DEF J
<1>4. PICK dec : ReadsInside(J, good, good, enc, dec, FALSE)
  BY <1>3 DEF CanBeRead
<1>5. ASSUME NEW i \in 1..Len(ss), NEW p \in 0..Len(J),
             At(J, p, ss[i]), Fits(J, p, ss[i]), At(J, p, tt[i]), Fits(J, p, tt[i])
      PROVE  ss[i] = tt[i]
  <2>1. a[i] \in good /\ b[i] \in good /\ ss[i] = enc[a[i]] /\ tt[i] = enc[b[i]]
    BY <1>1
  <2>2. ss[i] \in Text /\ tt[i] \in Text /\ p \in Nat
    BY <1>3, <2>1 DEF Writes
  <2>3. ReadsAs(dec[p], J, p, ss[i], good, enc, FALSE) /\ ReadsAs(dec[p], J, p, tt[i], good, enc, FALSE)
    BY <1>5, <1>4, <2>1 DEF ReadsInside
  <2> QED
    BY <1>3, <1>5, <2>2, <2>3, SameRead
<1>6. \A i \in 1..Len(ss) : ss[i] = tt[i]
  <2>1. \A i \in 1..Len(ss) : \A p \in 0..Len(Joined(ss)) :
          /\ At(Joined(ss), p, ss[i]) /\ Fits(Joined(ss), p, ss[i])
          /\ At(Joined(ss), p, tt[i]) /\ Fits(Joined(ss), p, tt[i])
          => ss[i] = tt[i]
    BY <1>3, <1>5
  <2>2. Len(ss) = Len(tt) /\ Joined(ss) = Joined(tt)
    BY <1>1, <1>2, <1>3
  <2> QED
    BY <1>1, <2>1, <2>2, SameJoined
<1> QED
  BY <1>1, <1>6

(* The same for entries.                                                    *)
LEMMA SameEntries ==
  ASSUME NEW good, NEW enc, Writes(enc, good),
         NEW a \in Seq(Text \X good), NEW b \in Seq(Text \X good),
         Len(a) = Len(b), Joined(Entries(enc, a)) = Joined(Entries(enc, b)),
         CanBeRead(enc, good)
  PROVE  \A i \in 1..Len(a) : EncodeEntry(enc, a[i]) = EncodeEntry(enc, b[i])
<1> DEFINE ss == Entries(enc, a)
           tt == Entries(enc, b)
           J == Joined(ss)
           code == [x \in Text \X good |-> EncodeEntry(enc, x)]
<1>1. /\ ss \in Seq(Text) /\ Len(ss) = Len(a)
      /\ \A i \in 1..Len(a) : /\ ss[i] = EncodeEntry(enc, a[i])
                              /\ a[i][1] \in Text /\ a[i][2] \in good
      /\ tt \in Seq(Text) /\ Len(tt) = Len(b)
      /\ \A i \in 1..Len(b) : /\ tt[i] = EncodeEntry(enc, b[i])
                              /\ b[i][1] \in Text /\ b[i][2] \in good
  <2>1. /\ ss \in Seq(Text) /\ Len(ss) = Len(a)
        /\ \A i \in 1..Len(a) : /\ ss[i] = EncodeEntry(enc, a[i])
                                /\ a[i][1] \in Text /\ a[i][2] \in good
    BY EntriesText, Zenon
  <2>2. /\ tt \in Seq(Text) /\ Len(tt) = Len(b)
        /\ \A i \in 1..Len(b) : /\ tt[i] = EncodeEntry(enc, b[i])
                                /\ b[i][1] \in Text /\ b[i][2] \in good
    BY EntriesText, Zenon
  <2> QED
    BY <2>1, <2>2, Zenon
<1>2. J = Joined(tt)
  OBVIOUS
<1>3. \A x \in Text \X good : code[x] = EncodeEntry(enc, x)
  OBVIOUS
<1> HIDE DEF ss, tt, code
<1>4. J \in Text /\ Len(J) \in Nat /\ J = Joined(ss)
  BY <1>1, JoinedText DEF Text
<1> HIDE DEF J
<1>5. PICK dec : ReadsInside(J, good, good, enc, dec, FALSE)
  BY <1>4 DEF CanBeRead
<1>6. ASSUME NEW x \in Text \X good, NEW p \in 0..Len(J), At(J, p, EncodeEntry(enc, x))
      PROVE  ReadsAs(DecodeEntry(dec, J, p), J, p, EncodeEntry(enc, x), Text \X good, code, FALSE)
  <2>1. x[1] \in Text /\ x[2] \in good /\ enc[x[2]] \in Text
    BY DEF Writes
  <2>2. \A q \in 0..Len(J) : At(J, q, enc[x[2]]) =>
                               ReadsAs(dec[q], J, q, enc[x[2]], good, enc, FALSE)
    BY <1>5, <2>1 DEF ReadsInside
  <2>3. At(J, p, EncodeText(x[1]) \o enc[x[2]])
    BY <1>6 DEF EncodeEntry
  <2>4. FALSE \in BOOLEAN
    OBVIOUS
  <2>5. ReadsAs(DecodeEntry(dec, J, p), J, p, EncodeText(x[1]) \o enc[x[2]], Text \X good, code, FALSE)
    BY <1>3, <1>4, <2>1, <2>2, <2>3, <2>4, EntryReads
  <2> QED
    BY <2>5 DEF EncodeEntry
<1>7. ASSUME NEW i \in 1..Len(ss), NEW p \in 0..Len(J),
             At(J, p, ss[i]), Fits(J, p, ss[i]), At(J, p, tt[i]), Fits(J, p, tt[i])
      PROVE  ss[i] = tt[i]
  <2>1. a[i] \in Text \X good /\ b[i] \in Text \X good
    BY <1>1
  <2>2. ss[i] = EncodeEntry(enc, a[i]) /\ tt[i] = EncodeEntry(enc, b[i])
    BY <1>1
  <2>3. ss[i] \in Text /\ tt[i] \in Text /\ p \in Nat
    BY <1>1, <1>4
  <2>4. /\ ReadsAs(DecodeEntry(dec, J, p), J, p, ss[i], Text \X good, code, FALSE)
        /\ ReadsAs(DecodeEntry(dec, J, p), J, p, tt[i], Text \X good, code, FALSE)
    BY <1>6, <1>7, <2>1, <2>2
  <2> QED
    BY <1>4, <1>7, <2>3, <2>4, SameRead
<1>8. \A i \in 1..Len(ss) : ss[i] = tt[i]
  <2>1. \A i \in 1..Len(ss) : \A p \in 0..Len(Joined(ss)) :
          /\ At(Joined(ss), p, ss[i]) /\ Fits(Joined(ss), p, ss[i])
          /\ At(Joined(ss), p, tt[i]) /\ Fits(Joined(ss), p, tt[i])
          => ss[i] = tt[i]
    BY <1>4, <1>7
  <2>2. Len(ss) = Len(tt) /\ Joined(ss) = Joined(tt)
    BY <1>1, <1>2, <1>4
  <2> QED
    BY <1>1, <2>1, <2>2, SameJoined
<1> QED
  BY <1>1, <1>8

(* What is counted and written begins with its length.                      *)
LEMMA TextLength ==
  ASSUME NEW t \in Text
  PROVE  EncodeText(t)[1] = Len(t) /\ 1 \in 1..Len(EncodeText(t))
<1> DEFINE w == Word(Len(t))
<1>1. Len(t) \in Nat
  BY DEF Text
<1>2. w \in Text /\ Len(w) = 2 /\ w[1] = Len(t)
  BY <1>1, WordText
<1>3. EncodeText(t) = w \o t /\ Len(EncodeText(t)) = Len(t) + 2
  BY EncodeTextText DEF EncodeText
<1> HIDE DEF w
<1>4. (w \o t)[1] = w[1]
  <2>1. w \in Text /\ 1 \in 1..Len(w)
    BY <1>2
  <2>2. \A i \in 1..Len(w) : (w \o t)[i] = w[i]
    BY <2>1, ConcatText
  <2> QED
    BY <2>1, <2>2
<1> QED
  BY <1>1, <1>2, <1>3, <1>4

LEMMA SameText ==
  ASSUME NEW t \in Text, NEW u \in Text, EncodeText(t) = EncodeText(u)
  PROVE  t = u
<1> DEFINE w == Word(Len(t))
           z == Word(Len(u))
<1>1. Len(t) \in Nat /\ Len(u) \in Nat
  BY DEF Text
<1>2. w \in Text /\ z \in Text /\ Len(w) = Len(z)
  BY <1>1, WordText
<1>3. w \o t = z \o u
  BY DEF EncodeText
<1> HIDE DEF w, z
<1> QED
  BY <1>2, <1>3, SameParts

LEMMA SameEntry ==
  ASSUME NEW good, NEW enc, Writes(enc, good), NEW v \in Text \X good, NEW w \in Text \X good,
         EncodeEntry(enc, v) = EncodeEntry(enc, w)
  PROVE  v[1] = w[1] /\ enc[v[2]] = enc[w[2]]
<1> DEFINE t == v[1]
           u == w[1]
           x == enc[v[2]]
           y == enc[w[2]]
           m == Len(t)
           n == Len(u)
           e == EncodeText(t)
           f == EncodeText(u)
<1>1. t \in Text /\ u \in Text /\ x \in Text /\ y \in Text
  BY DEF Writes
<1>2. e \o x = f \o y
  BY DEF EncodeEntry
<1> HIDE DEF t, u, x, y
<1>3. m \in Nat /\ n \in Nat
  BY <1>1 DEF Text
<1>4. /\ e \in Text /\ Len(e) = m + 2 /\ e[1] = m /\ 1 \in 1..Len(e)
      /\ f \in Text /\ Len(f) = n + 2 /\ f[1] = n /\ 1 \in 1..Len(f)
  BY <1>1, EncodeTextText, TextLength
<1>5. e = Word(m) \o t /\ f = Word(n) \o u
  BY DEF EncodeText
<1> HIDE DEF e, f, m, n
<1>6. (e \o x)[1] = e[1] /\ (f \o y)[1] = f[1]
  BY <1>1, <1>4, ConcatText
<1>7. Len(e) = Len(f)
  BY <1>4, <1>6, <1>2
<1>8. e = f /\ x = y
  <2>1. e \in Text /\ f \in Text /\ e \o x = f \o y
    BY <1>4, <1>2
  <2> QED
    BY <1>1, <1>7, <2>1, SameParts
<1>9. t = u
  BY <1>1, <1>8, SameText DEF e, f
<1> QED
  BY <1>8, <1>9 DEF t, u, x, y

(* The leaves that lose nothing: read(val&) makes no second half of a       *)
(* measurement's unit.                                                      *)
Exact == {x \in Plain \cup Errors : x.type # "MEASUREMENT"}

LEMMA ErrorData ==
  ASSUME NEW v \in Errors
  PROVE  v.data = <<v.data[1], v.data[2]>>
<1>1. v.data \in Nat \X Text
  BY DEF Errors
<1> QED
  BY <1>1

(* What data a val of each type has.                                        *)
LEMMA DataOfType ==
  ASSUME NEW good, NEW v \in Wrapped(Leaves(FALSE), good)
  PROVE  /\ v.type = "EMPTY" => v.data = <<>>
         /\ v.type = "ERROR" => /\ v.data[1] \in Nat /\ v.data[2] \in Text
                                /\ v.data = <<v.data[1], v.data[2]>>
         /\ v.type = "ARRAY" => v.data \in Seq(good)
         /\ v.type = "MAP" => v.data \in Seq(Text \X good)
<1>1. \/ v \in Plain \/ v \in Errors
      \/ v.type = "ARRAY" /\ v.data \in Seq(good)
      \/ v.type = "MAP" /\ v.data \in Seq(Text \X good)
  BY WrappedKinds DEF Leaves
<1>2. CASE v \in Plain
  BY <1>2, PlainKinds, NumbersAre
<1>3. CASE v \in Errors
  BY <1>3, ErrorKind, ErrorData
<1>4. CASE v.type = "ARRAY" /\ v.data \in Seq(good)
  BY <1>4
<1>5. CASE v.type = "MAP" /\ v.data \in Seq(Text \X good)
  BY <1>5
<1> QED
  BY <1>1, <1>2, <1>3, <1>4, <1>5

(* A val is its type and its data.                                          *)
LEMMA ValSplit ==
  ASSUME NEW good, NEW v \in Wrapped(Leaves(FALSE), good)
  PROVE  v = Val(v.type, v.data)
<1>1. CASE v \in Plain
  BY <1>1 DEF Plain, Val
<1>2. CASE v \in Errors
  BY <1>2 DEF Errors, Val
<1>3. CASE v \in [type : {"ARRAY"}, data : Seq(good)]
  BY <1>3 DEF Val
<1>4. CASE v \in [type : {"MAP"}, data : Seq(Text \X good)]
  BY <1>4 DEF Val
<1> QED
  BY <1>1, <1>2, <1>3, <1>4 DEF Wrapped, Leaves

(* enc tells the vals inside from all others.                               *)
Tells(enc, inside, good) == \A x \in inside : \A y \in good : enc[x] = enc[y] => x = y

LEMMA SameArray ==
  ASSUME NEW inside, NEW good, inside \subseteq good, NEW enc, Writes(enc, good),
         CanBeRead(enc, good), Tells(enc, inside, good),
         NEW a \in Seq(inside), NEW b \in Seq(good),
         Word(Len(a)) \o Joined(Elems(enc, a)) = Word(Len(b)) \o Joined(Elems(enc, b))
  PROVE  a = b
<1> DEFINE J == Joined(Elems(enc, a))
           K == Joined(Elems(enc, b))
           m == Len(a)
           n == Len(b)
<1>1. m \in Nat /\ n \in Nat /\ a \in Seq(good)
  OBVIOUS
<1>2. J \in Text /\ K \in Text
  BY <1>1, ElemsText, JoinedText
<1>3. Word(m) \o J = Word(n) \o K
  OBVIOUS
<1>4. m = n /\ J = K
  <2> DEFINE w == Word(m)
             z == Word(n)
  <2>1. w \in Text /\ z \in Text /\ Len(w) = Len(z) /\ w[1] = m /\ z[1] = n
    BY <1>1, WordText
  <2>2. w \o J = z \o K
    BY <1>3
  <2> HIDE DEF J, K, m, n, w, z
  <2>3. w = z /\ J = K
    BY <1>2, <2>1, <2>2, SameParts
  <2> QED
    BY <2>1, <2>3
<1>5. \A i \in 1..Len(a) : enc[a[i]] = enc[b[i]]
  <2>1. Len(a) = Len(b) /\ Joined(Elems(enc, a)) = Joined(Elems(enc, b))
    BY <1>4
  <2> QED
    BY <1>1, <2>1, SameElems
<1>6. \A i \in 1..Len(a) : a[i] \in inside /\ b[i] \in good
  BY <1>1, <1>4
<1>7. \A i \in 1..Len(a) : a[i] = b[i]
  BY <1>5, <1>6 DEF Tells
<1> QED
  BY <1>1, <1>4, <1>7, SeqEqual

MapBody(enc, data) == Word(Len(data)) \o Joined(Entries(enc, data))

LEMMA SameMap ==
  ASSUME NEW inside, NEW good, inside \subseteq good, NEW enc, Writes(enc, good),
         CanBeRead(enc, good), Tells(enc, inside, good),
         NEW a \in Seq(Text \X inside), NEW b \in Seq(Text \X good),
         MapBody(enc, a) = MapBody(enc, b)
  PROVE  a = b
<1> DEFINE J == Joined(Entries(enc, a))
           K == Joined(Entries(enc, b))
           m == Len(a)
           n == Len(b)
<1>1. m \in Nat /\ n \in Nat /\ a \in Seq(Text \X good)
  <2>1. Text \X inside \subseteq Text \X good
    OBVIOUS
  <2> QED
    BY <2>1
<1>2. J \in Text /\ K \in Text
  BY <1>1, EntriesText, JoinedText
<1>3. Word(m) \o J = Word(n) \o K
  BY DEF MapBody
<1>4. m = n /\ J = K
  <2> DEFINE w == Word(m)
             z == Word(n)
  <2>1. w \in Text /\ z \in Text /\ Len(w) = Len(z) /\ w[1] = m /\ z[1] = n
    BY <1>1, WordText
  <2>2. w \o J = z \o K
    BY <1>3
  <2> HIDE DEF J, K, m, n, w, z
  <2>3. w = z /\ J = K
    BY <1>2, <2>1, <2>2, SameParts
  <2> QED
    BY <2>1, <2>3
<1>5. \A i \in 1..Len(a) : EncodeEntry(enc, a[i]) = EncodeEntry(enc, b[i])
  <2>1. Len(a) = Len(b) /\ Joined(Entries(enc, a)) = Joined(Entries(enc, b))
    BY <1>4
  <2> QED
    BY <1>1, <2>1, SameEntries
<1>6. ASSUME NEW i \in 1..Len(a)
      PROVE  a[i] = b[i]
  <2>1. a[i] \in Text \X inside /\ b[i] \in Text \X good
    BY <1>1, <1>4
  <2> DEFINE x == a[i]
             y == b[i]
  <2>2. x \in Text \X inside /\ y \in Text \X good /\ EncodeEntry(enc, x) = EncodeEntry(enc, y)
    BY <1>5, <2>1
  <2> HIDE DEF x, y
  <2>3. /\ x[1] \in Text /\ x[2] \in inside /\ x = <<x[1], x[2]>>
        /\ y[1] \in Text /\ y[2] \in good /\ y = <<y[1], y[2]>>
    BY <2>2
  <2>4. x[1] = y[1] /\ enc[x[2]] = enc[y[2]]
    <3>1. x \in Text \X good /\ y \in Text \X good
      BY <2>2
    <3> QED
      BY <2>2, <3>1, SameEntry
  <2>5. x[2] = y[2]
    BY <2>3, <2>4 DEF Tells
  <2>6. x = y
    BY <2>3, <2>4, <2>5
  <2> QED
    BY <2>6 DEF x, y
<1> QED
  BY <1>1, <1>4, <1>6, SeqEqual

LEMMA SameBody ==
  ASSUME NEW inside, NEW good, inside \subseteq good, NEW enc, Writes(enc, good),
         CanBeRead(enc, good), Tells(enc, inside, good),
         NEW v \in Wrapped(Exact, inside), NEW w \in Wrapped(Leaves(FALSE), good),
         v.type = w.type, EncodeBody(enc, v) = EncodeBody(enc, w)
  PROVE  v = w
<1>1. \/ v \in Exact
      \/ v.type = "ARRAY" /\ v.data \in Seq(inside)
      \/ v.type = "MAP" /\ v.data \in Seq(Text \X inside)
  BY WrappedKinds
<1>2. v \in Wrapped(Leaves(FALSE), good)
  <2>1. Exact \subseteq Leaves(FALSE)
    BY DEF Exact, Leaves
  <2> QED
    BY <2>1, WrappedGrow
<1>3. v = Val(v.type, v.data) /\ w = Val(w.type, w.data)
  BY <1>2, ValSplit
<1>4. v.data = w.data
  <2>1. CASE v.type = "EMPTY"
    BY <1>2, <2>1, DataOfType
  <2>2. CASE v.type \in Numbers
    BY <2>2, EncodeBodyIs
  <2>3. CASE v.type = "ERROR"
    <3> DEFINE c == v.data[1]
               d == w.data[1]
               t == v.data[2]
               u == w.data[2]
               e == Word(c)
               f == Word(d)
    <3>1. /\ c \in Nat /\ t \in Text /\ v.data = <<c, t>>
          /\ d \in Nat /\ u \in Text /\ w.data = <<d, u>>
      BY <1>2, <2>3, DataOfType
    <3>2. e \o EncodeText(t) = f \o EncodeText(u)
      BY <2>3, EncodeBodyIs
    <3>3. /\ e \in Text /\ f \in Text /\ Len(e) = Len(f) /\ e[1] = c /\ f[1] = d
      BY <3>1, WordText
    <3>4. EncodeText(t) \in Text /\ EncodeText(u) \in Text
      BY <3>1, EncodeTextText
    <3> HIDE DEF c, d, t, u, e, f
    <3>5. e = f /\ EncodeText(t) = EncodeText(u)
      BY <3>2, <3>3, <3>4, SameParts
    <3>6. t = u
      BY <3>1, <3>5, SameText
    <3> QED
      BY <3>1, <3>3, <3>5, <3>6
  <2>4. CASE v.type = "ARRAY" /\ v.data \in Seq(inside)
    <3>1. w.data \in Seq(good)
      BY <2>4, DataOfType
    <3>2. /\ EncodeBody(enc, v) = Word(Len(v.data)) \o Joined(Elems(enc, v.data))
          /\ EncodeBody(enc, w) = Word(Len(w.data)) \o Joined(Elems(enc, w.data))
      BY <2>4, EncodeArray
    <3> DEFINE a == v.data
               b == w.data
    <3>3. /\ a \in Seq(inside) /\ b \in Seq(good)
          /\ Word(Len(a)) \o Joined(Elems(enc, a)) = Word(Len(b)) \o Joined(Elems(enc, b))
      BY <2>4, <3>1, <3>2
    <3> HIDE DEF a, b
    <3>4. a = b
      BY <3>3, SameArray
    <3> QED
      BY <3>4 DEF a, b
  <2>5. CASE v.type = "MAP" /\ v.data \in Seq(Text \X inside)
    <3>1. w.data \in Seq(Text \X good)
      BY <2>5, DataOfType
    <3>2. /\ EncodeBody(enc, v) = Word(Len(v.data)) \o Joined(Entries(enc, v.data))
          /\ EncodeBody(enc, w) = Word(Len(w.data)) \o Joined(Entries(enc, w.data))
      BY <2>5, EncodeMap
    <3> DEFINE a == v.data
               b == w.data
    <3>3. /\ a \in Seq(Text \X inside) /\ b \in Seq(Text \X good)
          /\ MapBody(enc, a) = MapBody(enc, b)
      BY <2>5, <3>1, <3>2 DEF MapBody
    <3> HIDE DEF a, b
    <3>4. a = b
      BY <3>3, SameMap
    <3> QED
      BY <3>4 DEF a, b
  <2>6. v \in Exact => v.type = "EMPTY" \/ v.type \in Numbers \/ v.type = "ERROR"
    BY PlainKinds, ErrorKind DEF Exact
  <2> QED
    BY <1>1, <2>1, <2>2, <2>3, <2>4, <2>5, <2>6
<1> QED
  BY <1>3, <1>4

(* write(const val&) loses nothing: no two vals are written alike, of any   *)
(* depth, if one of them holds no measurement, STRING or BYTEARRAY.         *)
LEMMA WritesTell ==
  \A d \in 0..MaxNest : Tells(Encoding[d], Nested(Exact)[d], Level(FALSE, d))
<1> DEFINE S == {d \in 0..MaxNest : Tells(Encoding[d], Nested(Exact)[d], Level(FALSE, d))}
<1>1. MaxNest \in Nat
  BY ValsAssumption
<1>2. 0 \in S
  <2>1. Nested(Exact)[0] = {}
    BY NestedIs, Zenon
  <2>2. Tells(Encoding[0], Nested(Exact)[0], Level(FALSE, 0))
    BY <2>1, Zenon DEF Tells
  <2>3. 0 \in 0..MaxNest
    BY <1>1
  <2> QED
    BY <2>2, <2>3, Zenon
<1>3. ASSUME NEW d \in 0..MaxNest, d \in S, d < MaxNest
      PROVE  d + 1 \in S
  <2> DEFINE k == d + 1
             good == Level(FALSE, d)
             inside == Nested(Exact)[d]
             enc == Encoding[d]
             code == Encoding[k]
  <2>1. k \in 0..MaxNest /\ k # 0 /\ k - 1 = d
    BY <1>1, <1>3
  <2> HIDE DEF k
  <2>2. /\ Nested(Exact)[k] = Wrapped(Exact, inside)
        /\ Level(FALSE, k) = Wrapped(Leaves(FALSE), good)
    BY <2>1, NestedNext DEF Level
  <2>3. inside \subseteq good /\ Writes(enc, good)
    <3>1. Exact \subseteq Leaves(FALSE)
      BY DEF Exact, Leaves
    <3>2. inside \subseteq good
      BY <3>1, NestedGrow DEF Level
    <3> QED
      BY <3>2, LevelFacts
  <2>4. Tells(enc, inside, good)
    BY <1>3
  <2>5. CanBeRead(enc, good)
    <3>1. ASSUME NEW s \in Text
          PROVE  ReadsInside(s, good, good, enc, Decoding(s)[d], FALSE)
      BY RoundTrip
    <3> QED
      BY <3>1 DEF CanBeRead
  <2>6. \A x \in Level(FALSE, k) : code[x] = Word(Types[x.type]) \o EncodeBody(enc, x)
    <3>1. Level(FALSE, k) \subseteq AnyVal[k]
      BY <2>1, LevelFacts
    <3> QED
      BY <2>1, <3>1, EncodingNext
  <2>7. \A x \in Level(FALSE, k) : EncodeBody(enc, x) \in Text /\ x.type \in DOMAIN Types
    <3>1. Leaves(FALSE) \subseteq AllLeaves /\ good \subseteq good
      BY LeavesGrow
    <3>2. Level(FALSE, k) \subseteq Wrapped(AllLeaves, good)
      <4> HIDE DEF good
      <4>1. Wrapped(Leaves(FALSE), good) \subseteq Wrapped(AllLeaves, good)
        BY <3>1, WrappedGrow
      <4> QED
        BY <2>2, <4>1
    <3> QED
      BY <2>3, <3>2, BodyText
  <2> HIDE DEF good, inside, enc, code
  <2>8. ASSUME NEW v \in Nested(Exact)[k], NEW w \in Level(FALSE, k), code[v] = code[w]
        PROVE  v = w
    <3>1. v \in Wrapped(Exact, inside) /\ w \in Wrapped(Leaves(FALSE), good) /\ v \in Level(FALSE, k)
      <4>1. Exact \subseteq Leaves(FALSE)
        BY DEF Exact, Leaves
      <4>2. Wrapped(Exact, inside) \subseteq Wrapped(Leaves(FALSE), good)
        BY <2>3, <4>1, WrappedGrow
      <4> QED
        BY <2>2, <2>8, <4>2
    <3> DEFINE m == Types[v.type]
               n == Types[w.type]
               e == Word(m)
               f == Word(n)
               p == EncodeBody(enc, v)
               q == EncodeBody(enc, w)
    <3>2. /\ p \in Text /\ q \in Text /\ e \o p = f \o q
          /\ v.type \in DOMAIN Types /\ w.type \in DOMAIN Types
      BY <2>6, <2>7, <2>8, <3>1
    <3>3. m \in Nat /\ n \in Nat
      BY <3>2, TypesAre
    <3>4. e \in Text /\ f \in Text /\ Len(e) = Len(f) /\ e[1] = m /\ f[1] = n
      BY <3>3, WordText
    <3> HIDE DEF e, f, p, q, m, n
    <3>5. e = f /\ p = q
      BY <3>2, <3>4, SameParts
    <3>6. m = n
      BY <3>4, <3>5
    <3>7. v.type = w.type
      BY <3>2, <3>6, TypesAre DEF m, n
    <3>8. EncodeBody(enc, v) = EncodeBody(enc, w)
      BY <3>5 DEF p, q
    <3> QED
      BY <2>3, <2>4, <2>5, <3>1, <3>7, <3>8, SameBody
  <2>9. Tells(Encoding[k], Nested(Exact)[k], Level(FALSE, k))
    BY <2>8 DEF Tells, code
  <2>10. k \in S
    BY <2>1, <2>9
  <2> QED
    BY <2>10 DEF k
<1>4. \A d \in 0..MaxNest : d \in S
  <2> HIDE DEF S
  <2> QED
    BY <1>1, <1>2, <1>3, Induction
<1> QED
  BY <1>4

-----------------------------------------------------------------------------
(* Writing, losing the end, reading.                                        *)

(* The program writes no STRING and no BYTEARRAY: read(val&) reads a        *)
(* pointer for them and they do not come back.                              *)
NoBlobs == Vals \subseteq Nested(Plain \cup Errors)[MaxNest]

(* What write(const val&) makes of the vals, one by one.                    *)
Pieces(vs) == Elems(Encoding[MaxNest], vs)

Readable == Level(FALSE, MaxNest)

(* The vals inside a readable array.                                        *)
Inner == Level(FALSE, MaxNest - 1)

(* A val that read(val&) may be given: if it is an array, it holds vals.    *)
Fillable(v) == v.type = "ARRAY" => v.data \in Seq(Inner)

(* A read put what w was written as into a val.                             *)
ReadOnto(r, w) ==
  /\ Fillable(r.into)
  /\ \E x \in Readable : r.val = Onto(r.into, x) /\ Encode(x) = Encode(w)

(* The inductive invariant: the units of the vals written stand in the      *)
(* stream, all of them unless it was cut, and the cursor is behind those of *)
(* the vals read.                                                           *)
IInv ==
  /\ written \in Seq(Vals) /\ stream \in Text /\ offsetRead \in 0..Len(stream)
  /\ (\E S : out \in Seq(S)) /\ cut \in BOOLEAN /\ short \in BOOLEAN
  /\ Len(out) <= Len(written)
  /\ \A i \in 1..Len(out) : ReadOnto(out[i], written[i])
  /\ At(stream, 0, Joined(Pieces(written))) /\ Len(stream) <= Len(Joined(Pieces(written)))
  /\ ~cut => stream = Joined(Pieces(written))
  /\ cut => \A i \in 1..Len(written) : written[i] \in Level(TRUE, MaxNest)
  /\ ~short => offsetRead = Len(Joins(Pieces(written))[Len(out)])

LEMMA Deepest == MaxNest \in Nat /\ MaxNest \in 0..MaxNest
  BY ValsAssumption

LEMMA ReadableVals ==
  ASSUME NoBlobs
  PROVE  Vals \subseteq Readable /\ Writes(Encoding[MaxNest], Readable)
<1>1. Vals \subseteq Readable
  BY DEF NoBlobs, Readable, Level, Leaves
<1>2. Writes(Encoding[MaxNest], Readable)
  BY Deepest, LevelFacts DEF Readable
<1> QED
  BY <1>1, <1>2

LEMMA PiecesText ==
  ASSUME NoBlobs, NEW vs \in Seq(Vals)
  PROVE  /\ Pieces(vs) \in Seq(Text) /\ Len(Pieces(vs)) = Len(vs) /\ Len(vs) \in Nat
         /\ \A i \in 1..Len(vs) : Pieces(vs)[i] = Encode(vs[i]) /\ vs[i] \in Vals
<1>1. vs \in Seq(Readable) /\ Len(vs) \in Nat /\ \A i \in 1..Len(vs) : vs[i] \in Vals
  BY ReadableVals, SeqMonotonic
<1>2. /\ Elems(Encoding[MaxNest], vs) \in Seq(Text)
      /\ Len(Elems(Encoding[MaxNest], vs)) = Len(vs)
      /\ \A i \in 1..Len(vs) : Elems(Encoding[MaxNest], vs)[i] = Encoding[MaxNest][vs[i]]
  BY <1>1, ReadableVals, ElemsText
<1> QED
  BY <1>1, <1>2 DEF Pieces, Encode

LEMMA NoLeafArray ==
  ASSUME NEW v \in Plain \cup Errors
  PROVE  v.type # "ARRAY"
<1>1. "ARRAY" \notin Numbers
  BY NumbersAre
<1> QED
  BY <1>1 DEF Plain, Errors

LEMMA ReadableArray ==
  ASSUME NEW x \in Readable, x.type = "ARRAY"
  PROVE  x.data \in Seq(Inner) /\ x = [type |-> "ARRAY", data |-> x.data]
<1> DEFINE L == Plain \cup Errors
<1>1. Readable = Nested(L)[MaxNest] /\ Inner = Nested(L)[MaxNest - 1]
  BY DEF Readable, Inner, Level, Leaves
<1>2. CASE MaxNest = 0
  <2>1. Nested(L)[0] = {}
    BY NestedIs, Zenon
  <2> QED
    BY <1>1, <1>2, <2>1
<1>3. CASE MaxNest # 0
  <2>1. Nested(L)[MaxNest] = Wrapped(L, Inner)
    BY <1>1, <1>3, Deepest, NestedNext
  <2>2. x \in Wrapped(L, Inner)
    BY <1>1, <2>1
  <2>3. x \notin L
    BY NoLeafArray
  <2> HIDE DEF L
  <2> QED
    BY <2>2, <2>3 DEF Wrapped
<1> QED
  BY <1>2, <1>3

(* The two parts of a sequence put together.                                *)
LEMMA ConcatSplit ==
  ASSUME NEW S, NEW a \in Seq(S), NEW b \in Seq(S)
  PROVE  /\ SubSeq(a \o b, 1, Len(a)) = a
         /\ SubSeq(a \o b, Len(a) + 1, Len(a \o b)) = b
<1> DEFINE c == a \o b
           n == Len(a)
           m == Len(b)
<1>1. /\ c \in Seq(S) /\ Len(c) = n + m /\ n \in Nat /\ m \in Nat
      /\ \A i \in 1..n : c[i] = a[i]
      /\ \A i \in 1..m : c[n + i] = b[i]
  OBVIOUS
<1> HIDE DEF c, n, m
<1>2. SubSeq(c, 1, n) = a
  <2> DEFINE d == SubSeq(c, 1, n)
  <2>1. \A i \in 1..n : c[i] \in S
    BY <1>1
  <2>2. d \in Seq(S) /\ Len(d) = n /\ \A i \in 1..n : d[i] = c[i]
    BY <1>1, <2>1
  <2> HIDE DEF d
  <2>3. \A i \in 1..n : d[i] = a[i]
    BY <1>1, <2>2
  <2> QED
    BY <1>1, <2>2, <2>3, SeqEqual DEF n, d
<1>3. SubSeq(c, n + 1, n + m) = b
  <2> DEFINE d == SubSeq(c, n + 1, n + m)
  <2>1. d \in Seq(S) /\ Len(d) = m /\ \A i \in 1..m : d[i] = c[n + i]
    BY <1>1
  <2> HIDE DEF d
  <2>2. \A i \in 1..m : d[i] = b[i]
    BY <1>1, <2>1
  <2> QED
    BY <1>1, <2>1, <2>2, SeqEqual DEF m, d
<1> QED
  BY <1>1, <1>2, <1>3 DEF c, n

(* What a val holds after a read into it.                                   *)
LEMMA OntoNew ==
  ASSUME NEW old, NEW x, x.type \notin Containers \/ old.type # x.type
  PROVE  Onto(old, x) = x
  BY Zenon DEF Onto

LEMMA OntoArray ==
  ASSUME NEW old, NEW x, x.type = "ARRAY", old.type = "ARRAY"
  PROVE  Onto(old, x) = [type |-> "ARRAY", data |-> old.data \o x.data]
<1>1. "ARRAY" \in Containers
  BY DEF Containers
<1> QED
  BY <1>1, Zenon DEF Onto

LEMMA OntoType ==
  ASSUME NEW old, NEW x
  PROVE  Onto(old, x).type = x.type
<1>1. CASE x.type \notin Containers \/ old.type # x.type
  BY <1>1, OntoNew, Zenon
<1>2. CASE ~(x.type \notin Containers \/ old.type # x.type)
  <2>1. PICK d : Onto(old, x) = [type |-> x.type, data |-> d]
    BY <1>2, Zenon DEF Onto
  <2> QED
    BY <2>1
<1> QED
  BY <1>1, <1>2

(* A val that has been read into may be read into again.                    *)
LEMMA OntoFillable ==
  ASSUME NEW old, Fillable(old), NEW x \in Readable
  PROVE  Fillable(Onto(old, x))
<1> SUFFICES ASSUME Onto(old, x).type = "ARRAY" PROVE Onto(old, x).data \in Seq(Inner)
  BY DEF Fillable
<1>1. x.type = "ARRAY"
  BY OntoType
<1>2. x.data \in Seq(Inner)
  BY <1>1, ReadableArray
<1>3. CASE old.type = "ARRAY"
  <2>1. Onto(old, x) = [type |-> "ARRAY", data |-> old.data \o x.data]
    BY <1>1, <1>3, OntoArray
  <2>2. old.data \in Seq(Inner)
    BY <1>3 DEF Fillable
  <2>3. old.data \o x.data \in Seq(Inner)
    BY <1>2, <2>2
  <2> QED
    BY <2>1, <2>3
<1>4. CASE old.type # "ARRAY"
  <2>1. Onto(old, x) = x
    BY <1>1, <1>4, OntoNew
  <2> QED
    BY <1>2, <2>1
<1> QED
  BY <1>3, <1>4

(* So may every val the program has at hand.                                *)
LEMMA TargetsFillable ==
  ASSUME IInv, NEW old \in Targets
  PROVE  Fillable(old)
<1>1. CASE old = Empty
  BY <1>1 DEF Empty, Fillable
<1>2. CASE \E i \in DOMAIN out : old = out[i].val
  <2>1. PICK S : out \in Seq(S)
    BY DEF IInv
  <2>2. PICK i \in 1..Len(out) : old = out[i].val
    BY <1>2, <2>1
  <2>3. ReadOnto(out[i], written[i])
    BY <2>2 DEF IInv
  <2>4. PICK x \in Readable : out[i].val = Onto(out[i].into, x)
    BY <2>3 DEF ReadOnto
  <2>5. Fillable(out[i].into)
    BY <2>3 DEF ReadOnto
  <2> QED
    BY <2>2, <2>4, <2>5, OntoFillable, Zenon
<1> QED
  BY <1>1, <1>2 DEF Targets

(* What ReadBack says of one read.                                          *)
LEMMA OneReadBack ==
  ASSUME NEW rd, NEW w, ReadOnto(rd, w)
  PROVE  LET old == rd.into
             v   == rd.val
         IN  /\ v.type \notin Containers \/ old.type # v.type => Encode(v) = Encode(w)
             /\ v.type = "ARRAY" /\ old.type = "ARRAY"
                  => /\ SubSeq(v.data, 1, Len(old.data)) = old.data
                     /\ Encode([type |-> "ARRAY",
                                data |-> SubSeq(v.data, Len(old.data) + 1, Len(v.data))])
                          = Encode(w)
<1> DEFINE old == rd.into
           v   == rd.val
<1>1. Fillable(old)
  BY DEF ReadOnto
<1>2. PICK x \in Readable : v = Onto(old, x) /\ Encode(x) = Encode(w)
  BY DEF ReadOnto
<1> HIDE DEF old, v
<1>3. v.type = x.type
  BY <1>2, OntoType
<1>4. ASSUME v.type \notin Containers \/ old.type # v.type
      PROVE  Encode(v) = Encode(w)
  <2>1. Onto(old, x) = x
    BY <1>3, <1>4, OntoNew
  <2> QED
    BY <1>2, <2>1
<1>5. ASSUME v.type = "ARRAY", old.type = "ARRAY"
      PROVE  /\ SubSeq(v.data, 1, Len(old.data)) = old.data
             /\ Encode([type |-> "ARRAY",
                        data |-> SubSeq(v.data, Len(old.data) + 1, Len(v.data))])
                  = Encode(w)
  <2> DEFINE a == old.data
             b == x.data
  <2>1. a \in Seq(Inner)
    BY <1>1, <1>5 DEF Fillable
  <2>2. b \in Seq(Inner) /\ x = [type |-> "ARRAY", data |-> b]
    BY <1>3, <1>5, ReadableArray
  <2>3. v.data = a \o b
    <3>1. v = [type |-> "ARRAY", data |-> a \o b]
      BY <1>2, <1>3, <1>5, OntoArray
    <3> QED
      BY <3>1
  <2> HIDE DEF a, b
  <2>4. SubSeq(a \o b, 1, Len(a)) = a /\ SubSeq(a \o b, Len(a) + 1, Len(a \o b)) = b
    BY <2>1, <2>2, ConcatSplit
  <2> QED
    BY <1>2, <2>2, <2>3, <2>4 DEF a
<1> QED
  BY <1>4, <1>5 DEF old, v

LEMMA InitStream ==
  ASSUME NoBlobs, Init
  PROVE  IInv
<1>1. /\ written = <<>> /\ stream = <<>> /\ cut = FALSE /\ offsetRead = 0 /\ out = <<>>
      /\ short = FALSE
  BY DEF Init
<1>2. /\ <<>> \in Seq(Vals) /\ <<>> \in Text /\ Len(<<>>) = 0
      /\ 0 \in 0..0 /\ \A i \in 1..0 : FALSE
  BY DEF Text
<1>3. Pieces(<<>>) \in Seq(Text) /\ Len(Pieces(<<>>)) = 0
  BY <1>2, PiecesText
<1>4. Joins(Pieces(<<>>))[0] = <<>> /\ Joined(Pieces(<<>>)) = <<>>
  BY <1>3, JoinsFirst DEF Joined
<1>5. At(<<>>, 0, <<>>)
  BY <1>2 DEF At
<1>6. /\ At(stream, 0, Joined(Pieces(written)))
      /\ Joined(Pieces(written)) = stream /\ Len(stream) = 0
      /\ Len(Joins(Pieces(written))[Len(out)]) = 0
  BY <1>1, <1>2, <1>4, <1>5
<1>7. /\ written \in Seq(Vals) /\ stream \in Text /\ offsetRead \in 0..Len(stream)
      /\ out \in Seq(Vals) /\ cut \in BOOLEAN /\ short \in BOOLEAN
      /\ Len(out) = 0 /\ Len(written) = 0
  BY <1>1, <1>2
<1> QED
  BY <1>1, <1>2, <1>6, <1>7 DEF IInv

LEMMA WriteStep ==
  ASSUME NoBlobs, IInv, NEW v \in Vals, WriteVal(v)
  PROVE  IInv'
<1> DEFINE e == Encode(v)
           U == Pieces(written)
           W == Pieces(written')
           N == Len(written)
<1>1. /\ ~cut /\ written' = Append(written, v) /\ stream' = stream \o e
      /\ cut' = cut /\ offsetRead' = offsetRead /\ out' = out /\ short' = short
  BY DEF WriteVal
<1>2. /\ written \in Seq(Vals) /\ stream \in Text /\ offsetRead \in 0..Len(stream)
      /\ (\E S : out \in Seq(S)) /\ cut \in BOOLEAN /\ short \in BOOLEAN
      /\ Len(out) <= N /\ \A i \in 1..Len(out) : ReadOnto(out[i], written[i])
      /\ stream = Joined(U) /\ (~short => offsetRead = Len(Joins(U)[Len(out)]))
  BY <1>1 DEF IInv
<1>3. /\ written' \in Seq(Vals) /\ Len(written') = N + 1 /\ N \in Nat /\ written'[N + 1] = v
      /\ \A i \in 1..N : written'[i] = written[i]
  BY <1>1, <1>2
<1>4. e \in Text
  BY ReadableVals DEF Writes, Encode
<1>5. /\ U \in Seq(Text) /\ Len(U) = N /\ \A i \in 1..N : U[i] = Encode(written[i])
      /\ W \in Seq(Text) /\ Len(W) = N + 1 /\ \A i \in 1..N + 1 : W[i] = Encode(written'[i])
  BY <1>2, <1>3, PiecesText
<1>6. \A i \in 1..N : W[i] = U[i]
  BY <1>3, <1>5
<1>7. W[N + 1] = e
  BY <1>3, <1>5
<1> HIDE DEF U, W, N, e
<1>8. ASSUME NEW k \in 0..N
      PROVE  Joins(W)[k] = Joins(U)[k]
  BY <1>3, <1>5, <1>6, JoinsAgree
<1>9. Joined(W) = stream \o e
  <2>1. N \in 0..Len(W) /\ N < Len(W)
    BY <1>3, <1>5
  <2>2. Joins(W)[N + 1] = Joins(W)[N] \o W[N + 1]
    BY <1>5, <2>1, JoinsNext
  <2>3. Joins(W)[N] = Joins(U)[N]
    BY <1>3, <1>8
  <2> QED
    BY <1>2, <1>5, <1>7, <2>2, <2>3 DEF Joined
<1>10. stream' = Joined(W) /\ stream' \in Text /\ Len(stream') = Len(stream) + Len(e)
       /\ Len(stream) \in Nat /\ Len(e) \in Nat
  BY <1>1, <1>2, <1>4, <1>9, ConcatText
<1>11. At(stream', 0, Joined(W)) /\ Len(stream') <= Len(Joined(W))
  <2>1. Len(stream') \in Nat
    BY <1>10
  <2>2. \A i \in 1..Len(stream') : 0 + i = i
    BY <2>1
  <2> QED
    BY <1>10, <2>1, <2>2 DEF At
<1>12. offsetRead' \in 0..Len(stream')
  BY <1>1, <1>2, <1>10
<1>13. Len(out) \in Nat /\ Len(out) \in 0..N /\ Len(out) <= N + 1
  BY <1>2, <1>3
<1>14. ~short' => offsetRead' = Len(Joins(W)[Len(out)])
  BY <1>1, <1>2, <1>8, <1>13
<1>15. \A i \in 1..Len(out) : ReadOnto(out[i], written'[i])
  BY <1>2, <1>3, <1>13
<1> QED
  BY <1>1, <1>2, <1>3, <1>10, <1>11, <1>12, <1>13, <1>14, <1>15 DEF IInv, W

LEMMA CutStep ==
  ASSUME NoBlobs, IInv, NEW n \in offsetRead..Len(stream), Cut(n)
  PROVE  IInv'
<1> DEFINE J == Joined(Pieces(written))
<1>1. /\ cut' = TRUE /\ stream' = SubSeq(stream, 1, n)
      /\ written' = written /\ offsetRead' = offsetRead /\ out' = out /\ short' = short
      /\ \A i \in DOMAIN written : written[i] \in Nested(Plain)[MaxNest]
  BY DEF Cut
<1>2. /\ written \in Seq(Vals) /\ stream \in Seq(Nat) /\ offsetRead \in 0..Len(stream)
      /\ At(stream, 0, J) /\ Len(stream) <= Len(J)
  BY DEF IInv, Text
<1>3. Len(stream) \in Nat /\ n \in Nat /\ n <= Len(stream) /\ offsetRead \in 0..n
  BY <1>2
<1>4. /\ stream' \in Text /\ Len(stream') = n
      /\ \A i \in 1..n : stream'[i] = stream[i]
  <2>5. stream \in Seq(Nat) /\ \A i \in 1..n : i \in 1..Len(stream)
    BY <1>2, <1>3
  <2>1. \A i \in 1..n : stream[i] \in Nat
    BY <2>5
  <2>2. /\ SubSeq(stream, 1, n) \in Seq(Nat)
        /\ Len(SubSeq(stream, 1, n)) = IF 1 <= n THEN n - 1 + 1 ELSE 0
        /\ \A i \in 1..n - 1 + 1 : SubSeq(stream, 1, n)[i] = stream[1 + i - 1]
    BY <1>3, <2>1, SubSeqProperties
  <2>3. n - 1 + 1 = n /\ \A i \in 1..n : 1 + i - 1 = i
    BY <1>3
  <2>4. (IF 1 <= n THEN n - 1 + 1 ELSE 0) = n
    BY <1>3
  <2> QED
    BY <1>1, <2>2, <2>3, <2>4 DEF Text
<1>5. Len(J) \in Nat
  BY <1>2, PiecesText, JoinedText DEF Text
<1> HIDE DEF J
<1>6. At(stream', 0, J) /\ Len(stream') <= Len(J)
  <2>1. ASSUME NEW i \in 1..Len(J), 0 + i <= Len(stream')
        PROVE  stream'[0 + i] = J[i]
    <3>1. i \in 1..n /\ 0 + i = i /\ 0 + i <= Len(stream)
      BY <1>3, <1>4, <1>5, <2>1
    <3>2. stream[i] = J[i]
      BY <1>2, <3>1 DEF At
    <3> QED
      BY <1>4, <3>1, <3>2
  <2>2. Len(stream') <= Len(J)
    BY <1>2, <1>3, <1>4, <1>5
  <2> QED
    BY <2>1, <2>2 DEF At
<1>7. \A i \in 1..Len(written) : written[i] \in Level(TRUE, MaxNest)
  BY <1>1, <1>2 DEF Level, Leaves
<1> QED
  BY <1>1, <1>3, <1>4, <1>6, <1>7 DEF IInv, J

(* One read(val&): the next val, or the end of the stream.                  *)
LEMMA NextRead ==
  ASSUME NoBlobs, IInv, ~short
  PROVE  LET r == Decode(stream, offsetRead)
         IN  \/ /\ r.ok = TRUE /\ Len(out) < Len(written) /\ r.val \in Readable
                /\ Encode(r.val) = Encode(written[Len(out) + 1])
                /\ r.at \in 0..Len(stream)
                /\ r.at = Len(Joins(Pieces(written))[Len(out) + 1])
             \/ r.ok = FALSE /\ r.at = Len(stream)
<1> DEFINE r == Decode(stream, offsetRead)
           n == Len(out)
           N == Len(written)
           U == Pieces(written)
           v == written[n + 1]
           e == Encode(v)
           firm == cut
<1>1. /\ written \in Seq(Vals) /\ stream \in Text /\ offsetRead \in 0..Len(stream)
      /\ (\E S : out \in Seq(S)) /\ cut \in BOOLEAN /\ n <= N
      /\ At(stream, 0, Joined(U)) /\ Len(stream) <= Len(Joined(U))
      /\ (~cut => stream = Joined(U))
      /\ (cut => \A i \in 1..N : written[i] \in Level(TRUE, MaxNest))
      /\ offsetRead = Len(Joins(U)[n])
  BY DEF IInv
<1>2. /\ U \in Seq(Text) /\ Len(U) = N /\ N \in Nat /\ n \in Nat
      /\ \A i \in 1..N : U[i] = Encode(written[i]) /\ written[i] \in Vals
      /\ Len(stream) \in Nat
  BY <1>1, PiecesText DEF Text
<1>3. Joined(U) = Joins(U)[N] /\ Len(Joined(U)) \in Nat
  BY <1>2, JoinedText DEF Joined, Text
<1> HIDE DEF U, N, n
<1>4. CASE n < N
  <2>1. n \in 0..N /\ n + 1 \in 1..N /\ n + 1 \in 0..N
    BY <1>2, <1>4
  <2>2. v \in Vals /\ U[n + 1] = e
    BY <1>2, <2>1
  <2> HIDE DEF v, e
  <2>3. /\ Len(Joins(U)[n + 1]) = Len(Joins(U)[n]) + Len(e) /\ Len(e) \in Nat
        /\ Len(Joins(U)[n]) \in Nat
    BY <1>2, <1>4, <2>1, <2>2, JoinsLen
  <2>4. At(stream, offsetRead, e)
    <3>1. 0 \in Nat
      OBVIOUS
    <3>2. At(stream, 0 + Len(Joins(U)[n]), U[n + 1])
      BY <1>1, <1>2, <1>4, <2>1, <3>1, AtJoins
    <3>3. 0 + Len(Joins(U)[n]) = offsetRead
      BY <1>1, <2>3
    <3> QED
      BY <2>2, <3>2, <3>3
  <2>5. firm \in BOOLEAN /\ v \in Level(firm, MaxNest)
    <3>1. CASE cut = TRUE
      BY <1>1, <2>1, <3>1 DEF v
    <3>2. CASE cut = FALSE
      BY <2>2, <3>2, ReadableVals DEF Readable
    <3> QED
      BY <1>1, <3>1, <3>2
  <2> HIDE DEF firm
  <2>6. ReadsInside(stream, Level(firm, MaxNest), Readable, Encoding[MaxNest],
                    Decoding(stream)[MaxNest], firm)
    BY <1>1, <2>5, Deepest, RoundTrip DEF Readable
  <2>7. ReadsAs(r, stream, offsetRead, e, Readable, Encoding[MaxNest], firm)
    <3>1. e = Encoding[MaxNest][v] /\ r = Decoding(stream)[MaxNest][offsetRead]
      BY DEF e, Encode, Decode
    <3> HIDE DEF r
    <3> QED
      BY <1>1, <2>4, <2>5, <2>6, <3>1 DEF ReadsInside
  <2> HIDE DEF r
  <2>8. CASE Fits(stream, offsetRead, e)
    <3>1. /\ r.ok = TRUE /\ r.at = offsetRead + Len(e)
          /\ r.val \in Readable /\ Encoding[MaxNest][r.val] = e
      BY <2>7, <2>8 DEF ReadsAs
    <3>2. offsetRead + Len(e) \in 0..Len(stream)
      BY <1>1, <1>2, <2>3, <2>8 DEF Fits
    <3>3. r.at = Len(Joins(U)[n + 1]) /\ r.at \in 0..Len(stream) /\ Encode(r.val) = e
      BY <1>1, <2>3, <3>1, <3>2 DEF Encode
    <3> QED
      BY <1>4, <3>1, <3>3 DEF r, n, N, U, v, e
  <2>9. CASE ~Fits(stream, offsetRead, e)
    <3>1. firm
      <4>1. Len(Joins(U)[n + 1]) <= Len(Joined(U))
        BY <1>2, <2>1, JoinsGrow
      <4>2. ~(offsetRead + Len(e) <= Len(stream))
        BY <2>9 DEF Fits
      <4>3. Len(stream) # Len(Joined(U))
        BY <1>1, <1>2, <1>3, <2>3, <4>1, <4>2
      <4> QED
        BY <1>1, <4>3 DEF firm
    <3>2. r.ok = FALSE /\ r.at = Len(stream)
      BY <2>7, <2>9, <3>1 DEF ReadsAs
    <3> QED
      BY <3>2 DEF r
  <2> QED
    BY <2>8, <2>9
<1>5. CASE n = N
  <2>1. offsetRead = Len(stream)
    BY <1>1, <1>2, <1>3, <1>5
  <2>2. r.ok = FALSE /\ r.at = Len(stream)
    <3>1. r = Decoding(stream)[MaxNest][offsetRead]
      BY DEF Decode
    <3>2. CASE MaxNest = 0
      <4>1. Decoding(stream)[0] = [o \in 0..Len(stream) |-> Failed(o)]
        BY DecodingIs, Zenon
      <4>2. r = Failed(offsetRead)
        BY <1>1, <3>1, <3>2, <4>1
      <4> HIDE DEF r
      <4> QED
        BY <2>1, <4>2, FailedIs
    <3>3. CASE MaxNest # 0
      <4> DEFINE dec == Decoding(stream)[MaxNest - 1]
                 t == TakeWord(stream, offsetRead)
      <4>1. Decoding(stream)[MaxNest] = [o \in 0..Len(stream) |-> DecodeVal(dec, stream, o)]
        BY <3>3, Deepest, DecodingIs, Zenon
      <4> HIDE DEF dec
      <4>2. r = DecodeVal(dec, stream, offsetRead)
        BY <1>1, <3>1, <4>1
      <4>3. Take(stream, offsetRead, 2).ok = FALSE /\ Take(stream, offsetRead, 2).at = Len(stream)
        <5>1. Len(stream) - offsetRead = 0 /\ offsetRead + 0 = Len(stream) /\ ~(2 <= 0)
          BY <1>2, <2>1
        <5>2. ~(2 <= Len(stream) - offsetRead) /\ (0 = 2) = FALSE
          BY <5>1
        <5>3. Take(stream, offsetRead, 2)
                = Result(FALSE, SubSeq(stream, offsetRead + 1, offsetRead), Len(stream))
          BY <2>1, <5>1, <5>2 DEF Take
        <5> QED
          BY <5>3 DEF Result
      <4>4. t.ok = FALSE /\ t.at = Len(stream)
        BY <4>3 DEF TakeWord, Result
      <4>5. r = Failed(t.at)
        BY <4>2, <4>4 DEF DecodeVal
      <4> HIDE DEF r, t
      <4> QED
        BY <4>4, <4>5, FailedIs
    <3> QED
      BY <3>2, <3>3
  <2> QED
    BY <2>2
<1>6. n < N \/ n = N
  BY <1>1, <1>2
<1> QED
  BY <1>4, <1>5, <1>6

LEMMA ReadStep ==
  ASSUME NoBlobs, IInv, NEW old \in Targets, ReadVal(old)
  PROVE  IInv' /\ (short' => offsetRead' = Len(stream))
<1> DEFINE r == Decode(stream, offsetRead)
           n == Len(out)
           U == Pieces(written)
<1>1. /\ ~short /\ offsetRead' = r.at /\ short' = ~r.ok
      /\ out' = IF r.ok THEN Append(out, [into |-> old, val |-> Onto(old, r.val)]) ELSE out
      /\ written' = written /\ stream' = stream /\ cut' = cut
  BY DEF ReadVal
<1>2. \/ /\ r.ok = TRUE /\ n < Len(written) /\ r.val \in Readable
         /\ Encode(r.val) = Encode(written[n + 1])
         /\ r.at \in 0..Len(stream) /\ r.at = Len(Joins(U)[n + 1])
      \/ r.ok = FALSE /\ r.at = Len(stream)
  BY <1>1, NextRead
<1> HIDE DEF r, n, U
<1>3. /\ written \in Seq(Vals) /\ stream \in Text /\ offsetRead \in 0..Len(stream)
      /\ (\E S : out \in Seq(S)) /\ cut \in BOOLEAN /\ n <= Len(written)
      /\ \A i \in 1..n : ReadOnto(out[i], written[i])
      /\ At(stream, 0, Joined(U)) /\ Len(stream) <= Len(Joined(U))
      /\ (~cut => stream = Joined(U))
      /\ (cut => \A i \in 1..Len(written) : written[i] \in Level(TRUE, MaxNest))
  BY DEF IInv, n, U
<1>4. n \in Nat /\ Len(written) \in Nat /\ Len(stream) \in Nat
  BY <1>3 DEF n, Text
<1>5. CASE r.ok = TRUE
  <2> DEFINE x == r.val
             new == [into |-> old, val |-> Onto(old, x)]
  <2>1. out' = Append(out, new) /\ short' = FALSE
    BY <1>1, <1>5
  <2>2. /\ n < Len(written) /\ x \in Readable /\ Encode(x) = Encode(written[n + 1])
        /\ r.at \in 0..Len(stream) /\ r.at = Len(Joins(U)[n + 1])
    BY <1>2, <1>5
  <2> HIDE DEF x
  <2>7. ReadOnto(new, written[n + 1])
    <3>1. Fillable(old)
      BY TargetsFillable
    <3>2. new.into = old /\ new.val = Onto(old, x)
      OBVIOUS
    <3> HIDE DEF new
    <3> QED
      BY <2>2, <3>1, <3>2 DEF ReadOnto
  <2> HIDE DEF new
  <2>3. /\ (\E S : out' \in Seq(S)) /\ Len(out') = n + 1 /\ out'[n + 1] = new
        /\ \A i \in 1..n : out'[i] = out[i]
    <3>1. PICK S : out \in Seq(S)
      BY <1>3
    <3>2. out \in Seq(S \cup {new})
      BY <3>1, SeqMonotonic
    <3>3. new \in S \cup {new}
      OBVIOUS
    <3> QED
      BY <2>1, <3>2, <3>3 DEF n
  <2>4. n + 1 <= Len(written)
    BY <1>4, <2>2
  <2>5. ASSUME NEW i \in 1..n + 1
        PROVE  ReadOnto(out'[i], written[i])
    <3>1. CASE i \in 1..n
      BY <1>3, <2>3, <3>1
    <3>2. CASE i = n + 1
      BY <2>3, <2>7, <3>2
    <3> QED
      BY <1>4, <3>1, <3>2
  <2>6. IInv'
    BY <1>1, <1>3, <2>1, <2>2, <2>3, <2>4, <2>5 DEF IInv, U
  <2> QED
    BY <2>1, <2>6
<1>6. CASE r.ok = FALSE
  <2>1. out' = out /\ short' = TRUE /\ offsetRead' = Len(stream)
    BY <1>1, <1>2, <1>6
  <2>2. offsetRead' \in 0..Len(stream)
    BY <1>4, <2>1
  <2>3. IInv'
    BY <1>1, <1>3, <2>1, <2>2 DEF IInv, n, U
  <2> QED
    BY <2>1, <2>3
<1> QED
  BY <1>2, <1>5, <1>6

LEMMA StepStream ==
  ASSUME NoBlobs, IInv, [Next]_vars
  PROVE  IInv' /\ (short' /\ ~short => offsetRead' = Len(stream))
<1>1. CASE \E v \in Vals : WriteVal(v)
  <2>1. PICK v \in Vals : WriteVal(v)
    BY <1>1
  <2>2. IInv'
    BY <2>1, WriteStep
  <2>3. short' = short
    BY <2>1 DEF WriteVal
  <2> QED
    BY <2>2, <2>3
<1>2. CASE \E n \in offsetRead..Len(stream) : Cut(n)
  <2>1. PICK n \in offsetRead..Len(stream) : Cut(n)
    BY <1>2
  <2>2. IInv'
    BY <2>1, CutStep
  <2>3. short' = short
    BY <2>1 DEF Cut
  <2> QED
    BY <2>2, <2>3
<1>3. CASE \E old \in Targets : ReadVal(old)
  BY <1>3, ReadStep
<1>4. CASE UNCHANGED vars
  BY <1>4 DEF IInv, vars
<1> QED
  BY <1>1, <1>2, <1>3, <1>4 DEF Next

(* The invariant gives the properties.                                      *)
LEMMA ReadsInStep ==
  ASSUME NoBlobs, IInv
  PROVE  ReadBack /\ InStep
<1> DEFINE n == Len(out)
           U == Pieces(written)
           W == [i \in 1..n |-> Encode(written[i])]
<1>1. /\ written \in Seq(Vals) /\ (\E S : out \in Seq(S)) /\ n <= Len(written)
      /\ \A i \in 1..n : ReadOnto(out[i], written[i])
      /\ (~short => offsetRead = Len(Joins(U)[n]))
  BY DEF IInv
<1>2. n \in Nat /\ DOMAIN out = 1..n
  BY <1>1
<1>3. ReadBack
  BY <1>1, <1>2, OneReadBack DEF ReadBack
<1>4. /\ U \in Seq(Text) /\ Len(U) = Len(written) /\ Len(written) \in Nat
      /\ \A i \in 1..Len(written) : U[i] = Encode(written[i])
  BY <1>1, PiecesText
<1> HIDE DEF U, n
<1>5. \A i \in 1..n : i \in 1..Len(written) /\ U[i] \in Text
  BY <1>1, <1>2, <1>4
<1>6. \A i \in 1..n : Encode(written[i]) = U[i] /\ Encode(written[i]) \in Text
  BY <1>4, <1>5
<1>7. /\ W \in Seq(Text) /\ Len(W) = n /\ \A i \in 1..n : W[i] = U[i]
  BY <1>2, <1>6
<1>8. InStep <=> (~short => offsetRead = Len(Joined(W)))
  BY DEF InStep, n
<1> HIDE DEF W
<1>9. Joins(W)[n] = Joins(U)[n]
  BY <1>1, <1>2, <1>4, <1>7, JoinsAgree
<1>10. Joined(W) = Joins(U)[n]
  BY <1>7, <1>9 DEF Joined
<1> QED
  BY <1>1, <1>3, <1>8, <1>10

LEMMA StreamInvariance == ASSUME NoBlobs PROVE Spec => []IInv
<1>1. Init => IInv
  BY InitStream
<1>2. IInv /\ [Next]_vars => IInv'
  BY StepStream
<1> QED
  BY <1>1, <1>2, PTL DEF Spec

(* Of every sequence of vals, of any depth and size, without STRING and     *)
(* BYTEARRAY, what read(val&) accepts is what write(const val&) wrote in    *)
(* its place, wherever the stream lost its end and into whichever new or    *)
(* used val it is read; behind the old elements where that was an array,    *)
(* and with no claim where it was a map and a map is read.                  *)
THEOREM ValsReadBack == ASSUME NoBlobs PROVE Spec => []ReadBack
<1>1. IInv => ReadBack
  BY ReadsInStep
<1> QED
  BY <1>1, StreamInvariance, PTL

(* Under the same condition every successful read(val&) takes exactly the   *)
(* units that write(const val&) put in for the val.                         *)
THEOREM ReadsKeepStep == ASSUME NoBlobs PROVE Spec => []InStep
<1>1. IInv => InStep
  BY ReadsInStep
<1> QED
  BY <1>1, StreamInvariance, PTL

(* Under the same condition read(val&) fails only at the end of the stream. *)
THEOREM ReadsFailAtEnd == ASSUME NoBlobs PROVE Spec => FailsAtEnd
<1>1. IInv /\ [Next]_vars => [short' /\ ~short => offsetRead' = Len(stream)]_vars
  BY StepStream
<1> QED
  BY <1>1, StreamInvariance, PTL DEF Spec, FailsAtEnd

(* After a read the val holds what was written, the val itself: alone in a  *)
(* new val or one of another type, added to what an array or map held.      *)
ComesBack ==
  /\ Len(out) <= Len(written)
  /\ \A i \in DOMAIN out : out[i].val = Onto(out[i].into, written[i])

LEMMA ReadsTheVals ==
  ASSUME NoBlobs, Vals \subseteq Nested(Exact)[MaxNest], IInv
  PROVE  ComesBack
<1>1. /\ written \in Seq(Vals) /\ (\E S : out \in Seq(S)) /\ Len(out) <= Len(written)
      /\ \A i \in 1..Len(out) : ReadOnto(out[i], written[i])
  BY DEF IInv
<1>2. Tells(Encoding[MaxNest], Nested(Exact)[MaxNest], Readable)
  BY Deepest, WritesTell DEF Readable
<1>3. DOMAIN out = 1..Len(out) /\ Len(out) \in Nat /\ Len(written) \in Nat
  BY <1>1
<1>4. ASSUME NEW i \in 1..Len(out)
      PROVE  out[i].val = Onto(out[i].into, written[i])
  <2>1. PICK x \in Readable : out[i].val = Onto(out[i].into, x) /\ Encode(x) = Encode(written[i])
    BY <1>1 DEF ReadOnto
  <2>2. written[i] \in Nested(Exact)[MaxNest]
    <3>1. i \in 1..Len(written)
      BY <1>1, <1>3
    <3> QED
      BY <1>1, <3>1
  <2>3. Encoding[MaxNest][written[i]] = Encoding[MaxNest][x]
    BY <2>1 DEF Encode
  <2>4. x = written[i]
    BY <1>2, <2>2, <2>3 DEF Tells
  <2> QED
    BY <2>1, <2>4, Zenon
<1> QED
  BY <1>1, <1>3, <1>4 DEF ComesBack

(* Vals of any depth and size without measurements, STRING and BYTEARRAY    *)
(* come back from the stream as they went in: what write(const val&) puts   *)
(* there determines the val.  read(val&) leaves it alone in a new val, and  *)
(* added to the elements or entries of an array or map it is read into.     *)
THEOREM ValsComeBack ==
  ASSUME Vals \subseteq Nested(Exact)[MaxNest]
  PROVE  Spec => []ComesBack
<1>1. NoBlobs
  <2>1. Exact \subseteq Plain \cup Errors
    BY DEF Exact
  <2>2. Nested(Exact)[MaxNest] \subseteq Nested(Plain \cup Errors)[MaxNest]
    BY <2>1, Deepest, NestedGrow
  <2> QED
    BY <2>2 DEF NoBlobs
<1>2. IInv => ComesBack
  BY <1>1, ReadsTheVals
<1>3. Spec => []IInv
  BY <1>1, StreamInvariance
<1> QED
  BY <1>2, <1>3, PTL

=============================================================================
