----------------------------- MODULE ValProofs -----------------------------
(***************************************************************************)
(* Proofs about Val, for any variables, keys, objects and bounds: that the *)
(* trees stay trees and no object is kept alive by nothing, whatever the   *)
(* callers do; and that callers who avoid the hazardous patterns meet no   *)
(* fault, own their references and store copies.                           *)
(***************************************************************************)
EXTENDS Val, SequenceTheorems, WellFoundedInduction, FiniteSetTheorems, TLAPS

-----------------------------------------------------------------------------
(* Paths.                                                                  *)

LEMMA PathIsSeq ==
  ASSUME NEW x \in Paths
  PROVE  x \in Seq(Names) /\ Len(x) \in Nat /\ Len(x) <= Depth
<1>1. PICK m \in 0..Depth : x \in [1..m -> Names]
  BY DEF Paths, SeqOf
<1>2. m \in Nat /\ m <= Depth
  BY BoundsAssumption
<1> QED
  BY <1>1, <1>2

LEMMA SeqIsPath ==
  ASSUME NEW x \in Seq(Names), Len(x) <= Depth
  PROVE  x \in Paths
<1>1. Len(x) \in 0..Depth /\ x \in [1..Len(x) -> Names]
  BY BoundsAssumption
<1> QED
  BY <1>1 DEF Paths, SeqOf

LEMMA SameSeq ==
  ASSUME NEW S, NEW u \in Seq(S), NEW v \in Seq(S), Len(u) = Len(v),
         \A i \in 1..Len(u) : u[i] = v[i]
  PROVE  u = v
  BY SeqEqual

(* A step down.                                                            *)
Step(x) == x[Len(x)]

LEMMA PathFacts ==
  /\ <<>> \in Paths
  /\ \A x \in Paths : Len(x) \in Nat /\ Len(x) <= Depth /\ (Len(x) = 0 <=> x = <<>>)
  /\ Depth \in Nat
<1>1. \A x \in Seq(Names) : Len(x) \in Nat /\ (Len(x) = 0 <=> x = <<>>)
  OBVIOUS
<1>2. <<>> \in Seq(Names) /\ Len(<<>>) = 0
  OBVIOUS
<1>3. <<>> \in Paths
  <2>1. Len(<<>>) <= Depth
    BY BoundsAssumption
  <2> QED
    BY <1>2, <2>1, SeqIsPath
<1>4. \A x \in Paths : x \in Seq(Names) /\ Len(x) <= Depth
  BY PathIsSeq
<1> QED
  BY <1>1, <1>3, <1>4, BoundsAssumption

(* A path below another is that one and the rest.                          *)
Rest(p, x) == SubSeq(x, Len(p) + 1, Len(x))

LEMMA Join ==
  ASSUME NEW p \in Paths, NEW x \in Paths, Len(p) + Len(x) <= Depth
  PROVE  /\ p \o x \in Paths /\ Len(p \o x) = Len(p) + Len(x)
         /\ IsPrefix(p, p \o x) /\ Rest(p, p \o x) = x
<1>1. p \in Seq(Names) /\ x \in Seq(Names)
  BY PathIsSeq
<1>2. p \o x \in Seq(Names) /\ Len(p \o x) = Len(p) + Len(x)
  BY <1>1
<1>3. SubSeq(p, 1, Len(p)) = SubSeq(p \o x, 1, Len(p))
  BY <1>1
<1>4. SubSeq(p \o x, Len(p) + 1, Len(p) + Len(x)) = x
  BY <1>1
<1> QED
  <2>1. p \o x \in Paths
    BY <1>2, SeqIsPath
  <2>2. Len(p) \in Nat /\ Len(x) \in Nat /\ Len(p) <= Len(p) + Len(x)
    BY <1>1
  <2>3. IsPrefix(p, p \o x)
    BY <1>2, <1>3, <2>2 DEF IsPrefix
  <2>4. Rest(p, p \o x) = x
    BY <1>2, <1>4 DEF Rest
  <2> QED
    BY <1>2, <2>1, <2>3, <2>4

LEMMA Split ==
  ASSUME NEW p \in Paths, NEW x \in Paths, IsPrefix(p, x)
  PROVE  /\ Rest(p, x) \in Paths /\ x = p \o Rest(p, x)
         /\ Len(x) = Len(p) + Len(Rest(p, x))
         /\ Rest(p, x) = <<>> <=> x = p
<1>1. /\ p \in Seq(Names) /\ x \in Seq(Names) /\ Len(x) <= Depth /\ Len(p) <= Len(x)
      /\ SubSeq(p, 1, Len(p)) = SubSeq(x, 1, Len(p))
  BY PathIsSeq DEF IsPrefix
<1>2. \A i \in 1..Len(p) : p[i] = x[i]
  <2> SUFFICES ASSUME NEW i \in 1..Len(p) PROVE p[i] = x[i]
    OBVIOUS
  <2>1. SubSeq(p, 1, Len(p))[i] = p[i] /\ SubSeq(x, 1, Len(p))[i] = x[i]
    BY <1>1
  <2> QED
    BY <1>1, <2>1
<1> DEFINE r == Rest(p, x)
<1>3. r \in Seq(Names) /\ Len(r) = Len(x) - Len(p) /\ \A i \in 1..Len(r) : r[i] = x[Len(p) + i]
  BY <1>1 DEF Rest
<1> HIDE DEF r
<1>4. Len(p) \in Nat /\ Len(x) \in Nat /\ Len(r) \in Nat /\ Len(x) = Len(p) + Len(r)
  BY <1>1, <1>3
<1>5. x = p \o r
  <2>1. p \o r \in Seq(Names) /\ Len(p \o r) = Len(x)
    BY <1>1, <1>3, <1>4
  <2>2. \A i \in 1..Len(x) : (p \o r)[i] = IF i <= Len(p) THEN p[i] ELSE r[i - Len(p)]
    BY <1>1, <1>3, <1>4
  <2>3. \A i \in 1..Len(x) : (p \o r)[i] = x[i]
    <3> SUFFICES ASSUME NEW i \in 1..Len(x) PROVE (p \o r)[i] = x[i]
      OBVIOUS
    <3>1. CASE i <= Len(p)
      BY <1>2, <1>4, <2>2, <3>1
    <3>2. CASE ~(i <= Len(p))
      <4>1. i - Len(p) \in 1..Len(r) /\ Len(p) + (i - Len(p)) = i
        BY <1>4, <3>2
      <4> QED
        BY <1>3, <2>2, <3>2, <4>1
    <3> QED
      BY <3>1, <3>2
  <2> HIDE DEF r
  <2> QED
    BY <1>1, <2>1, <2>3, SameSeq
<1>6. r = <<>> <=> x = p
  <2>1. r = <<>> => x = p
    BY <1>1, <1>5
  <2>2. x = p => Len(r) = 0
    BY <1>4
  <2> QED
    BY <1>3, <2>1, <2>2
<1> QED
  <2>1. r \in Seq(Names) /\ Len(r) <= Depth
    BY <1>1, <1>3, <1>4, BoundsAssumption
  <2>2. r \in Paths
    BY <2>1, SeqIsPath
  <2> QED
    BY <1>4, <1>5, <1>6, <2>2 DEF r

LEMMA PrefixIff ==
  ASSUME NEW p \in Paths, NEW x \in Paths
  PROVE  IsPrefix(p, x) <=> Len(p) <= Len(x) /\ \A i \in 1..Len(p) : p[i] = x[i]
<1>1. p \in Seq(Names) /\ x \in Seq(Names) /\ Len(p) \in Nat /\ Len(x) \in Nat
  BY PathIsSeq
<1>2. ASSUME Len(p) <= Len(x)
      PROVE  /\ SubSeq(p, 1, Len(p)) \in Seq(Names) /\ Len(SubSeq(p, 1, Len(p))) = Len(p)
             /\ SubSeq(x, 1, Len(p)) \in Seq(Names) /\ Len(SubSeq(x, 1, Len(p))) = Len(p)
             /\ \A i \in 1..Len(p) : SubSeq(p, 1, Len(p))[i] = p[i] /\ SubSeq(x, 1, Len(p))[i] = x[i]
  BY <1>1, <1>2
<1>3. ASSUME Len(p) <= Len(x), \A i \in 1..Len(p) : p[i] = x[i]
      PROVE  SubSeq(p, 1, Len(p)) = SubSeq(x, 1, Len(p))
  <2> DEFINE u == SubSeq(p, 1, Len(p))
             v == SubSeq(x, 1, Len(p))
  <2>1. u \in Seq(Names) /\ v \in Seq(Names) /\ Len(u) = Len(v) /\ \A i \in 1..Len(u) : u[i] = v[i]
    BY <1>2, <1>3
  <2> HIDE DEF u, v
  <2>2. u = v
    BY <2>1, SameSeq
  <2> QED
    BY <2>2 DEF u, v
<1>4. ASSUME Len(p) <= Len(x), SubSeq(p, 1, Len(p)) = SubSeq(x, 1, Len(p))
      PROVE  \A i \in 1..Len(p) : p[i] = x[i]
  <2>1. \A i \in 1..Len(p) : SubSeq(p, 1, Len(p))[i] = p[i] /\ SubSeq(x, 1, Len(p))[i] = x[i]
    BY <1>2, <1>4
  <2> QED
    BY <1>4, <2>1
<1> QED
  BY <1>3, <1>4 DEF IsPrefix

LEMMA PrefixOrder ==
  ASSUME NEW p \in Paths, NEW q \in Paths
  PROVE  /\ IsPrefix(p, p) /\ IsPrefix(<<>>, p)
         /\ IsPrefix(p, q) => Len(p) <= Len(q)
         /\ IsPrefix(p, q) /\ Len(p) = Len(q) => p = q
         /\ IsPrefix(p, <<>>) => p = <<>>
<1>1. /\ p \in Seq(Names) /\ q \in Seq(Names) /\ Len(p) \in Nat /\ Len(q) \in Nat
      /\ <<>> \in Paths /\ Len(<<>>) = 0
  BY PathIsSeq, PathFacts
<1>2. IsPrefix(p, p)
  BY <1>1, PrefixIff
<1>3. IsPrefix(<<>>, p)
  BY <1>1, PrefixIff
<1>4. IsPrefix(p, q) => Len(p) <= Len(q)
  BY PrefixIff
<1>5. IsPrefix(p, q) /\ Len(p) = Len(q) => p = q
  BY <1>1, PrefixIff, SameSeq
<1>6. IsPrefix(p, <<>>) => p = <<>>
  BY <1>1, PrefixIff, PathFacts
<1> QED
  BY <1>2, <1>3, <1>4, <1>5, <1>6

LEMMA PrefixTrans ==
  ASSUME NEW p \in Paths, NEW q \in Paths, NEW x \in Paths, IsPrefix(p, q), IsPrefix(q, x)
  PROVE  IsPrefix(p, x)
<1>1. Len(p) \in Nat /\ Len(q) \in Nat /\ Len(x) \in Nat
  BY PathIsSeq
<1>2. /\ Len(p) <= Len(q) /\ \A i \in 1..Len(p) : p[i] = q[i]
      /\ Len(q) <= Len(x) /\ \A i \in 1..Len(q) : q[i] = x[i]
  BY PrefixIff
<1>3. Len(p) <= Len(x) /\ \A i \in 1..Len(p) : p[i] = x[i]
  BY <1>1, <1>2
<1> QED
  BY <1>3, PrefixIff

(* Two places above a third are one above the other.                       *)
LEMMA PrefixLine ==
  ASSUME NEW p \in Paths, NEW q \in Paths, NEW x \in Paths, IsPrefix(p, x), IsPrefix(q, x)
  PROVE  IsPrefix(p, q) \/ IsPrefix(q, p)
<1>1. Len(p) \in Nat /\ Len(q) \in Nat
  BY PathIsSeq
<1>2. (\A i \in 1..Len(p) : p[i] = x[i]) /\ (\A i \in 1..Len(q) : q[i] = x[i])
  BY PrefixIff
<1>3. CASE Len(p) <= Len(q)
  <2>1. \A i \in 1..Len(p) : p[i] = q[i]
    BY <1>1, <1>2, <1>3
  <2> QED
    BY <1>3, <2>1, PrefixIff
<1>4. CASE Len(q) <= Len(p)
  <2>1. \A i \in 1..Len(q) : q[i] = p[i]
    BY <1>1, <1>2, <1>4
  <2> QED
    BY <1>4, <2>1, PrefixIff
<1> QED
  BY <1>1, <1>3, <1>4

LEMMA ParentFacts ==
  ASSUME NEW x \in Paths, x # <<>>
  PROVE  /\ Front(x) \in Paths /\ Len(Front(x)) = Len(x) - 1 /\ Len(x) >= 1
         /\ Step(x) \in Names /\ x = Append(Front(x), Step(x))
         /\ \A i \in 1..Len(x) - 1 : Front(x)[i] = x[i]
<1>1. x \in Seq(Names) /\ Len(x) \in Nat /\ Len(x) >= 1 /\ Len(x) <= Depth
  BY PathIsSeq, PathFacts
<1>2. /\ Front(x) \in Seq(Names) /\ Len(Front(x)) = Len(x) - 1
      /\ \A i \in 1..Len(x) - 1 : Front(x)[i] = x[i]
  <2> DEFINE k == Len(x) - 1
  <2>1. k \in Nat /\ k <= Len(x)
    BY <1>1
  <2> HIDE DEF k
  <2>2. /\ SubSeq(x, 1, k) \in Seq(Names) /\ Len(SubSeq(x, 1, k)) = k
        /\ \A i \in 1..k : SubSeq(x, 1, k)[i] = x[i]
    BY <1>1, <2>1
  <2> QED
    BY <2>2 DEF Front, k
<1>3. Len(Front(x)) <= Depth
  BY <1>1, <1>2, BoundsAssumption
<1>4. Front(x) \in Paths
  BY <1>2, <1>3, SeqIsPath
<1>5. Step(x) \in Names
  BY <1>1 DEF Step
<1>6. x = Append(Front(x), Step(x))
  <2> DEFINE f == Front(x)
             n == Step(x)
  <2>1. f \in Seq(Names) /\ n \in Names /\ Len(f) = Len(x) - 1 /\ n = x[Len(x)]
    BY <1>2, <1>5 DEF Step
  <2>2. \A i \in 1..Len(x) - 1 : f[i] = x[i]
    BY <1>2
  <2> HIDE DEF f, n
  <2>3. Append(f, n) \in Seq(Names) /\ Len(Append(f, n)) = Len(x)
    BY <1>1, <2>1
  <2>4. \A i \in 1..Len(x) : Append(f, n)[i] = x[i]
    BY <1>1, <2>1, <2>2
  <2>5. x = Append(f, n)
    BY <1>1, <2>3, <2>4, SameSeq
  <2> QED
    BY <2>5 DEF f, n
<1> QED
  BY <1>1, <1>2, <1>4, <1>5, <1>6

LEMMA ChildFacts ==
  ASSUME NEW p \in Paths, NEW n \in Names, Len(p) < Depth
  PROVE  /\ Append(p, n) \in Paths /\ Append(p, n) # <<>> /\ Len(Append(p, n)) = Len(p) + 1
         /\ Front(Append(p, n)) = p /\ Step(Append(p, n)) = n
         /\ \A i \in 1..Len(p) : Append(p, n)[i] = p[i]
<1>1. p \in Seq(Names) /\ Len(p) \in Nat
  BY PathIsSeq
<1> DEFINE c == Append(p, n)
<1>2. /\ c \in Seq(Names) /\ Len(c) = Len(p) + 1 /\ c[Len(c)] = n
      /\ \A i \in 1..Len(p) : c[i] = p[i]
  BY <1>1
<1>3. Len(c) <= Depth
  BY <1>1, <1>2, BoundsAssumption
<1> HIDE DEF c
<1>4. c \in Paths /\ c # <<>>
  <2>1. c \in Paths
    BY <1>2, <1>3, SeqIsPath
  <2> QED
    BY <1>1, <1>2, <2>1, PathFacts
<1>5. /\ Front(c) \in Paths /\ Len(Front(c)) = Len(p) /\ \A i \in 1..Len(p) : Front(c)[i] = c[i]
  <2>1. Len(c) - 1 = Len(p)
    BY <1>1, <1>2
  <2>2. /\ Front(c) \in Paths /\ Len(Front(c)) = Len(c) - 1
        /\ \A i \in 1..Len(c) - 1 : Front(c)[i] = c[i]
    BY <1>4, ParentFacts
  <2> QED
    BY <2>1, <2>2
<1>6. Front(c) \in Seq(Names) /\ \A i \in 1..Len(p) : Front(c)[i] = p[i]
  BY <1>2, <1>5, PathIsSeq
<1>7. Front(c) = p
  BY <1>1, <1>5, <1>6, SameSeq
<1> QED
  BY <1>2, <1>4, <1>7 DEF Step, c

LEMMA PrefixParent ==
  ASSUME NEW p \in Paths, NEW x \in Paths, x # <<>>
  PROVE  IsPrefix(p, x) <=> x = p \/ IsPrefix(p, Front(x))
<1>1. /\ Front(x) \in Paths /\ Len(Front(x)) = Len(x) - 1 /\ Len(x) >= 1
      /\ \A i \in 1..Len(x) - 1 : Front(x)[i] = x[i]
  BY ParentFacts
<1>2. Len(p) \in Nat /\ Len(x) \in Nat
  BY PathIsSeq
<1>3. IsPrefix(p, x) <=> Len(p) <= Len(x) /\ \A i \in 1..Len(p) : p[i] = x[i]
  BY PrefixIff
<1>4. IsPrefix(p, Front(x)) <=> Len(p) <= Len(x) - 1 /\ \A i \in 1..Len(p) : p[i] = Front(x)[i]
  BY <1>1, PrefixIff
<1>5. CASE IsPrefix(p, x)
  <2>1. CASE Len(p) = Len(x)
    BY <1>5, <2>1, PrefixOrder
  <2>2. CASE Len(p) # Len(x)
    <3>1. Len(p) <= Len(x) - 1
      BY <1>2, <1>3, <1>5, <2>2
    <3>2. \A i \in 1..Len(p) : p[i] = Front(x)[i]
      BY <1>1, <1>2, <1>3, <1>5, <3>1
    <3> QED
      BY <1>4, <3>1, <3>2, <1>5
  <2> QED
    BY <2>1, <2>2
<1>6. CASE IsPrefix(p, Front(x))
  <2>1. Len(p) <= Len(x)
    BY <1>2, <1>4, <1>6
  <2>2. \A i \in 1..Len(p) : p[i] = x[i]
    BY <1>1, <1>2, <1>4, <1>6
  <2> QED
    BY <1>3, <1>6, <2>1, <2>2
<1>7. CASE x = p
  BY <1>7, PrefixOrder
<1> QED
  BY <1>5, <1>6, <1>7

(* The parent of a path in a subtree.                                      *)
LEMMA JoinParent ==
  ASSUME NEW p \in Paths, NEW x \in Paths, x # <<>>, Len(p) + Len(x) <= Depth
  PROVE  /\ p \o x # <<>> /\ Step(p \o x) = Step(x)
         /\ Front(p \o x) = p \o Front(x) /\ Len(p) + Len(Front(x)) < Depth
         /\ \A n \in Names : p \o Append(Front(x), n) = Append(Front(p \o x), n)
<1>1. p \in Seq(Names) /\ Len(p) \in Nat /\ x \in Seq(Names) /\ Len(x) \in Nat
  BY PathIsSeq
<1> DEFINE f == Front(x)
           n == Step(x)
<1>2. /\ f \in Paths /\ n \in Names /\ x = Append(f, n) /\ Len(f) = Len(x) - 1 /\ Len(x) >= 1
      /\ f \in Seq(Names)
  BY ParentFacts, PathIsSeq
<1> HIDE DEF f, n
<1>3. \A m \in Names : p \o Append(f, m) = Append(p \o f, m)
  BY <1>1, <1>2
<1>4. Len(p) + Len(f) < Depth
  BY <1>1, <1>2, PathFacts
<1>5. p \o f \in Paths /\ Len(p \o f) < Depth
  BY <1>1, <1>2, <1>4, Join, PathFacts
<1>6. Front(Append(p \o f, n)) = p \o f /\ Step(Append(p \o f, n)) = n /\ Append(p \o f, n) # <<>>
  BY <1>2, <1>5, ChildFacts
<1>7. p \o x = Append(p \o f, n)
  BY <1>2, <1>3
<1> QED
  BY <1>3, <1>4, <1>6, <1>7 DEF f, n

-----------------------------------------------------------------------------
(* Trees.                                                                  *)

LEMMA LeastNat ==
  ASSUME NEW T \in SUBSET Nat, T # {}
  PROVE  \E m \in T : \A n \in T : m <= n
<1> DEFINE R == OpToRel(<, Nat)
<1>1. IsWellFoundedOn(R, Nat)
  BY NatLessThanWellFounded
<1>2. \A x, y \in Nat : <<x, y>> \in R <=> x < y
  BY DEF OpToRel
<1> HIDE DEF R
<1>3. PICK m \in T : \A n \in T : ~(<<n, m>> \in R)
  BY <1>1, WFMin
<1>4. \A n \in T : ~(n < m)
  BY <1>2, <1>3
<1>5. \A n \in T : m <= n
  BY <1>4
<1> QED
  BY <1>5

LEMMA Contents ==
  /\ Absent \in Content /\ Empty \in Content /\ Map \in Content /\ Array \in Content
  /\ Absent # Empty /\ Absent # Map /\ Absent # Array /\ Empty # Map /\ Empty # Array /\ Map # Array
  /\ \A x \in Plain : Datum(x) \in Content /\ Datum(x) \notin {Absent, Empty, Map, Array}
  /\ \A b \in Boxes : Ref(b) \in Content /\ Ref(b) \notin {Absent, Empty, Map, Array}
  /\ \A b, c \in Boxes : Ref(b) = Ref(c) => b = c
  /\ \A x \in Plain, b \in Boxes : Datum(x) # Ref(b)
  BY DEF Content, Absent, Empty, Map, Array, Datum, Ref

LEMMA ContentIs ==
  ASSUME NEW c \in Content
  PROVE  /\ c.type = "ABSENT" <=> c = Absent
         /\ c.type = "EMPTY" <=> c = Empty
         /\ c.type = "MAP" <=> c = Map
         /\ c.type = "ARRAY" <=> c = Array
         /\ c.type = "OBJECT" <=> \E b \in Boxes : c = Ref(b)
         /\ \A b : c.type = "OBJECT" /\ c.data = b => b \in Boxes /\ c = Ref(b)
         /\ \A b \in Boxes : c = Ref(b) => c.type = "OBJECT" /\ c.data = b
  BY DEF Content, Absent, Empty, Map, Array, Ref

Trees == [Paths -> Content]

(* The element before the one at x.                                        *)
Pred(x) == Append(Front(x), Step(x) - 1)

(* What WellFormed asks of the element at x.                               *)
Kind(t, x) ==
  IF Step(x) \in Keys THEN t[Front(x)] = Map
  ELSE t[Front(x)] = Array /\ (Step(x) > 1 => t[Pred(x)] # Absent)

Rooted(t) == t \in Trees /\ \A x \in Paths : x # <<>> /\ t[x] # Absent => Kind(t, x)

Tree(t) == Rooted(t) /\ t[<<>>] # Absent

LEMMA PredFacts ==
  ASSUME NEW x \in Paths, x # <<>>, Step(x) \notin Keys, Step(x) > 1
  PROVE  /\ Step(x) - 1 \in Names /\ Step(x) - 1 \notin Keys /\ Step(x) \in Nat
         /\ Pred(x) \in Paths /\ Pred(x) # <<>> /\ Front(Pred(x)) = Front(x)
         /\ Len(Pred(x)) = Len(x) /\ Step(Pred(x)) = Step(x) - 1 /\ Pred(x) # x
<1>1. /\ Front(x) \in Paths /\ Len(Front(x)) = Len(x) - 1 /\ Step(x) \in Names
      /\ Len(x) \in Nat /\ Len(x) <= Depth /\ Depth \in Nat
  BY ParentFacts, PathFacts
<1>2. Step(x) \in 1..MaxArray /\ MaxArray \in Nat
  BY <1>1, BoundsAssumption DEF Names
<1>3. Step(x) - 1 \in Names /\ Step(x) - 1 \notin Keys /\ Step(x) \in Nat /\ Step(x) - 1 # Step(x)
  BY <1>2, ValuesAssumption DEF Names
<1>4. Len(Front(x)) < Depth /\ Len(Front(x)) + 1 = Len(x)
  BY <1>1
<1>5. /\ Pred(x) \in Paths /\ Pred(x) # <<>> /\ Front(Pred(x)) = Front(x)
      /\ Len(Pred(x)) = Len(x) /\ Step(Pred(x)) = Step(x) - 1
  BY <1>1, <1>3, <1>4, ChildFacts DEF Pred
<1> QED
  BY <1>3, <1>5

LEMMA KindMoves ==
  ASSUME NEW t, NEW u, NEW x, NEW y, Kind(t, x), Step(y) = Step(x), u[Front(y)] = t[Front(x)],
         Step(x) \notin Keys /\ Step(x) > 1 /\ t[Pred(x)] # Absent => u[Pred(y)] # Absent
  PROVE  Kind(u, y)
  BY DEF Kind

LEMMA LeafTree ==
  ASSUME NEW c \in Content
  PROVE  /\ Leaf(c) \in Trees /\ Rooted(Leaf(c)) /\ Leaf(c)[<<>>] = c
         /\ \A x \in Paths : x # <<>> => Leaf(c)[x] = Absent
         /\ c # Absent => Tree(Leaf(c))
<1>1. Leaf(c) \in Trees /\ Leaf(c)[<<>>] = c /\ \A x \in Paths : x # <<>> => Leaf(c)[x] = Absent
  BY PathFacts, Contents DEF Leaf, Trees
<1> QED
  BY <1>1 DEF Rooted, Tree

(* Nothing is below a val that is not a container.                         *)
LEMMA Childless ==
  ASSUME NEW t, Rooted(t), NEW p \in Paths, t[p] \notin {Map, Array}
  PROVE  \A x \in Paths : IsPrefix(p, x) /\ x # p => t[x] = Absent
<1> DEFINE Bad(x) == x \in Paths /\ IsPrefix(p, x) /\ x # p /\ t[x] # Absent
           T == {n \in Nat : \E x \in Paths : Bad(x) /\ Len(x) = n}
<1> SUFFICES ASSUME NEW z \in Paths, Bad(z) PROVE FALSE
  OBVIOUS
<1>1. Len(z) \in T
  BY PathFacts
<1>2. PICK m \in T : \A n \in T : m <= n
  BY <1>1, LeastNat
<1>3. PICK x \in Paths : Bad(x) /\ Len(x) = m
  BY <1>2
<1>4. x # <<>>
  BY <1>3, PrefixOrder
<1>5. t[Front(x)] \in {Map, Array}
  BY <1>3, <1>4 DEF Rooted, Kind
<1>6. Front(x) \in Paths /\ Len(Front(x)) = Len(x) - 1 /\ IsPrefix(p, Front(x)) /\ Len(x) \in Nat
  BY <1>3, <1>4, ParentFacts, PrefixParent, PathFacts
<1>7. Bad(Front(x))
  BY <1>5, <1>6, Contents
<1>8. Len(Front(x)) \in T
  BY <1>6, <1>7, PathFacts
<1> QED
  BY <1>2, <1>3, <1>6, <1>8

LEMMA SubTree ==
  ASSUME NEW t, Rooted(t), NEW p \in Paths
  PROVE  /\ Sub(t, p) \in Trees /\ Rooted(Sub(t, p)) /\ Sub(t, p)[<<>>] = t[p]
         /\ t[p] # Absent => Tree(Sub(t, p))
         /\ \A x \in Paths : Len(p) + Len(x) <= Depth => Sub(t, p)[x] = t[p \o x]
         /\ \A x \in Paths : ~(Len(p) + Len(x) <= Depth) => Sub(t, p)[x] = Absent
<1> DEFINE s == Sub(t, p)
<1>1. t \in Trees /\ \A x \in Paths : x # <<>> /\ t[x] # Absent => Kind(t, x)
  BY DEF Rooted
<1>2. /\ \A x \in Paths : Len(p) + Len(x) <= Depth => s[x] = t[p \o x]
      /\ \A x \in Paths : ~(Len(p) + Len(x) <= Depth) => s[x] = Absent
  BY DEF Sub
<1>3. s \in Trees
  <2>1. \A x \in Paths : Len(p) + Len(x) <= Depth => t[p \o x] \in Content
    BY <1>1, Join DEF Trees
  <2> QED
    BY <2>1, Contents DEF Sub, Trees
<1>4. s[<<>>] = t[p]
  <2>1. Len(p) + Len(<<>>) <= Depth /\ <<>> \in Paths /\ p \o <<>> = p
    BY PathIsSeq, PathFacts
  <2> QED
    BY <1>2, <2>1
<1> HIDE DEF s
<1>5. ASSUME NEW x \in Paths, x # <<>>, s[x] # Absent
      PROVE  Kind(s, x)
  <2>1. Len(p) + Len(x) <= Depth /\ s[x] = t[p \o x]
    BY <1>2, <1>5
  <2>2. /\ p \o x \in Paths /\ p \o x # <<>> /\ Step(p \o x) = Step(x)
        /\ Front(p \o x) = p \o Front(x) /\ Len(p) + Len(Front(x)) <= Depth
        /\ \A n \in Names : p \o Append(Front(x), n) = Append(Front(p \o x), n)
    <3>1. /\ p \o x # <<>> /\ Step(p \o x) = Step(x)
          /\ Front(p \o x) = p \o Front(x) /\ Len(p) + Len(Front(x)) < Depth
          /\ \A n \in Names : p \o Append(Front(x), n) = Append(Front(p \o x), n)
      BY <1>5, <2>1, JoinParent
    <3>2. Len(p) + Len(Front(x)) <= Depth
      BY <1>5, <3>1, PathFacts, ParentFacts
    <3>3. p \o x \in Paths
      BY <1>5, <2>1, Join
    <3> QED
      BY <3>1, <3>2, <3>3
  <2>3. Kind(t, p \o x)
    BY <1>1, <1>5, <2>1, <2>2
  <2>4. s[Front(x)] = t[Front(p \o x)]
    BY <1>2, <1>5, <2>2, ParentFacts
  <2>5. ASSUME Step(x) \notin Keys, Step(x) > 1
        PROVE  s[Pred(x)] = t[Pred(p \o x)]
    <3>1. Pred(x) \in Paths /\ Len(Pred(x)) = Len(x) /\ Step(x) - 1 \in Names
      BY <1>5, <2>5, PredFacts
    <3>2. p \o Pred(x) = Pred(p \o x)
      BY <2>2, <3>1 DEF Pred
    <3> QED
      BY <1>2, <2>1, <3>1, <3>2
  <2> QED
    BY <2>2, <2>3, <2>4, <2>5, KindMoves
<1> QED
  BY <1>2, <1>3, <1>4, <1>5 DEF Rooted, Tree, s

(* A tree with another put in.                                             *)
LEMMA GraftAt ==
  ASSUME NEW t \in Trees, NEW s \in Trees, NEW p \in Paths
  PROVE  /\ Graft(t, p, s) \in Trees /\ Graft(t, p, s)[p] = s[<<>>]
         /\ \A x \in Paths : ~IsPrefix(p, x) => Graft(t, p, s)[x] = t[x]
         /\ \A x \in Paths : IsPrefix(p, x) => Graft(t, p, s)[x] = s[Rest(p, x)]
         /\ \A y \in Paths : Len(p) + Len(y) <= Depth => Graft(t, p, s)[p \o y] = s[y]
<1> DEFINE g == Graft(t, p, s)
<1>1. /\ \A x \in Paths : ~IsPrefix(p, x) => g[x] = t[x]
      /\ \A x \in Paths : IsPrefix(p, x) => g[x] = s[Rest(p, x)]
  BY DEF Graft, Rest
<1>2. \A x \in Paths : (IF IsPrefix(p, x) THEN s[SubSeq(x, Len(p) + 1, Len(x))] ELSE t[x]) \in Content
  BY Split DEF Rest, Trees
<1>3. g \in Trees
  BY <1>2 DEF Graft, Trees
<1> HIDE DEF g
<1>4. g[p] = s[<<>>]
  BY <1>1, Split, PrefixOrder
<1>5. \A y \in Paths : Len(p) + Len(y) <= Depth => g[p \o y] = s[y]
  BY <1>1, Join
<1> QED
  BY <1>1, <1>3, <1>4, <1>5 DEF g

LEMMA GraftRooted ==
  ASSUME NEW t, NEW s, NEW p \in Paths, Rooted(t), Rooted(s),
         p # <<>> /\ s[<<>>] # Absent => Kind(t, p),
         s[<<>>] # Absent \/ (p # <<>> /\ Step(p) \in Keys)
  PROVE  Rooted(Graft(t, p, s))
<1> DEFINE g == Graft(t, p, s)
<1>1. t \in Trees /\ s \in Trees
  BY DEF Rooted
<1>2. /\ g \in Trees /\ g[p] = s[<<>>]
      /\ \A x \in Paths : ~IsPrefix(p, x) => g[x] = t[x]
      /\ \A x \in Paths : IsPrefix(p, x) => g[x] = s[Rest(p, x)]
      /\ \A y \in Paths : Len(p) + Len(y) <= Depth => g[p \o y] = s[y]
  BY <1>1, GraftAt
<1> HIDE DEF g
<1>3. ASSUME NEW x \in Paths, x # <<>>, g[x] # Absent
      PROVE  Kind(g, x)
  <2>1. Front(x) \in Paths /\ Len(Front(x)) = Len(x) - 1 /\ Len(x) \in Nat /\ Len(p) \in Nat
    BY <1>3, ParentFacts, PathFacts
  <2>2. CASE x = p
    <3>1. Kind(t, p)
      BY <1>2, <1>3, <2>2
    <3>2. ~IsPrefix(p, Front(x))
      BY <2>1, <2>2, PrefixOrder
    <3>3. ASSUME Step(x) \notin Keys, Step(x) > 1
          PROVE  g[Pred(x)] = t[Pred(x)]
      <4>1. Pred(x) \in Paths /\ Len(Pred(x)) = Len(x) /\ Pred(x) # p
        BY <1>3, <2>2, <3>3, PredFacts
      <4>2. ~IsPrefix(p, Pred(x))
        BY <2>2, <4>1, PrefixOrder
      <4> QED
        BY <1>2, <4>1, <4>2
    <3> QED
      BY <1>2, <2>1, <2>2, <3>1, <3>2, <3>3, KindMoves
  <2>3. CASE x # p /\ IsPrefix(p, x)
    <3> DEFINE r == Rest(p, x)
    <3>1. /\ r \in Paths /\ x = p \o r /\ Len(p) + Len(r) <= Depth /\ r # <<>> /\ g[x] = s[r]
      BY <1>2, <2>3, Split, PathFacts
    <3> HIDE DEF r
    <3>2. Kind(s, r)
      BY <1>3, <3>1 DEF Rooted
    <3>3. /\ Step(x) = Step(r) /\ Front(x) = p \o Front(r) /\ Len(p) + Len(Front(r)) <= Depth
          /\ Front(r) \in Paths
          /\ \A n \in Names : p \o Append(Front(r), n) = Append(Front(x), n)
      <4>1. /\ Step(p \o r) = Step(r)
            /\ Front(p \o r) = p \o Front(r) /\ Len(p) + Len(Front(r)) < Depth
            /\ \A n \in Names : p \o Append(Front(r), n) = Append(Front(p \o r), n)
        BY <3>1, JoinParent
      <4>2. Front(r) \in Paths
        BY <3>1, ParentFacts
      <4>3. Len(p) + Len(Front(r)) <= Depth
        BY <2>1, <4>1, <4>2, PathFacts
      <4>4. p \o r = x
        BY <3>1
      <4> QED
        BY <4>1, <4>2, <4>3, <4>4
    <3>4. g[Front(x)] = s[Front(r)]
      BY <1>2, <3>3
    <3>5. ASSUME Step(r) \notin Keys, Step(r) > 1
          PROVE  g[Pred(x)] = s[Pred(r)]
      <4>1. Pred(r) \in Paths /\ Len(Pred(r)) = Len(r) /\ Step(r) - 1 \in Names
        BY <3>1, <3>5, PredFacts
      <4>2. p \o Pred(r) = Pred(x)
        BY <3>3, <4>1 DEF Pred
      <4> QED
        BY <1>2, <3>1, <4>1, <4>2
    <3> QED
      BY <3>2, <3>3, <3>4, <3>5, KindMoves
  <2>4. CASE ~IsPrefix(p, x)
    <3>1. Kind(t, x)
      BY <1>2, <1>3, <2>4 DEF Rooted
    <3>2. ~IsPrefix(p, Front(x)) /\ g[Front(x)] = t[Front(x)]
      BY <1>2, <1>3, <2>1, <2>4, PrefixParent
    <3>3. ASSUME Step(x) \notin Keys, Step(x) > 1, t[Pred(x)] # Absent
          PROVE  g[Pred(x)] # Absent
      <4>1. /\ Pred(x) \in Paths /\ Pred(x) # <<>> /\ Front(Pred(x)) = Front(x)
            /\ Step(Pred(x)) \notin Keys
        BY <1>3, <3>3, PredFacts
      <4>2. CASE Pred(x) = p
        BY <1>2, <4>1, <4>2
      <4>3. CASE Pred(x) # p
        <5>1. ~IsPrefix(p, Pred(x))
          BY <3>2, <4>1, <4>3, PrefixParent
        <5> QED
          BY <1>2, <3>3, <4>1, <5>1
      <4> QED
        BY <4>2, <4>3
    <3> QED
      BY <3>1, <3>2, <3>3, KindMoves
  <2> QED
    BY <2>2, <2>3, <2>4
<1> QED
  BY <1>2, <1>3 DEF Rooted, g

-----------------------------------------------------------------------------
(* The vals of the program.                                                *)

Forest(tr) == tr \in [Holders -> Trees] /\ \A v \in Holders : Tree(tr[v])

Spots == Holders \X Paths

BoxTypes == [Boxes -> Objects \cup {Free, Null}]

LEMMA TypeIff ==
  TypeOK <=> /\ Forest(tree) /\ box \in BoxTypes /\ copied \in BOOLEAN
             /\ fault \in {"none", "assert", "use_after_free"}
<1> SUFFICES ASSUME tree \in [Holders -> Trees]
             PROVE  WellFormed <=> \A v \in Holders : Tree(tree[v])
  BY DEF TypeOK, Forest, BoxTypes, Trees
<1>1. \A v \in Holders : tree[v] \in Trees
  OBVIOUS
<1>2. WellFormed <=> \A v \in Holders, x \in Paths :
                       /\ x = <<>> => tree[v][x] # Absent
                       /\ x # <<>> /\ tree[v][x] # Absent => Kind(tree[v], x)
  BY DEF WellFormed, Kind, Pred, Step
<1> QED
  BY <1>1, <1>2, PathFacts DEF Tree, Rooted

LEMMA SpotFacts ==
  /\ \A p \in Spots : p[1] \in Holders /\ p[2] \in Paths /\ p = <<p[1], p[2]>>
  /\ \A tr : PlacesOf(tr) \subseteq Spots
  /\ \A v \in Holders : Root(v) \in Spots
  BY PathFacts DEF Spots, PlacesOf, Root

LEMMA PutAt ==
  ASSUME NEW tr \in [Holders -> Trees], NEW p \in Spots, NEW s \in Trees
  PROVE  /\ Put(tr, p, s) \in [Holders -> Trees]
         /\ Put(tr, p, s)[p[1]] = Graft(tr[p[1]], p[2], s)
         /\ \A v \in Holders : v # p[1] => Put(tr, p, s)[v] = tr[v]
<1>1. p[1] \in Holders /\ p[2] \in Paths /\ tr[p[1]] \in Trees
  BY SpotFacts
<1>2. Graft(tr[p[1]], p[2], s) \in Trees
  BY <1>1, GraftAt
<1> QED
  BY <1>1, <1>2 DEF Put

(* What is not below p stays.                                              *)
LEMMA PutBeside ==
  ASSUME NEW tr \in [Holders -> Trees], NEW p \in Spots, NEW s \in Trees,
         NEW v \in Holders, NEW x \in Paths, v = p[1] => ~IsPrefix(p[2], x)
  PROVE  Put(tr, p, s)[v][x] = tr[v][x]
<1>1. p[1] \in Holders /\ p[2] \in Paths /\ tr[p[1]] \in Trees
  BY SpotFacts
<1>2. CASE v = p[1]
  <2> DEFINE u == tr[p[1]]
             q == p[2]
  <2>1. u \in Trees /\ q \in Paths /\ ~IsPrefix(q, x)
    BY <1>1, <1>2
  <2> HIDE DEF u, q
  <2>2. Graft(u, q, s)[x] = u[x]
    BY <2>1, GraftAt
  <2> QED
    BY <1>2, <2>2, PutAt DEF u, q
<1>3. CASE v # p[1]
  BY <1>3, PutAt
<1> QED
  BY <1>2, <1>3

LEMMA PutForest ==
  ASSUME NEW tr, Forest(tr), NEW p \in Spots, NEW s, Tree(s),
         p[2] # <<>> => Kind(tr[p[1]], p[2])
  PROVE  Forest(Put(tr, p, s))
<1>1. /\ p[1] \in Holders /\ p[2] \in Paths /\ tr \in [Holders -> Trees] /\ s \in Trees
      /\ Rooted(s) /\ s[<<>>] # Absent /\ Tree(tr[p[1]]) /\ tr[p[1]] \in Trees
  BY SpotFacts DEF Forest, Tree, Rooted
<1> DEFINE u == tr[p[1]]
           q == p[2]
           g == Graft(u, q, s)
<1>2. Rooted(g)
  BY <1>1, GraftRooted DEF Tree
<1>3. g[<<>>] # Absent
  <2>1. /\ u \in Trees /\ q \in Paths /\ s \in Trees /\ <<>> \in Paths /\ u[<<>>] # Absent
        /\ s[<<>>] # Absent
    BY <1>1, PathFacts DEF Tree
  <2> HIDE DEF u, q
  <2>2. g[q] = s[<<>>] /\ \A x \in Paths : ~IsPrefix(q, x) => g[x] = u[x]
    BY <2>1, GraftAt
  <2>3. q # <<>> => ~IsPrefix(q, <<>>)
    BY <2>1, PrefixOrder
  <2> HIDE DEF g
  <2>4. CASE q = <<>>
    BY <2>1, <2>2, <2>4
  <2>5. CASE q # <<>>
    BY <2>1, <2>2, <2>3, <2>5
  <2> QED
    BY <2>4, <2>5
<1> HIDE DEF g
<1>4. /\ Put(tr, p, s) \in [Holders -> Trees] /\ Put(tr, p, s)[p[1]] = g
      /\ \A v \in Holders : v # p[1] => Put(tr, p, s)[v] = tr[v]
  BY <1>1, PutAt DEF g
<1>5. Tree(g)
  BY <1>2, <1>3 DEF Tree
<1> QED
  BY <1>4, <1>5 DEF Forest

LEMMA PlaceFacts ==
  ASSUME NEW tr, Forest(tr), NEW p \in PlacesOf(tr)
  PROVE  /\ p \in Spots /\ p[1] \in Holders /\ p[2] \in Paths /\ At(tr, p) # Absent
         /\ p[2] # <<>> => Kind(tr[p[1]], p[2])
         /\ Tree(SubAt(tr, p)) /\ SubAt(tr, p) \in Trees /\ SubAt(tr, p)[<<>>] = At(tr, p)
         /\ Rooted(tr[p[1]]) /\ tr[p[1]] \in Trees
<1>1. p \in Spots /\ p[1] \in Holders /\ p[2] \in Paths /\ At(tr, p) # Absent
  BY SpotFacts DEF PlacesOf
<1>2. Rooted(tr[p[1]]) /\ tr[p[1]] \in Trees /\ tr[p[1]][p[2]] # Absent
  BY <1>1 DEF Forest, Tree, At
<1>3. p[2] # <<>> => Kind(tr[p[1]], p[2])
  BY <1>1, <1>2 DEF Rooted
<1> QED
  BY <1>1, <1>2, <1>3, SubTree DEF SubAt, At

LEMMA RootPlace ==
  ASSUME NEW tr, Forest(tr), NEW v \in Holders
  PROVE  /\ Root(v) \in PlacesOf(tr) /\ Root(v)[1] = v /\ Root(v)[2] = <<>>
         /\ SubAt(tr, Root(v)) = tr[v]
         /\ \A s \in Trees : Put(tr, Root(v), s) = [tr EXCEPT ![v] = s]
<1>1. /\ Root(v) \in Spots /\ Root(v)[1] = v /\ Root(v)[2] = <<>> /\ tr[v] \in Trees
      /\ Rooted(tr[v]) /\ tr[v][<<>>] # Absent /\ tr \in [Holders -> Trees] /\ <<>> \in Paths
  BY PathFacts DEF Root, Spots, Forest, Tree
<1>2. Root(v) \in PlacesOf(tr)
  BY <1>1 DEF PlacesOf, At, Spots
<1>3. \A x \in Paths : Len(<<>>) + Len(x) <= Depth /\ <<>> \o x = x
  BY PathIsSeq, PathFacts
<1>4. SubAt(tr, Root(v)) = tr[v]
  <2> DEFINE u == tr[v]
  <2>1. u \in Trees /\ Rooted(u)
    BY <1>1
  <2> HIDE DEF u
  <2>2. /\ Sub(u, <<>>) \in Trees
        /\ \A x \in Paths : Len(<<>>) + Len(x) <= Depth => Sub(u, <<>>)[x] = u[<<>> \o x]
    BY <1>1, <2>1, SubTree
  <2>3. \A x \in Paths : Sub(u, <<>>)[x] = u[x]
    BY <1>3, <2>2
  <2>4. Sub(u, <<>>) = u
    BY <2>1, <2>2, <2>3 DEF Trees
  <2> QED
    BY <1>1, <2>4 DEF SubAt, u
<1>5. ASSUME NEW s \in Trees
      PROVE  Put(tr, Root(v), s) = [tr EXCEPT ![v] = s]
  <2> DEFINE u == tr[v]
  <2>1. u \in Trees
    BY <1>1
  <2> HIDE DEF u
  <2>2. /\ Graft(u, <<>>, s) \in Trees
        /\ \A x \in Paths : Len(<<>>) + Len(x) <= Depth => Graft(u, <<>>, s)[<<>> \o x] = s[x]
    <3>1. \A r \in Paths :
            /\ Graft(u, r, s) \in Trees
            /\ \A x \in Paths : Len(r) + Len(x) <= Depth => Graft(u, r, s)[r \o x] = s[x]
      BY <2>1, GraftAt
    <3> QED
      BY <3>1, PathFacts
  <2>3. \A x \in Paths : Graft(u, <<>>, s)[x] = s[x]
    BY <1>3, <2>2
  <2>4. Graft(u, <<>>, s) = s
    BY <2>2, <2>3 DEF Trees
  <2> QED
    BY <1>1, <2>4 DEF Put, u
<1> QED
  BY <1>1, <1>2, <1>4, <1>5

-----------------------------------------------------------------------------
(* Boxes.                                                                  *)

Held(tr, b) == \E v \in Holders : \E x \in Paths : tr[v][x] = Ref(b)

LEMMA BoxesIff ==
  ASSUME NEW t \in Trees
  PROVE  /\ BoxesOf(t) \subseteq Boxes
         /\ \A b \in Boxes : b \in BoxesOf(t) <=> \E x \in Paths : t[x] = Ref(b)
<1>1. \A x \in Paths : t[x] \in Content
  BY DEF Trees
<1>2. \A x \in Paths : t[x].type = "OBJECT" => t[x].data \in Boxes /\ t[x] = Ref(t[x].data)
  BY <1>1, ContentIs
<1>3. \A x \in Paths, b \in Boxes : t[x] = Ref(b) => t[x].type = "OBJECT" /\ t[x].data = b
  BY <1>1, ContentIs
<1> QED
  BY <1>2, <1>3 DEF BoxesOf

LEMMA LeakIff ==
  ASSUME Forest(tree)
  PROVE  NoObjectLeak <=> \A b \in Boxes : box[b] \in Objects => Held(tree, b)
<1>1. \A v \in Holders : tree[v] \in Trees
  BY DEF Forest
<1>2. \A b \in Boxes : (\E v \in Holders : b \in BoxesOf(tree[v])) <=> Held(tree, b)
  BY <1>1, BoxesIff DEF Held
<1> QED
  BY <1>2 DEF NoObjectLeak

(* The only box a val without elements can refer to is its own.            *)
LEMMA ObjectAlone ==
  ASSUME NEW s, Rooted(s), s[<<>>].type = "OBJECT"
  PROVE  BoxesOf(s) = {s[<<>>].data} /\ s[<<>>].data \in Boxes
<1>1. s \in Trees /\ <<>> \in Paths /\ s[<<>>] \in Content
  BY PathFacts DEF Rooted, Trees
<1>2. PICK b \in Boxes : s[<<>>] = Ref(b) /\ s[<<>>].data = b
  BY <1>1, ContentIs
<1>3. s[<<>>] \notin {Map, Array}
  BY <1>2, Contents
<1>4. \A x \in Paths : x # <<>> => s[x] = Absent
  BY <1>1, <1>3, Childless, PrefixOrder
<1>5. \A c \in Boxes : (\E x \in Paths : s[x] = Ref(c)) <=> c = b
  BY <1>1, <1>2, <1>4, Contents
<1> QED
  BY <1>1, <1>2, <1>5, BoxesIff

LEMMA ReleaseFacts ==
  ASSUME NEW bx \in BoxTypes, NEW s, Rooted(s)
  PROVE  /\ Reset(bx, s) \in BoxTypes /\ Release(bx, s) \in BoxTypes
         /\ \A b \in Boxes : b \notin BoxesOf(s) => Reset(bx, s)[b] = bx[b] /\ Release(bx, s)[b] = bx[b]
         /\ \A b \in BoxesOf(s) : Reset(bx, s)[b] \notin Objects /\ Release(bx, s)[b] \notin Objects
<1>1. BoxesOf(s) \subseteq Boxes
  BY BoxesIff DEF Rooted
<1>2. /\ Reset(bx, s) \in BoxTypes
      /\ \A b \in Boxes : b \notin BoxesOf(s) => Reset(bx, s)[b] = bx[b]
      /\ \A b \in BoxesOf(s) : Reset(bx, s)[b] \notin Objects
  BY <1>1, ValuesAssumption DEF Reset, BoxTypes
<1>3. CASE s[<<>>].type = "OBJECT"
  <2>1. Release(bx, s) = [bx EXCEPT ![s[<<>>].data] = Free]
    BY <1>3 DEF Release
  <2>2. BoxesOf(s) = {s[<<>>].data} /\ s[<<>>].data \in Boxes
    BY <1>3, ObjectAlone
  <2> QED
    BY <1>2, <2>1, <2>2, ValuesAssumption DEF BoxTypes
<1>4. CASE s[<<>>].type # "OBJECT"
  BY <1>2, <1>4 DEF Release
<1> QED
  BY <1>3, <1>4

LEMMA HeldPut ==
  ASSUME NEW tr, Forest(tr), NEW p \in Spots, NEW s \in Trees, NEW b \in Boxes,
         Held(tr, b), b \notin BoxesOf(SubAt(tr, p))
  PROVE  Held(Put(tr, p, s), b)
<1>1. tr \in [Holders -> Trees] /\ p[1] \in Holders /\ p[2] \in Paths /\ Rooted(tr[p[1]])
  BY SpotFacts DEF Forest, Tree
<1>2. PICK v \in Holders, x \in Paths : tr[v][x] = Ref(b)
  BY DEF Held
<1>3. CASE v = p[1] => ~IsPrefix(p[2], x)
  <2>1. Put(tr, p, s)[v][x] = Ref(b)
    BY <1>1, <1>2, <1>3, PutBeside
  <2> QED
    BY <2>1 DEF Held
<1>4. CASE v = p[1] /\ IsPrefix(p[2], x)
  <2> DEFINE y == Rest(p[2], x)
  <2>1. y \in Paths /\ x = p[2] \o y /\ Len(p[2]) + Len(y) <= Depth
    BY <1>1, <1>4, Split, PathFacts
  <2> HIDE DEF y
  <2>2. SubAt(tr, p) \in Trees /\ SubAt(tr, p)[y] = Ref(b)
    BY <1>1, <1>2, <1>4, <2>1, SubTree DEF SubAt
  <2>3. b \in BoxesOf(SubAt(tr, p))
    BY <2>1, <2>2, BoxesIff
  <2> QED
    BY <2>3
<1> QED
  BY <1>3, <1>4

-----------------------------------------------------------------------------
(* The invariant, with its variables as parameters: trees, and an object   *)
(* only in a box some val refers to.                                       *)

Live(bx, b) == bx[b] \in Objects

Safe(tr, bx) ==
  Forest(tr) /\ bx \in BoxTypes /\ \A b \in Boxes : Live(bx, b) => Held(tr, b)

Inv == TypeOK /\ NoObjectLeak

LEMMA InvIff ==
  Inv <=> /\ Safe(tree, box) /\ copied \in BOOLEAN
          /\ fault \in {"none", "assert", "use_after_free"}
  BY TypeIff, LeakIff DEF Inv, Safe, Live

LEMMA Ends ==
  ASSUME Inv, NEW tr, NEW bx, Safe(tr, bx), tree' = tr, box' = bx, copied' \in BOOLEAN,
         UNCHANGED fault
  PROVE  Inv'
<1>1. Safe(tree, box)' /\ (copied \in BOOLEAN)' /\ (fault \in {"none", "assert", "use_after_free"})'
  <2>1. Safe(tree', box')
    OBVIOUS
  <2>2. fault' \in {"none", "assert", "use_after_free"}
    BY InvIff
  <2> QED
    BY <2>1, <2>2 DEF Safe, Forest, Held, Live
<1>2. (Inv <=> /\ Safe(tree, box) /\ copied \in BOOLEAN
              /\ fault \in {"none", "assert", "use_after_free"})'
  BY InvIff, PTL
<1> QED
  BY <1>1, <1>2

LEMMA DoneEnds ==
  ASSUME Inv, NEW tr, NEW bx, Safe(tr, bx), Done(tr, bx)
  PROVE  Inv'
<1>1. tree' = tr /\ box' = bx /\ copied' \in BOOLEAN /\ UNCHANGED fault
  BY DEF Done
<1> QED
  BY <1>1, Ends

LEMMA StoredEnds ==
  ASSUME Inv, NEW tr, NEW bx, NEW p, NEW w, Safe(tr, bx), Stored(tr, bx, p, w)
  PROVE  Inv'
<1>1. tree' = tr /\ box' = bx /\ UNCHANGED fault
  BY DEF Stored
<1>2. copied' \in BOOLEAN
  BY DEF Stored
<1> QED
  BY <1>1, <1>2, Ends

LEMMA CrashEnds ==
  ASSUME Inv, NEW kind \in {"assert", "use_after_free"}, Crash(kind)
  PROVE  Inv'
  BY DEF Inv, Crash, TypeOK, WellFormed, NoObjectLeak

-----------------------------------------------------------------------------
(* What the calls make of the trees and boxes.                             *)

LEMMA PutSafe ==
  ASSUME NEW tr, Forest(tr), NEW p \in Spots, NEW s, Tree(s), NEW bx \in BoxTypes,
         p[2] # <<>> => Kind(tr[p[1]], p[2]),
         \A b \in Boxes : Live(bx, b) => Held(tr, b) /\ b \notin BoxesOf(SubAt(tr, p))
  PROVE  Safe(Put(tr, p, s), bx)
<1>1. s \in Trees
  BY DEF Tree, Rooted
<1>2. Forest(Put(tr, p, s))
  BY PutForest
<1>3. \A b \in Boxes : Live(bx, b) => Held(Put(tr, p, s), b)
  BY <1>1, HeldPut
<1> QED
  BY <1>2, <1>3 DEF Safe

(* Dropping what is at p.                                                  *)
LEMMA Dropped ==
  ASSUME NEW tr, NEW bx, Safe(tr, bx), NEW p \in PlacesOf(tr),
         NEW bx2 \in {Release(bx, SubAt(tr, p)), Reset(bx, SubAt(tr, p))}
  PROVE  /\ bx2 \in BoxTypes
         /\ \A b \in Boxes : Live(bx2, b) => Held(tr, b) /\ b \notin BoxesOf(SubAt(tr, p))
<1> DEFINE s == SubAt(tr, p)
<1>1. Rooted(s) /\ bx \in BoxTypes /\ \A b \in Boxes : Live(bx, b) => Held(tr, b)
  BY PlaceFacts DEF Safe, Tree
<1> HIDE DEF s
<1>2. bx2 \in {Release(bx, s), Reset(bx, s)}
  BY DEF s
<1>3. /\ bx2 \in BoxTypes
      /\ \A b \in Boxes : b \notin BoxesOf(s) => bx2[b] = bx[b]
      /\ \A b \in BoxesOf(s) : bx2[b] \notin Objects
  BY <1>1, <1>2, ReleaseFacts
<1>4. \A b \in Boxes : Live(bx2, b) => Held(tr, b) /\ b \notin BoxesOf(s)
  BY <1>1, <1>3 DEF Live
<1> QED
  BY <1>3, <1>4 DEF s

LEMMA Overwritten ==
  ASSUME NEW tr, NEW bx, Safe(tr, bx), NEW p \in PlacesOf(tr), NEW s, Tree(s)
  PROVE  /\ Safe(Put(tr, p, s), Release(bx, SubAt(tr, p)))
         /\ Safe(Put(tr, p, s), Reset(bx, SubAt(tr, p)))
<1>1. Forest(tr) /\ p \in Spots /\ (p[2] # <<>> => Kind(tr[p[1]], p[2]))
  BY PlaceFacts DEF Safe
<1>2. \A bx2 \in {Release(bx, SubAt(tr, p)), Reset(bx, SubAt(tr, p))} :
        /\ bx2 \in BoxTypes
        /\ \A b \in Boxes : Live(bx2, b) => Held(tr, b) /\ b \notin BoxesOf(SubAt(tr, p))
  BY Dropped
<1>3. \A bx2 \in {Release(bx, SubAt(tr, p)), Reset(bx, SubAt(tr, p))} : Safe(Put(tr, p, s), bx2)
  BY <1>1, <1>2, PutSafe
<1> QED
  BY <1>3

(* What was put at p is found there.                                       *)
LEMMA SubPut ==
  ASSUME NEW tr \in [Holders -> Trees], NEW p \in Spots, NEW s \in Trees, Fits(s, p[2])
  PROVE  SubAt(Put(tr, p, s), p) = s
<1> DEFINE u == tr[p[1]]
           q == p[2]
           g == Graft(u, q, s)
<1>1. u \in Trees /\ q \in Paths /\ Put(tr, p, s)[p[1]] = g
  BY SpotFacts, PutAt
<1> HIDE DEF u, q
<1>2. \A y \in Paths : Len(q) + Len(y) <= Depth => g[q \o y] = s[y]
  BY <1>1, GraftAt
<1>3. \A y \in Paths : ~(Len(q) + Len(y) <= Depth) => s[y] = Absent
  BY DEF Fits, q
<1> HIDE DEF g
<1>4. Sub(g, q) = [y \in Paths |-> s[y]]
  BY <1>2, <1>3 DEF Sub
<1>5. Sub(g, q) = s
  BY <1>4 DEF Trees
<1> QED
  BY <1>1, <1>5 DEF SubAt, q

LEMMA LeafFits ==
  ASSUME NEW p \in Paths, NEW c \in Content
  PROVE  Fits(Leaf(c), p)
  BY LeafTree, PathFacts DEF Fits

LEMMA NoBoxes ==
  ASSUME NEW c \in Content, \A b \in Boxes : c # Ref(b)
  PROVE  BoxesOf(Leaf(c)) = {}
<1>1. Leaf(c) \in Trees /\ Leaf(c)[<<>>] = c /\ \A x \in Paths : x # <<>> => Leaf(c)[x] = Absent
  BY LeafTree
<1>2. \A b \in Boxes : ~\E x \in Paths : Leaf(c)[x] = Ref(b)
  BY <1>1, Contents
<1> QED
  BY <1>1, <1>2, BoxesIff

(* The destination of assign() once it is empty.                           *)
LEMMA EmptiedFacts ==
  ASSUME NEW tr, Forest(tr), NEW p \in PlacesOf(tr), NEW q \in PlacesOf(tr), ~(Above(p, q) /\ p # q)
  PROVE  LET em == Put(tr, p, Leaf(Empty)) IN
         /\ Forest(em) /\ p \in PlacesOf(em) /\ q \in PlacesOf(em) /\ SubAt(em, p) = Leaf(Empty)
         /\ BoxesOf(SubAt(em, p)) = {}
<1> DEFINE em == Put(tr, p, Leaf(Empty))
<1>1. /\ p \in Spots /\ q \in Spots /\ p[1] \in Holders /\ p[2] \in Paths /\ q[1] \in Holders
      /\ q[2] \in Paths /\ At(tr, q) # Absent /\ tr \in [Holders -> Trees]
      /\ (p[2] # <<>> => Kind(tr[p[1]], p[2]))
  BY PlaceFacts DEF Forest
<1>2. Leaf(Empty) \in Trees /\ Tree(Leaf(Empty)) /\ Leaf(Empty)[<<>>] = Empty /\ Fits(Leaf(Empty), p[2])
  BY <1>1, LeafTree, LeafFits, Contents
<1>3. Forest(em)
  BY <1>1, <1>2, PutForest
<1>4. SubAt(em, p) = Leaf(Empty)
  BY <1>1, <1>2, SubPut
<1>5. BoxesOf(SubAt(em, p)) = {}
  BY <1>4, NoBoxes, Contents
<1>6. At(em, p) = Empty
  <2>1. em[p[1]] = Graft(tr[p[1]], p[2], Leaf(Empty)) /\ tr[p[1]] \in Trees
    BY <1>1, <1>2, PutAt
  <2>2. \A t, s \in Trees, r \in Paths : Graft(t, r, s)[r] = s[<<>>]
    BY GraftAt
  <2>3. Graft(tr[p[1]], p[2], Leaf(Empty))[p[2]] = Leaf(Empty)[<<>>]
    BY <1>1, <1>2, <2>1, <2>2
  <2> QED
    BY <1>2, <2>1, <2>3 DEF At
<1>7. At(em, q) # Absent
  <2>1. CASE p = q
    BY <1>6, <2>1, Contents
  <2>2. CASE ~Above(p, q)
    <3>1. em[q[1]][q[2]] = tr[q[1]][q[2]]
      BY <1>1, <1>2, <2>2, PutBeside DEF Above
    <3> QED
      BY <1>1, <3>1 DEF At
  <2> QED
    BY <2>1, <2>2
<1>8. p \in PlacesOf(em) /\ q \in PlacesOf(em)
  BY <1>1, <1>6, <1>7, Contents DEF PlacesOf, Spots
<1> QED
  BY <1>3, <1>4, <1>5, <1>8

LEMMA AssignedSafe ==
  ASSUME NEW tr, NEW bx, NEW bx0, Safe(tr, bx0), NEW p \in PlacesOf(tr), NEW q \in PlacesOf(tr),
         ~(Above(p, q) /\ p # q), bx \in BoxTypes,
         \A b \in Boxes : Live(bx, b) => Held(tr, b) /\ b \notin BoxesOf(SubAt(tr, p))
  PROVE  Safe(Assigned(tr, p, q), bx)
<1> DEFINE em == Put(tr, p, Leaf(Empty))
<1>1. Forest(tr) /\ p \in Spots /\ (p[2] # <<>> => Kind(tr[p[1]], p[2])) /\ Tree(Leaf(Empty))
  BY PlaceFacts, LeafTree, Contents DEF Safe
<1>2. Safe(em, bx)
  BY <1>1, PutSafe
<1>3. /\ Forest(em) /\ p \in PlacesOf(em) /\ q \in PlacesOf(em) /\ BoxesOf(SubAt(em, p)) = {}
  BY <1>1, EmptiedFacts
<1> HIDE DEF em
<1>4. Tree(SubAt(em, q)) /\ (p[2] # <<>> => Kind(em[p[1]], p[2]))
  BY <1>3, PlaceFacts
<1>5. \A b \in Boxes : Live(bx, b) => Held(em, b) /\ b \notin BoxesOf(SubAt(em, p))
  BY <1>2, <1>3 DEF Safe
<1>6. Safe(Put(em, p, SubAt(em, q)), bx)
  BY <1>1, <1>3, <1>4, <1>5, PutSafe
<1> QED
  BY <1>6 DEF Assigned, em

(* A val that was not there has nothing below it.                          *)
LEMMA AbsentBelow ==
  ASSUME NEW tr, Forest(tr), NEW c \in Spots, At(tr, c) = Absent
  PROVE  BoxesOf(SubAt(tr, c)) = {}
<1> DEFINE u == tr[c[1]]
           q == c[2]
<1>1. Rooted(u) /\ q \in Paths /\ u[q] = Absent
  BY SpotFacts DEF Forest, Tree, At
<1> HIDE DEF u, q
<1>2. \A x \in Paths : IsPrefix(q, x) /\ x # q => u[x] = Absent
  BY <1>1, Childless, Contents
<1>3. \A x \in Paths : IsPrefix(q, x) => u[x] = Absent
  BY <1>1, <1>2
<1>4. /\ Sub(u, q) \in Trees
      /\ \A x \in Paths : Len(q) + Len(x) <= Depth => Sub(u, q)[x] = u[q \o x]
      /\ \A x \in Paths : ~(Len(q) + Len(x) <= Depth) => Sub(u, q)[x] = Absent
  BY <1>1, SubTree
<1>5. \A x \in Paths : Sub(u, q)[x] = Absent
  BY <1>1, <1>3, <1>4, Join
<1>6. \A b \in Boxes : ~\E x \in Paths : Sub(u, q)[x] = Ref(b)
  BY <1>5, Contents
<1>7. BoxesOf(Sub(u, q)) = {}
  BY <1>4, <1>6, BoxesIff
<1> QED
  BY <1>7 DEF SubAt, u, q

(* An EMPTY val that became a container is changed at its place only.      *)
LEMMA MadeFacts ==
  ASSUME Safe(tree, box), NEW p \in Places, NEW c \in {Map, Array}, ~Misused(p, c)
  PROVE  /\ Safe(Made(p, c), box)
         /\ \A v \in Holders, x \in Paths :
              Made(p, c)[v][x] = IF v = p[1] /\ x = p[2] THEN c ELSE tree[v][x]
<1>1. /\ Forest(tree) /\ p \in Spots /\ p[1] \in Holders /\ p[2] \in Paths /\ Rooted(tree[p[1]])
      /\ (p[2] # <<>> => Kind(tree[p[1]], p[2])) /\ tree \in [Holders -> Trees] /\ box \in BoxTypes
      /\ \A b \in Boxes : Live(box, b) => Held(tree, b)
  BY PlaceFacts DEF Safe, Forest, Places
<1>2. CASE At(tree, p) = Empty
  <2> DEFINE m == Put(tree, p, Leaf(c))
  <2>1. Made(p, c) = m
    BY <1>2 DEF Made
  <2>2. c \in Content /\ c # Absent /\ tree[p[1]][p[2]] = Empty
    BY <1>2, Contents DEF At
  <2>3. /\ Leaf(c) \in Trees /\ Tree(Leaf(c)) /\ Leaf(c)[<<>>] = c
        /\ \A x \in Paths : x # <<>> => Leaf(c)[x] = Absent
    BY <2>2, LeafTree
  <2>4. \A x \in Paths : IsPrefix(p[2], x) /\ x # p[2] => tree[p[1]][x] = Absent
    BY <1>1, <2>2, Childless, Contents
  <2>5. BoxesOf(SubAt(tree, p)) = {}
    <3>1. /\ SubAt(tree, p) \in Trees /\ SubAt(tree, p)[<<>>] = Empty
          /\ Rooted(SubAt(tree, p))
      BY <1>2, PlaceFacts, <1>1 DEF Places, Tree
    <3>2. \A x \in Paths : x # <<>> => SubAt(tree, p)[x] = Absent
      BY <3>1, Childless, Contents, PathFacts, PrefixOrder
    <3>3. \A b \in Boxes : ~\E x \in Paths : SubAt(tree, p)[x] = Ref(b)
      BY <3>1, <3>2, Contents
    <3> QED
      BY <3>1, <3>3, BoxesIff
  <2>6. Safe(m, box)
    BY <1>1, <2>3, <2>5, PutSafe
  <2>7. ASSUME NEW v \in Holders, NEW x \in Paths
        PROVE  m[v][x] = IF v = p[1] /\ x = p[2] THEN c ELSE tree[v][x]
    <3>1. CASE v = p[1] => ~IsPrefix(p[2], x)
      <4>1. ~(v = p[1] /\ x = p[2])
        BY <1>1, <3>1, PrefixOrder
      <4> QED
        BY <1>1, <2>3, <3>1, <4>1, PutBeside
    <3>2. CASE v = p[1] /\ IsPrefix(p[2], x)
      <4> DEFINE u == tree[p[1]]
                 q == p[2]
                 s == Leaf(c)
      <4>1. u \in Trees /\ q \in Paths /\ s \in Trees /\ m[v] = Graft(u, q, s)
        BY <1>1, <2>3, <3>2, PutAt
      <4>2. s[<<>>] = c /\ \A y \in Paths : y # <<>> => s[y] = Absent
        BY <2>3
      <4>3. IsPrefix(q, x) /\ (x # q => u[x] = Absent)
        BY <2>4, <3>2
      <4> HIDE DEF u, q, s
      <4>4. Graft(u, q, s)[q] = s[<<>>] /\ Graft(u, q, s)[x] = s[Rest(q, x)]
        BY <4>1, <4>3, GraftAt
      <4>5. Rest(q, x) \in Paths /\ (Rest(q, x) = <<>> <=> x = q)
        BY <4>1, <4>3, Split
      <4>6. m[v][x] = IF x = q THEN c ELSE u[x]
        BY <4>1, <4>2, <4>3, <4>4, <4>5
      <4> QED
        BY <3>2, <4>6 DEF u, q
    <3> QED
      BY <3>1, <3>2
  <2> HIDE DEF m
  <2> QED
    BY <2>1, <2>6, <2>7
<1>3. CASE At(tree, p) # Empty
  <2>1. Made(p, c) = tree /\ tree[p[1]][p[2]] = c
    BY <1>3 DEF Made, Misused, At
  <2> QED
    BY <2>1
<1> QED
  BY <1>2, <1>3

LEMMA ChildSpot ==
  ASSUME NEW p \in Spots, NEW n \in Names, Len(p[2]) < Depth
  PROVE  /\ Child(p, n) \in Spots /\ Child(p, n)[1] = p[1] /\ Child(p, n)[2] = Append(p[2], n)
         /\ Child(p, n)[2] # <<>> /\ Child(p, n)[2] # p[2] /\ Child(p, n)[2] \in Paths
         /\ Front(Child(p, n)[2]) = p[2] /\ Step(Child(p, n)[2]) = n
         /\ ~IsPrefix(Child(p, n)[2], p[2])
<1> DEFINE q == p[2]
           c == Append(q, n)
<1>1. p[1] \in Holders /\ q \in Paths /\ Len(q) \in Nat
  BY SpotFacts, PathFacts
<1>2. Child(p, n) = <<p[1], c>>
  BY DEF Child
<1> HIDE DEF q
<1>3. c \in Paths /\ c # <<>> /\ Len(c) = Len(q) + 1 /\ Front(c) = q /\ Step(c) = n
  BY <1>1, ChildFacts DEF q
<1> HIDE DEF c
<1>4. ~IsPrefix(c, q) /\ c # q
  BY <1>1, <1>3, PrefixOrder
<1>5. <<p[1], c>> \in Spots
  BY <1>1, <1>3 DEF Spots
<1> QED
  BY <1>2, <1>3, <1>4, <1>5 DEF q, c

(* A new element, where the container is of its kind.                      *)
LEMMA Added ==
  ASSUME Safe(tree, box), NEW p \in Places, NEW c \in {Map, Array}, ~Misused(p, c),
         NEW n \in Names, Len(p[2]) < Depth, ~HasChild(p, n),
         IF n \in Keys THEN c = Map
         ELSE c = Array /\ (n > 1 => HasChild(p, n - 1)),
         NEW s, Tree(s)
  PROVE  /\ Safe(Put(Made(p, c), Child(p, n), s), box)
         /\ At(Made(p, c), Child(p, n)) = Absent
<1> DEFINE m == Made(p, c)
           d == Child(p, n)
<1>1. p \in Spots /\ p[1] \in Holders /\ p[2] \in Paths
  BY PlaceFacts DEF Safe, Places
<1>2. /\ d \in Spots /\ d[1] = p[1] /\ d[2] = Append(p[2], n) /\ d[2] # <<>> /\ d[2] # p[2]
      /\ d[2] \in Paths /\ Front(d[2]) = p[2] /\ Step(d[2]) = n
  BY <1>1, ChildSpot
<1>3. /\ Safe(m, box)
      /\ \A v \in Holders, x \in Paths : m[v][x] = IF v = p[1] /\ x = p[2] THEN c ELSE tree[v][x]
  BY MadeFacts
<1>4. At(tree, d) = Absent
  BY DEF HasChild
<1> HIDE DEF m, d
<1>5. At(m, d) = Absent
  BY <1>1, <1>2, <1>3, <1>4 DEF At
<1>6. BoxesOf(SubAt(m, d)) = {}
  BY <1>2, <1>3, <1>5, AbsentBelow DEF Safe
<1>7. Kind(m[d[1]], d[2])
  <2>1. m[d[1]][Front(d[2])] = c
    BY <1>1, <1>2, <1>3
  <2>2. ASSUME n \notin Keys, n > 1
        PROVE  m[d[1]][Pred(d[2])] # Absent
    <3> DEFINE e == Child(p, n - 1)
    <3>1. At(tree, e) # Absent
      BY <2>2 DEF HasChild
    <3>2. n - 1 \in Names
      BY <1>2, <2>2, PredFacts
    <3>3. e \in Spots /\ e[1] = p[1] /\ e[2] = Append(p[2], n - 1) /\ e[2] # p[2] /\ e[2] \in Paths
      BY <1>1, <3>2, ChildSpot
    <3>4. Pred(d[2]) = e[2]
      BY <1>2, <3>3 DEF Pred
    <3> HIDE DEF e
    <3>5. m[p[1]][e[2]] = tree[p[1]][e[2]]
      BY <1>1, <1>3, <3>3
    <3> QED
      BY <1>2, <3>1, <3>3, <3>4, <3>5 DEF At
  <2> QED
    BY <1>2, <2>1, <2>2 DEF Kind
<1>8. Safe(Put(m, d, s), box)
  BY <1>2, <1>3, <1>6, <1>7, PutSafe DEF Safe
<1> QED
  BY <1>5, <1>8 DEF m, d

(* The elements of an array are the first ones.                            *)
LEMMA InitialSegment ==
  ASSUME NEW N \in Nat, NEW I \in SUBSET (1..N), \A i \in I : i > 1 => i - 1 \in I
  PROVE  Cardinality(I) \in Nat /\ I = 1..Cardinality(I)
<1> DEFINE J == {j \in Nat : j >= 1 /\ j \notin I}
<1>1. N + 1 \in J
  OBVIOUS
<1>2. PICK m \in J : \A j \in J : m <= j
  BY <1>1, LeastNat
<1>3. m \in Nat /\ m >= 1 /\ m \notin I
  BY <1>2
<1>4. \A i \in 1..m - 1 : i \in I
  BY <1>2, <1>3
<1>5. \A i \in I : i <= m - 1
  <2> DEFINE K == {k \in Nat : k \in I /\ k >= m}
  <2>1. ASSUME K # {} PROVE FALSE
    <3>1. PICK k \in K : \A j \in K : k <= j
      BY <2>1, LeastNat
    <3>2. k \in I /\ k >= m /\ k # m /\ k \in Nat /\ k > 1
      BY <1>3, <3>1
    <3>3. k - 1 \in K
      BY <1>3, <3>2
    <3> QED
      BY <3>1, <3>2, <3>3
  <2> QED
    BY <1>3, <2>1
<1>6. I = 1..m - 1
  <2>1. \A i \in I : i \in 1..m - 1
    BY <1>3, <1>5
  <2> HIDE DEF J
  <2> QED
    BY <1>4, <2>1
<1>7. Cardinality(1..m - 1) = m - 1
  <2>1. 1 \in Int /\ m - 1 \in Int
    BY <1>3
  <2>2. Cardinality(1..m - 1) = IF 1 > m - 1 THEN 0 ELSE (m - 1) - 1 + 1
    BY <2>1, FS_Interval
  <2> QED
    BY <1>3, <2>2
<1> QED
  BY <1>3, <1>6, <1>7

LEMMA NextSlotFacts ==
  ASSUME Safe(tree, box), NEW p \in Places, ~Misused(p, Array), NextSlot(p) <= MaxArray,
         Len(p[2]) < Depth
  PROVE  /\ NextSlot(p) \in Names /\ NextSlot(p) \notin Keys /\ ~HasChild(p, NextSlot(p))
         /\ NextSlot(p) > 1 => HasChild(p, NextSlot(p) - 1)
<1> DEFINE I == {i \in 1..MaxArray : HasChild(p, i)}
           k == Cardinality(I)
<1>1. /\ Forest(tree) /\ p \in Spots /\ p[1] \in Holders /\ p[2] \in Paths /\ MaxArray \in Nat
      /\ Rooted(tree[p[1]])
  BY PlaceFacts, BoundsAssumption DEF Safe, Places
<1>2. ASSUME NEW i \in I, i > 1
      PROVE  i - 1 \in I
  <2> DEFINE d == Child(p, i)
             e == Child(p, i - 1)
  <2>1. i \in Names /\ i - 1 \in Names /\ i \notin Keys /\ i - 1 \in 1..MaxArray
    BY <1>1, <1>2, ValuesAssumption DEF Names
  <2>2. /\ d[1] = p[1] /\ d[2] # <<>> /\ d[2] \in Paths /\ Front(d[2]) = p[2] /\ Step(d[2]) = i
    BY <1>1, <2>1, ChildSpot
  <2>3. e[1] = p[1] /\ e[2] = Append(p[2], i - 1)
    BY <1>1, <2>1, ChildSpot
  <2>4. tree[p[1]][d[2]] # Absent
    BY <1>2, <2>2 DEF HasChild, At
  <2> HIDE DEF d, e
  <2>5. Kind(tree[p[1]], d[2])
    BY <1>1, <2>2, <2>4 DEF Rooted
  <2>6. tree[p[1]][Pred(d[2])] # Absent
    BY <1>2, <2>1, <2>2, <2>5 DEF Kind
  <2>7. At(tree, e) # Absent
    BY <2>2, <2>3, <2>6 DEF At, Pred
  <2>8. HasChild(p, i - 1)
    BY <2>7 DEF HasChild, e
  <2> QED
    BY <2>1, <2>8
<1>3. k \in Nat /\ I = 1..k
  <2>1. I \in SUBSET (1..MaxArray)
    OBVIOUS
  <2> HIDE DEF I
  <2> QED
    BY <1>1, <1>2, <2>1, InitialSegment
<1>4. NextSlot(p) = k + 1
  BY DEF NextSlot
<1>5. k + 1 \in 1..MaxArray /\ k + 1 \notin I /\ (k + 1 > 1 => k \in I)
  <2> HIDE DEF I, k
  <2> QED
    BY <1>1, <1>3, <1>4
<1>6. k + 1 \in Names /\ k + 1 \notin Keys /\ (k + 1) - 1 = k
  <2> HIDE DEF k
  <2> QED
    BY <1>3, <1>5, ValuesAssumption DEF Names
<1>7. ~HasChild(p, k + 1) /\ (k + 1 > 1 => HasChild(p, k))
  <2> HIDE DEF k
  <2> QED
    BY <1>5
<1> QED
  BY <1>4, <1>6, <1>7

-----------------------------------------------------------------------------
(* Every call keeps the invariant, whatever the callers do.                *)

LEMMA PlaceIn ==
  ASSUME Inv
  PROVE  /\ Safe(tree, box) /\ Forest(tree) /\ tree \in [Holders -> Trees] /\ box \in BoxTypes
         /\ Places = PlacesOf(tree) /\ \A v \in Vars : v \in Holders
         /\ \A c \in Content : c # Absent => Tree(Leaf(c)) /\ Leaf(c) \in Trees
  BY InvIff, LeafTree DEF Safe, Forest, Places, Holders

LEMMA DestroyKeeps ==
  ASSUME Inv, NEW v \in Vars, Destroy(v)
  PROVE  Inv'
<1>1. CASE Crash("use_after_free")
  BY <1>1, CrashEnds
<1>2. CASE Done([tree EXCEPT ![v] = Leaf(Empty)], Reset(box, tree[v]))
  <2>1. /\ v \in Holders /\ Root(v) \in PlacesOf(tree) /\ SubAt(tree, Root(v)) = tree[v]
        /\ Put(tree, Root(v), Leaf(Empty)) = [tree EXCEPT ![v] = Leaf(Empty)]
    BY PlaceIn, RootPlace, Contents
  <2>2. Safe(Put(tree, Root(v), Leaf(Empty)), Reset(box, tree[v]))
    BY <2>1, PlaceIn, Overwritten, Contents
  <2> QED
    BY <1>2, <2>1, <2>2, DoneEnds
<1> QED
  BY <1>1, <1>2 DEF Destroy

LEMMA ClearKeeps ==
  ASSUME Inv, NEW p \in Places, Clear(p)
  PROVE  Inv'
<1>1. CASE Crash("use_after_free")
  BY <1>1, CrashEnds
<1>2. CASE Done(Put(tree, p, Leaf(Empty)), Release(box, SubAt(tree, p)))
  BY <1>2, PlaceIn, Overwritten, Contents, DoneEnds
<1> QED
  BY <1>1, <1>2 DEF Clear

LEMMA AssignPlainKeeps ==
  ASSUME Inv, NEW p \in Places, NEW x \in Plain, AssignPlain(p, x)
  PROVE  Inv'
<1>1. CASE Crash("use_after_free")
  BY <1>1, CrashEnds
<1>2. CASE Done(Put(tree, p, Leaf(Datum(x))), Release(box, SubAt(tree, p)))
  <2>1. Tree(Leaf(Datum(x)))
    BY PlaceIn, Contents
  <2> QED
    BY <1>2, <2>1, PlaceIn, Overwritten, DoneEnds
<1> QED
  BY <1>1, <1>2 DEF AssignPlain

(* A box that takes an object is referred to.                              *)
LEMMA RefHeld ==
  ASSUME Forest(tree), NEW p \in Places, NEW b \in Boxes
  PROVE  Held(Put(tree, p, Leaf(Ref(b))), b)
<1> DEFINE u == tree[p[1]]
           q == p[2]
           s == Leaf(Ref(b))
<1>1. /\ p \in Spots /\ p[1] \in Holders /\ u \in Trees /\ q \in Paths /\ s \in Trees
      /\ s[<<>>] = Ref(b) /\ tree \in [Holders -> Trees]
  BY PlaceFacts, LeafTree, Contents DEF Places, Forest
<1>2. Put(tree, p, s)[p[1]] = Graft(u, q, s)
  BY <1>1, PutAt
<1> HIDE DEF u, q, s
<1>3. Graft(u, q, s)[q] = Ref(b)
  BY <1>1, GraftAt
<1>4. Put(tree, p, s)[p[1]][q] = Ref(b)
  BY <1>2, <1>3
<1> QED
  BY <1>1, <1>4 DEF Held, s

LEMMA ConstructObjectKeeps ==
  ASSUME Inv, NEW v \in Vars, NEW o \in Objects, ConstructObject(v, o)
  PROVE  Inv'
<1>1. PICK b \in FreshBoxes :
        Stored([tree EXCEPT ![v] = Leaf(Ref(b))], [box EXCEPT ![b] = o],
               Root(v), ValueIn(Leaf(Ref(b)), [box EXCEPT ![b] = o]))
  BY DEF ConstructObject
<1>2. b \in Boxes /\ tree[v] = Leaf(Empty)
  BY DEF FreshBoxes, ConstructObject
<1> DEFINE s  == Leaf(Ref(b))
           tr == [tree EXCEPT ![v] = s]
           bx == [box EXCEPT ![b] = o]
<1>3. s \in Trees /\ Tree(s)
  BY <1>2, PlaceIn, Contents
<1>4. /\ Root(v) \in Places /\ SubAt(tree, Root(v)) = Leaf(Empty) /\ Put(tree, Root(v), s) = tr
  BY <1>2, <1>3, PlaceIn, RootPlace
<1>5. bx \in BoxTypes /\ \A c \in Boxes : c # b => bx[c] = box[c]
  BY <1>2, PlaceIn DEF BoxTypes
<1>6. BoxesOf(Leaf(Empty)) = {}
  BY NoBoxes, Contents
<1>7. Held(tr, b)
  BY <1>2, <1>4, PlaceIn, RefHeld
<1>11. Root(v) \in Spots /\ Root(v)[2] = <<>> /\ Forest(tree)
  BY PlaceIn, SpotFacts DEF Root
<1>8. Forest(tr)
  <2>1. Forest(Put(tree, Root(v), s))
    BY <1>3, <1>11, PutForest
  <2> QED
    BY <1>4, <2>1
<1>9. ASSUME NEW c \in Boxes, Live(bx, c)
      PROVE  Held(tr, c)
  <2>1. CASE c = b
    BY <1>7, <2>1
  <2>2. CASE c # b
    <3>1. Held(tree, c)
      BY <1>5, <1>9, <2>2, PlaceIn DEF Live, Safe
    <3>2. Held(Put(tree, Root(v), s), c)
      BY <1>3, <1>4, <1>6, <1>11, <3>1, HeldPut
    <3> QED
      BY <1>4, <3>2
  <2> QED
    BY <2>1, <2>2
<1>10. Safe(tr, bx)
  BY <1>5, <1>8, <1>9 DEF Safe
<1> HIDE DEF tr, bx, s
<1> QED
  BY <1>1, <1>10, StoredEnds DEF tr, bx, s

LEMMA AssignObjectKeeps ==
  ASSUME Inv, NEW p \in Places, NEW o \in Objects, AssignObject(p, o)
  PROVE  Inv'
<1>1. CASE Crash("use_after_free")
  BY <1>1, CrashEnds
<1>2. ASSUME NEW b \in FreshBoxes,
             Stored(Put(tree, p, Leaf(Ref(b))), [Release(box, SubAt(tree, p)) EXCEPT ![b] = Null],
                    p, ValueIn(Leaf(Ref(b)), [box EXCEPT ![b] = o]))
      PROVE  Inv'
  <2> DEFINE bx == Release(box, SubAt(tree, p))
             bn == [bx EXCEPT ![b] = Null]
             tr == Put(tree, p, Leaf(Ref(b)))
  <2>1. b \in Boxes
    BY DEF FreshBoxes
  <2>2. Tree(Leaf(Ref(b)))
    BY <2>1, PlaceIn, Contents
  <2>3. Safe(tr, bx)
    BY <2>2, PlaceIn, Overwritten
  <2> HIDE DEF bx, tr
  <2>4. Safe(tr, bn)
    BY <2>1, <2>3, ValuesAssumption DEF Safe, BoxTypes, Live
  <2> QED
    BY <1>2, <2>4, StoredEnds DEF bx, bn, tr
<1> QED
  BY <1>1, <1>2 DEF AssignObject

LEMMA MoveConstructKeeps ==
  ASSUME Inv, NEW v \in Vars, NEW w \in Vars, MoveConstruct(v, w)
  PROVE  Inv'
<1> DEFINE tr == [tree EXCEPT ![v] = tree[w], ![w] = Leaf(Empty)]
<1>1. /\ v # w /\ tree[v] = Leaf(Empty) /\ Done(tr, box)
  BY DEF MoveConstruct
<1>2. /\ v \in Holders /\ w \in Holders /\ tree[w] \in Trees /\ Tree(tree[w])
      /\ Leaf(Empty) \in Trees /\ Tree(Leaf(Empty)) /\ \A u \in Holders : Tree(tree[u])
      /\ tree \in [Holders -> Trees]
  BY PlaceIn, Contents DEF Forest
<1>3. /\ tr \in [Holders -> Trees] /\ tr[v] = tree[w] /\ tr[w] = Leaf(Empty)
      /\ \A u \in Holders : u # v /\ u # w => tr[u] = tree[u]
  BY <1>1, <1>2
<1> HIDE DEF tr
<1>4. Forest(tr)
  BY <1>2, <1>3 DEF Forest
<1>5. ASSUME NEW b \in Boxes, Held(tree, b)
      PROVE  Held(tr, b)
  <2>1. PICK u \in Holders, x \in Paths : tree[u][x] = Ref(b)
    BY <1>5 DEF Held
  <2>2. u # v
    <3>1. Leaf(Empty)[x] # Ref(b)
      <4>1. Leaf(Empty)[<<>>] = Empty /\ (x # <<>> => Leaf(Empty)[x] = Absent)
        BY LeafTree, Contents
      <4> QED
        BY <4>1, Contents
    <3> QED
      BY <1>1, <2>1, <3>1
  <2>3. CASE u = w
    BY <1>2, <1>3, <2>1, <2>3 DEF Held
  <2>4. CASE u # w
    BY <1>3, <2>1, <2>2, <2>4 DEF Held
  <2> QED
    BY <2>3, <2>4
<1>6. Safe(tr, box)
  BY <1>4, <1>5, PlaceIn DEF Safe
<1> QED
  BY <1>1, <1>6, DoneEnds

LEMMA AssignKeeps ==
  ASSUME Inv, NEW p \in Places, NEW q \in Places, Assign(p, q)
  PROVE  Inv'
<1>1. CASE Crash("use_after_free")
  BY <1>1, CrashEnds
<1>2. CASE /\ ~AssignFaults(box, p, q)
           /\ Stored(Assigned(tree, p, q), Release(box, SubAt(tree, p)), p, Value(q))
  <2> DEFINE bx == Release(box, SubAt(tree, p))
  <2>1. ~(Above(p, q) /\ p # q)
    BY <1>2 DEF AssignFaults
  <2>2. /\ bx \in BoxTypes
        /\ \A b \in Boxes : Live(bx, b) => Held(tree, b) /\ b \notin BoxesOf(SubAt(tree, p))
    BY PlaceIn, Dropped
  <2> HIDE DEF bx
  <2>3. Safe(Assigned(tree, p, q), bx)
    BY <2>1, <2>2, PlaceIn, AssignedSafe
  <2> QED
    BY <1>2, <2>3, StoredEnds DEF bx
<1> QED
  BY <1>1, <1>2 DEF Assign

LEMMA KeyNames == \A k \in Keys : k \in Names
  BY DEF Names

(* A child that is there is a place.                                       *)
LEMMA ChildPlace ==
  ASSUME Inv, NEW p \in Places, NEW n \in Names, HasChild(p, n)
  PROVE  Child(p, n) \in PlacesOf(tree)
<1>1. p \in Spots /\ Len(p[2]) < Depth /\ At(tree, Child(p, n)) # Absent
  BY SpotFacts DEF Places, HasChild
<1>2. Child(p, n) \in Spots
  BY <1>1, ChildSpot
<1> QED
  BY <1>1, <1>2 DEF PlacesOf, Spots

LEMMA IndexKeeps ==
  ASSUME Inv, NEW p \in Places, NEW k \in Keys, Index(p, k)
  PROVE  Inv'
<1>1. CASE Crash("assert")
  BY <1>1, CrashEnds
<1>2. CASE HasChild(p, k) /\ Done(tree, box)
  BY <1>2, PlaceIn, DoneEnds
<1>3. CASE /\ ~Misused(p, Map) /\ ~HasChild(p, k) /\ Len(p[2]) < Depth
           /\ Done(Put(Made(p, Map), Child(p, k), Leaf(Empty)), box)
  <2>1. Safe(Put(Made(p, Map), Child(p, k), Leaf(Empty)), box)
    BY <1>3, PlaceIn, KeyNames, Added, Contents
  <2> QED
    BY <1>3, <2>1, DoneEnds
<1> QED
  BY <1>1, <1>2, <1>3 DEF Index

(* The source of a copy is still there when the container has been made.   *)
LEMMA SourceInMade ==
  ASSUME Safe(tree, box), NEW p \in Places, NEW q \in Places, NEW c \in {Map, Array}, ~Misused(p, c)
  PROVE  q \in PlacesOf(Made(p, c)) /\ Tree(SubAt(Made(p, c), q))
<1> DEFINE m == Made(p, c)
<1>1. /\ Forest(m)
      /\ \A v \in Holders, x \in Paths : m[v][x] = IF v = p[1] /\ x = p[2] THEN c ELSE tree[v][x]
  BY MadeFacts DEF Safe
<1>2. q \in Spots /\ q[1] \in Holders /\ q[2] \in Paths /\ At(tree, q) # Absent
  BY PlaceFacts DEF Safe, Places
<1> HIDE DEF m
<1>3. At(m, q) # Absent
  BY <1>1, <1>2, Contents DEF At
<1>4. q \in PlacesOf(m)
  BY <1>2, <1>3 DEF PlacesOf, Spots
<1>5. Tree(SubAt(m, q))
  BY <1>1, <1>4, PlaceFacts
<1> QED
  BY <1>4, <1>5 DEF m

LEMMA SetKeeps ==
  ASSUME Inv, NEW p \in Places, NEW k \in Keys, NEW q \in Places, Set(p, k, q)
  PROVE  Inv'
<1> DEFINE c == Child(p, k)
           m == Made(p, Map)
<1>1. CASE Crash("assert") \/ Crash("use_after_free")
  BY <1>1, CrashEnds
<1>2. CASE /\ ~Misused(p, Map) /\ ~HasChild(p, k) /\ Len(p[2]) < Depth
           /\ Stored(Put(m, c, SubAt(m, q)), box, c, Value(q))
  <2>1. Tree(SubAt(m, q))
    BY <1>2, PlaceIn, SourceInMade
  <2>2. Safe(Put(m, c, SubAt(m, q)), box)
    BY <1>2, <2>1, PlaceIn, KeyNames, Added
  <2> QED
    BY <1>2, <2>2, StoredEnds
<1>3. ASSUME HasChild(p, k), NEW node \in {Leaf(Empty), SubAt(tree, q)},
             ~AssignFaults(Reset(box, node), c, q),
             Stored(Assigned(tree, c, q), Release(Reset(box, node), SubAt(tree, c)), c, Value(q))
      PROVE  Inv'
  <2> DEFINE b1 == Reset(box, node)
             b2 == Release(b1, SubAt(tree, c))
  <2>1. c \in PlacesOf(tree)
    BY <1>3, KeyNames, ChildPlace
  <2>2. Rooted(node)
    <3>1. Rooted(Leaf(Empty))
      BY LeafTree, Contents
    <3>2. Rooted(SubAt(tree, q))
      BY PlaceIn, PlaceFacts DEF Tree
    <3> QED
      BY <3>1, <3>2
  <2>3. Safe(tree, b1)
    <3>1. /\ b1 \in BoxTypes
          /\ \A b \in Boxes : b \notin BoxesOf(node) => b1[b] = box[b]
          /\ \A b \in BoxesOf(node) : b1[b] \notin Objects
      BY <2>2, PlaceIn, ReleaseFacts
    <3>2. \A b \in Boxes : Live(b1, b) => Live(box, b)
      BY <3>1 DEF Live
    <3> HIDE DEF b1
    <3> QED
      BY <3>1, <3>2, PlaceIn DEF Safe
  <2> HIDE DEF b1
  <2>4. /\ b2 \in BoxTypes
        /\ \A b \in Boxes : Live(b2, b) => Held(tree, b) /\ b \notin BoxesOf(SubAt(tree, c))
    BY <2>1, <2>3, Dropped
  <2>5. ~(Above(c, q) /\ c # q)
    BY <1>3 DEF AssignFaults
  <2> HIDE DEF b2, c
  <2>6. q \in PlacesOf(tree)
    BY DEF Places
  <2>7. Safe(Assigned(tree, c, q), b2)
    BY <2>1, <2>3, <2>4, <2>5, <2>6, AssignedSafe
  <2> QED
    BY <1>3, <2>7, StoredEnds DEF b1, b2, c
<1> QED
  BY <1>1, <1>2, <1>3 DEF Set

LEMMA SetSerializedKeeps ==
  ASSUME Inv, NEW p \in Places, NEW k \in Keys, NEW x \in Plain \cup {Null}, SetSerialized(p, k, x)
  PROVE  Inv'
<1> DEFINE c == Child(p, k)
<1>1. CASE Crash("assert") \/ Crash("use_after_free")
  BY <1>1, CrashEnds
<1>2. CASE ~Misused(p, Map) /\ Done(Made(p, Map), box)
  <2>1. Safe(Made(p, Map), box)
    BY <1>2, PlaceIn, MadeFacts
  <2> QED
    BY <1>2, <2>1, DoneEnds
<1>3. CASE /\ x # Null /\ HasChild(p, k)
           /\ Done(Put(tree, c, Leaf(Datum(x))), Release(box, SubAt(tree, c)))
  <2>1. c \in PlacesOf(tree) /\ Tree(Leaf(Datum(x)))
    BY <1>3, KeyNames, ChildPlace, PlaceIn, Contents
  <2> HIDE DEF c
  <2>2. Safe(Put(tree, c, Leaf(Datum(x))), Release(box, SubAt(tree, c)))
    BY <2>1, PlaceIn, Overwritten
  <2> QED
    BY <1>3, <2>2, DoneEnds
<1>4. CASE /\ ~Misused(p, Map) /\ x # Null /\ ~HasChild(p, k) /\ Len(p[2]) < Depth
           /\ Done(Put(Made(p, Map), c, Leaf(Datum(x))), box)
  <2>1. Tree(Leaf(Datum(x)))
    BY <1>4, PlaceIn, Contents
  <2>2. Safe(Put(Made(p, Map), c, Leaf(Datum(x))), box)
    BY <1>4, <2>1, PlaceIn, KeyNames, Added
  <2> QED
    BY <1>4, <2>2, DoneEnds
<1> QED
  BY <1>1, <1>2, <1>3, <1>4 DEF SetSerialized

(* unset(): an element of a map goes, with all that is below it.           *)
LEMMA UnsetSafe ==
  ASSUME Inv, NEW p \in Places, NEW k \in Keys, HasChild(p, k)
  PROVE  Safe(Put(tree, Child(p, k), Leaf(Absent)), Reset(box, SubAt(tree, Child(p, k))))
<1> DEFINE c  == Child(p, k)
           u  == tree[c[1]]
           q  == c[2]
           s  == Leaf(Absent)
           bx == Reset(box, SubAt(tree, c))
           tr == Put(tree, c, s)
<1>1. p \in Spots /\ Len(p[2]) < Depth /\ k \in Names /\ p[1] \in Holders
  BY SpotFacts, KeyNames DEF Places, HasChild
<1>2. c \in Spots /\ c[1] \in Holders /\ q \in Paths /\ q # <<>> /\ Step(q) = k
  BY <1>1, ChildSpot
<1>3. c \in PlacesOf(tree)
  BY <1>1, ChildPlace
<1>4. /\ s \in Trees /\ Rooted(s) /\ s[<<>>] = Absent /\ Rooted(u) /\ u \in Trees
      /\ u[<<>>] # Absent /\ tree \in [Holders -> Trees]
  BY <1>2, LeafTree, Contents, PlaceIn DEF Forest, Tree
<1> HIDE DEF c, u, q, s
<1>5. Rooted(Graft(u, q, s))
  BY <1>2, <1>4, GraftRooted
<1>6. Graft(u, q, s)[<<>>] = u[<<>>]
  BY <1>2, <1>4, GraftAt, PathFacts, PrefixOrder
<1>7. /\ tr \in [Holders -> Trees] /\ tr[c[1]] = Graft(u, q, s)
      /\ \A v \in Holders : v # c[1] => tr[v] = tree[v]
  BY <1>2, <1>4, PutAt DEF u, q
<1>8. Forest(tr)
  BY <1>4, <1>5, <1>6, <1>7, PlaceIn DEF Forest, Tree
<1>9. /\ bx \in BoxTypes
      /\ \A b \in Boxes : Live(bx, b) => Held(tree, b) /\ b \notin BoxesOf(SubAt(tree, c))
  BY <1>3, PlaceIn, Dropped
<1>10. \A b \in Boxes : Live(bx, b) => Held(tr, b)
  BY <1>2, <1>4, <1>9, PlaceIn, HeldPut
<1> HIDE DEF tr, bx
<1>11. Safe(tr, bx)
  BY <1>8, <1>9, <1>10 DEF Safe
<1> QED
  BY <1>11 DEF tr, bx, c, s

LEMMA UnsetKeeps ==
  ASSUME Inv, NEW p \in Places, NEW k \in Keys, Unset(p, k)
  PROVE  Inv'
<1>1. CASE Crash("assert") \/ Crash("use_after_free")
  BY <1>1, CrashEnds
<1>2. CASE Done(tree, box)
  BY <1>2, PlaceIn, DoneEnds
<1>3. CASE /\ HasChild(p, k)
           /\ Done(Put(tree, Child(p, k), Leaf(Absent)), Reset(box, SubAt(tree, Child(p, k))))
  BY <1>3, UnsetSafe, DoneEnds
<1> QED
  BY <1>1, <1>2, <1>3 DEF Unset

(* appendVal() has room for the element below the array.                   *)
LEMMA AppendRoom ==
  ASSUME Inv, NEW p \in Places, NEW q \in Places, ~Misused(p, Array), NextSlot(p) <= MaxArray,
         Fits(SubAt(Made(p, Array), q), Child(p, NextSlot(p))[2])
  PROVE  Len(p[2]) < Depth
<1> DEFINE I == {i \in 1..MaxArray : HasChild(p, i)}
           s == SubAt(Made(p, Array), q)
           n == NextSlot(p)
<1>1. n \in Nat
  <2>1. IsFiniteSet(1..MaxArray)
    BY FS_Interval, BoundsAssumption
  <2>2. IsFiniteSet(I)
    BY <2>1, FS_Subset
  <2>3. Cardinality(I) \in Nat
    BY <2>2, FS_CardinalityType
  <2> QED
    BY <2>3 DEF NextSlot
<1>2. s[<<>>] # Absent /\ <<>> \in Paths /\ Len(<<>>) = 0
  BY PlaceIn, SourceInMade, PathFacts DEF Tree
<1> HIDE DEF s, n
<1>3. Len(Child(p, n)[2]) + 0 <= Depth
  BY <1>2 DEF Fits, s, n
<1>4. p[2] \in Seq(Names \cup Nat) /\ Len(p[2]) \in Nat /\ Child(p, n)[2] = Append(p[2], n)
  <2>1. p[2] \in Seq(Names)
    BY SpotFacts, PathIsSeq DEF Places
  <2> QED
    BY <2>1 DEF Child
<1>5. Len(Append(p[2], n)) = Len(p[2]) + 1
  BY <1>1, <1>4
<1> QED
  BY <1>3, <1>4, <1>5, BoundsAssumption

LEMMA AppendValKeeps ==
  ASSUME Inv, NEW p \in Places, NEW q \in Places, AppendVal(p, q)
  PROVE  Inv'
<1> DEFINE n == NextSlot(p)
           c == Child(p, n)
           m == Made(p, Array)
           s == SubAt(m, q)
<1>1. CASE Crash("assert")
  BY <1>1, CrashEnds
<1>2. CASE /\ ~Misused(p, Array) /\ n <= MaxArray /\ Fits(s, c[2])
           /\ Stored(Put(m, c, s), box, c, Value(q))
  <2>1. Tree(s) /\ Len(p[2]) < Depth
    BY <1>2, PlaceIn, SourceInMade, AppendRoom
  <2>2. n \in Names /\ n \notin Keys /\ ~HasChild(p, n) /\ (n > 1 => HasChild(p, n - 1))
    BY <1>2, <2>1, PlaceIn, NextSlotFacts
  <2> HIDE DEF n, s
  <2>3. Safe(Put(m, c, s), box)
    BY <1>2, <2>1, <2>2, PlaceIn, Added
  <2> QED
    BY <1>2, <2>3, StoredEnds
<1> QED
  BY <1>1, <1>2 DEF AppendVal

LEMMA InitInv == Init => Inv
<1> SUFFICES ASSUME Init PROVE Inv
  OBVIOUS
<1>1. Leaf(Empty) \in Trees /\ Tree(Leaf(Empty))
  BY LeafTree, Contents
<1>2. tree = [v \in Holders |-> Leaf(Empty)] /\ box = [b \in Boxes |-> Free]
  BY DEF Init
<1>3. Forest(tree)
  BY <1>1, <1>2 DEF Forest
<1>4. box \in BoxTypes /\ \A b \in Boxes : ~Live(box, b)
  BY <1>2, ValuesAssumption DEF BoxTypes, Live
<1> QED
  BY <1>3, <1>4, InvIff DEF Safe, Init

LEMMA NextInv == Inv /\ [Next]_vars => Inv'
<1> SUFFICES ASSUME Inv, [Next]_vars PROVE Inv'
  OBVIOUS
<1>1. CASE UNCHANGED vars
  BY <1>1 DEF vars, Inv, TypeOK, WellFormed, NoObjectLeak
<1> QED
  BY <1>1, DestroyKeeps, ConstructObjectKeeps, MoveConstructKeeps, ClearKeeps, AssignPlainKeeps,
     AssignObjectKeeps, AssignKeeps, IndexKeeps, SetKeeps, SetSerializedKeeps, UnsetKeeps,
     AppendValKeeps DEF Next

(* Every variable keeps its type and the vals stay trees, whatever the     *)
(* callers do: no element outlives its container, no array has a gap.      *)
THEOREM TypeCorrect == Spec => []TypeOK
<1>1. Inv => TypeOK
  BY DEF Inv
<1> QED
  BY InitInv, NextInv, <1>1, PTL DEF Spec

(* ~val(), setType() and the containers drop every reference they should:  *)
(* an object is kept alive by a val that refers to it or not at all.       *)
THEOREM ObjectsLetGo == Spec => []NoObjectLeak
<1>1. Inv => NoObjectLeak
  BY DEF Inv
<1> QED
  BY InitInv, NextInv, <1>1, PTL DEF Spec

-----------------------------------------------------------------------------
(* The callers of the contract: none of the hazardous patterns.  Every     *)
(* OBJECT val then has a box of its own with an object in it, and nothing  *)
(* is written through s_emptyVar.                                          *)

Sole(tr) ==
  \A v, w \in Holders, x, y \in Paths, b \in Boxes :
    tr[v][x] = Ref(b) /\ tr[w][y] = Ref(b) => v = w /\ x = y

AllLive(tr, bx) == \A b \in Boxes : Held(tr, b) => Live(bx, b)

Sound(tr, bx) == Sole(tr) /\ AllLive(tr, bx) /\ tr[EmptyVar] = Leaf(Empty)

(* get() of a missing key finds an empty val.                              *)
MissingIsEmpty == tree[EmptyVar] = Leaf(Empty)

CInv == Inv /\ NoFault /\ OwnReference /\ MissingIsEmpty /\ StoredIsCopy

LEMMA OwnIff ==
  ASSUME Forest(tree)
  PROVE  OwnReference <=> Sole(tree) /\ AllLive(tree, box)
<1>1. \A v \in Holders, x \in Paths : tree[v][x] \in Content
  BY DEF Forest, Trees
<1>2. ASSUME OwnReference
      PROVE  Sole(tree) /\ AllLive(tree, box)
  <2>1. ASSUME NEW v \in Holders, NEW x \in Paths, NEW b \in Boxes, tree[v][x] = Ref(b)
        PROVE  /\ <<v, x>> \in Places /\ At(tree, <<v, x>>) = Ref(b)
               /\ At(tree, <<v, x>>).type = "OBJECT" /\ At(tree, <<v, x>>).data = b
    <3>1. At(tree, <<v, x>>) = Ref(b) /\ Ref(b) # Absent /\ Ref(b) \in Content
      BY <2>1, Contents DEF At
    <3> QED
      BY <3>1, ContentIs DEF Places, PlacesOf
  <2>2. Sole(tree)
    <3> SUFFICES ASSUME NEW v \in Holders, NEW w \in Holders, NEW x \in Paths, NEW y \in Paths,
                        NEW b \in Boxes, tree[v][x] = Ref(b), tree[w][y] = Ref(b)
                 PROVE  v = w /\ x = y
      BY DEF Sole
    <3> DEFINE p == <<v, x>>
               q == <<w, y>>
    <3>1. /\ p \in Places /\ q \in Places /\ At(tree, p).type = "OBJECT"
          /\ At(tree, p) = At(tree, q)
      BY <2>1
    <3> HIDE DEF p, q
    <3>2. p = q
      BY <1>2, <3>1 DEF OwnReference
    <3> QED
      BY <3>2 DEF p, q
  <2>3. AllLive(tree, box)
    <3> SUFFICES ASSUME NEW b \in Boxes, NEW v \in Holders, NEW x \in Paths, tree[v][x] = Ref(b)
                 PROVE  box[b] \in Objects
      BY DEF AllLive, Held, Live
    <3> DEFINE p == <<v, x>>
    <3>1. p \in Places /\ At(tree, p).type = "OBJECT" /\ At(tree, p).data = b
      BY <2>1
    <3> HIDE DEF p
    <3> QED
      BY <1>2, <3>1 DEF OwnReference
  <2> QED
    BY <2>2, <2>3
<1>3. ASSUME Sole(tree), AllLive(tree, box)
      PROVE  OwnReference
  <2> SUFFICES ASSUME NEW p \in Places, NEW q \in Places, At(tree, p).type = "OBJECT"
               PROVE  /\ box[At(tree, p).data] \in Objects
                      /\ At(tree, p) = At(tree, q) => p = q
    BY DEF OwnReference
  <2>1. /\ p[1] \in Holders /\ p[2] \in Paths /\ p = <<p[1], p[2]>>
        /\ q[1] \in Holders /\ q[2] \in Paths /\ q = <<q[1], q[2]>>
    BY SpotFacts DEF Places
  <2>2. PICK b \in Boxes : tree[p[1]][p[2]] = Ref(b) /\ At(tree, p).data = b
    BY <1>1, <2>1, ContentIs DEF At
  <2>3. box[b] \in Objects
    BY <1>3, <2>1, <2>2 DEF AllLive, Held, Live
  <2>4. At(tree, p) = At(tree, q) => p = q
    <3> SUFFICES ASSUME tree[q[1]][q[2]] = Ref(b) PROVE p = q
      BY <2>2 DEF At
    <3>1. p[1] = q[1] /\ p[2] = q[2]
      BY <1>3, <2>1, <2>2 DEF Sole
    <3> QED
      BY <2>1, <3>1
  <2> QED
    BY <2>2, <2>3, <2>4
<1> QED
  BY <1>2, <1>3

LEMMA CInvIff ==
  CInv <=> Inv /\ fault = "none" /\ Sound(tree, box) /\ copied
<1>1. Inv => Forest(tree)
  BY PlaceIn
<1> QED
  BY <1>1, OwnIff DEF CInv, NoFault, MissingIsEmpty, StoredIsCopy, Sound

(* The boxes below a place are those its tree refers to.                   *)
LEMMA BoxesBelow ==
  ASSUME NEW tr, Forest(tr), NEW p \in Spots, NEW b \in Boxes, b \in BoxesOf(SubAt(tr, p))
  PROVE  \E x \in Paths : IsPrefix(p[2], x) /\ tr[p[1]][x] = Ref(b)
<1> DEFINE u == tr[p[1]]
           q == p[2]
           s == Sub(u, q)
<1>1. q \in Paths /\ Rooted(u) /\ b \in BoxesOf(s)
  BY SpotFacts DEF Forest, Tree, SubAt
<1> HIDE DEF u, q, s
<1>2. /\ s \in Trees
      /\ \A x \in Paths : Len(q) + Len(x) <= Depth => s[x] = u[q \o x]
      /\ \A x \in Paths : ~(Len(q) + Len(x) <= Depth) => s[x] = Absent
  BY <1>1, SubTree DEF s
<1>3. PICK y \in Paths : s[y] = Ref(b)
  BY <1>1, <1>2, BoxesIff
<1>4. Len(q) + Len(y) <= Depth /\ u[q \o y] = Ref(b)
  BY <1>2, <1>3, Contents
<1>5. q \o y \in Paths /\ IsPrefix(q, q \o y)
  BY <1>1, <1>4, Join
<1> QED
  BY <1>4, <1>5 DEF u, q

(* No call of the contract touches a freed box.                            *)
LEMMA NothingFreed ==
  ASSUME NEW tr, Forest(tr), NEW bx, Sound(tr, bx), NEW p \in Spots
  PROVE  ~TouchesFreed(bx, SubAt(tr, p))
<1> SUFFICES ASSUME NEW b \in BoxesOf(SubAt(tr, p)) PROVE bx[b] # Free
  BY DEF TouchesFreed
<1>1. p[1] \in Holders /\ p[2] \in Paths /\ Rooted(tr[p[1]])
  BY SpotFacts DEF Forest, Tree
<1>2. SubAt(tr, p) \in Trees
  BY <1>1, SubTree DEF SubAt
<1>3. b \in Boxes
  BY <1>2, BoxesIff
<1>4. Held(tr, b)
  BY <1>1, <1>3, BoxesBelow DEF Held
<1>5. bx[b] \in Objects
  BY <1>3, <1>4 DEF Sound, AllLive, Live
<1> QED
  BY <1>5, ValuesAssumption

(* What refers to a box after a val without boxes was put at p, referred   *)
(* to it before and is not below p.                                        *)
LEMMA StillRefers ==
  ASSUME NEW tr \in [Holders -> Trees], NEW p \in Spots, NEW s \in Trees, BoxesOf(s) = {},
         NEW v \in Holders, NEW x \in Paths, NEW b \in Boxes, Put(tr, p, s)[v][x] = Ref(b)
  PROVE  tr[v][x] = Ref(b) /\ ~(v = p[1] /\ IsPrefix(p[2], x))
<1>1. ASSUME v = p[1], IsPrefix(p[2], x) PROVE FALSE
  <2> DEFINE u == tr[p[1]]
             q == p[2]
  <2>1. u \in Trees /\ q \in Paths /\ IsPrefix(q, x) /\ Graft(u, q, s)[x] = Ref(b)
    BY <1>1, SpotFacts, PutAt
  <2> HIDE DEF u, q
  <2>2. Rest(q, x) \in Paths
    BY <2>1, Split
  <2>3. s[Rest(q, x)] = Ref(b)
    <3>1. \A t, z \in Trees, r, y \in Paths : IsPrefix(r, y) => Graft(t, r, z)[y] = z[Rest(r, y)]
      BY GraftAt
    <3> QED
      BY <2>1, <3>1
  <2>4. b \in BoxesOf(s)
    BY <2>2, <2>3, BoxesIff
  <2> QED
    BY <2>4
<1>2. v = p[1] => ~IsPrefix(p[2], x)
  BY <1>1
<1> QED
  BY <1>2, PutBeside

LEMMA SoundPut ==
  ASSUME NEW tr, Forest(tr), NEW bx, Sound(tr, bx), NEW p \in Spots, p[1] # EmptyVar,
         NEW s \in Trees, BoxesOf(s) = {}, NEW bx2,
         \A b \in Boxes : b \notin BoxesOf(SubAt(tr, p)) => bx2[b] = bx[b]
  PROVE  Sound(Put(tr, p, s), bx2)
<1> DEFINE g == Put(tr, p, s)
<1>1. tr \in [Holders -> Trees] /\ EmptyVar \in Holders
  BY DEF Forest, Holders
<1>2. \A v \in Holders, x \in Paths, b \in Boxes :
        g[v][x] = Ref(b) => tr[v][x] = Ref(b) /\ ~(v = p[1] /\ IsPrefix(p[2], x))
  BY <1>1, StillRefers
<1>3. g[EmptyVar] = tr[EmptyVar]
  BY <1>1, PutAt
<1> HIDE DEF g
<1>4. Sole(g)
  BY <1>2 DEF Sound, Sole
<1>5. ASSUME NEW b \in Boxes, Held(g, b)
      PROVE  Live(bx2, b)
  <2>1. PICK v \in Holders, x \in Paths : g[v][x] = Ref(b)
    BY <1>5 DEF Held
  <2>2. tr[v][x] = Ref(b) /\ ~(v = p[1] /\ IsPrefix(p[2], x))
    BY <1>2, <2>1
  <2>3. b \notin BoxesOf(SubAt(tr, p))
    <3>1. ASSUME b \in BoxesOf(SubAt(tr, p)) PROVE FALSE
      <4>1. PICK y \in Paths : IsPrefix(p[2], y) /\ tr[p[1]][y] = Ref(b)
        BY <3>1, BoxesBelow
      <4>2. v = p[1] /\ x = y
        BY <2>2, <4>1, SpotFacts DEF Sound, Sole
      <4> QED
        BY <2>2, <4>1, <4>2
    <3> QED
      BY <3>1
  <2>4. Live(bx, b)
    BY <2>2 DEF Sound, AllLive, Held
  <2> QED
    BY <2>3, <2>4 DEF Live
<1> QED
  BY <1>3, <1>4, <1>5 DEF Sound, AllLive, g

(* A val elsewhere is as it was.                                           *)
LEMMA SubBeside ==
  ASSUME NEW tr, Forest(tr), NEW p \in Spots, NEW q \in Spots, NEW s \in Trees, ~Overlap(p, q)
  PROVE  SubAt(Put(tr, p, s), q) = SubAt(tr, q)
<1>1. /\ tr \in [Holders -> Trees] /\ p[1] \in Holders /\ p[2] \in Paths /\ q[1] \in Holders
      /\ q[2] \in Paths
  BY SpotFacts DEF Forest
<1>2. ASSUME NEW y \in Paths, Len(q[2]) + Len(y) <= Depth
      PROVE  Put(tr, p, s)[q[1]][q[2] \o y] = tr[q[1]][q[2] \o y]
  <2>1. q[2] \o y \in Paths /\ IsPrefix(q[2], q[2] \o y)
    BY <1>1, <1>2, Join
  <2>2. q[1] = p[1] => ~IsPrefix(p[2], q[2] \o y)
    BY <1>1, <2>1, PrefixLine DEF Overlap, Above
  <2> QED
    BY <1>1, <2>1, <2>2, PutBeside
<1> QED
  BY <1>2 DEF SubAt, Sub

(* A val without objects has the same value whatever is in the boxes.      *)
LEMMA SameValue ==
  ASSUME NEW t \in Trees, BoxesOf(t) = {}, NEW bx, NEW by
  PROVE  ValueIn(t, bx) = ValueIn(t, by)
<1>1. \A x \in Paths : t[x].type # "OBJECT"
  BY DEF BoxesOf
<1> QED
  BY <1>1 DEF ValueIn, Resolve

LEMMA NoReset ==
  ASSUME NEW bx \in BoxTypes, NEW t, BoxesOf(t) = {}
  PROVE  Reset(bx, t) = bx
  BY DEF Reset, BoxTypes

(* How the calls of the contract end.                                      *)
CEnd == Sound(tree', box') /\ copied' /\ fault' = "none"

LEMMA CState ==
  ASSUME CInv
  PROVE  /\ Inv /\ Safe(tree, box) /\ Forest(tree) /\ Sound(tree, box) /\ fault = "none"
         /\ box \in BoxTypes /\ tree \in [Holders -> Trees]
         /\ \A p \in Places : p \in Spots /\ ~TouchesFreed(box, SubAt(tree, p))
         /\ \A v \in Vars : v \in Holders /\ v # EmptyVar
<1>1. Inv /\ Sound(tree, box) /\ fault = "none"
  BY CInvIff
<1>2. Safe(tree, box) /\ Forest(tree) /\ box \in BoxTypes /\ tree \in [Holders -> Trees]
  BY <1>1, PlaceIn
<1>3. \A p \in Places : p \in Spots /\ ~TouchesFreed(box, SubAt(tree, p))
  BY <1>1, <1>2, NothingFreed, SpotFacts DEF Places
<1> QED
  BY <1>1, <1>2, <1>3, ValuesAssumption DEF Holders

LEMMA Patterns ==
  ASSUME Hazards = {}
  PROVE  /\ \A p : Writable(p) => p[1] # EmptyVar
         /\ \A q : Copyable(q) => BoxesOf(SubAt(tree, q)) = {}
         /\ \A p, T : Typed(p, T) => At(tree, p).type \in T
         /\ \A k, X : OnlyIf(k, X) => ~X
<1>1. \A k, X : OnlyIf(k, X) => ~X
  BY DEF OnlyIf
<1> QED
  BY <1>1 DEF Writable, Copyable, Typed

LEMMA DoneSound ==
  ASSUME fault = "none", NEW tr, NEW bx, Sound(tr, bx), Done(tr, bx)
  PROVE  CEnd
  BY DEF Done, CEnd

LEMMA StoredSound ==
  ASSUME fault = "none", NEW tr, NEW bx, NEW p, NEW w, Sound(tr, bx), Stored(tr, bx, p, w),
         ValueIn(SubAt(tr, p), bx) = w
  PROVE  CEnd
  BY DEF Stored, CEnd

(* Dropping the boxes of a place touches no other.                         *)
LEMMA OthersKept ==
  ASSUME CInv, NEW p \in Places,
         NEW bx2 \in {Release(box, SubAt(tree, p)), Reset(box, SubAt(tree, p))}
  PROVE  \A b \in Boxes : b \notin BoxesOf(SubAt(tree, p)) => bx2[b] = box[b]
<1>1. Rooted(SubAt(tree, p)) /\ box \in BoxTypes
  BY CState, PlaceFacts DEF Tree, Places
<1> QED
  BY <1>1, ReleaseFacts

(* A leaf that is no object over what is at p.                             *)
LEMMA SoundOver ==
  ASSUME CInv, NEW p \in Places, p[1] # EmptyVar, NEW c \in Content, \A b \in Boxes : c # Ref(b),
         NEW bx2 \in {Release(box, SubAt(tree, p)), Reset(box, SubAt(tree, p))}
  PROVE  Sound(Put(tree, p, Leaf(c)), bx2)
<1>1. Leaf(c) \in Trees /\ BoxesOf(Leaf(c)) = {}
  BY LeafTree, NoBoxes
<1>2. \A b \in Boxes : b \notin BoxesOf(SubAt(tree, p)) => bx2[b] = box[b]
  BY OthersKept
<1> QED
  BY <1>1, <1>2, CState, SoundPut

LEMMA DestroySound ==
  ASSUME CInv, NEW v \in Vars, Destroy(v)
  PROVE  CEnd
<1>1. /\ v \in Holders /\ Root(v) \in Places /\ SubAt(tree, Root(v)) = tree[v]
      /\ Root(v)[1] # EmptyVar /\ Put(tree, Root(v), Leaf(Empty)) = [tree EXCEPT ![v] = Leaf(Empty)]
  BY CState, RootPlace, LeafTree, Contents DEF Places
<1>2. ~TouchesFreed(box, tree[v])
  BY <1>1, CState
<1>3. Done([tree EXCEPT ![v] = Leaf(Empty)], Reset(box, tree[v]))
  BY <1>2 DEF Destroy
<1>4. Sound([tree EXCEPT ![v] = Leaf(Empty)], Reset(box, tree[v]))
  BY <1>1, SoundOver, Contents
<1> QED
  BY <1>3, <1>4, CState, DoneSound

LEMMA ClearSound ==
  ASSUME CInv, Hazards = {}, NEW p \in Places, Clear(p)
  PROVE  CEnd
<1>1. /\ p[1] # EmptyVar /\ ~TouchesFreed(box, SubAt(tree, p))
  BY CState, Patterns DEF Clear
<1>2. Done(Put(tree, p, Leaf(Empty)), Release(box, SubAt(tree, p)))
  BY <1>1 DEF Clear
<1>3. Sound(Put(tree, p, Leaf(Empty)), Release(box, SubAt(tree, p)))
  BY <1>1, SoundOver, Contents
<1> QED
  BY <1>2, <1>3, CState, DoneSound

LEMMA AssignPlainSound ==
  ASSUME CInv, Hazards = {}, NEW p \in Places, NEW x \in Plain, AssignPlain(p, x)
  PROVE  CEnd
<1>1. /\ p[1] # EmptyVar /\ ~TouchesFreed(box, SubAt(tree, p))
  BY CState, Patterns DEF AssignPlain
<1>2. Done(Put(tree, p, Leaf(Datum(x))), Release(box, SubAt(tree, p)))
  BY <1>1 DEF AssignPlain
<1>3. Datum(x) \in Content /\ \A b \in Boxes : Datum(x) # Ref(b)
  BY Contents
<1>4. Sound(Put(tree, p, Leaf(Datum(x))), Release(box, SubAt(tree, p)))
  BY <1>1, <1>3, SoundOver
<1> QED
  BY <1>2, <1>4, CState, DoneSound

LEMMA ConstructObjectSound ==
  ASSUME CInv, NEW v \in Vars, NEW o \in Objects, ConstructObject(v, o)
  PROVE  CEnd
<1>1. PICK b \in FreshBoxes :
        Stored([tree EXCEPT ![v] = Leaf(Ref(b))], [box EXCEPT ![b] = o],
               Root(v), ValueIn(Leaf(Ref(b)), [box EXCEPT ![b] = o]))
  BY DEF ConstructObject
<1> DEFINE s  == Leaf(Ref(b))
           tr == [tree EXCEPT ![v] = s]
           bx == [box EXCEPT ![b] = o]
<1>2. b \in Boxes /\ \A u \in Holders : b \notin BoxesOf(tree[u])
  BY DEF FreshBoxes
<1>3. \A u \in Holders, x \in Paths : tree[u][x] # Ref(b)
  BY <1>2, CState, BoxesIff
<1>4. /\ v \in Holders /\ v # EmptyVar /\ s \in Trees /\ Tree(s) /\ s[<<>>] = Ref(b)
      /\ \A x \in Paths : x # <<>> => s[x] = Absent
  BY <1>2, CState, LeafTree, Contents
<1> HIDE DEF s
<1>5. tr[v] = s /\ tr \in [Holders -> Trees] /\ \A u \in Holders : u # v => tr[u] = tree[u]
  BY <1>4, CState
<1>6. bx[b] = o /\ \A c \in Boxes : c # b => bx[c] = box[c]
  BY <1>2, CState DEF BoxTypes
<1>7. Forest(tr)
  BY <1>4, <1>5, CState DEF Forest
<1> HIDE DEF tr, bx
<1>8. ASSUME NEW u \in Holders, NEW x \in Paths, NEW c \in Boxes, tr[u][x] = Ref(c)
      PROVE  \/ u = v /\ x = <<>> /\ c = b
             \/ u # v /\ c # b /\ tree[u][x] = Ref(c)
  <2>1. CASE u = v
    BY <1>2, <1>4, <1>5, <1>8, <2>1, Contents
  <2>2. CASE u # v
    BY <1>3, <1>5, <1>8, <2>2
  <2> QED
    BY <2>1, <2>2
<1>9. Sole(tr)
  <2> SUFFICES ASSUME NEW u \in Holders, NEW w \in Holders, NEW x \in Paths, NEW y \in Paths,
                      NEW c \in Boxes, tr[u][x] = Ref(c), tr[w][y] = Ref(c)
               PROVE  u = w /\ x = y
    BY DEF Sole
  <2>1. CASE c = b
    BY <1>8, <2>1
  <2>2. CASE c # b
    <3>1. tree[u][x] = Ref(c) /\ tree[w][y] = Ref(c)
      BY <1>8, <2>2
    <3> QED
      BY <3>1, CState DEF Sound, Sole
  <2> QED
    BY <2>1, <2>2
<1>10. AllLive(tr, bx)
  <2> SUFFICES ASSUME NEW c \in Boxes, NEW u \in Holders, NEW x \in Paths, tr[u][x] = Ref(c)
               PROVE  bx[c] \in Objects
    BY DEF AllLive, Held, Live
  <2>1. CASE c = b
    BY <1>6, <2>1
  <2>2. CASE c # b
    BY <1>6, <1>8, <2>2, CState DEF Sound, AllLive, Held, Live
  <2> QED
    BY <2>1, <2>2
<1>11. Sound(tr, bx)
  BY <1>4, <1>5, <1>9, <1>10, CState DEF Sound, Holders
<1>12. SubAt(tr, Root(v)) = s
  BY <1>4, <1>5, <1>7, RootPlace
<1> QED
  BY <1>1, <1>11, <1>12, CState, StoredSound DEF s, tr, bx

LEMMA MoveConstructSound ==
  ASSUME CInv, NEW v \in Vars, NEW w \in Vars, MoveConstruct(v, w)
  PROVE  CEnd
<1> DEFINE tr == [tree EXCEPT ![v] = tree[w], ![w] = Leaf(Empty)]
           From(u) == IF u = v THEN w ELSE u
<1>1. v # w /\ Done(tr, box)
  BY DEF MoveConstruct
<1>2. /\ v \in Holders /\ w \in Holders /\ v # EmptyVar /\ w # EmptyVar /\ EmptyVar \in Holders
      /\ tree \in [Holders -> Trees]
  BY CState DEF Holders
<1>3. /\ tr[v] = tree[w] /\ tr[w] = Leaf(Empty)
      /\ \A u \in Holders : u # v /\ u # w => tr[u] = tree[u]
  BY <1>1, <1>2
<1> HIDE DEF tr
<1>4. \A x \in Paths, b \in Boxes : Leaf(Empty)[x] # Ref(b)
  BY LeafTree, Contents
<1>5. \A u \in Holders, x \in Paths, b \in Boxes :
        tr[u][x] = Ref(b) => u # w /\ From(u) \in Holders /\ tree[From(u)][x] = Ref(b)
  BY <1>1, <1>2, <1>3, <1>4
<1>6. Sole(tr)
  <2> SUFFICES ASSUME NEW t \in Holders, NEW u \in Holders, NEW x \in Paths, NEW y \in Paths,
                      NEW b \in Boxes, tr[t][x] = Ref(b), tr[u][y] = Ref(b)
               PROVE  t = u /\ x = y
    BY DEF Sole
  <2>1. /\ t # w /\ u # w /\ From(t) \in Holders /\ From(u) \in Holders
        /\ tree[From(t)][x] = Ref(b) /\ tree[From(u)][y] = Ref(b)
    BY <1>5
  <2>2. From(t) = From(u) /\ x = y
    BY <2>1, CState DEF Sound, Sole
  <2> QED
    BY <2>1, <2>2
<1>7. AllLive(tr, box)
  BY <1>5, CState DEF Sound, AllLive, Held
<1>8. Sound(tr, box)
  BY <1>2, <1>3, <1>6, <1>7, CState DEF Sound
<1> QED
  BY <1>1, <1>8, CState, DoneSound

(* assign() from elsewhere of a val without objects.                       *)
LEMMA AssignedSound ==
  ASSUME CInv, NEW p \in Places, NEW q \in Places, p[1] # EmptyVar, ~Overlap(p, q),
         BoxesOf(SubAt(tree, q)) = {}, Fits(SubAt(tree, q), p[2])
  PROVE  LET bx == Release(box, SubAt(tree, p)) IN
         /\ Sound(Assigned(tree, p, q), bx)
         /\ ValueIn(SubAt(Assigned(tree, p, q), p), bx) = Value(q)
<1> DEFINE bx == Release(box, SubAt(tree, p))
           em == Put(tree, p, Leaf(Empty))
           s  == SubAt(tree, q)
<1>1. /\ p \in Spots /\ q \in Spots /\ s \in Trees /\ ~(Above(p, q) /\ p # q)
      /\ Leaf(Empty) \in Trees
  BY CState, PlaceFacts, LeafTree, Contents DEF Places, Overlap
<1>2. Forest(em)
  BY <1>1, CState, EmptiedFacts DEF Places
<1>3. Sound(em, bx)
  BY SoundOver, Contents
<1>4. SubAt(em, q) = s
  BY <1>1, CState, SubBeside
<1>5. Assigned(tree, p, q) = Put(em, p, s)
  BY <1>4 DEF Assigned
<1> HIDE DEF em, bx
<1>6. Sound(Put(em, p, s), bx)
  BY <1>1, <1>2, <1>3, SoundPut
<1>7. SubAt(Put(em, p, s), p) = s
  BY <1>1, <1>2, SubPut DEF Forest
<1>8. ValueIn(s, bx) = ValueIn(s, box)
  BY <1>1, SameValue
<1> QED
  BY <1>5, <1>6, <1>7, <1>8 DEF Value, bx

LEMMA AssignSound ==
  ASSUME CInv, Hazards = {}, NEW p \in Places, NEW q \in Places, Assign(p, q)
  PROVE  CEnd
<1>1. p[1] # EmptyVar /\ BoxesOf(SubAt(tree, q)) = {} /\ ~Overlap(p, q)
  BY Patterns DEF Assign
<1>2. ~AssignFaults(box, p, q)
  BY <1>1, CState DEF AssignFaults, Overlap
<1>3. /\ Fits(SubAt(tree, q), p[2])
      /\ Stored(Assigned(tree, p, q), Release(box, SubAt(tree, p)), p, Value(q))
  BY <1>2 DEF Assign
<1>4. /\ Sound(Assigned(tree, p, q), Release(box, SubAt(tree, p)))
      /\ ValueIn(SubAt(Assigned(tree, p, q), p), Release(box, SubAt(tree, p))) = Value(q)
  BY <1>1, <1>3, AssignedSound
<1> QED
  BY <1>3, <1>4, CState, StoredSound

(* A map or array call on a val of its kind, or on an empty one.           *)
LEMMA WellUsed ==
  ASSUME CInv, Hazards = {}, NEW p \in Places, NEW c \in {Map, Array}, Typed(p, {"EMPTY", c.type})
  PROVE  ~Misused(p, c)
<1>1. At(tree, p).type \in {"EMPTY", c.type}
  BY Patterns
<1>2. At(tree, p) \in Content
  BY CState, SpotFacts DEF Places, At, Trees
<1>3. Map.type = "MAP" /\ Array.type = "ARRAY"
  BY DEF Map, Array
<1>4. At(tree, p) \in {Empty, c}
  BY <1>1, <1>2, <1>3, ContentIs
<1> QED
  BY <1>4 DEF Misused

LEMMA MadeSound ==
  ASSUME CInv, NEW p \in Places, NEW c \in {Map, Array}, p[1] # EmptyVar, ~Misused(p, c)
  PROVE  Sound(Made(p, c), box) /\ Forest(Made(p, c))
<1>1. Forest(Made(p, c))
  BY CState, MadeFacts DEF Safe
<1>2. CASE At(tree, p) = Empty
  <2>1. c \in Content /\ \A b \in Boxes : c # Ref(b)
    BY Contents
  <2>2. Leaf(c) \in Trees /\ BoxesOf(Leaf(c)) = {}
    BY <2>1, LeafTree, NoBoxes
  <2>3. Sound(Put(tree, p, Leaf(c)), box)
    BY <2>2, CState, SoundPut
  <2> QED
    BY <1>1, <1>2, <2>3 DEF Made
<1>3. CASE At(tree, p) # Empty
  BY <1>1, <1>3, CState DEF Made
<1> QED
  BY <1>2, <1>3

LEMMA AddedSound ==
  ASSUME CInv, NEW p \in Places, NEW c \in {Map, Array}, p[1] # EmptyVar, ~Misused(p, c),
         NEW n \in Names, Len(p[2]) < Depth, NEW s \in Trees, BoxesOf(s) = {}
  PROVE  /\ Sound(Put(Made(p, c), Child(p, n), s), box)
         /\ Fits(s, Child(p, n)[2]) => SubAt(Put(Made(p, c), Child(p, n), s), Child(p, n)) = s
<1>1. Child(p, n) \in Spots /\ Child(p, n)[1] # EmptyVar
  BY CState, ChildSpot
<1>2. Sound(Made(p, c), box) /\ Forest(Made(p, c)) /\ Made(p, c) \in [Holders -> Trees]
  BY MadeSound DEF Forest
<1>3. Sound(Put(Made(p, c), Child(p, n), s), box)
  BY <1>1, <1>2, SoundPut
<1>4. Fits(s, Child(p, n)[2]) => SubAt(Put(Made(p, c), Child(p, n), s), Child(p, n)) = s
  BY <1>1, <1>2, SubPut
<1> QED
  BY <1>3, <1>4

(* Making the container does not change the source of the copy.            *)
LEMMA SourceKept ==
  ASSUME CInv, NEW p \in Places, NEW q \in Places, NEW c \in {Map, Array}, ~Misused(p, c),
         ~(At(tree, p) = Empty /\ Above(q, p))
  PROVE  SubAt(Made(p, c), q) = SubAt(tree, q)
<1>1. CASE At(tree, p) # Empty
  BY <1>1 DEF Made
<1>2. CASE ~Above(q, p)
  <2>1. \A v \in Holders, x \in Paths :
          Made(p, c)[v][x] = IF v = p[1] /\ x = p[2] THEN c ELSE tree[v][x]
    BY CState, MadeFacts
  <2>2. p \in Spots /\ q \in Spots /\ q[1] \in Holders /\ q[2] \in Paths /\ p[2] \in Paths
    BY CState, SpotFacts
  <2>3. ASSUME NEW y \in Paths, Len(q[2]) + Len(y) <= Depth
        PROVE  Made(p, c)[q[1]][q[2] \o y] = tree[q[1]][q[2] \o y]
    <3>1. q[2] \o y \in Paths /\ IsPrefix(q[2], q[2] \o y)
      BY <2>2, <2>3, Join
    <3>2. ~(q[1] = p[1] /\ q[2] \o y = p[2])
      BY <1>2, <3>1 DEF Above
    <3> QED
      BY <2>1, <2>2, <3>1, <3>2
  <2> QED
    BY <2>3 DEF SubAt, Sub
<1> QED
  BY <1>1, <1>2

LEMMA IndexSound ==
  ASSUME CInv, Hazards = {}, NEW p \in Places, NEW k \in Keys, Index(p, k)
  PROVE  CEnd
<1>1. p[1] # EmptyVar /\ Len(p[2]) < Depth /\ Typed(p, {"EMPTY", "MAP"})
  BY Patterns DEF Index
<1>2. ~Misused(p, Map)
  BY <1>1, WellUsed DEF Map
<1>3. CASE HasChild(p, k)
  <2>1. Done(tree, box)
    BY <1>2, <1>3 DEF Index
  <2> QED
    BY <2>1, CState, DoneSound
<1>4. CASE ~HasChild(p, k)
  <2>1. Done(Put(Made(p, Map), Child(p, k), Leaf(Empty)), box)
    BY <1>2, <1>4 DEF Index
  <2>2. Leaf(Empty) \in Trees /\ BoxesOf(Leaf(Empty)) = {} /\ k \in Names
    BY LeafTree, NoBoxes, Contents, KeyNames
  <2>3. Sound(Put(Made(p, Map), Child(p, k), Leaf(Empty)), box)
    BY <1>1, <1>2, <2>2, AddedSound
  <2> QED
    BY <2>1, <2>3, CState, DoneSound
<1> QED
  BY <1>3, <1>4

LEMMA SetSound ==
  ASSUME CInv, Hazards = {}, NEW p \in Places, NEW k \in Keys, NEW q \in Places, Set(p, k, q)
  PROVE  CEnd
<1> DEFINE c == Child(p, k)
           m == Made(p, Map)
           s == SubAt(tree, q)
<1>1. /\ p[1] # EmptyVar /\ Len(p[2]) < Depth /\ Typed(p, {"EMPTY", "MAP"}) /\ BoxesOf(s) = {}
      /\ ~(HasChild(p, k) /\ Overlap(c, q)) /\ ~(At(tree, p) = Empty /\ Above(q, p))
  BY Patterns DEF Set
<1>2. ~Misused(p, Map) /\ k \in Names /\ s \in Trees
  BY <1>1, WellUsed, KeyNames, CState, PlaceFacts DEF Map, Places
<1>3. CASE ~HasChild(p, k)
  <2>1. SubAt(m, q) = s
    BY <1>1, <1>2, SourceKept
  <2>2. Fits(s, c[2]) /\ Stored(Put(m, c, s), box, c, Value(q))
    BY <1>2, <1>3, <2>1 DEF Set
  <2>3. Sound(Put(m, c, s), box) /\ SubAt(Put(m, c, s), c) = s
    BY <1>1, <1>2, <2>2, AddedSound
  <2>4. ValueIn(SubAt(Put(m, c, s), c), box) = Value(q)
    BY <2>3 DEF Value
  <2> QED
    BY <2>2, <2>3, <2>4, CState, StoredSound
<1>4. CASE HasChild(p, k)
  <2>1. c \in Places /\ c[1] # EmptyVar /\ ~Overlap(c, q)
    BY <1>1, <1>2, <1>4, CState, ChildPlace DEF Places, Child
  <2>2. \A node \in {Leaf(Empty), s} : Reset(box, node) = box /\ ~TouchesFreed(box, node)
    <3>1. BoxesOf(Leaf(Empty)) = {}
      BY NoBoxes, Contents
    <3> QED
      BY <1>1, <3>1, CState, NoReset DEF TouchesFreed
  <2>3. ~AssignFaults(box, c, q)
    BY <2>1, CState DEF AssignFaults, Overlap
  <2>4. /\ Fits(s, c[2])
        /\ Stored(Assigned(tree, c, q), Release(box, SubAt(tree, c)), c, Value(q))
    BY <1>2, <1>4, <2>2, <2>3 DEF Set
  <2> HIDE DEF c
  <2>5. /\ Sound(Assigned(tree, c, q), Release(box, SubAt(tree, c)))
        /\ ValueIn(SubAt(Assigned(tree, c, q), c), Release(box, SubAt(tree, c))) = Value(q)
    BY <1>1, <2>1, <2>4, AssignedSound
  <2> QED
    BY <2>4, <2>5, CState, StoredSound
<1> QED
  BY <1>3, <1>4

LEMMA SetSerializedSound ==
  ASSUME CInv, Hazards = {}, NEW p \in Places, NEW k \in Keys, NEW x \in Plain \cup {Null},
         SetSerialized(p, k, x)
  PROVE  CEnd
<1> DEFINE c == Child(p, k)
<1>1. p[1] # EmptyVar /\ Len(p[2]) < Depth /\ Typed(p, {"EMPTY", "MAP"})
  BY Patterns DEF SetSerialized
<1>2. ~Misused(p, Map) /\ k \in Names
  BY <1>1, WellUsed, KeyNames DEF Map
<1>3. CASE x = Null
  <2>1. Done(Made(p, Map), box)
    BY <1>2, <1>3 DEF SetSerialized
  <2>2. Sound(Made(p, Map), box)
    BY <1>1, <1>2, MadeSound
  <2> QED
    BY <2>1, <2>2, CState, DoneSound
<1>4. CASE x # Null /\ HasChild(p, k)
  <2>1. c \in Places /\ c[1] # EmptyVar
    BY <1>1, <1>2, <1>4, CState, ChildPlace DEF Places, Child
  <2>2. ~TouchesFreed(box, SubAt(tree, c))
    BY <2>1, CState
  <2>3. Done(Put(tree, c, Leaf(Datum(x))), Release(box, SubAt(tree, c)))
    BY <1>2, <1>4, <2>2 DEF SetSerialized
  <2>4. Datum(x) \in Content /\ \A b \in Boxes : Datum(x) # Ref(b)
    BY <1>4, Contents
  <2> HIDE DEF c
  <2>5. Sound(Put(tree, c, Leaf(Datum(x))), Release(box, SubAt(tree, c)))
    BY <2>1, <2>4, SoundOver
  <2> QED
    BY <2>3, <2>5, CState, DoneSound
<1>5. CASE x # Null /\ ~HasChild(p, k)
  <2>1. Done(Put(Made(p, Map), c, Leaf(Datum(x))), box)
    BY <1>2, <1>5 DEF SetSerialized
  <2>2. Leaf(Datum(x)) \in Trees /\ BoxesOf(Leaf(Datum(x))) = {}
    BY <1>5, LeafTree, NoBoxes, Contents
  <2>3. Sound(Put(Made(p, Map), c, Leaf(Datum(x))), box)
    BY <1>1, <1>2, <2>2, AddedSound
  <2> QED
    BY <2>1, <2>3, CState, DoneSound
<1> QED
  BY <1>3, <1>4, <1>5

LEMMA UnsetSound ==
  ASSUME CInv, Hazards = {}, NEW p \in Places, NEW k \in Keys, Unset(p, k)
  PROVE  CEnd
<1> DEFINE c == Child(p, k)
<1>1. p[1] # EmptyVar /\ Typed(p, {"EMPTY", "MAP"})
  BY Patterns DEF Unset
<1>2. ~Misused(p, Map) /\ k \in Names
  BY <1>1, WellUsed, KeyNames DEF Map
<1>3. CASE ~HasChild(p, k)
  <2>1. Done(tree, box)
    BY <1>2, <1>3 DEF Unset
  <2> QED
    BY <2>1, CState, DoneSound
<1>4. CASE HasChild(p, k)
  <2>1. c \in Places /\ c[1] # EmptyVar
    BY <1>1, <1>2, <1>4, CState, ChildPlace DEF Places, Child
  <2>2. ~TouchesFreed(box, SubAt(tree, c))
    BY <2>1, CState
  <2>3. Done(Put(tree, c, Leaf(Absent)), Reset(box, SubAt(tree, c)))
    BY <1>2, <1>4, <2>2 DEF Unset
  <2> HIDE DEF c
  <2>4. Sound(Put(tree, c, Leaf(Absent)), Reset(box, SubAt(tree, c)))
    BY <2>1, SoundOver, Contents
  <2> QED
    BY <2>3, <2>4, CState, DoneSound
<1> QED
  BY <1>3, <1>4

LEMMA AppendValSound ==
  ASSUME CInv, Hazards = {}, NEW p \in Places, NEW q \in Places, AppendVal(p, q)
  PROVE  CEnd
<1> DEFINE n == NextSlot(p)
           c == Child(p, n)
           m == Made(p, Array)
           s == SubAt(tree, q)
<1>1. /\ p[1] # EmptyVar /\ Typed(p, {"EMPTY", "ARRAY"}) /\ BoxesOf(s) = {}
      /\ ~(At(tree, p) = Empty /\ Above(q, p))
  BY Patterns DEF AppendVal
<1>2. ~Misused(p, Array) /\ s \in Trees
  BY <1>1, WellUsed, CState, PlaceFacts DEF Array, Places
<1>3. SubAt(m, q) = s
  BY <1>1, <1>2, SourceKept
<1>4. n <= MaxArray /\ Fits(s, c[2]) /\ Stored(Put(m, c, s), box, c, Value(q))
  BY <1>2, <1>3 DEF AppendVal
<1>5. Len(p[2]) < Depth
  BY <1>2, <1>3, <1>4, CState, AppendRoom
<1>6. n \in Names
  BY <1>2, <1>4, <1>5, CState, NextSlotFacts
<1> HIDE DEF n
<1>7. Sound(Put(m, c, s), box) /\ SubAt(Put(m, c, s), c) = s
  BY <1>1, <1>2, <1>4, <1>5, <1>6, AddedSound
<1>8. ValueIn(SubAt(Put(m, c, s), c), box) = Value(q)
  BY <1>7 DEF Value
<1> QED
  BY <1>4, <1>7, <1>8, CState, StoredSound

LEMMA InitCInv == Init => CInv
<1> SUFFICES ASSUME Init PROVE CInv
  OBVIOUS
<1>1. Inv /\ tree = [v \in Holders |-> Leaf(Empty)] /\ copied /\ fault = "none"
  BY InitInv DEF Init
<1>2. \A v \in Holders, x \in Paths, b \in Boxes : tree[v][x] # Ref(b)
  BY <1>1, LeafTree, Contents
<1>3. Sound(tree, box)
  BY <1>1, <1>2 DEF Sound, Sole, AllLive, Held, Holders
<1> QED
  BY <1>1, <1>3, CInvIff

LEMMA NextCInv ==
  ASSUME Hazards = {}
  PROVE  CInv /\ [Next]_vars => CInv'
<1> SUFFICES ASSUME CInv, [Next]_vars PROVE CInv'
  OBVIOUS
<1>1. Inv'
  BY NextInv DEF CInv
<1>2. ASSUME UNCHANGED vars
      PROVE  CEnd
  BY <1>2, CInvIff DEF vars, CEnd
<1>3. ASSUME Next
      PROVE  CEnd
  <2>1. ~\E p \in Places, o \in Objects : AssignObject(p, o)
    BY DEF AssignObject
  <2> QED
    BY <1>3, <2>1, DestroySound, ConstructObjectSound, MoveConstructSound, ClearSound,
       AssignPlainSound, AssignSound, IndexSound, SetSound, SetSerializedSound, UnsetSound,
       AppendValSound DEF Next
<1>4. (Inv /\ fault = "none" /\ Sound(tree, box) /\ copied)'
  <2>1. CEnd
    BY <1>2, <1>3
  <2> QED
    BY <1>1, <2>1 DEF CEnd, Sound, Sole, AllLive, Held, Live
<1>5. (CInv <=> Inv /\ fault = "none" /\ Sound(tree, box) /\ copied)'
  BY CInvIff, PTL
<1> QED
  BY <1>4, <1>5

(* Callers who avoid the hazardous patterns reach neither freed memory nor *)
(* a failing assertion of val.cpp.                                         *)
THEOREM ContractNoFault ==
  ASSUME Hazards = {}
  PROVE  Spec => []NoFault
<1>1. CInv => NoFault
  BY DEF CInv
<1> QED
  BY InitCInv, NextCInv, <1>1, PTL DEF Spec

(* operator=, set() and appendVal() leave at their place the value that    *)
(* their source had when they were called.                                 *)
THEOREM StoresCopies ==
  ASSUME Hazards = {}
  PROVE  Spec => []StoredIsCopy
<1>1. CInv => StoredIsCopy
  BY DEF CInv
<1> QED
  BY InitCInv, NextCInv, <1>1, PTL DEF Spec
=============================================================================
