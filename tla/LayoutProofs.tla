---------------------------- MODULE LayoutProofs ----------------------------
(***************************************************************************)
(* Proofs about Layout, for every finite tree of views, every style sheet   *)
(* and any number of changes and resizes.                                   *)
(***************************************************************************)
EXTENDS Layout, WellFoundedInduction, FiniteSetTheorems, TLAPS

-----------------------------------------------------------------------------
(* Induction, and functions defined by it.                                  *)

(* Every set of natural numbers has a least member.                         *)
LEMMA LeastNat ==
    ASSUME NEW T \in SUBSET Nat, T # {}
    PROVE  \E m \in T : \A n \in T : m <= n
<1> DEFINE R == OpToRel(<, Nat)
<1>1. IsWellFoundedOn(R, Nat)
  BY NatLessThanWellFounded
<1>2. \A x, y \in Nat : <<x, y>> \in R <=> x < y
  BY DEF OpToRel
<1> HIDE DEF R
<1>3. PICK m \in T : \A n \in T : ~(<<n, m>> \in R)
  BY <1>1, WFMin
<1>4. \A n \in T : ~(n < m)
  BY <1>2, <1>3
<1>5. \A n \in T : m <= n
  BY <1>4
<1> QED
  BY <1>5

(* Induction, for a set rather than a predicate.                            *)
LEMMA SetInduction ==
    ASSUME NEW S, 0 \in S, \A n \in Nat : n \in S => n + 1 \in S
    PROVE  \A n \in Nat : n \in S
<1> DEFINE T == Nat \ S
<1> SUFFICES ASSUME T # {} PROVE FALSE
  OBVIOUS
<1>1. PICK m \in T : \A n \in T : m <= n
  BY LeastNat
<1>2. m \in Nat /\ m # 0
  BY <1>1
<1>3. m - 1 \in Nat /\ m - 1 \notin T
  BY <1>1, <1>2
<1>4. m - 1 + 1 = m
  BY <1>2
<1> QED
  BY <1>1, <1>3, <1>4

(* A function whose value at d is given, or made from the value at a place  *)
(* of smaller rank: what sums, the loop over the subviews and the descent   *)
(* from the root have in common.                                            *)
Follows(f, d, Base, first, step, par) ==
    f[d] = IF d \in Base THEN first[d] ELSE step[<<d, f[par[d]]>>]

LEMMA RecursiveFunction ==
    ASSUME NEW D, NEW T, NEW Base, NEW first \in [D -> T], NEW step \in [D \X T -> T],
           NEW par \in [D -> D], NEW N \in Nat, NEW rank \in [D -> 0 .. N],
           \A d \in D : d \notin Base => rank[par[d]] < rank[d]
    PROVE  \E f \in [D -> T] : \A d \in D : Follows(f, d, Base, first, step, par)
<1> DEFINE S == {n \in Nat : \E f \in [D -> T] : \A d \in D :
                   rank[d] < n => Follows(f, d, Base, first, step, par)}
<1>1. 0 \in S
  <2>1. \A d \in D : ~(rank[d] < 0)
    OBVIOUS
  <2> QED
    BY <2>1
<1>2. ASSUME NEW n \in Nat, n \in S
      PROVE  n + 1 \in S
  <2>1. PICK f \in [D -> T] : \A d \in D :
               rank[d] < n => Follows(f, d, Base, first, step, par)
    BY <1>2
  <2> DEFINE h == [d \in D |-> IF d \in Base THEN first[d] ELSE step[<<d, f[par[d]]>>]]
  <2>2. h \in [D -> T]
    OBVIOUS
  <2>3. \A d \in D : rank[d] < n => h[d] = f[d]
    BY <2>1 DEF Follows
  <2>4. ASSUME NEW d \in D, rank[d] < n + 1
        PROVE  Follows(h, d, Base, first, step, par)
    <3>1. CASE d \in Base
      BY <3>1 DEF Follows
    <3>2. CASE d \notin Base
      <4>1. par[d] \in D /\ rank[par[d]] < n
        BY <2>4, <3>2
      <4>2. h[par[d]] = f[par[d]]
        BY <2>3, <4>1
      <4> QED
        BY <3>2, <4>2 DEF Follows
    <3> QED
      BY <3>1, <3>2
  <2>5. n + 1 \in Nat
    OBVIOUS
  <2> HIDE DEF h
  <2> QED
    BY <2>2, <2>4, <2>5
<1>3. \A n \in Nat : n \in S
  <2> HIDE DEF S
  <2> QED
    BY <1>1, <1>2, SetInduction
<1>4. N + 1 \in S
  <2>1. N + 1 \in Nat
    OBVIOUS
  <2> HIDE DEF S
  <2> QED
    BY <1>3, <2>1
<1>5. \A d \in D : rank[d] < N + 1
  OBVIOUS
<1> QED
  BY <1>4, <1>5

-----------------------------------------------------------------------------
(* Sums.                                                                    *)

LEMMA SumsRecursion ==
    ASSUME NEW s \in Seq(Int)
    PROVE  /\ Sums(s) \in [0 .. Len(s) -> Int]
           /\ Sums(s)[0] = 0
           /\ \A i \in 1 .. Len(s) : Sums(s)[i] = Sums(s)[i - 1] + s[i]
<1> DEFINE D     == 0 .. Len(s)
           first == [i \in D |-> 0]
           step  == [p \in D \X Int |-> p[2] + (IF p[1] = 0 THEN 0 ELSE s[p[1]])]
           par   == [i \in D |-> IF i = 0 THEN 0 ELSE i - 1]
           rank  == [i \in D |-> i]
           Def(f) == [i \in 0 .. Len(s) |-> IF i = 0 THEN 0 ELSE f[i - 1] + s[i]]
<1>1. Len(s) \in Nat /\ \A i \in 1 .. Len(s) : s[i] \in Int
  OBVIOUS
<1>2. /\ first \in [D -> Int] /\ step \in [D \X Int -> Int] /\ par \in [D -> D]
      /\ rank \in [D -> 0 .. Len(s)]
      /\ \A d \in D : d \notin {0} => rank[par[d]] < rank[d]
  BY <1>1
<1>3. PICK f \in [D -> Int] : \A d \in D : Follows(f, d, {0}, first, step, par)
  <2> HIDE DEF D, first, step, par, rank
  <2> QED
    BY <1>1, <1>2, RecursiveFunction
<1>4. \A i \in D : f[i] = IF i = 0 THEN 0 ELSE f[i - 1] + s[i]
  <2>1. ASSUME NEW i \in D
        PROVE  f[i] = IF i = 0 THEN 0 ELSE f[i - 1] + s[i]
    <3>1. f[i] = IF i \in {0} THEN first[i] ELSE step[<<i, f[par[i]]>>]
      BY <1>3 DEF Follows
    <3>2. CASE i = 0
      BY <3>1, <3>2
    <3>3. CASE i # 0
      <4>0. i - 1 \in D /\ par[i] = i - 1
        BY <1>1, <3>3
      <4>1. par[i] = i - 1 /\ f[i - 1] \in Int
        <5> HIDE DEF D, par
        <5> QED
          BY <4>0
      <4>2. step[<<i, f[i - 1]>>] = f[i - 1] + s[i]
        BY <1>1, <3>3, <4>1
      <4> QED
        BY <3>1, <3>3, <4>1, <4>2
    <3> QED
      BY <3>2, <3>3
  <2> QED
    BY <2>1
<1>5. f = Def(f)
  BY <1>4
<1>6. Sums(s) = CHOOSE g : g = Def(g)
  BY DEF Sums
<1>7. Sums(s) = Def(Sums(s))
  <2> HIDE DEF Def
  <2> QED
    BY <1>5, <1>6, Zenon
<1> DEFINE g == Sums(s)
<1> HIDE DEF g
<1>8. g = Def(g)
  BY <1>7 DEF g
<1>9. \A i \in D : g[i] = f[i]
  <2> DEFINE S == {i \in Nat : i \in D => g[i] = f[i]}
  <2>1. 0 \in S
    BY <1>1, <1>4, <1>8
  <2>2. ASSUME NEW i \in Nat, i \in S
        PROVE  i + 1 \in S
    BY <1>1, <1>4, <1>8, <2>2
  <2>3. \A i \in Nat : i \in S
    <3> HIDE DEF S
    <3> QED
      BY <2>1, <2>2, SetInduction
  <2> QED
    BY <2>3
<1>10. g \in [0 .. Len(s) -> Int]
  BY <1>8, <1>9
<1>11. g[0] = 0
  BY <1>1, <1>8
<1>12. ASSUME NEW i \in 1 .. Len(s)
       PROVE  g[i] = g[i - 1] + s[i]
  <2>1. i \in 0 .. Len(s) /\ i # 0
    BY <1>1
  <2> QED
    BY <1>8, <2>1
<1> QED
  BY <1>10, <1>11, <1>12 DEF g

LEMMA SumsNext ==
    ASSUME NEW s \in Seq(Int), NEW i \in Nat, i + 1 <= Len(s)
    PROVE  Sums(s)[i + 1] = Sums(s)[i] + s[i + 1]
<1>1. i + 1 \in 1 .. Len(s) /\ i + 1 - 1 = i
  OBVIOUS
<1>2. Sums(s)[i + 1] = Sums(s)[i + 1 - 1] + s[i + 1]
  BY <1>1, SumsRecursion
<1> QED
  BY <1>1, <1>2

LEMMA TotalInt ==
    ASSUME NEW s \in Seq(Int)
    PROVE  Total(s) \in Int /\ \A i \in 0 .. Len(s) : Sums(s)[i] \in Int
<1>1. Len(s) \in 0 .. Len(s)
  OBVIOUS
<1>2. Sums(s) \in [0 .. Len(s) -> Int]
  BY SumsRecursion
<1> QED
  BY <1>1, <1>2 DEF Total

LEMMA TotalAdd ==
    ASSUME NEW s \in Seq(Int), NEW t \in Seq(Int), NEW u \in Seq(Int),
           Len(s) = Len(u), Len(t) = Len(u), \A i \in 1 .. Len(u) : u[i] = s[i] + t[i]
    PROVE  Total(u) = Total(s) + Total(t)
<1> DEFINE n == Len(u)
           S == {i \in Nat : i <= n => Sums(u)[i] = Sums(s)[i] + Sums(t)[i]}
<1>1. /\ n \in Nat
      /\ Sums(s) \in [0 .. n -> Int] /\ Sums(t) \in [0 .. n -> Int] /\ Sums(u) \in [0 .. n -> Int]
      /\ Sums(s)[0] = 0 /\ Sums(t)[0] = 0 /\ Sums(u)[0] = 0
  BY SumsRecursion
<1>2. \A i \in 1 .. n : s[i] \in Int /\ t[i] \in Int
  OBVIOUS
<1> HIDE DEF n
<1>3. 0 \in S
  BY <1>1
<1>4. ASSUME NEW i \in Nat, i \in S
      PROVE  i + 1 \in S
  <2> SUFFICES ASSUME i + 1 <= n
               PROVE  Sums(u)[i + 1] = Sums(s)[i + 1] + Sums(t)[i + 1]
    OBVIOUS
  <2>1. i + 1 \in 1 .. n /\ i + 1 - 1 = i /\ i \in 0 .. n
    BY <1>1
  <2>2. Sums(u)[i] = Sums(s)[i] + Sums(t)[i]
    BY <1>4, <2>1
  <2>3. u[i + 1] = s[i + 1] + t[i + 1]
    BY <2>1 DEF n
  <2>4. Sums(s)[i] \in Int /\ Sums(t)[i] \in Int /\ s[i + 1] \in Int /\ t[i + 1] \in Int
    BY <1>1, <1>2, <2>1
  <2>5. /\ Sums(u)[i + 1] = Sums(u)[i] + u[i + 1]
        /\ Sums(s)[i + 1] = Sums(s)[i] + s[i + 1]
        /\ Sums(t)[i + 1] = Sums(t)[i] + t[i + 1]
    BY SumsNext DEF n
  <2> HIDE DEF S
  <2>6. Sums(u)[i + 1] = (Sums(s)[i] + Sums(t)[i]) + (s[i + 1] + t[i + 1])
    BY <2>2, <2>3, <2>5
  <2>7. (Sums(s)[i] + Sums(t)[i]) + (s[i + 1] + t[i + 1])
          = (Sums(s)[i] + s[i + 1]) + (Sums(t)[i] + t[i + 1])
    <3> DEFINE j == Sums(s)[i]
               k == Sums(t)[i]
               x == s[i + 1]
               y == t[i + 1]
    <3>1. j \in Int /\ k \in Int /\ x \in Int /\ y \in Int
      BY <2>4
    <3> HIDE DEF j, k, x, y
    <3>2. (j + k) + (x + y) = (j + x) + (k + y)
      BY <3>1
    <3> QED
      BY <3>2 DEF j, k, x, y
  <2> QED
    BY <2>5, <2>6, <2>7
<1>5. \A i \in Nat : i \in S
  <2> HIDE DEF S
  <2> QED
    BY <1>3, <1>4, SetInduction
<1> QED
  BY <1>1, <1>5 DEF Total, n

LEMMA TotalScale ==
    ASSUME NEW s \in Seq(Int), NEW u \in Seq(Int), NEW c \in Int,
           Len(s) = Len(u), \A i \in 1 .. Len(u) : u[i] = c * s[i]
    PROVE  Total(u) = c * Total(s)
<1> DEFINE n == Len(u)
           S == {i \in Nat : i <= n => Sums(u)[i] = c * Sums(s)[i]}
<1>1. /\ n \in Nat
      /\ Sums(s) \in [0 .. n -> Int] /\ Sums(u) \in [0 .. n -> Int]
      /\ Sums(s)[0] = 0 /\ Sums(u)[0] = 0
  BY SumsRecursion
<1>2. \A i \in 1 .. n : s[i] \in Int
  OBVIOUS
<1> HIDE DEF n
<1>3. 0 \in S
  BY <1>1
<1>4. ASSUME NEW i \in Nat, i \in S
      PROVE  i + 1 \in S
  <2> SUFFICES ASSUME i + 1 <= n
               PROVE  Sums(u)[i + 1] = c * Sums(s)[i + 1]
    OBVIOUS
  <2>1. i + 1 \in 1 .. n /\ i + 1 - 1 = i /\ i \in 0 .. n
    BY <1>1
  <2>2. Sums(u)[i] = c * Sums(s)[i]
    BY <1>4, <2>1
  <2>3. u[i + 1] = c * s[i + 1]
    BY <2>1 DEF n
  <2>4. \A x, y \in Int : c * x + c * y = c * (x + y)
    OBVIOUS
  <2>5. Sums(s)[i] \in Int /\ s[i + 1] \in Int
    BY <1>1, <1>2, <2>1
  <2>6. /\ Sums(u)[i + 1] = Sums(u)[i] + u[i + 1]
        /\ Sums(s)[i + 1] = Sums(s)[i] + s[i + 1]
    BY SumsNext DEF n
  <2>7. Sums(u)[i + 1] = c * Sums(s)[i] + c * s[i + 1]
    BY <2>2, <2>3, <2>6
  <2> HIDE DEF S
  <2> QED
    BY <2>4, <2>5, <2>6, <2>7
<1>5. \A i \in Nat : i \in S
  <2> HIDE DEF S
  <2> QED
    BY <1>3, <1>4, SetInduction
<1> QED
  BY <1>1, <1>5 DEF Total, n

(* Sums of natural numbers grow.                                            *)
LEMMA SumsGrow ==
    ASSUME NEW s \in Seq(Int), \A i \in 1 .. Len(s) : s[i] >= 0
    PROVE  \A i \in 0 .. Len(s) : 0 <= Sums(s)[i] /\ Sums(s)[i] <= Total(s)
<1> DEFINE n == Len(s)
           f == Sums(s)
           S == {i \in Nat : i <= n => 0 <= f[i]}
           U == {i \in Nat : i <= n => f[n - i] <= f[n]}
<1>1. /\ n \in Nat /\ f \in [0 .. n -> Int] /\ f[0] = 0
      /\ \A i \in 1 .. n : f[i] = f[i - 1] + s[i]
  BY SumsRecursion
<1>2. \A i \in 1 .. n : s[i] \in Int /\ s[i] >= 0
  OBVIOUS
<1> HIDE DEF n, f
<1>3. \A i \in Nat : i \in S
  <2>1. 0 \in S
    BY <1>1
  <2>2. ASSUME NEW i \in Nat, i \in S
        PROVE  i + 1 \in S
    <3> SUFFICES ASSUME i + 1 <= n PROVE 0 <= f[i + 1]
      OBVIOUS
    <3>1. i + 1 \in 1 .. n /\ i + 1 - 1 = i /\ i \in 0 .. n /\ 0 <= f[i]
      BY <1>1, <2>2
    <3>2. f[i + 1] = f[i] + s[i + 1] /\ f[i] \in Int /\ s[i + 1] \in Int /\ s[i + 1] >= 0
      BY <1>1, <1>2, <3>1
    <3> QED
      BY <3>1, <3>2
  <2> HIDE DEF S
  <2> QED
    BY <2>1, <2>2, SetInduction
<1>4. \A i \in Nat : i \in U
  <2>1. 0 \in U
    BY <1>1
  <2>2. ASSUME NEW i \in Nat, i \in U
        PROVE  i + 1 \in U
    <3> SUFFICES ASSUME i + 1 <= n PROVE f[n - (i + 1)] <= f[n]
      OBVIOUS
    <3>1. n - i \in 1 .. n /\ n - i - 1 = n - (i + 1) /\ n - i \in 0 .. n /\ n - (i + 1) \in 0 .. n
      BY <1>1
    <3>2. f[n - i] = f[n - (i + 1)] + s[n - i]
      BY <1>1, <3>1
    <3>3. f[n - i] <= f[n]
      <4>1. i <= n
        BY <1>1
      <4> QED
        BY <2>2, <4>1
    <3>4. f[n - (i + 1)] \in Int /\ f[n] \in Int /\ s[n - i] \in Int /\ s[n - i] >= 0
      BY <1>1, <1>2, <3>1
    <3> QED
      BY <3>2, <3>3, <3>4
  <2> HIDE DEF U
  <2> QED
    BY <2>1, <2>2, SetInduction
<1>5. ASSUME NEW i \in 0 .. n
      PROVE  0 <= f[i] /\ f[i] <= f[n]
  <2>1. i \in Nat /\ n - i \in Nat /\ n - i <= n /\ n - (n - i) = i /\ i <= n
    BY <1>1
  <2>2. i \in S /\ n - i \in U
    BY <1>3, <1>4, <2>1
  <2> QED
    BY <2>1, <2>2
<1> QED
  BY <1>5 DEF Total, n, f

-----------------------------------------------------------------------------
(* Lengths and rectangles.                                                  *)

RectType == [origin : SizeType, size : SizeType]
StyleOK  == {s \in StyleType : s.kind # "view" => s.content # None}

LEMMA ValuePxInt ==
    ASSUME NEW m \in Measurable, NEW c \in Int
    PROVE  ValuePx(m, c) \in Int
  BY DEF ValuePx, Measurable, Measurement

(* A length of at least zero, taken from a container that is no larger.     *)
LEMMA ValuePxGrows ==
    ASSUME NEW m \in Measurement, m.n \in Nat, NEW c \in Int, NEW d \in Int, c <= d
    PROVE  ValuePx(m, c) <= ValuePx(m, d)
<1>1. m.n * c <= m.n * d
  OBVIOUS
<1>2. m.n * c \in Int /\ m.n * d \in Int /\ m.n \in Int
  OBVIOUS
<1>3. \A x, y \in Int : x <= y => x \div 100 <= y \div 100
  OBVIOUS
<1>4. (m.n * c) \div 100 <= (m.n * d) \div 100
  BY <1>1, <1>2, <1>3
<1> QED
  BY <1>2, <1>4 DEF ValuePx

LEMMA InsetsLengths ==
    ASSUME NEW insets \in InsetsType, NEW r \in RectType
    PROVE  /\ Lead(insets, r) \in SizeType /\ Trail(insets, r) \in SizeType
           /\ Both(insets, r) \in SizeType
           /\ \A a \in Axis :
                /\ Lead(insets, r)[a] = ValuePx(insets[a][1], r.size[a])
                /\ Both(insets, r)[a] = ValuePx(insets[a][1], r.size[a])
                                          + ValuePx(insets[a][2], r.size[a])
<1>1. ASSUME NEW a \in Axis
      PROVE  ValuePx(insets[a][1], r.size[a]) \in Int /\ ValuePx(insets[a][2], r.size[a]) \in Int
  <2>1. insets[a][1] \in Measurable /\ insets[a][2] \in Measurable /\ r.size[a] \in Int
    BY DEF InsetsType, Measurable, RectType, SizeType
  <2> QED
    BY <2>1, ValuePxInt
<1>2. Lead(insets, r) \in SizeType /\ Trail(insets, r) \in SizeType
  BY <1>1 DEF Lead, Trail, SizeType
<1>3. \A a \in Axis : /\ Lead(insets, r)[a] = ValuePx(insets[a][1], r.size[a])
                      /\ Trail(insets, r)[a] = ValuePx(insets[a][2], r.size[a])
  BY DEF Lead, Trail
<1>4. Both(insets, r) \in SizeType /\
      \A a \in Axis : Both(insets, r)[a] = Lead(insets, r)[a] + Trail(insets, r)[a]
  BY <1>2 DEF Both, SizeType
<1> QED
  BY <1>2, <1>3, <1>4

LEMMA InsetRect ==
    ASSUME NEW r \in RectType, NEW insets \in InsetsType, NEW by \in RectType
    PROVE  /\ Inset(r, insets, by) \in RectType
           /\ \A a \in Axis :
                /\ Inset(r, insets, by).origin[a] = r.origin[a] + Lead(insets, by)[a]
                /\ Inset(r, insets, by).size[a] = r.size[a] - Both(insets, by)[a]
  BY InsetsLengths DEF Inset, RectType, SizeType

(* The percentage that is rounded up stays within a whole number.           *)
LEMMA CeilDivBound ==
    ASSUME NEW n \in Int, NEW d \in Nat \ {0}, NEW k \in Int, n <= k * d
    PROVE  CeilDiv(n, d) \in Int /\ CeilDiv(n, d) <= k
<1> DEFINE q == (n + d - 1) \div d
           m == (n + d - 1) % d
<1>1. q \in Int /\ m \in 0 .. d - 1 /\ n + d - 1 = d * q + m
  OBVIOUS
<1> HIDE DEF q, m
<1>2. d * q < d * (k + 1)
  BY <1>1
<1>3. q < k + 1
  BY <1>1, <1>2
<1> QED
  BY <1>1, <1>3 DEF CeilDiv, q

LEMMA AxisIs == Axis = {"x", "y"} /\ "x" \in Axis /\ "y" \in Axis
  BY DEF Axis

(* Rounding up reaches the number, and the next multiple of the divisor.    *)
LEMMA CeilDivLeast ==
    ASSUME NEW n \in Int, NEW d \in Nat \ {0}
    PROVE  /\ CeilDiv(n, d) \in Int
           /\ n <= CeilDiv(n, d) * d /\ CeilDiv(n, d) * d < n + d
           /\ (n % d = 0) => CeilDiv(n, d) * d = n
<1> DEFINE q == (n + d - 1) \div d
           m == (n + d - 1) % d
           p == n \div d
<1>1. q \in Int /\ m \in 0 .. d - 1 /\ n + d - 1 = d * q + m
  OBVIOUS
<1>2. p \in Int /\ (n % d) \in 0 .. d - 1 /\ n = d * p + (n % d)
  OBVIOUS
<1>3. CeilDiv(n, d) = q
  BY DEF CeilDiv
<1> HIDE DEF q, m, p
<1>4. d * q = q * d /\ d * q \in Int
  BY <1>1
<1>5. n <= q * d /\ q * d < n + d
  BY <1>1, <1>4
<1>6. ASSUME n % d = 0 PROVE q * d = n
  <2>1. n = d * p /\ d * p = p * d
    BY <1>2, <1>6
  <2>2. d * q < d * (p + 1) /\ d * p <= d * q
    BY <1>2, <1>4, <1>5, <2>1
  <2>3. q < p + 1 /\ p <= q
    BY <1>1, <1>2, <2>2
  <2>4. p = q
    BY <1>1, <1>2, <2>3
  <2> QED
    BY <1>4, <2>1, <2>4
<1> QED
  BY <1>1, <1>3, <1>5, <1>6

(* A length within the room there is stays within the room's pixels when    *)
(* both are rounded up, and that exceeds the room by less than one.         *)
LEMMA CeilfBound ==
    ASSUME NEW n \in Int, NEW d \in Nat \ {0}, NEW k \in Int, n <= k * d
    PROVE  /\ Ceilf(n, d) \in Int
           /\ Ceilf(n, d) < k + Pixel
           /\ k % Pixel = 0 => Ceilf(n, d) <= k
<1> DEFINE c == CeilDiv(k, Pixel)
           q == CeilDiv(n, d * Pixel)
           e == d * Pixel
<1>0. Pixel \in Nat \ {0} /\ Pixel \in Int
  BY StyleAssumption
<1>1. c \in Int /\ k <= c * Pixel /\ c * Pixel < k + Pixel /\ (k % Pixel = 0 => c * Pixel = k)
  BY <1>0, CeilDivLeast
<1> HIDE DEF c
<1>2. e \in Nat \ {0}
  BY <1>0
<1>3. n <= c * e
  <2>1. k * d <= (c * Pixel) * d
    BY <1>0, <1>1
  <2>2. (c * Pixel) * d = c * e
    BY <1>0, <1>1
  <2> HIDE DEF e
  <2>3. c * e \in Int /\ k * d \in Int
    BY <1>1, <1>2
  <2> QED
    BY <2>1, <2>2, <2>3
<1>4. q \in Int /\ q <= c
  <2>1. CeilDiv(n, e) \in Int /\ CeilDiv(n, e) <= c
    <3> HIDE DEF e
    <3> QED
      BY <1>1, <1>2, <1>3, CeilDivBound
  <2> QED
    BY <2>1
<1>5. Ceilf(n, d) = Pixel * q
  BY DEF Ceilf
<1> HIDE DEF q, e
<1>6. Pixel * q \in Int /\ Pixel * q <= Pixel * c /\ Pixel * c = c * Pixel /\ c * Pixel \in Int
  BY <1>0, <1>1, <1>4
<1>7. Pixel * q < k + Pixel
  BY <1>0, <1>1, <1>6
<1>8. ASSUME k % Pixel = 0 PROVE Pixel * q <= k
  BY <1>1, <1>6, <1>8
<1> QED
  BY <1>5, <1>6, <1>7, <1>8

(* A length that exceeds the room only in its last pixel.                   *)
Fits(n, k) == IF k % Pixel = 0 THEN n <= k ELSE n < k + Pixel

LEMMA CeilfFits ==
    ASSUME NEW n \in Int, NEW d \in Nat \ {0}, NEW k \in Int, n <= k * d
    PROVE  Ceilf(n, d) \in Int /\ Fits(Ceilf(n, d), k)
  BY CeilfBound DEF Fits

(* An image keeps to the room there is, but for its last pixel.             *)
LEMMA FittedFits ==
    ASSUME NEW own \in [Axis -> Nat \ {0}], NEW room \in SizeType
    PROVE  /\ Fitted(own, room) \in SizeType
           /\ \A a \in Axis : Fits(Fitted(own, room)[a], room[a])
<1> DEFINE ox == own["x"]
           oy == own["y"]
           rx == room["x"]
           ry == room["y"]
<1>1. ox \in Nat \ {0} /\ oy \in Nat \ {0} /\ rx \in Int /\ ry \in Int
  BY AxisIs DEF SizeType
<1>0. ASSUME NEW n \in Int, NEW k \in Int, n <= k
      PROVE  Ceilf(n, 1) \in Int /\ Fits(Ceilf(n, 1), k)
  <2>1. n <= k * 1
    BY <1>0
  <2> QED
    BY <2>1, CeilfFits
<1>2. CASE oy > ry /\ ox * ry <= rx * oy
  <2>1. Ceilf(ox * ry, oy) \in Int /\ Fits(Ceilf(ox * ry, oy), rx)
    <3> HIDE DEF ox, oy, rx, ry
    <3> QED
      BY <1>1, <1>2, CeilfFits
  <2>2. Ceilf(ry, 1) \in Int /\ Fits(Ceilf(ry, 1), ry)
    <3> HIDE DEF ry
    <3> QED
      BY <1>0, <1>1
  <2>3. Fitted(own, room) = [x |-> Ceilf(ox * ry, oy), y |-> Ceilf(ry, 1)]
    BY <1>2 DEF Fitted
  <2> QED
    BY <1>1, <2>1, <2>2, <2>3 DEF SizeType, Axis
<1>3. CASE ~(oy > ry /\ ox * ry <= rx * oy) /\ ox > rx
  <2>1. oy * rx <= ry * ox
    <3> HIDE DEF ox, oy, rx, ry
    <3>1. CASE oy > ry
      BY <1>1, <1>3, <3>1
    <3>2. CASE oy <= ry
      <4>1. oy * rx <= oy * ox
        BY <1>1, <1>3
      <4>2. oy * ox <= ry * ox
        BY <1>1, <3>2
      <4> QED
        BY <1>1, <4>1, <4>2
    <3> QED
      BY <1>1, <3>1, <3>2
  <2>2. Ceilf(oy * rx, ox) \in Int /\ Fits(Ceilf(oy * rx, ox), ry)
    <3> HIDE DEF ox, oy, rx, ry
    <3> QED
      BY <1>1, <2>1, CeilfFits
  <2>3. Ceilf(rx, 1) \in Int /\ Fits(Ceilf(rx, 1), rx)
    <3> HIDE DEF rx
    <3> QED
      BY <1>0, <1>1
  <2>4. Fitted(own, room) = [x |-> Ceilf(rx, 1), y |-> Ceilf(oy * rx, ox)]
    BY <1>3 DEF Fitted
  <2> QED
    BY <1>1, <2>2, <2>3, <2>4 DEF SizeType, Axis
<1>4. CASE ~(oy > ry /\ ox * ry <= rx * oy) /\ ox <= rx
  <2>1. oy <= ry
    <3> SUFFICES ASSUME oy > ry PROVE FALSE
      BY <1>1
    <3> HIDE DEF ox, oy, rx, ry
    <3>1. ox * ry > rx * oy
      BY <1>1, <1>4
    <3>2. rx * oy >= ox * oy
      BY <1>1, <1>4
    <3>3. ox * oy >= ox * ry
      BY <1>1
    <3> QED
      BY <1>1, <3>1, <3>2, <3>3
  <2>2. Fitted(own, room) = [a \in Axis |-> Ceilf(own[a], 1)]
    BY <1>1, <1>4 DEF Fitted
  <2>3. \A a \in Axis : own[a] \in Int /\ room[a] \in Int /\ own[a] <= room[a]
    BY <1>1, <1>4, <2>1 DEF Axis, SizeType
  <2>4. \A a \in Axis : Ceilf(own[a], 1) \in Int /\ Fits(Ceilf(own[a], 1), room[a])
    BY <1>0, <2>3
  <2> QED
    BY <2>2, <2>4 DEF SizeType
<1> QED
  BY <1>1, <1>2, <1>3, <1>4

LEMMA MeasureSize ==
    ASSUME NEW s \in StyleOK, NEW r \in RectType
    PROVE  Measure(s, r) \in SizeType
<1>1. /\ s.kind \in {"view", "image", "button"} /\ s.length \in [Axis -> Measurable]
      /\ s.padding \in InsetsType /\ r.size \in SizeType
      /\ s.kind # "view" => s.content \in [Axis -> Nat \ {0}]
  BY DEF StyleOK, StyleType, RectType
<1>2. CASE s.kind = "view"
  <2>1. \A a \in Axis : ValuePx(s.length[a], r.size[a]) \in Int
    BY <1>1, ValuePxInt DEF SizeType
  <2>2. Measure(s, r) = [a \in Axis |-> ValuePx(s.length[a], r.size[a])]
    BY <1>2 DEF Measure
  <2> QED
    BY <2>1, <2>2 DEF SizeType
<1>3. CASE s.kind = "image"
  <2>1. Measure(s, r) = Fitted(s.content, r.size)
    BY <1>3 DEF Measure
  <2> QED
    BY <1>1, <1>3, <2>1, FittedFits
<1>4. CASE s.kind = "button"
  <2>1. Both(s.padding, r) \in SizeType
    BY <1>1, InsetsLengths
  <2>2. Measure(s, r) = [a \in Axis |-> s.content[a] + Both(s.padding, r)[a]]
    BY <1>4 DEF Measure
  <2> QED
    BY <1>1, <1>4, <2>1, <2>2 DEF SizeType
<1> QED
  BY <1>1, <1>2, <1>3, <1>4

LEMMA PositionInt ==
    ASSUME NEW pos \in Measurable \union {Center}, NEW c \in Int, NEW own \in Int
    PROVE  Position(pos, c, own) \in Int
<1>1. CASE pos = None \/ pos = Center
  <2>1. (c - own) \div 2 \in Int
    OBVIOUS
  <2> QED
    BY <1>1, <2>1 DEF Position
<1>2. CASE pos # None /\ pos # Center
  BY <1>2, ValuePxInt DEF Position
<1> QED
  BY <1>1, <1>2

LEMMA PlacedRect ==
    ASSUME NEW s \in StyleOK, NEW r \in RectType, NEW sub \in RectType
    PROVE  /\ Placed(s, r, sub) \in RectType
           /\ Placed(s, r, sub).size = sub.size
           /\ \A a \in Axis : Placed(s, r, sub).origin[a]
                = sub.origin[a] + Position(s.pos[a], r.size[a], sub.size[a])
<1>1. \A a \in Axis : Position(s.pos[a], r.size[a], sub.size[a]) \in Int
  <2>1. \A a \in Axis : s.pos[a] \in Measurable \union {Center} /\ r.size[a] \in Int /\ sub.size[a] \in Int
    BY DEF StyleOK, StyleType, RectType, SizeType
  <2> QED
    BY <2>1, PositionInt
<1> DEFINE o == [a \in Axis |-> sub.origin[a] + Position(s.pos[a], r.size[a], sub.size[a])]
<1>2. o \in SizeType
  BY <1>1 DEF RectType, SizeType
<1>3. Placed(s, r, sub) = [sub EXCEPT !.origin = o]
  BY DEF Placed
<1>4. \A a \in Axis : o[a] = sub.origin[a] + Position(s.pos[a], r.size[a], sub.size[a])
  OBVIOUS
<1> HIDE DEF o
<1>5. Placed(s, r, sub).origin = o /\ Placed(s, r, sub).size = sub.size /\ Placed(s, r, sub) \in RectType
  BY <1>2, <1>3 DEF RectType
<1> QED
  BY <1>4, <1>5

LEMMA InnerRect ==
    ASSUME NEW s \in StyleOK, NEW r \in RectType
    PROVE  Inner(s, r) \in RectType
<1>1. [origin |-> [a \in Axis |-> 0], size |-> r.size] \in RectType /\ s.padding \in InsetsType
  BY DEF RectType, SizeType, StyleOK, StyleType
<1> QED
  BY <1>1, InsetRect DEF Inner

LEMMA OwnInt ==
    ASSUME NEW s \in StyleOK, NEW a \in Axis, NEW r \in RectType
    PROVE  Own(s, a, r) \in Int /\ Basis(s, a, r) \in Int
<1>1. /\ s.basis \in Int \union {None} /\ s.length[a] \in Measurable /\ s.margin \in InsetsType
      /\ r.size[a] \in Int
  BY DEF StyleOK, StyleType, RectType, SizeType
<1>2. [r EXCEPT !.size[a] = Endless] \in RectType
  BY DEF RectType, SizeType, Endless
<1>3. ValuePx(s.length[a], r.size[a]) \in Int
  BY <1>1, ValuePxInt
<1>4. Measure(s, [r EXCEPT !.size[a] = Endless])[a] \in Int
  BY <1>2, MeasureSize DEF SizeType
<1>5. Own(s, a, r) \in Int
  BY <1>1, <1>3, <1>4 DEF Own
<1>6. Both(s.margin, r)[a] \in Int
  BY <1>1, InsetsLengths DEF SizeType
<1> QED
  BY <1>5, <1>6 DEF Basis

-----------------------------------------------------------------------------
(* The distribution of the main axis.                                       *)

LEMMA KidsSeq ==
    ASSUME NEW kids \in Seq(StyleOK), NEW f \in [DOMAIN kids -> Int]
    PROVE  /\ f \in Seq(Int) /\ Len(f) = Len(kids) /\ DOMAIN kids = 1 .. Len(kids)
           /\ Len(kids) \in Nat
  OBVIOUS

LEMMA DiffInt ==
    ASSUME NEW kids \in Seq(StyleOK), NEW a \in Axis, NEW r \in RectType
    PROVE  /\ Bases(kids, a, r) \in [DOMAIN kids -> Int]
           /\ Total(Bases(kids, a, r)) \in Int
           /\ Diff(kids, a, r) \in Int
           /\ Diff(kids, a, r) = r.size[a] - Total(Bases(kids, a, r))
<1>1. \A i \in DOMAIN kids : kids[i] \in StyleOK
  OBVIOUS
<1>2. Bases(kids, a, r) \in [DOMAIN kids -> Int]
  BY <1>1, OwnInt DEF Bases
<1>3. Total(Bases(kids, a, r)) \in Int
  BY <1>2, KidsSeq, TotalInt
<1>4. r.size[a] \in Int
  BY DEF RectType, SizeType
<1> QED
  BY <1>2, <1>3, <1>4 DEF Diff

LEMMA WeightsInt ==
    ASSUME NEW kids \in Seq(StyleOK), NEW d \in Int
    PROVE  Weights(kids, d) \in [DOMAIN kids -> Int] /\ Total(Weights(kids, d)) \in Int
<1>1. \A i \in DOMAIN kids : kids[i].grow \in Int /\ kids[i].shrink \in Int
  BY DEF StyleOK, StyleType
<1>2. Weights(kids, d) \in [DOMAIN kids -> Int]
  BY <1>1 DEF Weights
<1> QED
  BY <1>2, KidsSeq, TotalInt

(* The part of a difference that a weight of a total stands for.            *)
Part(w, d, total) == IF total > 0 THEN (w * d) \div total ELSE 0

LEMMA PartInt ==
    ASSUME NEW w \in Int, NEW d \in Int, NEW total \in Int
    PROVE  /\ Part(w, d, total) \in Int
           /\ total > 0 => /\ (w * d) % total \in Int /\ (w * d) % total >= 0
                           /\ total * Part(w, d, total) + ((w * d) % total) = d * w
           /\ d >= 0 /\ w >= 0 => Part(w, d, total) >= 0
<1> DEFINE x == w * d
<1>1. x \in Int /\ d * w = x /\ (d >= 0 /\ w >= 0 => x >= 0)
  OBVIOUS
<1> HIDE DEF x
<1>2. CASE total > 0
  <2>1. /\ x \div total \in Int /\ x % total \in 0 .. total - 1
        /\ x = total * (x \div total) + (x % total)
    BY <1>1, <1>2
  <2>2. x >= 0 => x \div total >= 0
    BY <1>1, <1>2, <2>1
  <2> QED
    BY <1>1, <1>2, <2>1, <2>2 DEF Part, x
<1>3. CASE ~(total > 0)
  BY <1>3 DEF Part
<1> QED
  BY <1>2, <1>3

LEMMA SharesAre ==
    ASSUME NEW kids \in Seq(StyleOK), NEW a \in Axis, NEW r \in RectType
    PROVE  LET d == Diff(kids, a, r)
               w == Weights(kids, d)
           IN  /\ Shares(kids, a, r) \in [DOMAIN kids -> Int]
               /\ \A i \in DOMAIN kids :
                    Shares(kids, a, r)[i] = Basis(kids[i], a, r) + Part(w[i], d, Total(w))
<1> DEFINE d == Diff(kids, a, r)
           w == Weights(kids, d)
<1>1. d \in Int /\ w \in [DOMAIN kids -> Int] /\ Total(w) \in Int
  BY DiffInt, WeightsInt
<1>2. \A i \in DOMAIN kids : Basis(kids[i], a, r) \in Int
  BY OwnInt
<1>3. \A i \in DOMAIN kids : Part(w[i], d, Total(w)) \in Int
  BY <1>1, PartInt
<1>4. Shares(kids, a, r) = [i \in DOMAIN kids |-> Basis(kids[i], a, r) + Part(w[i], d, Total(w))]
  BY DEF Shares, Part
<1> HIDE DEF d, w
<1>5. /\ Shares(kids, a, r) \in [DOMAIN kids -> Int]
      /\ \A i \in DOMAIN kids :
           Shares(kids, a, r)[i] = Basis(kids[i], a, r) + Part(w[i], d, Total(w))
  BY <1>2, <1>3, <1>4
<1> QED
  BY <1>5 DEF d, w

(* The shares add up to the container, but for what the divisions dropped.  *)
Dropped(kids, a, r) ==
    LET d == Diff(kids, a, r)
        w == Weights(kids, d)
    IN  [i \in DOMAIN kids |-> (w[i] * d) % Total(w)]

LEMMA SharesTotal ==
    ASSUME NEW kids \in Seq(StyleOK), NEW a \in Axis, NEW r \in RectType,
           Total(Weights(kids, Diff(kids, a, r))) > 0
    PROVE  LET W == Total(Weights(kids, Diff(kids, a, r)))
           IN  /\ Dropped(kids, a, r) \in [DOMAIN kids -> Int]
               /\ \A i \in DOMAIN kids : Dropped(kids, a, r)[i] >= 0
               /\ Total(Dropped(kids, a, r)) \in Int
               /\ Total(Shares(kids, a, r)) \in Int
               /\ W * (r.size[a] - Total(Shares(kids, a, r))) = Total(Dropped(kids, a, r))
<1> DEFINE d    == Diff(kids, a, r)
           w    == Weights(kids, d)
           W    == Total(w)
           q    == [i \in DOMAIN kids |-> Part(w[i], d, W)]
           Wq   == [i \in DOMAIN kids |-> W * q[i]]
           rest == Dropped(kids, a, r)
           wd   == [i \in DOMAIN kids |-> d * w[i]]
           b    == Bases(kids, a, r)
           sh   == Shares(kids, a, r)
<1>1. /\ d \in Int /\ w \in [DOMAIN kids -> Int] /\ W \in Int /\ W > 0
      /\ b \in [DOMAIN kids -> Int] /\ Total(b) \in Int /\ d = r.size[a] - Total(b)
  BY DiffInt, WeightsInt
<1>2. sh \in [DOMAIN kids -> Int] /\ \A i \in DOMAIN kids : sh[i] = b[i] + q[i]
  <2>1. /\ sh \in [DOMAIN kids -> Int]
        /\ \A i \in DOMAIN kids : sh[i] = Basis(kids[i], a, r) + Part(w[i], d, W)
    BY SharesAre
  <2>2. \A i \in DOMAIN kids : b[i] = Basis(kids[i], a, r)
    BY DEF Bases
  <2> HIDE DEF d, w, W, b, sh
  <2> QED
    BY <2>1, <2>2
<1>3. rest = [i \in DOMAIN kids |-> (w[i] * d) % W]
  BY DEF Dropped
<1>4. r.size[a] \in Int
  BY DEF RectType, SizeType
<1> HIDE DEF d, w, W, rest, b, sh
<1>5. \A i \in DOMAIN kids :
        /\ Part(w[i], d, W) \in Int /\ (w[i] * d) % W \in Int /\ (w[i] * d) % W >= 0
        /\ W * Part(w[i], d, W) + ((w[i] * d) % W) = d * w[i]
  BY <1>1, PartInt
<1>6. /\ q \in [DOMAIN kids -> Int] /\ rest \in [DOMAIN kids -> Int]
      /\ \A i \in DOMAIN kids : rest[i] >= 0
  BY <1>3, <1>5
<1>7. Wq \in [DOMAIN kids -> Int] /\ wd \in [DOMAIN kids -> Int]
  <2>1. \A i \in DOMAIN kids : W * q[i] \in Int /\ d * w[i] \in Int
    BY <1>1, <1>6
  <2> QED
    BY <2>1
<1>8. \A i \in DOMAIN kids : wd[i] = Wq[i] + rest[i] /\ Wq[i] = W * q[i] /\ wd[i] = d * w[i]
  BY <1>3, <1>5
<1> HIDE DEF q, Wq, wd
<1>9. \A f \in {b, q, sh, w, Wq, rest, wd} :
        /\ f \in Seq(Int) /\ Len(f) = Len(kids) /\ DOMAIN kids = 1 .. Len(kids)
        /\ Total(f) \in Int
  <2>1. \A f \in {b, q, sh, w, Wq, rest, wd} : f \in [DOMAIN kids -> Int]
    BY <1>1, <1>2, <1>6, <1>7
  <2> QED
    BY <2>1, KidsSeq, TotalInt
<1>10. Total(sh) = Total(b) + Total(q)
  <2>1. /\ b \in Seq(Int) /\ q \in Seq(Int) /\ sh \in Seq(Int)
        /\ Len(b) = Len(sh) /\ Len(q) = Len(sh)
        /\ \A i \in 1 .. Len(sh) : sh[i] = b[i] + q[i]
    BY <1>2, <1>9
  <2> QED
    BY <2>1, TotalAdd
<1>11. Total(wd) = Total(Wq) + Total(rest)
  <2>1. /\ Wq \in Seq(Int) /\ rest \in Seq(Int) /\ wd \in Seq(Int)
        /\ Len(Wq) = Len(wd) /\ Len(rest) = Len(wd)
        /\ \A i \in 1 .. Len(wd) : wd[i] = Wq[i] + rest[i]
    BY <1>8, <1>9
  <2> QED
    BY <2>1, TotalAdd
<1>12. Total(Wq) = W * Total(q)
  <2>1. /\ q \in Seq(Int) /\ Wq \in Seq(Int) /\ Len(q) = Len(Wq)
        /\ \A i \in 1 .. Len(Wq) : Wq[i] = W * q[i]
    BY <1>8, <1>9
  <2> QED
    BY <1>1, <2>1, TotalScale
<1>13. Total(wd) = d * W
  <2>0. /\ w \in Seq(Int) /\ wd \in Seq(Int) /\ Len(w) = Len(wd)
        /\ \A i \in 1 .. Len(wd) : wd[i] = d * w[i]
    BY <1>8, <1>9
  <2>1. Total(wd) = d * Total(w)
    BY <1>1, <2>0, TotalScale
  <2> QED
    BY <2>1 DEF W
<1>14. W * (r.size[a] - Total(sh)) = Total(rest)
  <2>1. Total(b) \in Int /\ Total(q) \in Int /\ Total(rest) \in Int
    BY <1>9
  <2>2. r.size[a] - Total(sh) = d - Total(q)
    BY <1>1, <1>4, <1>10, <2>1
  <2>3. W * (d - Total(q)) = d * W - W * Total(q)
    BY <1>1, <2>1
  <2>4. d * W \in Int /\ W * Total(q) \in Int
    BY <1>1, <2>1
  <2> QED
    BY <1>11, <1>12, <1>13, <2>1, <2>2, <2>3, <2>4
<1> QED
  BY <1>6, <1>9, <1>14 DEF W, w, d, rest, sh

-----------------------------------------------------------------------------
(* The loop over the subviews of a row or a column.                         *)

LEMMA FlexRectIs ==
    ASSUME NEW s \in StyleOK, NEW a \in Axis, NEW share \in Int, NEW left \in RectType
    PROVE  /\ FlexRect(s, a, share, left) \in RectType
           /\ FlexRect(s, a, share, left).size[a] = share - Both(s.margin, left)[a]
           /\ \A b \in Axis :
                /\ b # a => FlexRect(s, a, share, left).size[b] = left.size[b] - Both(s.margin, left)[b]
                /\ FlexRect(s, a, share, left).origin[b]
                     = left.origin[b] + Lead(s.margin, left)[b]
                         + Position(s.pos[b], left.size[b], FlexRect(s, a, share, left).size[b])
<1> DEFINE l == [left EXCEPT !.size[a] = share]
           i == Inset(l, s.margin, left)
<1>1. /\ l \in RectType /\ l.origin = left.origin /\ l.size[a] = share
      /\ \A b \in Axis : b # a => l.size[b] = left.size[b]
  BY DEF RectType, SizeType
<1>2. s.margin \in InsetsType
  BY DEF StyleOK, StyleType
<1> HIDE DEF l
<1>3. /\ i \in RectType
      /\ \A b \in Axis : /\ i.origin[b] = l.origin[b] + Lead(s.margin, left)[b]
                         /\ i.size[b] = l.size[b] - Both(s.margin, left)[b]
  BY <1>1, <1>2, InsetRect
<1>4. FlexRect(s, a, share, left) = Placed(s, left, i)
  BY DEF FlexRect, l
<1> HIDE DEF i
<1>5. /\ Placed(s, left, i) \in RectType /\ Placed(s, left, i).size = i.size
      /\ \A b \in Axis : Placed(s, left, i).origin[b]
                           = i.origin[b] + Position(s.pos[b], left.size[b], i.size[b])
  BY <1>3, PlacedRect
<1> QED
  BY <1>1, <1>3, <1>4, <1>5

LEMMA FlexAdvanceIs ==
    ASSUME NEW sub \in RectType, NEW a \in Axis, NEW left \in RectType
    PROVE  /\ FlexAdvance(sub, a, left) \in RectType
           /\ FlexAdvance(sub, a, left).origin[a] = left.origin[a] + sub.size[a]
           /\ FlexAdvance(sub, a, left).size[a] = left.size[a] - sub.size[a]
           /\ \A b \in Axis : b # a => /\ FlexAdvance(sub, a, left).origin[b] = left.origin[b]
                                       /\ FlexAdvance(sub, a, left).size[b] = left.size[b]
  BY DEF FlexAdvance, RectType, SizeType

(* What the loop leaves after a subview, as a function of what it found.    *)
LEMMA RoomsRecursion ==
    ASSUME NEW kids \in Seq(StyleOK), NEW a \in Axis, NEW shares \in [DOMAIN kids -> Int],
           NEW inner \in RectType
    PROVE  LET room == Rooms(kids, a, shares, inner)
           IN  /\ room \in [DOMAIN kids -> RectType]
               /\ 1 \in DOMAIN kids => room[1] = inner
               /\ \A i \in Nat : i >= 1 /\ i + 1 \in DOMAIN kids
                    => room[i + 1] = FlexAdvance(FlexRect(kids[i], a, shares[i], room[i]), a, room[i])
<1> DEFINE D     == DOMAIN kids
           After(i, left) == FlexAdvance(FlexRect(kids[i], a, shares[i], left), a, left)
           first == [i \in D |-> inner]
           par   == [i \in D |-> IF i = 1 THEN 1 ELSE i - 1]
           step  == [p \in D \X RectType |-> After(par[p[1]], p[2])]
           rank  == [i \in D |-> i]
           Def(f) == [i \in DOMAIN kids |-> IF i = 1 THEN inner ELSE After(i - 1, f[i - 1])]
<1>1. Len(kids) \in Nat /\ D = 1 .. Len(kids) /\ \A i \in D : kids[i] \in StyleOK /\ shares[i] \in Int
  OBVIOUS
<1>2. ASSUME NEW i \in D, NEW left \in RectType
      PROVE  After(i, left) \in RectType
  BY <1>1, FlexRectIs, FlexAdvanceIs
<1> HIDE DEF After
<1>3. par \in [D -> D] /\ first \in [D -> RectType] /\ rank \in [D -> 0 .. Len(kids)]
  BY <1>1
<1>4. \A i \in D : i \notin {1} => rank[par[i]] < rank[i]
  BY <1>1
<1>5. step \in [D \X RectType -> RectType]
  BY <1>2, <1>3
<1>6. PICK f \in [D -> RectType] : \A i \in D : Follows(f, i, {1}, first, step, par)
  <2>1. Len(kids) \in Nat
    OBVIOUS
  <2> HIDE DEF D, first, step, par, rank
  <2> QED
    BY <1>3, <1>4, <1>5, <2>1, RecursiveFunction
<1>7. ASSUME NEW i \in D
      PROVE  f[i] = IF i = 1 THEN inner ELSE After(i - 1, f[i - 1])
  <2>1. f[i] = IF i \in {1} THEN first[i] ELSE step[<<i, f[par[i]]>>]
    BY <1>6 DEF Follows
  <2>2. CASE i = 1
    BY <2>1, <2>2
  <2>3. CASE i # 1
    <3>1. par[i] = i - 1 /\ i - 1 \in D
      BY <1>1, <2>3
    <3>2. <<i, f[i - 1]>> \in D \X RectType
      BY <3>1
    <3>3. step[<<i, f[i - 1]>>] = After(par[i], f[i - 1])
      BY <3>2
    <3> QED
      BY <2>1, <2>3, <3>1, <3>3
  <2> QED
    BY <2>2, <2>3
<1>8. f = Def(f)
  BY <1>7
<1>9. Rooms(kids, a, shares, inner) = CHOOSE g : g = Def(g)
  BY DEF Rooms, After
<1>10. Rooms(kids, a, shares, inner) = Def(Rooms(kids, a, shares, inner))
  <2> HIDE DEF Def
  <2> QED
    BY <1>8, <1>9, Zenon
<1> DEFINE room == Rooms(kids, a, shares, inner)
<1> HIDE DEF room
<1>11. room = Def(room)
  BY <1>10 DEF room
<1>12. \A i \in D : room[i] = IF i = 1 THEN inner ELSE After(i - 1, room[i - 1])
  BY <1>11
<1>13. ASSUME NEW i \in D
       PROVE  room[i] = f[i]
  <2> DEFINE S == {k \in Nat : k + 1 \in D => room[k + 1] = f[k + 1]}
  <2>1. 0 \in S
    <3>1. 1 \in D => room[1] = inner /\ f[1] = inner
      BY <1>7, <1>12
    <3>2. 0 \in Nat /\ 0 + 1 = 1
      OBVIOUS
    <3> QED
      BY <3>1, <3>2
  <2>2. ASSUME NEW k \in Nat, k \in S
        PROVE  k + 1 \in S
    <3> SUFFICES ASSUME k + 1 + 1 \in D PROVE room[k + 1 + 1] = f[k + 1 + 1]
      OBVIOUS
    <3>1. k + 1 \in D /\ k + 1 + 1 # 1 /\ k + 1 + 1 - 1 = k + 1
      BY <1>1
    <3>2. room[k + 1] = f[k + 1]
      BY <2>2, <3>1
    <3>3. room[k + 1 + 1] = After(k + 1, room[k + 1]) /\ f[k + 1 + 1] = After(k + 1, f[k + 1])
      BY <1>7, <1>12, <3>1
    <3> QED
      BY <3>2, <3>3
  <2>3. \A k \in Nat : k \in S
    <3> HIDE DEF S
    <3> QED
      BY <2>1, <2>2, SetInduction
  <2>4. i - 1 \in Nat /\ i - 1 + 1 = i
    BY <1>1
  <2> QED
    BY <2>3, <2>4
<1>14. room \in [DOMAIN kids -> RectType]
  BY <1>11, <1>13
<1>15. 1 \in DOMAIN kids => room[1] = inner
  BY <1>12
<1>16. ASSUME NEW i \in Nat, i >= 1, i + 1 \in DOMAIN kids
       PROVE  room[i + 1] = FlexAdvance(FlexRect(kids[i], a, shares[i], room[i]), a, room[i])
  <2>1. i + 1 # 1 /\ i + 1 - 1 = i
    BY <1>16
  <2>2. room[i + 1] = After(i, room[i])
    BY <1>12, <1>16, <2>1
  <2> QED
    BY <2>2 DEF After
<1> QED
  BY <1>14, <1>15, <1>16 DEF room

LEMMA FlexRectsAre ==
    ASSUME NEW kids \in Seq(StyleOK), NEW a \in Axis, NEW inner \in RectType
    PROVE  LET shares == Shares(kids, a, inner)
               room   == Rooms(kids, a, shares, inner)
           IN  /\ FlexRects(kids, a, inner) \in [DOMAIN kids -> RectType]
               /\ \A i \in DOMAIN kids :
                    FlexRects(kids, a, inner)[i] = FlexRect(kids[i], a, shares[i], room[i])
<1> DEFINE shares == Shares(kids, a, inner)
           room   == Rooms(kids, a, shares, inner)
<1>1. shares \in [DOMAIN kids -> Int]
  BY SharesAre
<1>2. room \in [DOMAIN kids -> RectType]
  BY <1>1, RoomsRecursion
<1>3. FlexRects(kids, a, inner) = [i \in DOMAIN kids |-> FlexRect(kids[i], a, shares[i], room[i])]
  BY DEF FlexRects
<1> HIDE DEF shares, room
<1>4. \A i \in DOMAIN kids : FlexRect(kids[i], a, shares[i], room[i]) \in RectType
  BY <1>1, <1>2, FlexRectIs
<1>5. /\ FlexRects(kids, a, inner) \in [DOMAIN kids -> RectType]
      /\ \A i \in DOMAIN kids :
           FlexRects(kids, a, inner)[i] = FlexRect(kids[i], a, shares[i], room[i])
  BY <1>3, <1>4
<1> QED
  BY <1>5 DEF shares, room

(* Margins in pixels are the same wherever they are read.                   *)
LEMMA FixedMargins ==
    ASSUME NEW insets \in InsetsType, Fixed(insets), NEW r \in RectType, NEW t \in RectType,
           NEW a \in Axis
    PROVE  Both(insets, r)[a] = Both(insets, t)[a]
<1>1. /\ insets[a][1].unit = "px" /\ insets[a][2].unit = "px"
  BY DEF Fixed
<1>2. \A c, d : /\ ValuePx(insets[a][1], c) = ValuePx(insets[a][1], d)
                /\ ValuePx(insets[a][2], c) = ValuePx(insets[a][2], d)
  BY <1>1 DEF ValuePx
<1> QED
  BY <1>2, InsetsLengths

LEMMA FlexFills ==
    ASSUME NEW kids \in Seq(StyleOK), NEW a \in Axis, NEW inner \in RectType
    PROVE  Fills(a, inner, kids, FlexRects(kids, a, inner))
<1> DEFINE shares == Shares(kids, a, inner)
           room   == Rooms(kids, a, shares, inner)
           rects  == FlexRects(kids, a, inner)
           diff   == Diff(kids, a, inner)
           w      == Weights(kids, diff)
           used   == [i \in DOMAIN kids |-> rects[i].size[a] + Both(kids[i].margin, inner)[a]]
<1> SUFFICES ASSUME Total(w) > 0, \A i \in DOMAIN kids : Fixed(kids[i].margin)
             PROVE  Total(w) * (inner.size[a] - Total(used))
                      = Total([i \in DOMAIN kids |-> (w[i] * diff) % Total(w)])
  BY DEF Fills
<1>1. shares \in [DOMAIN kids -> Int]
  BY SharesAre
<1>2. room \in [DOMAIN kids -> RectType]
  BY <1>1, RoomsRecursion
<1>3. \A i \in DOMAIN kids : rects[i] = FlexRect(kids[i], a, shares[i], room[i])
  BY FlexRectsAre
<1>4. used = shares
  <2> HIDE DEF shares, room, rects
  <2>1. ASSUME NEW i \in DOMAIN kids
        PROVE  used[i] = shares[i]
    <3>1. kids[i] \in StyleOK /\ kids[i].margin \in InsetsType /\ shares[i] \in Int /\ room[i] \in RectType
      BY <1>1, <1>2 DEF StyleOK, StyleType
    <3>2. rects[i].size[a] = shares[i] - Both(kids[i].margin, room[i])[a]
      BY <1>3, <3>1, FlexRectIs
    <3>3. Both(kids[i].margin, room[i])[a] = Both(kids[i].margin, inner)[a]
      BY <3>1, FixedMargins
    <3>4. Both(kids[i].margin, inner)[a] \in Int
      BY <3>1, InsetsLengths DEF SizeType
    <3> QED
      BY <3>1, <3>2, <3>3, <3>4
  <2> QED
    BY <1>1, <2>1
<1>5. Total(w) * (inner.size[a] - Total(shares)) = Total(Dropped(kids, a, inner))
  BY SharesTotal
<1> QED
  BY <1>4, <1>5 DEF Dropped

(* The style sheets the theorem on room is about: no weight and no margin    *)
(* is negative.                                                             *)
NaturalInsets(insets) == \A a \in Axis, j \in 1 .. 2 : insets[a][j].n \in Nat
NaturalStyle(s)       == s.grow \in Nat /\ NaturalInsets(s.margin)

LEMMA MarginsShrink ==
    ASSUME NEW insets \in InsetsType, NaturalInsets(insets), NEW r \in RectType, NEW t \in RectType,
           NEW a \in Axis, r.size[a] <= t.size[a]
    PROVE  Both(insets, r)[a] <= Both(insets, t)[a]
<1>1. /\ insets[a][1] \in Measurement /\ insets[a][2] \in Measurement
      /\ insets[a][1].n \in Nat /\ insets[a][2].n \in Nat
      /\ r.size[a] \in Int /\ t.size[a] \in Int
  BY DEF InsetsType, NaturalInsets, RectType, SizeType
<1>2. /\ ValuePx(insets[a][1], r.size[a]) <= ValuePx(insets[a][1], t.size[a])
      /\ ValuePx(insets[a][2], r.size[a]) <= ValuePx(insets[a][2], t.size[a])
  BY <1>1, ValuePxGrows
<1>3. \A j \in 1 .. 2 : /\ ValuePx(insets[a][j], r.size[a]) \in Int
                        /\ ValuePx(insets[a][j], t.size[a]) \in Int
  BY <1>1, ValuePxInt DEF Measurable
<1> QED
  BY <1>2, <1>3, InsetsLengths

LEMMA FlexKeepsOwn ==
    ASSUME NEW kids \in Seq(StyleOK), NEW a \in Axis, NEW inner \in RectType,
           \A i \in DOMAIN kids : NaturalStyle(kids[i])
    PROVE  KeepsOwn(a, inner, kids, FlexRects(kids, a, inner))
<1> DEFINE shares == Shares(kids, a, inner)
           room   == Rooms(kids, a, shares, inner)
           rects  == FlexRects(kids, a, inner)
           diff   == Diff(kids, a, inner)
           w      == Weights(kids, diff)
           own(i) == Own(kids[i], a, inner)
<1> SUFFICES ASSUME diff >= 0, \A i \in DOMAIN kids : own(i) >= 0
             PROVE  \A i \in DOMAIN kids : rects[i].size[a] >= own(i)
  BY DEF KeepsOwn
<1>1. shares \in [DOMAIN kids -> Int] /\ \A i \in DOMAIN kids :
        shares[i] = Basis(kids[i], a, inner) + Part(w[i], diff, Total(w))
  BY SharesAre
<1>2. diff \in Int /\ w \in [DOMAIN kids -> Int] /\ Total(w) \in Int
  BY DiffInt, WeightsInt
<1>3. \A i \in DOMAIN kids : w[i] >= 0
  BY DEF Weights, NaturalStyle
<1>4. /\ room \in [DOMAIN kids -> RectType]
      /\ 1 \in DOMAIN kids => room[1] = inner
      /\ \A i \in Nat : i >= 1 /\ i + 1 \in DOMAIN kids
           => room[i + 1] = FlexAdvance(FlexRect(kids[i], a, shares[i], room[i]), a, room[i])
  <2> HIDE DEF shares
  <2> QED
    BY <1>1, RoomsRecursion
<1>5. \A i \in DOMAIN kids : rects[i] = FlexRect(kids[i], a, shares[i], room[i])
  BY FlexRectsAre
<1>6. \A i \in DOMAIN kids : Part(w[i], diff, Total(w)) \in Int /\ Part(w[i], diff, Total(w)) >= 0
  <2> HIDE DEF w, diff
  <2> QED
    BY <1>2, <1>3, PartInt
<1> HIDE DEF shares, room, rects, diff, w
<1>7. inner.size[a] \in Int /\ Len(kids) \in Nat /\ DOMAIN kids = 1 .. Len(kids)
  BY DEF RectType, SizeType
<1>8. ASSUME NEW i \in DOMAIN kids, room[i].size[a] <= inner.size[a]
      PROVE  rects[i] \in RectType /\ rects[i].size[a] \in Int /\ rects[i].size[a] >= own(i)
  <2>1. /\ kids[i] \in StyleOK /\ kids[i].margin \in InsetsType /\ NaturalInsets(kids[i].margin)
        /\ shares[i] \in Int /\ room[i] \in RectType
    BY <1>1, <1>4 DEF StyleOK, StyleType, NaturalStyle
  <2>2. Both(kids[i].margin, room[i])[a] <= Both(kids[i].margin, inner)[a]
    BY <1>8, <2>1, MarginsShrink
  <2>3. Both(kids[i].margin, room[i])[a] \in Int /\ Both(kids[i].margin, inner)[a] \in Int
    BY <2>1, InsetsLengths DEF SizeType
  <2>4. rects[i] \in RectType /\ rects[i].size[a] = shares[i] - Both(kids[i].margin, room[i])[a]
    BY <1>5, <2>1, FlexRectIs
  <2>5. shares[i] = own(i) + Both(kids[i].margin, inner)[a] + Part(w[i], diff, Total(w))
    BY <1>1 DEF Basis
  <2>6. own(i) \in Int
    BY <2>1, OwnInt
  <2> HIDE DEF own
  <2>7. rects[i].size[a] \in Int
    BY <2>1, <2>3, <2>4
  <2> QED
    BY <1>6, <2>2, <2>3, <2>4, <2>5, <2>6, <2>7
<1> DEFINE S == {k \in Nat : k + 1 \in DOMAIN kids => room[k + 1].size[a] <= inner.size[a]}
<1>9. 0 \in S
  <2>1. 0 \in Nat /\ 0 + 1 = 1
    OBVIOUS
  <2> QED
    BY <1>4, <1>7, <2>1
<1>10. ASSUME NEW k \in Nat, k \in S
       PROVE  k + 1 \in S
  <2> SUFFICES ASSUME k + 1 + 1 \in DOMAIN kids
               PROVE  room[k + 1 + 1].size[a] <= inner.size[a]
    OBVIOUS
  <2>1. k + 1 \in DOMAIN kids /\ k + 1 \in Nat /\ k + 1 >= 1
    BY <1>7
  <2>2. room[k + 1].size[a] <= inner.size[a] /\ room[k + 1] \in RectType
    BY <1>4, <1>10, <2>1
  <2>3. rects[k + 1] \in RectType /\ rects[k + 1].size[a] \in Int /\ rects[k + 1].size[a] >= 0
    <3>1. own(k + 1) \in Int /\ own(k + 1) >= 0
      BY <2>1, OwnInt
    <3> QED
      BY <1>8, <2>1, <2>2, <3>1
  <2>4. room[k + 1 + 1] = FlexAdvance(rects[k + 1], a, room[k + 1])
    BY <1>4, <1>5, <2>1
  <2>5. room[k + 1 + 1].size[a] = room[k + 1].size[a] - rects[k + 1].size[a]
    BY <2>2, <2>3, <2>4, FlexAdvanceIs
  <2>6. room[k + 1].size[a] \in Int
    BY <2>2 DEF RectType, SizeType
  <2> QED
    BY <1>7, <2>2, <2>3, <2>5, <2>6
<1>11. \A k \in Nat : k \in S
  <2> HIDE DEF S
  <2> QED
    BY <1>9, <1>10, SetInduction
<1>12. ASSUME NEW i \in DOMAIN kids
       PROVE  rects[i].size[a] >= own(i)
  <2>1. i - 1 \in Nat /\ i - 1 + 1 = i
    BY <1>7
  <2>2. room[i].size[a] <= inner.size[a]
    BY <1>11, <2>1
  <2> QED
    BY <1>8, <2>2
<1> QED
  BY <1>12

LEMMA NoMargins ==
    ASSUME NEW s \in StyleOK, Marginless(s), NEW r \in RectType, NEW a \in Axis
    PROVE  Lead(s.margin, r)[a] = 0 /\ Both(s.margin, r)[a] = 0
<1>1. s.margin \in InsetsType /\ r.size[a] \in Int
  BY DEF StyleOK, StyleType, RectType, SizeType
<1>2. /\ s.margin[a][1] \in Measurement /\ s.margin[a][2] \in Measurement
      /\ s.margin[a][1].n = 0 /\ s.margin[a][2].n = 0
  BY <1>1 DEF InsetsType, Marginless
<1>3. \A m \in Measurement : m.n = 0 => ValuePx(m, r.size[a]) = 0
  <2>1. 0 * r.size[a] = 0 /\ 0 \div 100 = 0
    BY <1>1
  <2> QED
    BY <2>1 DEF ValuePx
<1> QED
  BY <1>1, <1>2, <1>3, InsetsLengths

LEMMA FlexKeepsInside ==
    ASSUME NEW kids \in Seq(StyleOK), NEW a \in Axis, NEW inner \in RectType
    PROVE  KeepsInside(a, inner, kids, FlexRects(kids, a, inner))
<1> DEFINE shares == Shares(kids, a, inner)
           room   == Rooms(kids, a, shares, inner)
           rects  == FlexRects(kids, a, inner)
           diff   == Diff(kids, a, inner)
           w      == Weights(kids, diff)
<1>1. shares \in [DOMAIN kids -> Int] /\ shares \in Seq(Int) /\ Len(shares) = Len(kids)
  BY SharesAre, KidsSeq
<1>2. /\ room \in [DOMAIN kids -> RectType]
      /\ 1 \in DOMAIN kids => room[1] = inner
      /\ \A i \in Nat : i >= 1 /\ i + 1 \in DOMAIN kids
           => room[i + 1] = FlexAdvance(FlexRect(kids[i], a, shares[i], room[i]), a, room[i])
  <2> HIDE DEF shares
  <2> QED
    BY <1>1, RoomsRecursion
<1>3. \A i \in DOMAIN kids : rects[i] = FlexRect(kids[i], a, shares[i], room[i])
  BY FlexRectsAre
<1> SUFFICES ASSUME Total([i \in DOMAIN kids |-> kids[i].grow]) > 0,
                    Total([i \in DOMAIN kids |-> kids[i].shrink]) > 0,
                    \A i \in DOMAIN kids :
                      Bare(kids[i]) /\ Marginless(kids[i]) /\ rects[i].size[a] >= 0
             PROVE  \A i \in DOMAIN kids : Inside(rects[i], inner)
  BY DEF KeepsInside
<1>4. Total(w) > 0 /\ Total(w) \in Int
  <2>1. diff \in Int
    BY DiffInt
  <2>2. CASE diff >= 0
    <3>1. w = [i \in DOMAIN kids |-> kids[i].grow]
      BY <2>2 DEF Weights
    <3> QED
      BY <2>1, <3>1, WeightsInt
  <2>3. CASE ~(diff >= 0)
    <3>1. w = [i \in DOMAIN kids |-> kids[i].shrink]
      BY <2>3 DEF Weights
    <3> QED
      BY <2>1, <3>1, WeightsInt
  <2> QED
    BY <2>2, <2>3
<1>5. Total(shares) \in Int /\ Total(shares) <= inner.size[a]
  <2> DEFINE rest == Dropped(kids, a, inner)
  <2>1. /\ rest \in [DOMAIN kids -> Int] /\ \A i \in DOMAIN kids : rest[i] >= 0
        /\ Total(rest) \in Int /\ Total(shares) \in Int
        /\ Total(w) * (inner.size[a] - Total(shares)) = Total(rest)
    BY <1>4, SharesTotal
  <2> HIDE DEF rest
  <2>2. rest \in Seq(Int) /\ Len(rest) \in Nat /\ \A i \in 1 .. Len(rest) : rest[i] >= 0
    BY <2>1, KidsSeq
  <2>3. Total(rest) >= 0
    <3>1. 0 \in 0 .. Len(rest)
      BY <2>2
    <3>2. Sums(rest)[0] \in Int /\ 0 <= Sums(rest)[0] /\ Sums(rest)[0] <= Total(rest)
      BY <2>2, <3>1, SumsGrow, TotalInt
    <3> QED
      BY <2>1, <3>2
  <2>4. inner.size[a] \in Int
    BY DEF RectType, SizeType
  <2>5. \A W, x \in Int : W > 0 /\ W * x >= 0 => x >= 0
    OBVIOUS
  <2> HIDE DEF w, shares
  <2>6. inner.size[a] - Total(shares) >= 0
    <3>1. inner.size[a] - Total(shares) \in Int
      BY <2>1, <2>4
    <3> QED
      BY <1>4, <2>1, <2>3, <2>5, <3>1
  <2> QED
    BY <2>1, <2>4, <2>6
<1> HIDE DEF shares, room, rects, diff, w
<1>6. /\ inner.origin \in [Axis -> Int] /\ inner.size \in [Axis -> Int]
      /\ Len(kids) \in Nat /\ DOMAIN kids = 1 .. Len(kids)
  BY DEF RectType, SizeType
<1>7. ASSUME NEW i \in DOMAIN kids
      PROVE  /\ rects[i] \in RectType /\ rects[i].size[a] = shares[i]
             /\ \A b \in Axis : /\ rects[i].origin[b] = room[i].origin[b]
                                /\ b # a => rects[i].size[b] = room[i].size[b]
  <2>1. kids[i] \in StyleOK /\ shares[i] \in Int /\ room[i] \in RectType
    BY <1>1, <1>2
  <2>2. room[i].origin \in [Axis -> Int] /\ room[i].size \in [Axis -> Int]
    BY <2>1 DEF RectType, SizeType
  <2>3. \A b \in Axis : /\ Lead(kids[i].margin, room[i])[b] = 0
                        /\ Both(kids[i].margin, room[i])[b] = 0
    BY <2>1, NoMargins
  <2>4. \A b \in Axis : \A c, d : Position(kids[i].pos[b], c, d) = 0
    BY DEF Bare, Position
  <2>5. /\ rects[i] \in RectType
        /\ rects[i].size[a] = shares[i] - Both(kids[i].margin, room[i])[a]
        /\ \A b \in Axis :
             /\ b # a => rects[i].size[b] = room[i].size[b] - Both(kids[i].margin, room[i])[b]
             /\ rects[i].origin[b] = room[i].origin[b] + Lead(kids[i].margin, room[i])[b]
                                       + Position(kids[i].pos[b], room[i].size[b], rects[i].size[b])
    BY <1>3, <2>1, FlexRectIs
  <2>6. rects[i].size[a] = shares[i]
    BY <2>1, <2>3, <2>5
  <2>7. ASSUME NEW b \in Axis
        PROVE  /\ rects[i].origin[b] = room[i].origin[b]
               /\ b # a => rects[i].size[b] = room[i].size[b]
    <3>1. room[i].origin[b] \in Int /\ room[i].size[b] \in Int
      BY <2>2
    <3>2. rects[i].origin[b] = room[i].origin[b] + 0 + 0
      <4>1. Position(kids[i].pos[b], room[i].size[b], rects[i].size[b]) = 0
        BY <2>4
      <4> QED
        BY <2>3, <2>5, <4>1
    <3>3. b # a => rects[i].size[b] = room[i].size[b] - 0
      BY <2>3, <2>5
    <3> QED
      BY <3>1, <3>2, <3>3
  <2> QED
    BY <2>5, <2>6, <2>7
<1> DEFINE At(k) == /\ room[k + 1].origin[a] = inner.origin[a] + Sums(shares)[k]
                    /\ \A b \in Axis : b # a => /\ room[k + 1].origin[b] = inner.origin[b]
                                                /\ room[k + 1].size[b] = inner.size[b]
           S == {k \in Nat : k + 1 \in DOMAIN kids => At(k)}
<1>8. 0 \in S
  <2>1. 0 \in Nat /\ 0 + 1 = 1
    OBVIOUS
  <2>2. Sums(shares)[0] = 0
    BY <1>1, SumsRecursion
  <2>3. inner.origin[a] + 0 = inner.origin[a]
    BY <1>6
  <2> QED
    BY <1>2, <2>1, <2>2, <2>3
<1>9. ASSUME NEW k \in Nat, k \in S
      PROVE  k + 1 \in S
  <2> SUFFICES ASSUME k + 1 + 1 \in DOMAIN kids
               PROVE  At(k + 1)
    OBVIOUS
  <2>1. k + 1 \in DOMAIN kids /\ k + 1 \in Nat /\ k + 1 >= 1 /\ k + 1 <= Len(shares)
    BY <1>1, <1>6
  <2>2. At(k) /\ room[k + 1] \in RectType /\ shares[k + 1] \in Int
    BY <1>1, <1>2, <1>9, <2>1
  <2>3. room[k + 1 + 1] = FlexAdvance(rects[k + 1], a, room[k + 1])
    BY <1>2, <1>3, <2>1
  <2>4. rects[k + 1] \in RectType /\ rects[k + 1].size[a] = shares[k + 1]
    BY <1>7, <2>1
  <2>5. /\ room[k + 1 + 1].origin[a] = room[k + 1].origin[a] + shares[k + 1]
        /\ \A b \in Axis : b # a => /\ room[k + 1 + 1].origin[b] = room[k + 1].origin[b]
                                    /\ room[k + 1 + 1].size[b] = room[k + 1].size[b]
    BY <2>2, <2>3, <2>4, FlexAdvanceIs
  <2>6. Sums(shares)[k + 1] = Sums(shares)[k] + shares[k + 1]
    BY <1>1, <2>1, SumsNext
  <2>7. Sums(shares)[k] \in Int /\ inner.origin[a] \in Int
    BY <1>1, <1>6, <2>1, TotalInt
  <2> QED
    BY <2>2, <2>5, <2>6, <2>7
<1>10. \A k \in Nat : k \in S
  <2> HIDE DEF S
  <2> QED
    BY <1>8, <1>9, SetInduction
<1>11. \A i \in 0 .. Len(shares) : /\ Sums(shares)[i] \in Int
                                   /\ 0 <= Sums(shares)[i] /\ Sums(shares)[i] <= Total(shares)
  <2>1. \A i \in 1 .. Len(shares) : shares[i] >= 0
    BY <1>1, <1>6, <1>7
  <2> QED
    BY <1>1, <2>1, SumsGrow, TotalInt
<1>12. ASSUME NEW i \in DOMAIN kids
       PROVE  Inside(rects[i], inner)
  <2>1. i - 1 \in Nat /\ i - 1 + 1 = i /\ i - 1 \in 0 .. Len(shares) /\ i \in 0 .. Len(shares)
        /\ i \in 1 .. Len(shares)
    BY <1>1, <1>6
  <2>2. At(i - 1)
    BY <1>10, <2>1
  <2>3. /\ room[i].origin[a] = inner.origin[a] + Sums(shares)[i - 1]
        /\ \A b \in Axis : b # a => /\ room[i].origin[b] = inner.origin[b]
                                    /\ room[i].size[b] = inner.size[b]
    BY <2>1, <2>2
  <2>4. Sums(shares)[i] = Sums(shares)[i - 1] + shares[i] /\ shares[i] \in Int
    BY <1>1, <2>1, SumsRecursion
  <2>5. /\ Sums(shares)[i - 1] \in Int /\ 0 <= Sums(shares)[i - 1]
        /\ Sums(shares)[i] \in Int /\ Sums(shares)[i] <= Total(shares)
    BY <1>11, <2>1
  <2>6. /\ rects[i].origin[a] = inner.origin[a] + Sums(shares)[i - 1]
        /\ rects[i].size[a] = shares[i]
        /\ \A b \in Axis : b # a => /\ rects[i].origin[b] = inner.origin[b]
                                    /\ rects[i].size[b] = inner.size[b]
    BY <1>7, <2>3
  <2>7. /\ rects[i].origin[a] >= inner.origin[a]
        /\ rects[i].origin[a] + rects[i].size[a] <= inner.origin[a] + inner.size[a]
    <3>1. inner.origin[a] \in Int /\ inner.size[a] \in Int
      BY <1>6
    <3>2. \A o, p, q, x, t, l \in Int :
            q = p + x /\ 0 <= p /\ q <= t /\ t <= l => o + p >= o /\ (o + p) + x <= o + l
      OBVIOUS
    <3> HIDE DEF rects, shares
    <3>3. /\ inner.origin[a] + Sums(shares)[i - 1] >= inner.origin[a]
          /\ (inner.origin[a] + Sums(shares)[i - 1]) + shares[i] <= inner.origin[a] + inner.size[a]
      BY <1>5, <2>4, <2>5, <3>1, <3>2
    <3> QED
      BY <2>6, <3>3
  <2>8. ASSUME NEW b \in Axis, b # a
        PROVE  /\ rects[i].origin[b] >= inner.origin[b]
               /\ rects[i].origin[b] + rects[i].size[b] <= inner.origin[b] + inner.size[b]
    <3>1. inner.origin[b] \in Int /\ inner.size[b] \in Int
      BY <1>6
    <3> QED
      BY <2>6, <2>8, <3>1
  <2> QED
    BY <2>7, <2>8 DEF Inside
<1> QED
  BY <1>12

(* A container without a layout.                                            *)
LEMMA PlainRectIs ==
    ASSUME NEW s \in StyleOK, NEW inner \in RectType
    PROVE  PlainRect(s, inner) \in RectType /\ PlainInside(inner, s, PlainRect(s, inner))
<1> DEFINE o   == [a \in Axis |-> inner.origin[a] + Lead(s.margin, inner)[a]]
           sub == [origin |-> o, size |-> Measure(s, inner)]
<1>1. /\ s.margin \in InsetsType /\ inner.origin \in [Axis -> Int] /\ inner.size \in [Axis -> Int]
      /\ inner.size \in SizeType
  BY DEF StyleOK, StyleType, RectType, SizeType
<1>2. Lead(s.margin, inner) \in [Axis -> Int]
  BY <1>1, InsetsLengths DEF SizeType
<1>3. o \in [Axis -> Int] /\ \A a \in Axis : o[a] = inner.origin[a] + Lead(s.margin, inner)[a]
  BY <1>1, <1>2
<1>4. PlainRect(s, inner) = Placed(s, inner, sub)
  BY DEF PlainRect
<1> HIDE DEF o
<1>5. Measure(s, inner) \in SizeType
  BY MeasureSize
<1>6. sub \in RectType /\ sub.origin = o /\ sub.size = Measure(s, inner)
  BY <1>3, <1>5 DEF RectType, SizeType
<1> HIDE DEF sub
<1> DEFINE r == PlainRect(s, inner)
<1>7. /\ r \in RectType /\ r.size = Measure(s, inner)
      /\ \A a \in Axis : r.origin[a] = o[a] + Position(s.pos[a], inner.size[a], r.size[a])
  <2>1. /\ Placed(s, inner, sub) \in RectType /\ Placed(s, inner, sub).size = sub.size
        /\ \A a \in Axis : Placed(s, inner, sub).origin[a]
             = sub.origin[a] + Position(s.pos[a], inner.size[a], sub.size[a])
    BY <1>6, PlacedRect
  <2>2. r = Placed(s, inner, sub)
    BY <1>4
  <2> HIDE DEF r
  <2> QED
    BY <1>6, <2>1, <2>2
<1> HIDE DEF r
<1>8. ASSUME NEW a \in Axis, s.kind = "image"
      PROVE  Fits(r.size[a], inner.size[a])
  <2>1. Measure(s, inner) = Fitted(s.content, inner.size) /\ s.content \in [Axis -> Nat \ {0}]
    BY <1>8 DEF Measure, StyleOK, StyleType
  <2> QED
    BY <1>1, <1>7, <2>1, FittedFits
<1>9. ASSUME NEW a \in Axis, s.pos[a] = Center, Marginless(s)
      PROVE  LET before == r.origin[a] - inner.origin[a]
                 after  == inner.size[a] - before - r.size[a]
             IN  after - before \in 0 .. 1
  <2>1. /\ r.origin[a] \in Int /\ r.size[a] \in Int /\ inner.origin[a] \in Int
        /\ inner.size[a] \in Int
    BY <1>1, <1>7 DEF RectType, SizeType
  <2>2. o[a] = inner.origin[a]
    BY <1>3, <1>9, <2>1, NoMargins
  <2>3. Position(s.pos[a], inner.size[a], r.size[a]) = (inner.size[a] - r.size[a]) \div 2
    BY <1>9, StyleAssumption DEF Position
  <2>4. r.origin[a] = inner.origin[a] + ((inner.size[a] - r.size[a]) \div 2)
    BY <1>7, <2>2, <2>3
  <2> QED
    BY <2>1, <2>4
<1>10. r \in RectType /\ PlainInside(inner, s, r)
  BY <1>7, <1>8, <1>9 DEF PlainInside, Fits
<1> QED
  BY <1>10 DEF r

LEMMA SubRectsAre ==
    ASSUME NEW s \in StyleOK, NEW kids \in Seq(StyleOK), NEW r \in RectType
    PROVE  SubRects(s, kids, r) \in [DOMAIN kids -> RectType]
<1>1. Inner(s, r) \in RectType
  BY InnerRect
<1>2. CASE s.layout = None
  <2>1. \A i \in DOMAIN kids : PlainRect(kids[i], Inner(s, r)) \in RectType
    BY <1>1, PlainRectIs
  <2> QED
    BY <1>2, <2>1 DEF SubRects
<1>3. CASE s.layout # None
  <2>1. s.layout \in {"row", "column"}
    BY <1>3 DEF StyleOK, StyleType
  <2>2. MainAxis[s.layout] \in Axis
    BY <2>1 DEF MainAxis, Axis
  <2>3. FlexRects(kids, MainAxis[s.layout], Inner(s, r)) \in [DOMAIN kids -> RectType]
    BY <1>1, <2>2, FlexRectsAre
  <2> QED
    BY <1>3, <2>3 DEF SubRects
<1> QED
  BY <1>2, <1>3

-----------------------------------------------------------------------------
(* The tree.                                                                *)

LEMMA ParentIs ==
    ASSUME NEW v \in Views, v # Root
    PROVE  /\ Parent(v) \in Views /\ Place(v) \in DOMAIN Subviews[Parent(v)]
           /\ Subviews[Parent(v)][Place(v)] = v
<1>1. \E p \in Views : v \in ToSet(Subviews[p])
  BY TreeAssumption
<1>2. Parent(v) \in Views /\ v \in ToSet(Subviews[Parent(v)])
  BY <1>1 DEF Parent
<1>3. \E i \in DOMAIN Subviews[Parent(v)] : Subviews[Parent(v)][i] = v
  BY <1>2 DEF ToSet
<1> QED
  BY <1>2, <1>3 DEF Place

LEMMA PlaceOf ==
    ASSUME NEW p \in Views, NEW i \in DOMAIN Subviews[p]
    PROVE  LET v == Subviews[p][i]
           IN  v \in Views /\ v # Root /\ Parent(v) = p /\ Place(v) = i
<1> DEFINE v == Subviews[p][i]
<1>1. Subviews[p] \in Seq(Views)
  BY TreeAssumption
<1>2. v \in Views /\ v \in ToSet(Subviews[p])
  BY <1>1 DEF ToSet
<1>3. v # Root
  BY <1>2, TreeAssumption
<1>4. /\ Parent(v) \in Views /\ Place(v) \in DOMAIN Subviews[Parent(v)]
      /\ Subviews[Parent(v)][Place(v)] = Subviews[p][i]
  BY <1>2, <1>3, ParentIs
<1>5. Parent(v) = p /\ Place(v) = i
  BY <1>4, TreeAssumption
<1> QED
  BY <1>2, <1>3, <1>5

(* A bound on the depth, the rank for recursion and induction down the tree.*)
LEMMA Depth ==
    \E N \in Nat : \E depth \in [Views -> 0 .. N] :
      \A v \in Views : v # Root => depth[Parent(v)] < depth[v]
<1>1. Cardinality(Views) \in Nat
  BY TreeAssumption, FS_CardinalityType
<1>2. PICK depth \in [Views -> 0 .. Cardinality(Views)] :
        \A p \in Views : \A v \in ToSet(Subviews[p]) : depth[p] < depth[v]
  BY TreeAssumption
<1>3. \A v \in Views : v # Root => Parent(v) \in Views /\ v \in ToSet(Subviews[Parent(v)])
  BY ParentIs DEF ToSet
<1> QED
  BY <1>1, <1>2, <1>3

(* Induction down the tree.                                                 *)
LEMMA TreeInduction ==
    ASSUME NEW S, Root \in S, \A v \in Views : v # Root /\ Parent(v) \in S => v \in S
    PROVE  Views \subseteq S
<1>1. PICK N \in Nat : \E depth \in [Views -> 0 .. N] :
        \A v \in Views : v # Root => depth[Parent(v)] < depth[v]
  BY Depth
<1>2. PICK depth \in [Views -> 0 .. N] :
        \A v \in Views : v # Root => depth[Parent(v)] < depth[v]
  BY <1>1
<1> DEFINE U == {n \in Nat : \A v \in Views : depth[v] < n => v \in S}
<1>3. 0 \in U
  <2>1. \A v \in Views : ~(depth[v] < 0)
    BY <1>2
  <2> QED
    BY <2>1
<1>4. ASSUME NEW n \in Nat, n \in U
      PROVE  n + 1 \in U
  <2>1. ASSUME NEW v \in Views, depth[v] < n + 1
        PROVE  v \in S
    <3>1. CASE v = Root
      BY <3>1
    <3>2. CASE v # Root
      <4>1. Parent(v) \in Views
        BY <3>2, ParentIs
      <4>2. depth[Parent(v)] < n
        BY <1>2, <2>1, <3>2, <4>1
      <4>3. Parent(v) \in S
        BY <1>4, <4>1, <4>2
      <4> QED
        BY <3>2, <4>3
    <3> QED
      BY <3>1, <3>2
  <2>2. n + 1 \in Nat
    OBVIOUS
  <2> QED
    BY <2>1, <2>2
<1>5. \A n \in Nat : n \in U
  <2> HIDE DEF U
  <2> QED
    BY <1>3, <1>4, SetInduction
<1>6. N + 1 \in U
  BY <1>5
<1>7. \A v \in Views : depth[v] < N + 1
  BY <1>2
<1> QED
  BY <1>6, <1>7

(* A function defined down the tree.                                        *)
Descends(f, v, base, step) == f[v] = IF v = Root THEN base ELSE step[<<v, f[Parent(v)]>>]

LEMMA TreeRecursion ==
    ASSUME NEW T, NEW base \in T, NEW step \in [Views \X T -> T]
    PROVE  \E f \in [Views -> T] : \A v \in Views : Descends(f, v, base, step)
<1>1. PICK N \in Nat : \E depth \in [Views -> 0 .. N] :
        \A v \in Views : v # Root => depth[Parent(v)] < depth[v]
  BY Depth
<1>2. PICK depth \in [Views -> 0 .. N] :
        \A v \in Views : v # Root => depth[Parent(v)] < depth[v]
  BY <1>1
<1> DEFINE first == [v \in Views |-> base]
           par   == [v \in Views |-> IF v = Root THEN Root ELSE Parent(v)]
<1>3. par \in [Views -> Views] /\ first \in [Views -> T]
  BY ParentIs, TreeAssumption
<1>4. \A v \in Views : v \notin {Root} => depth[par[v]] < depth[v]
  BY <1>2
<1>5. PICK f \in [Views -> T] : \A v \in Views : Follows(f, v, {Root}, first, step, par)
  <2> HIDE DEF first, par
  <2> QED
    BY <1>2, <1>3, <1>4, RecursiveFunction
<1>6. ASSUME NEW v \in Views
      PROVE  Descends(f, v, base, step)
  <2>1. f[v] = IF v \in {Root} THEN first[v] ELSE step[<<v, f[par[v]]>>]
    BY <1>5 DEF Follows
  <2> QED
    BY <2>1 DEF Descends
<1> QED
  BY <1>6

LEMMA AboveIs ==
    \A v \in Views : AboveOrSelf[v] = {v} \union (IF v = Root THEN {} ELSE AboveOrSelf[Parent(v)])
<1> DEFINE T    == SUBSET Views
           step == [p \in Views \X T |-> {p[1]} \union p[2]]
           Def(f) == [v \in Views |-> {v} \union (IF v = Root THEN {} ELSE f[Parent(v)])]
<1>1. step \in [Views \X T -> T] /\ {Root} \in T
  BY TreeAssumption
<1>2. PICK f \in [Views -> T] : \A v \in Views : Descends(f, v, {Root}, step)
  <2> HIDE DEF T, step
  <2> QED
    BY <1>1, TreeRecursion
<1>3. ASSUME NEW v \in Views
      PROVE  f[v] = {v} \union (IF v = Root THEN {} ELSE f[Parent(v)])
  <2>1. CASE v = Root
    BY <1>2, <2>1 DEF Descends
  <2>2. CASE v # Root
    <3>1. Parent(v) \in Views
      BY <2>2, ParentIs
    <3>2. <<v, f[Parent(v)]>> \in Views \X T
      BY <3>1
    <3>3. step[<<v, f[Parent(v)]>>] = {v} \union f[Parent(v)]
      BY <3>2
    <3> QED
      BY <1>2, <2>2, <3>3 DEF Descends
  <2> QED
    BY <2>1, <2>2
<1>4. f = Def(f)
  BY <1>3
<1>5. AboveOrSelf = CHOOSE g : g = Def(g)
  BY DEF AboveOrSelf
<1>6. AboveOrSelf = Def(AboveOrSelf)
  <2> HIDE DEF Def
  <2> QED
    BY <1>4, <1>5, Zenon
<1> DEFINE g == AboveOrSelf
<1> HIDE DEF g
<1>7. g = Def(g)
  BY <1>6 DEF g
<1>8. \A v \in Views : g[v] = {v} \union (IF v = Root THEN {} ELSE g[Parent(v)])
  BY <1>7
<1> QED
  BY <1>8 DEF g

(* The descent from the root: what FrameOf is, in every state.              *)
Typed == style \in [Views -> StyleOK] /\ window \in SizeType

RootRect == [origin |-> [a \in Axis |-> 0], size |-> window]

Below(v, r) == SubRects(style[Parent(v)], Kids(Parent(v)), r)[Place(v)]

FramesExact ==
    /\ FrameOf \in [Views -> RectType]
    /\ \A v \in Views : FrameOf[v] = IF v = Root THEN RootRect ELSE Below(v, FrameOf[Parent(v)])

LEMMA KidsOK ==
    ASSUME Typed, NEW v \in Views
    PROVE  /\ Kids(v) \in Seq(StyleOK) /\ DOMAIN Kids(v) = DOMAIN Subviews[v]
           /\ \A i \in DOMAIN Subviews[v] : Kids(v)[i] = style[Subviews[v][i]]
<1>1. Subviews[v] \in Seq(Views)
  BY TreeAssumption
<1>2. Len(Subviews[v]) \in Nat /\ DOMAIN Subviews[v] = 1 .. Len(Subviews[v])
      /\ \A i \in DOMAIN Subviews[v] : Subviews[v][i] \in Views
  BY <1>1
<1>3. Kids(v) = [i \in 1 .. Len(Subviews[v]) |-> style[Subviews[v][i]]]
  BY <1>2 DEF Kids
<1> QED
  BY <1>2, <1>3 DEF Typed

LEMMA BelowRect ==
    ASSUME Typed, NEW v \in Views, v # Root, NEW r \in RectType
    PROVE  Below(v, r) \in RectType
<1>1. Parent(v) \in Views /\ Place(v) \in DOMAIN Subviews[Parent(v)]
  BY ParentIs
<1>2. /\ style[Parent(v)] \in StyleOK /\ Kids(Parent(v)) \in Seq(StyleOK)
      /\ DOMAIN Kids(Parent(v)) = DOMAIN Subviews[Parent(v)]
  BY <1>1, KidsOK DEF Typed
<1> QED
  BY <1>1, <1>2, SubRectsAre DEF Below

LEMMA FrameOfIs == Typed => FramesExact
<1> SUFFICES ASSUME Typed PROVE FramesExact
  OBVIOUS
<1> DEFINE step == [p \in Views \X RectType |-> IF p[1] = Root THEN RootRect ELSE Below(p[1], p[2])]
           Def(f) == [v \in Views |-> IF v = Root THEN RootRect ELSE Below(v, f[Parent(v)])]
<1>1. RootRect \in RectType
  BY DEF RootRect, RectType, SizeType, Typed
<1>2. step \in [Views \X RectType -> RectType]
  BY <1>1, BelowRect
<1>3. PICK f \in [Views -> RectType] : \A v \in Views : Descends(f, v, RootRect, step)
  <2> HIDE DEF step
  <2> QED
    BY <1>1, <1>2, TreeRecursion
<1>4. ASSUME NEW v \in Views
      PROVE  f[v] = IF v = Root THEN RootRect ELSE Below(v, f[Parent(v)])
  <2>1. CASE v = Root
    BY <1>3, <2>1 DEF Descends
  <2>2. CASE v # Root
    <3>1. Parent(v) \in Views
      BY <2>2, ParentIs
    <3>2. <<v, f[Parent(v)]>> \in Views \X RectType
      BY <3>1
    <3>3. step[<<v, f[Parent(v)]>>] = Below(v, f[Parent(v)])
      BY <2>2, <3>2
    <3> QED
      BY <1>3, <2>2, <3>3 DEF Descends
  <2> QED
    BY <2>1, <2>2
<1>5. f = Def(f)
  BY <1>4
<1>6. FrameOf = CHOOSE g : g = Def(g)
  BY DEF FrameOf, RootRect, Below
<1>7. FrameOf = Def(FrameOf)
  <2> HIDE DEF Def
  <2> QED
    BY <1>5, <1>6, Zenon
<1> DEFINE g == FrameOf
<1> HIDE DEF g
<1>8. g = Def(g)
  BY <1>7 DEF g
<1>9. \A v \in Views : g[v] = IF v = Root THEN RootRect ELSE Below(v, g[Parent(v)])
  BY <1>8
<1>10. Views \subseteq {v \in Views : g[v] \in RectType}
  <2> DEFINE S == {v \in Views : g[v] \in RectType}
  <2>1. Root \in S
    BY <1>1, <1>9, TreeAssumption
  <2>2. ASSUME NEW v \in Views, v # Root, Parent(v) \in S
        PROVE  v \in S
    BY <1>9, <2>2, BelowRect
  <2> HIDE DEF S
  <2>3. Views \subseteq S
    BY <2>1, <2>2, TreeInduction
  <2> QED
    BY <2>3 DEF S
<1>11. g \in [Views -> RectType]
  BY <1>8, <1>10
<1> QED
  BY <1>9, <1>11 DEF FramesExact, g

LEMMA FrameOfNext == Typed' => FramesExact'
  BY FrameOfIs, PTL

(* A frame depends on the window and on the properties of the containers    *)
(* above the view, and of what they contain.                                *)
LEMMA FrameDepends ==
    ASSUME Typed, Typed', window' = window, NEW u \in Views,
           \A w \in AboveOrSelf[u] : w # Root =>
             style'[Parent(w)] = style[Parent(w)] /\ Kids(Parent(w))' = Kids(Parent(w))
    PROVE  FrameOf'[u] = FrameOf[u]
<1> DEFINE S == {v \in Views : AboveOrSelf[v] \subseteq AboveOrSelf[u] => FrameOf'[v] = FrameOf[v]}
<1>1. /\ \A v \in Views : FrameOf[v] = IF v = Root THEN RootRect ELSE Below(v, FrameOf[Parent(v)])
      /\ \A v \in Views : FrameOf'[v] = IF v = Root THEN RootRect' ELSE Below(v, FrameOf[Parent(v)])'
  BY FrameOfIs, FrameOfNext DEF FramesExact
<1>2. Root \in S
  BY <1>1, TreeAssumption DEF RootRect
<1>3. ASSUME NEW v \in Views, v # Root, Parent(v) \in S
      PROVE  v \in S
  <2> SUFFICES ASSUME AboveOrSelf[v] \subseteq AboveOrSelf[u]
               PROVE  FrameOf'[v] = FrameOf[v]
    OBVIOUS
  <2>1. v \in AboveOrSelf[u] /\ AboveOrSelf[Parent(v)] \subseteq AboveOrSelf[u]
    BY <1>3, AboveIs
  <2>2. FrameOf'[Parent(v)] = FrameOf[Parent(v)]
    BY <1>3, <2>1
  <2>3. style'[Parent(v)] = style[Parent(v)] /\ Kids(Parent(v))' = Kids(Parent(v))
    BY <1>3, <2>1
  <2>4. Below(v, FrameOf[Parent(v)])' = Below(v, FrameOf[Parent(v)])
    BY <2>2, <2>3 DEF Below
  <2> QED
    BY <1>1, <1>3, <2>4
<1> HIDE DEF S
<1>4. Views \subseteq S
  BY <1>2, <1>3, TreeInduction
<1> QED
  BY <1>4 DEF S

-----------------------------------------------------------------------------
(* The inductive invariant: the types, the frame of the root, and the       *)
(* property.                                                                *)
StyleInv ==
    /\ Typed
    /\ Root \notin needs => frame[Root] = FrameOf[Root]
    /\ StaleNearChange

LEMMA InitStyle == Init => StyleInv
<1> SUFFICES ASSUME Init PROVE StyleInv
  OBVIOUS
<1>1. Typed
  BY StyleAssumption DEF Init, Typed, StyleOK
<1>2. Root \in needs
  BY DEF Init
<1> QED
  BY <1>1, <1>2 DEF StyleInv, StaleNearChange

LEMMA TypedNext ==
    ASSUME Typed, [Next]_vars
    PROVE  Typed'
<1>1. ASSUME NEW v \in Views, NEW i \in Insets
      PROVE  /\ [style EXCEPT ![v].margin = i] \in [Views -> StyleOK]
             /\ [style EXCEPT ![v].padding = i] \in [Views -> StyleOK]
  <2>1. i \in InsetsType /\ style[v] \in StyleOK /\ style \in [Views -> StyleOK]
    BY <1>1, StyleAssumption DEF Typed
  <2>2. [style[v] EXCEPT !.margin = i] \in StyleOK /\ [style[v] EXCEPT !.padding = i] \in StyleOK
    BY <2>1 DEF StyleOK, StyleType
  <2>3. /\ [style EXCEPT ![v].margin = i] = [style EXCEPT ![v] = [style[v] EXCEPT !.margin = i]]
        /\ [style EXCEPT ![v].padding = i] = [style EXCEPT ![v] = [style[v] EXCEPT !.padding = i]]
    BY <2>1
  <2> QED
    BY <2>1, <2>2, <2>3
<1>2. CASE Resize
  BY <1>2, StyleAssumption DEF Resize, Typed
<1>3. CASE \E v \in Views : NativeLayout(v)
  BY <1>3 DEF NativeLayout, Typed
<1>4. CASE \E v \in Views, i \in Insets : SetMargin(v, i) \/ SetPadding(v, i)
  <2>1. PICK v \in Views, i \in Insets : SetMargin(v, i) \/ SetPadding(v, i)
    BY <1>4
  <2>2. window' = window
    BY <2>1 DEF SetMargin, SetPadding, Changed
  <2>3. CASE SetMargin(v, i)
    <3>1. style' = [style EXCEPT ![v].margin = i]
      BY <2>3 DEF SetMargin
    <3> QED
      BY <1>1, <2>2, <3>1 DEF Typed
  <2>4. CASE SetPadding(v, i)
    <3>1. style' = [style EXCEPT ![v].padding = i]
      BY <2>4 DEF SetPadding
    <3> QED
      BY <1>1, <2>2, <3>1 DEF Typed
  <2> QED
    BY <2>1, <2>3, <2>4
<1>5. CASE UNCHANGED vars
  BY <1>5 DEF vars, Typed
<1> QED
  BY <1>2, <1>3, <1>4, <1>5 DEF Next

(* A step that leaves the properties and the window alone leaves the frames *)
(* alone that FrameOf prescribes.                                           *)
LEMMA FrameOfSame ==
    ASSUME Typed, Typed', style' = style, window' = window, NEW v \in Views
    PROVE  FrameOf'[v] = FrameOf[v]
<1>1. \A p : Kids(p)' = Kids(p)
  BY DEF Kids
<1> QED
  BY <1>1, FrameDepends

(* What a change of one view's properties cannot reach.                     *)
LEMMA FrameOfChanged ==
    ASSUME Typed, Typed', window' = window, NEW m \in Views,
           \A p \in Views : p # m => style'[p] = style[p],
           NEW v \in Views,
           \A w \in AboveOrSelf[v] \ {Root} :
             ~(m = Parent(w) \/ m \in ToSet(Subviews[Parent(w)]))
    PROVE  FrameOf'[v] = FrameOf[v]
<1>1. \A w \in Views : AboveOrSelf[w] \subseteq Views
  <2> DEFINE S == {w \in Views : AboveOrSelf[w] \subseteq Views}
  <2>1. Root \in S
    BY AboveIs, TreeAssumption
  <2>2. ASSUME NEW w \in Views, w # Root, Parent(w) \in S
        PROVE  w \in S
    BY <2>2, AboveIs
  <2> HIDE DEF S
  <2>3. Views \subseteq S
    BY <2>1, <2>2, TreeInduction
  <2> QED
    BY <2>3 DEF S
<1>2. ASSUME NEW w \in AboveOrSelf[v], w # Root
      PROVE  style'[Parent(w)] = style[Parent(w)] /\ Kids(Parent(w))' = Kids(Parent(w))
  <2>1. w \in Views /\ Parent(w) \in Views
    BY <1>1, <1>2, ParentIs
  <2>2. m # Parent(w) /\ \A i \in DOMAIN Subviews[Parent(w)] : Subviews[Parent(w)][i] # m
    BY <1>2 DEF ToSet
  <2>3. \A i \in DOMAIN Subviews[Parent(w)] : Subviews[Parent(w)][i] \in Views
    BY <2>1, PlaceOf
  <2>4. \A i \in DOMAIN Subviews[Parent(w)] :
          style'[Subviews[Parent(w)][i]] = style[Subviews[Parent(w)][i]]
    BY <2>2, <2>3
  <2> QED
    BY <2>1, <2>2, <2>4 DEF Kids
<1> QED
  BY <1>2, FrameDepends

(* A frame that a change can reach.                                         *)
Near(v, m) ==
    \E w \in AboveOrSelf[v] \ {Root} : m = Parent(w) \/ m \in ToSet(Subviews[Parent(w)])

LEMMA StaleIs ==
    StaleNearChange <=>
      (Root \notin needs => \A v \in Views \ {Root} :
         frame[v] = FrameOf[v] \/ \E m \in missed \ {Root} : Near(v, m))
  BY DEF StaleNearChange, Near

LEMMA StaleIsNext ==
    StaleNearChange' <=>
      (Root \notin needs' => \A v \in Views \ {Root} :
         frame'[v] = FrameOf'[v] \/ \E m \in missed' \ {Root} : Near(v, m))
  BY DEF StaleNearChange, Near

LEMMA NextStyle == StyleInv /\ [Next]_vars => StyleInv'
<1> SUFFICES ASSUME StyleInv, [Next]_vars
             PROVE  StyleInv'
  OBVIOUS
<1>1. Typed /\ Typed'
  BY TypedNext DEF StyleInv
<1>2. /\ Root \notin needs => frame[Root] = FrameOf[Root]
      /\ Root \notin needs => \A v \in Views \ {Root} :
           frame[v] = FrameOf[v] \/ \E m \in missed \ {Root} : Near(v, m)
  BY StaleIs DEF StyleInv
<1>3. Root \in Views
  BY TreeAssumption
<1> SUFFICES ASSUME Root \notin needs'
             PROVE  /\ frame'[Root] = FrameOf'[Root]
                    /\ \A v \in Views \ {Root} :
                         frame'[v] = FrameOf'[v] \/ \E m \in missed' \ {Root} : Near(v, m)
  BY <1>1, StaleIsNext DEF StyleInv
<1>4. CASE Resize
  BY <1>4 DEF Resize
<1>5. ASSUME NEW u \in Views, NativeLayout(u)
      PROVE  /\ frame'[Root] = FrameOf'[Root]
             /\ \A v \in Views \ {Root} :
                  frame'[v] = FrameOf'[v] \/ \E m \in missed' \ {Root} : Near(v, m)
  <2>1. style' = style /\ window' = window
    BY <1>5 DEF NativeLayout
  <2>2. \A v \in Views : FrameOf'[v] = FrameOf[v]
    BY <1>1, <2>1, FrameOfSame
  <2>3. CASE u = Root
    <3>1. frame' = [w \in Views |-> FrameOf[w]]
      BY <1>5, <2>3 DEF NativeLayout
    <3>2. \A v \in Views : frame'[v] = FrameOf'[v]
      BY <2>2, <3>1
    <3> QED
      BY <1>3, <3>2
  <2>4. CASE u # Root
    <3>1. frame' = frame /\ missed' = missed /\ needs' = needs \ {u}
      BY <1>5, <2>4 DEF NativeLayout
    <3>2. Root \notin needs
      BY <2>4, <3>1
    <3> QED
      BY <1>2, <1>3, <2>2, <3>1, <3>2
  <2> QED
    BY <2>3, <2>4
<1>6. ASSUME NEW u \in Views, NEW i \in Insets, SetMargin(u, i) \/ SetPadding(u, i)
      PROVE  /\ frame'[Root] = FrameOf'[Root]
             /\ \A v \in Views \ {Root} :
                  frame'[v] = FrameOf'[v] \/ \E m \in missed' \ {Root} : Near(v, m)
  <2>1. /\ window' = window /\ frame' = frame /\ needs' = needs \union {u}
        /\ missed' = missed \union {u}
    BY <1>6 DEF SetMargin, SetPadding, Changed
  <2>2. u # Root /\ Root \notin needs
    BY <2>1
  <2>3. \A p \in Views : p # u => style'[p] = style[p]
    BY <1>1, <1>6 DEF SetMargin, SetPadding, Typed
  <2>4. frame'[Root] = FrameOf'[Root]
    <3>1. AboveOrSelf[Root] \ {Root} = {}
      BY <1>3, AboveIs
    <3>2. FrameOf'[Root] = FrameOf[Root]
      BY <1>1, <1>3, <2>1, <2>3, <3>1, FrameOfChanged
    <3> QED
      BY <1>2, <2>1, <2>2, <3>2
  <2>5. ASSUME NEW v \in Views \ {Root}
        PROVE  frame'[v] = FrameOf'[v] \/ \E m \in missed' \ {Root} : Near(v, m)
    <3>1. CASE Near(v, u)
      BY <2>1, <2>2, <3>1
    <3>2. CASE ~Near(v, u)
      <4>1. FrameOf'[v] = FrameOf[v]
        BY <1>1, <2>1, <2>3, <3>2, FrameOfChanged DEF Near
      <4>2. frame[v] = FrameOf[v] \/ \E m \in missed \ {Root} : Near(v, m)
        BY <1>2, <2>2
      <4> QED
        BY <2>1, <4>1, <4>2
    <3> QED
      BY <3>1, <3>2
  <2> QED
    BY <2>4, <2>5
<1>7. CASE UNCHANGED vars
  <2>1. /\ style' = style /\ window' = window /\ frame' = frame /\ missed' = missed
        /\ needs' = needs
    BY <1>7 DEF vars
  <2>2. \A v \in Views : FrameOf'[v] = FrameOf[v]
    BY <1>1, <2>1, FrameOfSame
  <2> QED
    BY <1>2, <1>3, <2>1, <2>2
<1> QED
  BY <1>4, <1>5, <1>6, <1>7 DEF Next

(* After a margin or a padding was changed, only the views beside the        *)
(* changed one, the views inside it and what is inside those can have an     *)
(* out-of-date frame once the root has been laid out, for every tree, every  *)
(* style sheet and any number of changes: the [layout] of the other native   *)
(* views may do nothing.                                                    *)
THEOREM DamageIsLocal == Spec => []StaleNearChange
<1>1. StyleInv => StaleNearChange
  BY DEF StyleInv
<1> QED
  BY InitStyle, NextStyle, <1>1, PTL DEF Spec

-----------------------------------------------------------------------------
(* What has been laid out.                                                  *)

LEMMA LaidOutRects ==
    ASSUME StyleInv, LaidOut, NEW p \in Views
    PROVE  /\ style[p] \in StyleOK /\ Kids(p) \in Seq(StyleOK)
           /\ DOMAIN Kids(p) = DOMAIN Subviews[p]
           /\ Inner(style[p], frame[p]) \in RectType
           /\ Rects(p) = SubRects(style[p], Kids(p), frame[p])
<1>1. /\ Typed
      /\ \A v \in Views : frame[v] = FrameOf[v]
  BY DEF StyleInv, StaleNearChange, LaidOut
<1>2. FramesExact
  BY <1>1, FrameOfIs
<1>3. /\ style[p] \in StyleOK /\ Kids(p) \in Seq(StyleOK)
      /\ DOMAIN Kids(p) = DOMAIN Subviews[p] /\ frame[p] \in RectType
  BY <1>1, <1>2, KidsOK DEF Typed, FramesExact
<1>4. Inner(style[p], frame[p]) \in RectType
  BY <1>3, InnerRect
<1>5. SubRects(style[p], Kids(p), frame[p]) \in [DOMAIN Subviews[p] -> RectType]
  BY <1>3, SubRectsAre
<1>6. ASSUME NEW i \in DOMAIN Subviews[p]
      PROVE  frame[Subviews[p][i]] = SubRects(style[p], Kids(p), frame[p])[i]
  <2> DEFINE v == Subviews[p][i]
  <2>1. v \in Views /\ v # Root /\ Parent(v) = p /\ Place(v) = i
    BY PlaceOf
  <2> HIDE DEF v
  <2>2. frame[v] = Below(v, frame[p])
    BY <1>1, <1>2, <2>1 DEF FramesExact
  <2>3. Below(v, frame[p]) = SubRects(style[p], Kids(p), frame[p])[i]
    BY <2>1 DEF Below
  <2> QED
    BY <2>2, <2>3 DEF v
<1>7. Rects(p) = SubRects(style[p], Kids(p), frame[p])
  BY <1>5, <1>6 DEF Rects
<1> QED
  BY <1>3, <1>4, <1>7

LEMMA LaidOutFlex ==
    ASSUME StyleInv, LaidOut, NEW p \in Views, Flex(p)
    PROVE  /\ MainAxis[style[p].layout] \in Axis
           /\ Rects(p) = FlexRects(Kids(p), MainAxis[style[p].layout], Inner(style[p], frame[p]))
<1>1. style[p].layout # None /\ style[p].layout \in {None, "row", "column"}
  BY LaidOutRects DEF Flex, StyleOK, StyleType
<1>2. MainAxis[style[p].layout] \in Axis
  BY <1>1 DEF MainAxis, Axis
<1>3. Rects(p) = SubRects(style[p], Kids(p), frame[p])
  BY LaidOutRects
<1> QED
  BY <1>1, <1>2, <1>3 DEF SubRects

LEMMA StyleInvariant == Spec => []StyleInv
  BY InitStyle, NextStyle, PTL DEF Spec

(* Sizes and margins of subviews that can give or take add up to the length *)
(* of their container's content, but for what the divisions of the model    *)
(* round off, for every tree and every style sheet: nothing is handed out    *)
(* twice or forgotten between the loop that adds margins and weights up and  *)
(* the loop that takes them off again (view.cpp:299-356).                   *)
THEOREM MainAxisFilled == Spec => []FillsMainAxis
<1>1. StyleInv => FillsMainAxis
  <2> SUFFICES ASSUME StyleInv, LaidOut, NEW p \in Views, Flex(p)
               PROVE  Fills(MainAxis[style[p].layout], Inner(style[p], frame[p]), Kids(p), Rects(p))
    BY DEF FillsMainAxis, EachFlex
  <2> QED
    BY LaidOutRects, LaidOutFlex, FlexFills
<1> QED
  BY StyleInvariant, <1>1, PTL

(* Subviews without margins and positions stay inside their container when  *)
(* it distributes its length; an image in a plain container exceeds the     *)
(* content by less than the pixel that ceilf() rounds up to, and "center"   *)
(* centres, for every tree and every style sheet.                           *)
THEOREM NothingSticksOut == Spec => []InsideContent
<1>1. StyleInv => InsideContent
  <2> SUFFICES ASSUME StyleInv PROVE InsideContent
    OBVIOUS
  <2>1. ASSUME LaidOut, NEW p \in Views, Flex(p)
        PROVE  KeepsInside(MainAxis[style[p].layout], Inner(style[p], frame[p]), Kids(p), Rects(p))
    BY <2>1, LaidOutRects, LaidOutFlex, FlexKeepsInside
  <2>2. ASSUME LaidOut, NEW p \in Views, style[p].layout = None, NEW i \in DOMAIN Subviews[p]
        PROVE  PlainInside(Inner(style[p], frame[p]), Kids(p)[i], Rects(p)[i])
    <3>1. /\ Kids(p) \in Seq(StyleOK) /\ DOMAIN Kids(p) = DOMAIN Subviews[p]
          /\ Inner(style[p], frame[p]) \in RectType
          /\ Rects(p) = SubRects(style[p], Kids(p), frame[p])
      BY <2>2, LaidOutRects
    <3>2. Kids(p)[i] \in StyleOK
      BY <3>1
    <3>3. Rects(p)[i] = PlainRect(Kids(p)[i], Inner(style[p], frame[p]))
      BY <2>2, <3>1 DEF SubRects
    <3> QED
      BY <3>1, <3>2, <3>3, PlainRectIs
  <2> QED
    BY <2>1, <2>2 DEF InsideContent, EachFlex
<1> QED
  BY StyleInvariant, <1>1, PTL

(* Style sheets without negative weights and margins.                       *)
NaturalSheet ==
    /\ \A v \in Views : \A s \in Styles[v] : NaturalStyle(s)
    /\ \A i \in Insets : NaturalInsets(i)

NaturalInv == \A v \in Views : NaturalStyle(style[v])

LEMMA NaturalNext ==
    ASSUME NaturalSheet, StyleInv, NaturalInv, [Next]_vars
    PROVE  NaturalInv'
<1>1. style \in [Views -> StyleOK]
  BY DEF StyleInv, Typed
<1>2. CASE style' = style
  BY <1>2 DEF NaturalInv
<1>3. ASSUME NEW v \in Views, NEW i \in Insets, SetMargin(v, i) \/ SetPadding(v, i)
      PROVE  NaturalInv'
  <2>1. ASSUME NEW u \in Views
        PROVE  /\ style'[u].grow = style[u].grow
               /\ style'[u].margin = style[u].margin \/ style'[u].margin = i
    <3>1. style[u] \in StyleType /\ style[v] \in StyleType
      BY <1>1 DEF StyleOK
    <3>2. CASE SetMargin(v, i)
      <4>1. style' = [style EXCEPT ![v].margin = i]
        BY <3>2 DEF SetMargin
      <4> QED
        BY <1>1, <3>1, <4>1 DEF StyleType
    <3>3. CASE SetPadding(v, i)
      <4>1. style' = [style EXCEPT ![v].padding = i]
        BY <3>3 DEF SetPadding
      <4> QED
        BY <1>1, <3>1, <4>1 DEF StyleType
    <3> QED
      BY <1>3, <3>2, <3>3
  <2>2. NaturalInsets(i)
    BY DEF NaturalSheet
  <2>3. ASSUME NEW u \in Views
        PROVE  NaturalStyle(style'[u])
    <3>1. style[u].grow \in Nat /\ NaturalInsets(style[u].margin)
      BY DEF NaturalInv, NaturalStyle
    <3> QED
      BY <2>1, <2>2, <3>1 DEF NaturalStyle
  <2> QED
    BY <2>3 DEF NaturalInv
<1> QED
  BY <1>2, <1>3 DEF Next, Resize, NativeLayout, vars

(* With a style sheet that has no negative weights and margins, no subview   *)
(* gets less than it asks for where there is room, although the loop reads   *)
(* percentage margins again from a rectangle that the subviews before it     *)
(* have made smaller (view.cpp:345), for every tree and every size.          *)
THEOREM RoomKept ==
    ASSUME NaturalSheet
    PROVE  Spec => []RoomKeepsBasis
<1>1. Init => NaturalInv
  BY DEF Init, NaturalInv, NaturalSheet
<1>2. StyleInv /\ NaturalInv /\ [Next]_vars => NaturalInv'
  BY NaturalNext
<1>3. StyleInv /\ NaturalInv => RoomKeepsBasis
  <2> SUFFICES ASSUME StyleInv, NaturalInv, LaidOut, NEW p \in Views, Flex(p)
               PROVE  KeepsOwn(MainAxis[style[p].layout], Inner(style[p], frame[p]), Kids(p), Rects(p))
    BY DEF RoomKeepsBasis, EachFlex
  <2>1. \A i \in DOMAIN Kids(p) : NaturalStyle(Kids(p)[i])
    <3>1. \A i \in DOMAIN Subviews[p] : Subviews[p][i] \in Views
      BY PlaceOf
    <3>2. /\ DOMAIN Kids(p) = DOMAIN Subviews[p]
          /\ \A i \in DOMAIN Subviews[p] : Kids(p)[i] = style[Subviews[p][i]]
      BY KidsOK DEF StyleInv
    <3> QED
      BY <3>1, <3>2 DEF NaturalInv
  <2> QED
    BY <2>1, LaidOutRects, LaidOutFlex, FlexKeepsOwn
<1> QED
  BY StyleInvariant, <1>1, <1>2, <1>3, PTL DEF Spec
=============================================================================
