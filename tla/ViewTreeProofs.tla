--------------------------- MODULE ViewTreeProofs ---------------------------
(***************************************************************************)
(* Proofs about ViewTree, for every finite set of views, every set of ids   *)
(* and any number of calls.                                                *)
(***************************************************************************)
EXTENDS ViewTree, WellFoundedInduction, FiniteSetTheorems, TLAPS

-----------------------------------------------------------------------------
(* Induction on natural numbers, and functions defined by it.               *)

(* Every set of natural numbers has a least member.                         *)
LEMMA LeastNat ==
    ASSUME NEW T \in SUBSET Nat, T # {}
    PROVE  \E m \in T : \A n \in T : m <= n
<1> DEFINE R == OpToRel(<, Nat)
<1>1. IsWellFoundedOn(R, Nat)
  BY NatLessThanWellFounded
<1>2. \A x, y \in Nat : <<x, y>> \in R <=> x < y
  BY DEF OpToRel
<1> HIDE DEF R
<1>3. PICK m \in T : \A n \in T : ~(<<n, m>> \in R)
  BY <1>1, WFMin
<1>4. \A n \in T : ~(n < m)
  BY <1>2, <1>3
<1>5. \A n \in T : m <= n
  BY <1>4
<1> QED
  BY <1>5

(* Induction, for a set rather than a predicate.                            *)
LEMMA SetInduction ==
    ASSUME NEW S, 0 \in S, \A n \in Nat : n \in S => n + 1 \in S
    PROVE  \A n \in Nat : n \in S
<1> DEFINE T == Nat \ S
<1> SUFFICES ASSUME T # {} PROVE FALSE
  OBVIOUS
<1>1. PICK m \in T : \A n \in T : m <= n
  BY LeastNat
<1>2. m \in Nat /\ m # 0
  BY <1>1
<1>3. m - 1 \in Nat /\ m - 1 \notin T
  BY <1>1, <1>2
<1>4. m - 1 + 1 = m
  BY <1>2
<1> QED
  BY <1>1, <1>3, <1>4

(* The first n answers of a function that is applied again and again.       *)
Iteration(f, n, b, g) == f[0] = b /\ \A i \in 0 .. n - 1 : f[i + 1] = g[f[i]]

LEMMA IterationExists ==
    ASSUME NEW T, NEW b \in T, NEW g \in [T -> T]
    PROVE  \A n \in Nat : \E f \in [0 .. n -> T] : Iteration(f, n, b, g)
<1> DEFINE S == {n \in Nat : \E f \in [0 .. n -> T] : Iteration(f, n, b, g)}
<1>1. 0 \in S
  <2>1. [i \in 0 .. 0 |-> b] \in [0 .. 0 -> T] /\ Iteration([i \in 0 .. 0 |-> b], 0, b, g)
    BY DEF Iteration
  <2> QED
    BY <2>1
<1>2. ASSUME NEW n \in Nat, n \in S
      PROVE  n + 1 \in S
  <2>1. PICK f \in [0 .. n -> T] : Iteration(f, n, b, g)
    BY <1>2
  <2> DEFINE h == [i \in 0 .. n + 1 |-> IF i = n + 1 THEN g[f[n]] ELSE f[i]]
  <2>2. h \in [0 .. n + 1 -> T]
    OBVIOUS
  <2>3. Iteration(h, n + 1, b, g)
    <3>1. h[0] = b
      BY <2>1 DEF Iteration
    <3>2. ASSUME NEW i \in 0 .. (n + 1) - 1
          PROVE  h[i + 1] = g[h[i]]
      BY <2>1 DEF Iteration
    <3> QED
      BY <3>1, <3>2 DEF Iteration
  <2> QED
    BY <2>2, <2>3
<1> HIDE DEF S
<1>3. \A n \in Nat : n \in S
  BY <1>1, <1>2, SetInduction
<1> QED
  BY <1>3 DEF S

LEMMA IterationUnique ==
    ASSUME NEW T, NEW b \in T, NEW g \in [T -> T], NEW m \in Nat, NEW n \in Nat, m <= n,
           NEW f \in [0 .. m -> T], Iteration(f, m, b, g),
           NEW h \in [0 .. n -> T], Iteration(h, n, b, g)
    PROVE  f[m] = h[m]
<1> DEFINE S == {i \in Nat : i <= m => f[i] = h[i]}
<1>1. 0 \in S
  BY DEF Iteration
<1>2. ASSUME NEW i \in Nat, i \in S
      PROVE  i + 1 \in S
  BY <1>2 DEF Iteration
<1>3. \A i \in Nat : i \in S
  <2> HIDE DEF S
  <2> QED
    BY <1>1, <1>2, SetInduction
<1> QED
  BY <1>3

LEMMA Iterates ==
    ASSUME NEW T, NEW b \in T, NEW g \in [T -> T]
    PROVE  \E f \in [Nat -> T] : f[0] = b /\ \A n \in Nat : f[n + 1] = g[f[n]]
<1> DEFINE approx(n) == CHOOSE h \in [0 .. n -> T] : Iteration(h, n, b, g)
           f == [n \in Nat |-> approx(n)[n]]
<1>1. \A n \in Nat : approx(n) \in [0 .. n -> T] /\ Iteration(approx(n), n, b, g)
  BY IterationExists
<1> HIDE DEF approx
<1>2. f \in [Nat -> T]
  BY <1>1
<1>3. f[0] = b
  BY <1>1 DEF Iteration
<1>4. ASSUME NEW n \in Nat
      PROVE  f[n + 1] = g[f[n]]
  <2>1. /\ approx(n + 1) \in [0 .. n + 1 -> T] /\ Iteration(approx(n + 1), n + 1, b, g)
        /\ approx(n) \in [0 .. n -> T] /\ Iteration(approx(n), n, b, g)
    BY <1>1
  <2>2. approx(n)[n] = approx(n + 1)[n]
    BY <2>1, IterationUnique
  <2>3. approx(n + 1)[n + 1] = g[approx(n + 1)[n]]
    BY <2>1 DEF Iteration
  <2> QED
    BY <2>2, <2>3
<1> QED
  BY <1>2, <1>3, <1>4

(* The answers one call of findView chooses from.                           *)
Answers == Views \cup {NoView, "deeper"}
Tables  == [Views -> [Ids -> Answers]]

LEMMA LeastIs ==
    ASSUME NEW S \in SUBSET Nat, S # {}
    PROVE  Least(S) \in S
  BY LeastNat DEF Least

LEMMA SearchType ==
    ASSUME TypeOK, NEW t \in Tables, NEW v \in Views, NEW name \in Ids
    PROVE  Search(t, v, name) \in Answers
<1> DEFINE kids   == subviews[v]
           direct == {i \in DOMAIN kids : id[kids[i]] = name}
           deep   == {i \in Searched(kids) : t[kids[i]][name] # NoView}
<1>1. Search(t, v, name) = IF direct # {} THEN kids[Least(direct)]
                           ELSE IF deep # {} THEN t[kids[Least(deep)]][name]
                           ELSE NoView
  BY DEF Search
<1>2. kids \in Seq(Views) /\ DOMAIN kids \subseteq Nat /\ \A i \in DOMAIN kids : kids[i] \in Views
  BY DEF TypeOK
<1>3. direct # {} => Least(direct) \in DOMAIN kids
  BY <1>2, LeastIs
<1>4. deep # {} => Least(deep) \in DOMAIN kids
  BY <1>2, LeastIs DEF Searched
<1> HIDE DEF kids, direct, deep
<1> QED
  BY <1>1, <1>2, <1>3, <1>4 DEF Tables, Answers

(* FindWithin is the function its definition describes.                     *)
LEMMA FindWithinIs ==
    ASSUME TypeOK
    PROVE  /\ FindWithin[0] = [v \in Views |-> [name \in Ids |-> "deeper"]]
           /\ \A n \in Nat : /\ FindWithin[n] \in Tables
                             /\ FindWithin[n + 1] = [v \in Views |-> [name \in Ids |->
                                                       Search(FindWithin[n], v, name)]]
<1> DEFINE b == [v \in Views |-> [name \in Ids |-> "deeper"]]
           g == [t \in Tables |-> [v \in Views |-> [name \in Ids |-> Search(t, v, name)]]]
           Def(f) == [n \in Nat |-> IF n = 0 THEN b
                                    ELSE [v \in Views |-> [name \in Ids |-> Search(f[n - 1], v, name)]]]
<1>1. b \in Tables
  BY DEF Tables, Answers
<1>2. g \in [Tables -> Tables]
  <2>1. ASSUME NEW t \in Tables
        PROVE  [v \in Views |-> [name \in Ids |-> Search(t, v, name)]] \in Tables
    BY SearchType DEF Tables
  <2> QED
    BY <2>1
<1>3. PICK f \in [Nat -> Tables] : f[0] = b /\ \A n \in Nat : f[n + 1] = g[f[n]]
  <2> HIDE DEF b, g
  <2> QED
    BY <1>1, <1>2, Iterates
<1>4. f = Def(f)
  <2>1. ASSUME NEW n \in Nat PROVE f[n] = Def(f)[n]
    <3>1. CASE n = 0
      BY <1>3, <3>1
    <3>2. CASE n # 0
      <4>1. n - 1 \in Nat /\ n - 1 + 1 = n
        BY <3>2
      <4>2. f[n] = g[f[n - 1]]
        BY <1>3, <4>1
      <4>3. f[n - 1] \in Tables
        BY <4>1
      <4> HIDE DEF b
      <4> QED
        BY <4>2, <4>3, <3>2
    <3> QED
      BY <3>1, <3>2
  <2> HIDE DEF b, g
  <2> QED
    BY <2>1
<1>5. FindWithin = Def(FindWithin)
  <2>1. FindWithin = CHOOSE h : h = Def(h)
    BY DEF FindWithin
  <2> HIDE DEF Def
  <2> QED
    BY <1>4, <2>1, Zenon
<1>6. FindWithin[0] = b
  BY <1>5
<1>7. \A n \in Nat : FindWithin[n + 1] = [v \in Views |-> [name \in Ids |-> Search(FindWithin[n], v, name)]]
  <2> TAKE n \in Nat
  <2>1. n + 1 \in Nat /\ n + 1 # 0 /\ n + 1 - 1 = n
    OBVIOUS
  <2>2. FindWithin[n + 1] = Def(FindWithin)[n + 1]
    BY <1>5, Zenon
  <2> HIDE DEF b
  <2> QED
    BY <2>1, <2>2
<1>8. \A n \in Nat : FindWithin[n] \in Tables
  <2> DEFINE S == {n \in Nat : FindWithin[n] \in Tables}
  <2>1. 0 \in S
    BY <1>1, <1>6
  <2>2. ASSUME NEW n \in Nat, n \in S
        PROVE  n + 1 \in S
    <3>1. g[FindWithin[n]] \in Tables /\ FindWithin[n + 1] = g[FindWithin[n]]
      BY <1>2, <1>7, <2>2
    <3> QED
      BY <3>1
  <2>3. \A n \in Nat : n \in S
    <3> HIDE DEF S
    <3> QED
      BY <2>1, <2>2, SetInduction
  <2> QED
    BY <2>3
<1> QED
  BY <1>6, <1>7, <1>8

-----------------------------------------------------------------------------
(* Paths down the tree.                                                     *)

Path(path, n) == \A i \in 0 .. n - 1 : path[i + 1] \in Children(path[i])

LEMMA BelowIs ==
    ASSUME NEW v \in Views, NEW n \in Nat
    PROVE  \A w : w \in Below(v, n) <=>
             w \in Views /\ \E path \in [0 .. n -> Views] :
                               path[0] = v /\ path[n] = w /\ Path(path, n)
  BY DEF Below, Path

LEMMA ChildIsView ==
    ASSUME TypeOK, NEW v \in Views
    PROVE  /\ Children(v) \subseteq Views
           /\ \A i \in DOMAIN subviews[v] : subviews[v][i] \in Children(v)
  BY DEF TypeOK, Children

LEMMA BelowNow ==
    ASSUME NEW v \in Views
    PROVE  v \in Below(v, 0)
<1> DEFINE path == [i \in 0 .. 0 |-> v]
<1>1. path \in [0 .. 0 -> Views] /\ path[0] = v /\ Path(path, 0)
  BY DEF Path
<1> HIDE DEF path
<1> QED
  BY <1>1, BelowIs

(* One step and then n more: the views n + 1 steps below v are those n      *)
(* steps below one of its subviews.                                         *)
LEMMA BelowStep ==
    ASSUME TypeOK, NEW v \in Views, NEW n \in Nat, NEW w
    PROVE  w \in Below(v, n + 1) <=> \E c \in Children(v) : w \in Below(c, n)
<1>0. Children(v) \subseteq Views
  BY ChildIsView
<1>1. ASSUME w \in Below(v, n + 1)
      PROVE  \E c \in Children(v) : w \in Below(c, n)
  <2>1. PICK path \in [0 .. n + 1 -> Views] : path[0] = v /\ path[n + 1] = w /\ Path(path, n + 1)
    BY <1>1, BelowIs
  <2> DEFINE rest == [i \in 0 .. n |-> path[i + 1]]
  <2>2. path[1] \in Children(v)
    BY <2>1 DEF Path
  <2>3. rest \in [0 .. n -> Views] /\ rest[0] = path[1] /\ rest[n] = w
    BY <2>1
  <2>4. Path(rest, n)
    <3> SUFFICES ASSUME NEW i \in 0 .. n - 1 PROVE rest[i + 1] \in Children(rest[i])
      BY DEF Path
    <3>1. i + 1 \in 0 .. (n + 1) - 1 /\ i \in 0 .. n /\ i + 1 \in 0 .. n
      OBVIOUS
    <3>2. path[(i + 1) + 1] \in Children(path[i + 1])
      BY <2>1, <3>1 DEF Path
    <3> QED
      BY <3>1, <3>2
  <2> HIDE DEF rest
  <2>5. w \in Views /\ path[1] \in Views
    BY <1>0, <2>1, <2>2
  <2>6. w \in Below(path[1], n)
    BY <2>3, <2>4, <2>5, BelowIs
  <2> QED
    BY <2>2, <2>6
<1>2. ASSUME NEW c \in Children(v), w \in Below(c, n)
      PROVE  w \in Below(v, n + 1)
  <2>1. PICK path \in [0 .. n -> Views] : path[0] = c /\ path[n] = w /\ Path(path, n)
    BY <1>0, <1>2, BelowIs
  <2> DEFINE all == [i \in 0 .. n + 1 |-> IF i = 0 THEN v ELSE path[i - 1]]
  <2>2. all \in [0 .. n + 1 -> Views] /\ all[0] = v /\ all[n + 1] = w
    BY <2>1
  <2>3. Path(all, n + 1)
    <3> SUFFICES ASSUME NEW i \in 0 .. (n + 1) - 1 PROVE all[i + 1] \in Children(all[i])
      BY DEF Path
    <3>1. CASE i = 0
      <4>1. all[i + 1] = c /\ all[i] = v
        BY <2>1, <3>1
      <4> QED
        BY <4>1
    <3>2. CASE i # 0
      <4>1. i - 1 \in 0 .. n - 1 /\ i + 1 \in 0 .. n + 1 /\ i \in 0 .. n + 1
        BY <3>2
      <4>2. path[(i - 1) + 1] \in Children(path[i - 1])
        BY <2>1, <4>1 DEF Path
      <4>3. all[i + 1] = path[(i - 1) + 1] /\ all[i] = path[i - 1]
        BY <3>2, <4>1
      <4> QED
        BY <4>2, <4>3
    <3> QED
      BY <3>1, <3>2
  <2> HIDE DEF all
  <2>4. w \in Views
    BY <2>1
  <2> QED
    BY <2>2, <2>3, <2>4, BelowIs
<1> QED
  BY <1>1, <1>2

LEMMA BelowOne ==
    ASSUME TypeOK, NEW v \in Views, NEW c \in Children(v)
    PROVE  c \in Below(v, 1)
<1>1. c \in Below(c, 0)
  BY ChildIsView, BelowNow
<1> QED
  BY <1>1, BelowStep

-----------------------------------------------------------------------------
(* findView, by induction on how deep it may recurse.                       *)

(* What an answer within n calls says about the views below v.              *)
Means(answer, v, name, n) ==
    /\ answer = NoView => \A k \in 1 .. n : \A w \in Below(v, k) : id[w] # name
    /\ answer \in Views => id[answer] = name /\ \E k \in 1 .. n : answer \in Below(v, k)
    /\ answer = "deeper" => Below(v, n) # {}

LEMMA SearchMeans ==
    ASSUME TypeOK, NEW t \in Tables, NEW v \in Views, NEW name \in Ids, NEW n \in Nat,
           \A c \in Views : Means(t[c][name], c, name, n)
    PROVE  Means(Search(t, v, name), v, name, n + 1)
<1> DEFINE kids   == subviews[v]
           direct == {i \in DOMAIN kids : id[kids[i]] = name}
           deep   == {i \in Searched(kids) : t[kids[i]][name] # NoView}
           answer == Search(t, v, name)
<1>1. answer = IF direct # {} THEN kids[Least(direct)]
               ELSE IF deep # {} THEN t[kids[Least(deep)]][name]
               ELSE NoView
  BY DEF Search
<1>2. /\ DOMAIN kids \subseteq Nat
      /\ \A i \in DOMAIN kids : kids[i] \in Views /\ kids[i] \in Children(v)
      /\ \A c \in Children(v) : \E i \in DOMAIN kids : kids[i] = c
      /\ Children(v) \subseteq Views
  BY DEF TypeOK, Children
<1> HIDE DEF answer
<1>3. CASE direct # {}
  <2>1. Least(direct) \in direct
    BY <1>2, <1>3, LeastIs
  <2>2. answer \in Children(v) /\ id[answer] = name /\ answer \in Views
    BY <1>1, <1>2, <1>3, <2>1
  <2>3. answer \in Below(v, 1) /\ 1 \in 1 .. n + 1
    BY <2>2, BelowOne
  <2>4. answer # NoView /\ answer # "deeper"
    BY <2>2, ViewConstants
  <2> QED
    BY <2>2, <2>3, <2>4 DEF Means, answer
<1>4. CASE direct = {} /\ deep # {}
  <2>1. Least(deep) \in deep /\ deep \subseteq DOMAIN kids
    BY <1>2, <1>4, LeastIs DEF Searched
  <2>2. PICK c \in Children(v) : c \in Views /\ answer = t[c][name] /\ t[c][name] # NoView
    BY <1>1, <1>2, <1>4, <2>1
  <2>3. Means(answer, c, name, n)
    BY <2>2
  <2>4. ASSUME answer \in Views
        PROVE  id[answer] = name /\ \E k \in 1 .. n + 1 : answer \in Below(v, k)
    <3>1. PICK k \in 1 .. n : answer \in Below(c, k)
      BY <2>3, <2>4 DEF Means
    <3>2. answer \in Below(v, k + 1) /\ k + 1 \in 1 .. n + 1
      BY <2>2, <3>1, BelowStep
    <3> QED
      BY <2>3, <2>4, <3>2 DEF Means
  <2>5. ASSUME answer = "deeper"
        PROVE  Below(v, n + 1) # {}
    <3>1. PICK w : w \in Below(c, n)
      BY <2>3, <2>5 DEF Means
    <3>2. w \in Below(v, n + 1)
      BY <2>2, <3>1, BelowStep
    <3> QED
      BY <3>2
  <2> QED
    BY <2>2, <2>4, <2>5 DEF Means, answer
<1>5. CASE direct = {} /\ deep = {}
  <2>1. answer = NoView
    BY <1>1, <1>5
  <2>2. \A c \in Children(v) : id[c] # name /\ t[c][name] = NoView
    BY <1>2, <1>5 DEF Searched
  <2>3. ASSUME NEW k \in 1 .. n + 1, NEW w \in Below(v, k)
        PROVE  id[w] # name
    <3>1. k - 1 \in Nat /\ (k - 1) + 1 = k /\ k - 1 \in 0 .. n
      OBVIOUS
    <3>2. PICK c \in Children(v) : w \in Below(c, k - 1)
      BY <3>1, BelowStep, <2>3
    <3>3. CASE k - 1 = 0
      <4>1. w = c
        BY <1>2, <3>2, <3>3, BelowIs
      <4> QED
        BY <2>2, <4>1
    <3>4. CASE k - 1 # 0
      <4>1. k - 1 \in 1 .. n
        BY <3>1, <3>4
      <4>2. Means(NoView, c, name, n)
        BY <1>2, <2>2
      <4> QED
        BY <3>2, <4>1, <4>2 DEF Means
    <3> QED
      BY <3>3, <3>4
  <2>4. NoView \notin Views /\ NoView # "deeper"
    BY ViewConstants
  <2> QED
    BY <2>1, <2>3, <2>4 DEF Means, answer
<1> QED
  BY <1>3, <1>4, <1>5

LEMMA FindMeans ==
    ASSUME TypeOK
    PROVE  \A n \in Nat : \A v \in Views, name \in Ids : Means(FindWithin[n][v][name], v, name, n)
<1> DEFINE S == {n \in Nat : \A v \in Views, name \in Ids : Means(FindWithin[n][v][name], v, name, n)}
<1>1. 0 \in S
  <2> SUFFICES ASSUME NEW v \in Views, NEW name \in Ids
               PROVE  Means(FindWithin[0][v][name], v, name, 0)
    OBVIOUS
  <2>1. FindWithin[0][v][name] = "deeper"
    BY FindWithinIs
  <2>2. Below(v, 0) # {} /\ "deeper" \notin Views /\ "deeper" # NoView
    BY BelowNow, ViewConstants
  <2> QED
    BY <2>1, <2>2 DEF Means
<1>2. ASSUME NEW n \in Nat, n \in S
      PROVE  n + 1 \in S
  <2> SUFFICES ASSUME NEW v \in Views, NEW name \in Ids
               PROVE  Means(FindWithin[n + 1][v][name], v, name, n + 1)
    OBVIOUS
  <2>1. /\ FindWithin[n] \in Tables
        /\ FindWithin[n + 1] = [c \in Views |-> [x \in Ids |-> Search(FindWithin[n], c, x)]]
    BY FindWithinIs
  <2>2. FindWithin[n + 1][v][name] = Search(FindWithin[n], v, name)
    BY <2>1
  <2>3. \A c \in Views : Means(FindWithin[n][c][name], c, name, n)
    BY <1>2
  <2> QED
    BY <2>1, <2>2, <2>3, SearchMeans
<1>3. \A n \in Nat : n \in S
  <2> HIDE DEF S
  <2> QED
    BY <1>1, <1>2, SetInduction
<1> QED
  BY <1>3

LEMMA SizeOfViews == Cardinality(Views) \in Nat
  BY ViewConstants, FS_CardinalityType

(* findView is complete in every state of the views.                        *)
LEMMA FindIsComplete ==
    ASSUME TypeOK
    PROVE  FindComplete
<1> DEFINE size == Cardinality(Views)
<1> SUFFICES ASSUME NEW v \in Views, NEW name \in Ids
             PROVE  LET found == FindWithin[size][v][name]
                        named == {w \in UNION {Below(v, n) : n \in 1 .. size} : id[w] = name}
                    IN  /\ found = NoView => named = {}
                        /\ found \in Views => found \in named
                        /\ found = "deeper" => Below(v, size) # {}
  BY DEF FindComplete
<1>1. Means(FindWithin[size][v][name], v, name, size)
  BY SizeOfViews, FindMeans
<1> QED
  BY <1>1 DEF Means

-----------------------------------------------------------------------------
(* The invariant: what the properties rest on.  A view that is not made yet *)
(* is nobody's parent or child, script and window own views that are alive, *)
(* the asset makes a native view for each view, and only native views are   *)
(* tracked.                                                                 *)
Owned ==
    /\ \A v \in Views : class[v] = "none" => superview[v] = NoView /\ nativeSuper[v] = NoView
    /\ \A v \in Views : superview[v] \in Views => class[superview[v]] # "none"
    /\ \A v \in held \cup {Root} : Alive(v)
    /\ running = "loading" => \A v \in Views : Alive(v) => v \in nsview
    /\ tracked \subseteq nsview

TreeInv == TypeOK /\ LinksAgree /\ NativeMirrorsTree /\ TrackedOnlyIfWanted /\ Owned

(* Putting a view without a parent into a list.                             *)
LEMMA Linking ==
    ASSUME TypeOK, OneParent, NEW p \in Views, NEW v \in Views, superview[v] = NoView, Link(p, v)
    PROVE  /\ superview' \in [Views -> Views \cup {NoView}]
           /\ subviews' \in [Views -> Seq(Views)]
           /\ OneParent'
<1>1. /\ superview' = [superview EXCEPT ![v] = p]
      /\ subviews' = [subviews EXCEPT ![p] = Append(@, v)]
  BY DEF Link
<1>2. subviews[p] \in Seq(Views) /\ Append(subviews[p], v) \in Seq(Views)
  BY DEF TypeOK
<1>3. /\ superview' \in [Views -> Views \cup {NoView}]
      /\ subviews' \in [Views -> Seq(Views)]
  BY <1>1, <1>2 DEF TypeOK
<1>4. \A w \in Views : superview'[w] = IF w = v THEN p ELSE superview[w]
  BY <1>1 DEF TypeOK
<1>5. \A w \in Views : subviews'[w] = IF w = p THEN Append(subviews[p], v) ELSE subviews[w]
  BY <1>1 DEF TypeOK
<1>6. \A q \in Views : \A i \in DOMAIN subviews[q] : subviews[q][i] \in Views /\ subviews[q][i] # v
  <2> SUFFICES ASSUME NEW q \in Views, NEW i \in DOMAIN subviews[q]
               PROVE  subviews[q][i] \in Views /\ subviews[q][i] # v
    OBVIOUS
  <2>1. subviews[q][i] \in Views
    BY DEF TypeOK
  <2>2. superview[subviews[q][i]] = q /\ q # NoView
    BY ViewConstants DEF OneParent
  <2> QED
    BY <2>1, <2>2
<1>7. \A i \in DOMAIN Append(subviews[p], v) :
        \/ i \in DOMAIN subviews[p] /\ Append(subviews[p], v)[i] = subviews[p][i]
        \/ i = Len(subviews[p]) + 1 /\ Append(subviews[p], v)[i] = v
  BY <1>2
<1>8. OneParent'
  <2> SUFFICES ASSUME NEW q \in Views, NEW i \in DOMAIN subviews'[q]
               PROVE  /\ superview'[subviews'[q][i]] = q
                      /\ \A j \in DOMAIN subviews'[q] :
                           subviews'[q][i] = subviews'[q][j] => i = j
    BY DEF OneParent
  <2>1. CASE q # p
    BY <1>4, <1>5, <1>6, <2>1 DEF OneParent
  <2>2. CASE q = p
    <3> DEFINE new == Append(subviews[p], v)
    <3>1. subviews'[q] = new
      BY <1>5, <2>2
    <3>2. \A k \in DOMAIN new :
            \/ k \in DOMAIN subviews[p] /\ new[k] = subviews[p][k] /\ new[k] # v /\ new[k] \in Views
            \/ k = Len(subviews[p]) + 1 /\ new[k] = v
      BY <1>6, <1>7
    <3> HIDE DEF new
    <3>3. superview'[new[i]] = p
      BY <1>4, <2>2, <3>1, <3>2 DEF OneParent
    <3>4. \A j \in DOMAIN new : new[i] = new[j] => i = j
      BY <3>1, <3>2 DEF OneParent
    <3> QED
      BY <2>2, <3>1, <3>3, <3>4
  <2> QED
    BY <2>1, <2>2
<1> QED
  BY <1>3, <1>8


LEMMA InitTree == Init => TreeInv
<1> SUFFICES ASSUME Init PROVE TreeInv
  OBVIOUS
<1>1. TypeOK
  <2>1. class \in [Views -> Classes \cup {"none", "freed"}] /\ id \in [Views -> Ids \cup {NoView}]
    BY DEF Init, Classes
  <2>2. superview \in [Views -> Views \cup {NoView}] /\ nativeSuper \in [Views -> Views \cup {NoView}]
    BY DEF Init
  <2>3. <<>> \in Seq(Views)
    OBVIOUS
  <2>4. subviews \in [Views -> Seq(Views)]
    BY <2>3 DEF Init
  <2>5. handler \in [Views -> SUBSET Events]
    BY DEF Init
  <2>6. nsview \in SUBSET Views /\ tracked \in SUBSET Views /\ held \in SUBSET Views
    BY ViewConstants DEF Init
  <2>7. calls \in 0 .. MaxCalls
    BY ViewConstants DEF Init
  <2>8. running \in {"loading", "yes", "exited", "assertion", "exception", "overflow"}
    BY DEF Init
  <2> QED
    BY <2>1, <2>2, <2>4, <2>5, <2>6, <2>7, <2>8 DEF TypeOK
<1>2. LinksAgree
  <2>1. \A p \in Views : DOMAIN subviews[p] = {}
    BY DEF Init
  <2>2. \A v \in Views : superview[v] = NoView
    BY DEF Init
  <2> QED
    BY <2>1, <2>2, ViewConstants DEF LinksAgree, OneParent, Children
<1>3. NativeMirrorsTree /\ TrackedOnlyIfWanted
  BY ViewConstants DEF Init, NativeMirrorsTree, TrackedOnlyIfWanted, Alive, Classes
<1>4. Owned
  BY ViewConstants DEF Init, Owned, Alive, Classes
<1> QED
  BY <1>1, <1>2, <1>3, <1>4 DEF TreeInv

(* Putting a view without a parent into the list of a living one.           *)
LEMMA LinkAgrees ==
    ASSUME TypeOK, LinksAgree, NEW p \in Views, NEW v \in Views, superview[v] = NoView,
           Link(p, v), class' \in [Views -> Classes \cup {"none", "freed"}],
           class'[v] \in Classes, \A w \in Views : w # v => class'[w] = class[w],
           Alive(v) \/ \A w \in Views : superview[w] # v
    PROVE  LinksAgree'
<1>1. OneParent'
  BY Linking DEF LinksAgree
<1>2. /\ superview' = [superview EXCEPT ![v] = p]
      /\ subviews' = [subviews EXCEPT ![p] = Append(@, v)]
  BY DEF Link
<1>3. /\ subviews[p] \in Seq(Views)
      /\ \A w \in Views : superview'[w] = IF w = v THEN p ELSE superview[w]
      /\ \A w \in Views : subviews'[w] = IF w = p THEN Append(subviews[p], v) ELSE subviews[w]
  BY <1>2 DEF TypeOK
<1>4. \A q \in Views : \A w : w \in Children(q)' <=> w \in Children(q) \/ (q = p /\ w = v)
  <2> SUFFICES ASSUME NEW q \in Views, NEW w
               PROVE  w \in Children(q)' <=> w \in Children(q) \/ (q = p /\ w = v)
    OBVIOUS
  <2>1. CASE q # p
    BY <1>3, <2>1 DEF Children
  <2>2. CASE q = p
    <3> DEFINE new == Append(subviews[p], v)
    <3>1. /\ DOMAIN new = 1 .. Len(subviews[p]) + 1 /\ DOMAIN subviews[p] = 1 .. Len(subviews[p])
          /\ Len(subviews[p]) \in Nat
          /\ new[Len(subviews[p]) + 1] = v
          /\ \A i \in DOMAIN subviews[p] : new[i] = subviews[p][i]
      BY <1>3
    <3>2. subviews'[q] = new
      BY <1>3, <2>2
    <3> HIDE DEF new
    <3> QED
      BY <2>2, <3>1, <3>2 DEF Children
  <2> QED
    BY <2>1, <2>2
<1>5. \A w \in Views : Alive(w)' <=> w = v \/ Alive(w)
  BY DEF Alive
<1>6. ASSUME NEW q \in Views, NEW w, w \in Children(q)'
      PROVE  Alive(w)'
  <2>1. w \in Views
    BY <1>4, <1>6, ChildIsView
  <2> QED
    BY <1>4, <1>5, <1>6, <2>1 DEF LinksAgree
<1>7. ASSUME NEW w \in Views, Alive(w)', NEW q \in Views, superview'[w] = q, Alive(q)'
      PROVE  w \in Children(q)'
  <2>1. CASE w = v
    BY <1>3, <1>4, <1>7, <2>1
  <2>2. CASE w # v
    <3>1. superview[w] = q /\ Alive(w) /\ Alive(q)
      BY <1>3, <1>5, <1>7, <2>2
    <3> QED
      BY <1>4, <3>1 DEF LinksAgree
  <2> QED
    BY <2>1, <2>2
<1> QED
  BY <1>1, <1>6, <1>7 DEF LinksAgree, Alive, Children

(* What reference counting keeps: the views script and window refer to, and *)
(* the subviews of what it keeps.                                           *)
LEMMA KeptIs ==
    ASSUME TypeOK, LinksAgree, NEW h \in SUBSET Views
    PROVE  /\ \A v \in Kept(h) : v \in Views /\ Alive(v)
           /\ \A v \in h \cup {Root} : Alive(v) => v \in Kept(h)
           /\ \A p \in Kept(h) : Children(p) \subseteq Kept(h)
           /\ \A S \in SUBSET Views :
                (\A v \in S : Alive(v) /\ (v \in Kept(h) \/ \E p \in S : v \in Children(p)))
                  => S \subseteq Kept(h)
<1> DEFINE living == {v \in Views : Alive(v)}
           Good(S) == \A v \in S : v \in h \cup {Root} \/ \E p \in S : v \in Children(p)
<1>1. \A v : v \in Kept(h) <=> \E S \in SUBSET living : Good(S) /\ v \in S
  BY DEF Kept
<1>2. \A v \in Kept(h) : v \in living
  BY <1>1
<1>3. Good(Kept(h))
  BY <1>1
<1>4. ASSUME NEW S \in SUBSET Views,
             \A v \in S : Alive(v) /\ (v \in Kept(h) \/ \E p \in S : v \in Children(p))
      PROVE  S \subseteq Kept(h)
  <2> DEFINE T == S \cup Kept(h)
  <2>1. T \in SUBSET living
    BY <1>2, <1>4
  <2>2. Good(T)
    BY <1>3, <1>4
  <2> HIDE DEF Good, living
  <2> QED
    BY <1>1, <2>1, <2>2
<1>5. ASSUME NEW v \in h \cup {Root}, Alive(v)
      PROVE  v \in Kept(h)
  <2>1. {v} \in SUBSET living /\ Good({v})
    BY <1>5, ViewConstants
  <2> HIDE DEF Good, living
  <2> QED
    BY <1>1, <2>1
<1>6. ASSUME NEW p \in Kept(h), NEW c \in Children(p)
      PROVE  c \in Kept(h)
  <2>1. p \in Views /\ c \in Views /\ Alive(c)
    BY <1>2, ChildIsView DEF LinksAgree
  <2> DEFINE S == Kept(h) \cup {c}
  <2>2. S \in SUBSET Views
    BY <1>2, <2>1
  <2>3. \A v \in S : Alive(v) /\ (v \in Kept(h) \/ \E q \in S : v \in Children(q))
    BY <1>2, <2>1
  <2> HIDE DEF S
  <2>4. S \subseteq Kept(h)
    BY <1>4, <2>2, <2>3
  <2> QED
    BY <2>4 DEF S
<1> QED
  BY <1>2, <1>4, <1>5, <1>6

(* AppKit keeps no native view whose View goes away: below a native view    *)
(* that is kept, the Views are kept as well.                                *)
LEMMA NativeKeptIs ==
    ASSUME TreeInv, NEW h \in SUBSET Views
    PROVE  NativeKept(Kept(h)) = Kept(h) \cap nsview
<1> USE DEF TreeInv
<1> DEFINE kept == Kept(h)
<1>1. /\ \A v \in kept : v \in Views /\ Alive(v)
      /\ \A S \in SUBSET Views :
           (\A v \in S : Alive(v) /\ (v \in kept \/ \E p \in S : v \in Children(p)))
             => S \subseteq kept
  BY KeptIs
<1> HIDE DEF kept
<1>2. ASSUME NEW S \in SUBSET nsview, \A v \in S : v \in kept \/ nativeSuper[v] \in S
      PROVE  S \subseteq kept
  <2>1. S \in SUBSET Views
    BY DEF TypeOK
  <2>2. ASSUME NEW v \in S, v \notin kept
        PROVE  \E p \in S : v \in Children(p)
    <3>1. nativeSuper[v] \in S /\ v \in nsview /\ v \in Views /\ NoView \notin S
      BY <1>2, <2>1, <2>2, ViewConstants
    <3>2. nativeSuper[v] = superview[v] /\ Alive(v)
      BY <3>1 DEF NativeMirrorsTree
    <3>3. superview[v] \in Views /\ Alive(superview[v])
      BY <2>1, <3>1, <3>2 DEF NativeMirrorsTree
    <3> QED
      BY <3>1, <3>2, <3>3 DEF LinksAgree
  <2>3. \A v \in S : Alive(v)
    BY DEF NativeMirrorsTree
  <2> QED
    BY <1>1, <2>1, <2>2, <2>3
<1>3. NativeKept(kept) \subseteq kept \cap nsview
  BY <1>2 DEF NativeKept
<1>4. kept \cap nsview \subseteq NativeKept(kept)
  BY DEF NativeKept
<1> QED
  BY <1>3, <1>4 DEF kept

(* Steps that leave the views and who owns them alone.                      *)
LEMMA SameTree ==
    ASSUME TreeInv, TypeOK',
           UNCHANGED <<class, superview, subviews, nsview, nativeSuper, handler, tracked, held>>,
           running' = "loading" => running = "loading"
    PROVE  TreeInv'
  BY DEF TreeInv, LinksAgree, OneParent, Children, Alive, NativeMirrorsTree,
         TrackedOnlyIfWanted, Owned

LEMMA LoadKeeps ==
    ASSUME TreeInv, NEW p \in Views, NEW v \in Views, NEW c \in Classes, LoadView(p, v, c)
    PROVE  TreeInv'
<1> USE DEF TreeInv
<1>1. /\ running = "loading" /\ Alive(p) /\ class[v] = "none" /\ Link(p, v)
      /\ class' = [class EXCEPT ![v] = c]
      /\ nsview' = nsview \cup {v}
      /\ nativeSuper' = [nativeSuper EXCEPT ![v] = p]
      /\ UNCHANGED <<id, handler, tracked, held, calls, running>>
  BY DEF LoadView
<1>2. superview[v] = NoView /\ (\A w \in Views : superview[w] # v) /\ p \in nsview /\ v \notin nsview
  BY <1>1 DEF Owned, NativeMirrorsTree, Alive, Classes
<1>3. /\ superview' \in [Views -> Views \cup {NoView}]
      /\ subviews' \in [Views -> Seq(Views)]
  BY <1>1, <1>2, Linking DEF LinksAgree
<1>4. class' \in [Views -> Classes \cup {"none", "freed"}]
  BY <1>1 DEF TypeOK
<1>5. TypeOK'
  BY <1>1, <1>3, <1>4 DEF TypeOK
<1>6. /\ \A w \in Views : class'[w] = IF w = v THEN c ELSE class[w]
      /\ \A w \in Views : superview'[w] = IF w = v THEN p ELSE superview[w]
      /\ \A w \in Views : nativeSuper'[w] = IF w = v THEN p ELSE nativeSuper[w]
  BY <1>1 DEF TypeOK, Link
<1>7. LinksAgree'
  BY <1>1, <1>2, <1>4, <1>6, LinkAgrees
<1>8. NativeMirrorsTree'
  <2> SUFFICES ASSUME NEW w \in nsview'
               PROVE  /\ class'[w] \in Classes
                      /\ nativeSuper'[w] = (IF superview'[w] \in nsview' THEN superview'[w] ELSE NoView)
    BY DEF NativeMirrorsTree, Alive
  <2>1. CASE w = v
    BY <1>1, <1>2, <1>6, <2>1
  <2>2. CASE w # v
    <3>1. w \in nsview /\ w \in Views /\ superview[w] # v
      BY <1>1, <1>2, <2>2 DEF TypeOK
    <3> QED
      BY <1>1, <1>6, <2>2, <3>1 DEF NativeMirrorsTree, Alive
  <2> QED
    BY <2>1, <2>2
<1>9. TrackedOnlyIfWanted'
  BY <1>1 DEF TrackedOnlyIfWanted
<1>10. Owned'
  <2>1. \A w \in Views : Alive(w)' <=> w = v \/ Alive(w)
    BY <1>6 DEF Alive
  <2>2. \A w \in Views : class'[w] = "none" <=> w # v /\ class[w] = "none"
    BY <1>6 DEF Classes
  <2>3. p # v
    BY <1>1 DEF Alive, Classes
  <2>4. class[p] # "none"
    BY <1>1 DEF Alive, Classes
  <2>5. \A w \in Views : class'[w] = "none" => superview'[w] = NoView /\ nativeSuper'[w] = NoView
    BY <1>6, <2>2 DEF Owned
  <2>6. \A w \in Views : superview'[w] \in Views => class'[superview'[w]] # "none"
    BY <1>6, <2>2, <2>3, <2>4 DEF Owned
  <2>7. \A w \in held' \cup {Root} : Alive(w)'
    BY <1>1, <2>1, ViewConstants DEF Owned, TypeOK
  <2>8. tracked' \subseteq nsview' /\ \A w \in Views : Alive(w)' => w \in nsview'
    BY <1>1, <2>1 DEF Owned
  <2> QED
    BY <2>5, <2>6, <2>7, <2>8 DEF Owned
<1> QED
  BY <1>5, <1>7, <1>8, <1>9, <1>10

LEMMA NewKeeps ==
    ASSUME TreeInv, NEW v \in Views, NEW c \in Classes, NewView(v, c)
    PROVE  TreeInv'
<1> USE DEF TreeInv
<1>1. /\ running = "yes" /\ class[v] = "none"
      /\ class' = [class EXCEPT ![v] = c]
      /\ nsview' = IF c = "Button" THEN nsview \cup {v} ELSE nsview
      /\ held' = held \cup {v}
      /\ UNCHANGED <<id, superview, subviews, nativeSuper, handler, tracked, calls, running>>
  BY DEF NewView
<1>2. TypeOK'
  BY <1>1 DEF TypeOK
<1>3. \A w \in Views : class'[w] = IF w = v THEN c ELSE class[w]
  BY <1>1 DEF TypeOK
<1>4. superview[v] = NoView /\ nativeSuper[v] = NoView /\ \A w \in Views : superview[w] # v
  BY <1>1 DEF Owned
<1>5. \A w \in Views : Alive(w)' <=> w = v \/ Alive(w)
  BY <1>3 DEF Alive
<1>6. LinksAgree'
  <2>1. OneParent' /\ \A q \in Views : Children(q)' = Children(q)
    BY <1>1 DEF LinksAgree, OneParent, Children
  <2>2. \A q \in Views : \A w \in Children(q)' : Alive(w)'
    BY <1>5, <2>1, ChildIsView DEF LinksAgree
  <2>3. ASSUME NEW w \in Views, Alive(w)', NEW q \in Views, superview'[w] = q, Alive(q)'
        PROVE  w \in Children(q)'
    BY <1>1, <1>4, <1>5, <2>1, <2>3, ViewConstants DEF LinksAgree
  <2> QED
    BY <2>1, <2>2, <2>3 DEF LinksAgree, Alive, Children
<1>7. NativeMirrorsTree'
  <2> SUFFICES ASSUME NEW w \in nsview'
               PROVE  /\ class'[w] \in Classes
                      /\ nativeSuper'[w] = (IF superview'[w] \in nsview' THEN superview'[w] ELSE NoView)
    BY DEF NativeMirrorsTree, Alive
  <2>1. NoView \notin nsview'
    BY <1>2, ViewConstants DEF TypeOK
  <2>2. CASE w = v
    BY <1>1, <1>3, <1>4, <2>1, <2>2
  <2>3. CASE w # v
    <3>1. w \in nsview /\ w \in Views /\ superview[w] # v
      BY <1>1, <1>4, <2>3 DEF TypeOK
    <3> QED
      BY <1>1, <1>3, <2>3, <3>1 DEF NativeMirrorsTree, Alive
  <2> QED
    BY <2>2, <2>3
<1>8. TrackedOnlyIfWanted'
  BY <1>1 DEF TrackedOnlyIfWanted
<1>9. Owned'
  <2>1. \A w \in Views : class'[w] = "none" <=> w # v /\ class[w] = "none"
    BY <1>1, <1>3 DEF Classes
  <2>2. \A w \in Views : superview'[w] \in Views => class'[superview'[w]] # "none"
    BY <1>1, <2>1 DEF Owned
  <2>3. \A w \in held' \cup {Root} : Alive(w)'
    BY <1>1, <1>5, ViewConstants DEF Owned, TypeOK
  <2>4. tracked' \subseteq nsview' /\ running' # "loading"
    BY <1>1 DEF Owned
  <2> QED
    BY <1>1, <2>1, <2>2, <2>3, <2>4 DEF Owned
<1> QED
  BY <1>2, <1>6, <1>7, <1>8, <1>9

LEMMA AddKeeps ==
    ASSUME TreeInv, NEW p \in Views, NEW v \in Views, AddView(p, v)
    PROVE  TreeInv'
<1> USE DEF TreeInv
<1>1. /\ running = "yes" /\ p \in held \cup {Root} /\ v \in held \cup {Root}
      /\ UNCHANGED <<class, id, nsview, handler, tracked, held, calls>>
  BY DEF AddView
<1>2. CASE superview[v] # NoView
  <2>1. running' = "assertion" /\ UNCHANGED <<superview, subviews, nativeSuper>>
    BY <1>2 DEF AddView
  <2>2. TypeOK'
    BY <1>1, <2>1 DEF TypeOK
  <2> QED
    BY <1>1, <2>1, <2>2, SameTree
<1>3. CASE superview[v] = NoView
  <2>1. Link(p, v) /\ NativeAdd(p, v) /\ UNCHANGED running
    BY <1>3 DEF AddView
  <2>2. /\ superview' \in [Views -> Views \cup {NoView}]
        /\ subviews' \in [Views -> Seq(Views)]
    BY <1>3, <2>1, Linking DEF LinksAgree
  <2>3. nativeSuper' = IF p \in nsview /\ v \in nsview THEN [nativeSuper EXCEPT ![v] = p]
                       ELSE nativeSuper
    BY <2>1 DEF NativeAdd
  <2>4. TypeOK'
    BY <1>1, <2>1, <2>2, <2>3 DEF TypeOK
  <2>5. /\ \A w \in Views : superview'[w] = IF w = v THEN p ELSE superview[w]
        /\ \A w \in Views : nativeSuper'[w] = IF w = v /\ p \in nsview /\ v \in nsview THEN p
                                              ELSE nativeSuper[w]
    BY <2>1, <2>3 DEF TypeOK, Link
  <2>6. Alive(p) /\ Alive(v)
    BY <1>1 DEF Owned
  <2>7. LinksAgree'
    <3>1. class' \in [Views -> Classes \cup {"none", "freed"}] /\ class'[v] \in Classes
      BY <1>1, <2>6 DEF TypeOK, Alive
    <3> QED
      BY <1>1, <1>3, <2>1, <2>6, <3>1, LinkAgrees
  <2>8. NativeMirrorsTree'
    <3> SUFFICES ASSUME NEW w \in nsview'
                 PROVE  /\ class'[w] \in Classes
                        /\ nativeSuper'[w] = (IF superview'[w] \in nsview' THEN superview'[w] ELSE NoView)
      BY DEF NativeMirrorsTree, Alive
    <3>1. w \in nsview /\ w \in Views /\ NoView \notin nsview
      BY <1>1, ViewConstants DEF TypeOK
    <3>2. CASE w = v
      BY <1>1, <1>3, <2>5, <3>1, <3>2 DEF NativeMirrorsTree, Alive
    <3>3. CASE w # v
      BY <1>1, <2>5, <3>1, <3>3 DEF NativeMirrorsTree, Alive
    <3> QED
      BY <3>2, <3>3
  <2>9. TrackedOnlyIfWanted'
    BY <1>1 DEF TrackedOnlyIfWanted
  <2>10. Owned'
    <3>1. class[v] # "none" /\ class[p] # "none"
      BY <2>6 DEF Alive, Classes
    <3>2. \A w \in Views : class'[w] = "none" => superview'[w] = NoView /\ nativeSuper'[w] = NoView
      BY <1>1, <2>5, <3>1 DEF Owned
    <3>3. \A w \in Views : superview'[w] \in Views => class'[superview'[w]] # "none"
      BY <1>1, <2>5, <3>1 DEF Owned
    <3>4. running' # "loading"
      BY <1>1, <2>1
    <3> QED
      BY <1>1, <3>2, <3>3, <3>4 DEF Owned, Alive
  <2> QED
    BY <2>4, <2>7, <2>8, <2>9, <2>10
<1> QED
  BY <1>2, <1>3

(* What a script finds is listed by a parent, so it is alive.               *)
LEMMA FindKeeps ==
    ASSUME TreeInv, NEW v \in Views, NEW name \in Ids, FindView(v, name)
    PROVE  TreeInv'
<1> USE DEF TreeInv
<1> DEFINE found == FindWithin[Cardinality(Views)][v][name]
<1>1. /\ running = "yes"
      /\ \/ running' = "overflow" /\ UNCHANGED held
         \/ found \in Views /\ held' = held \cup {found} /\ UNCHANGED running
      /\ UNCHANGED <<class, id, superview, subviews, nsview, nativeSuper, handler, tracked, calls>>
  BY DEF FindView
<1>2. found \in Views => \E k \in 1 .. Cardinality(Views) : found \in Below(v, k)
  BY SizeOfViews, FindMeans DEF Means
<1> HIDE DEF found
<1>3. TypeOK'
  BY <1>1 DEF TypeOK
<1>4. CASE UNCHANGED held
  BY <1>1, <1>3, <1>4, SameTree
<1>5. CASE found \in Views /\ held' = held \cup {found} /\ UNCHANGED running
  <2>1. PICK k \in 1 .. Cardinality(Views) : found \in Below(v, k)
    BY <1>2, <1>5
  <2>2. k \in Nat /\ k - 1 \in 0 .. k /\ k - 1 \in 0 .. k - 1 /\ (k - 1) + 1 = k
    BY <2>1, SizeOfViews
  <2>3. PICK path \in [0 .. k -> Views] : path[k] = found /\ Path(path, k)
    BY <2>1, <2>2, BelowIs
  <2>4. found \in Children(path[k - 1]) /\ path[k - 1] \in Views
    BY <2>2, <2>3 DEF Path
  <2>5. Alive(found)
    BY <2>4 DEF LinksAgree
  <2>6. Owned'
    BY <1>1, <1>5, <2>5 DEF Owned, Alive
  <2>7. LinksAgree' /\ NativeMirrorsTree' /\ TrackedOnlyIfWanted'
    BY <1>1 DEF LinksAgree, OneParent, Children, Alive, NativeMirrorsTree, TrackedOnlyIfWanted
  <2> QED
    BY <1>3, <2>6, <2>7
<1> QED
  BY <1>1, <1>4, <1>5

LEMMA DropKeeps ==
    ASSUME TreeInv, NEW v \in Views, Drop(v)
    PROVE  TreeInv'
<1> USE DEF TreeInv
<1> DEFINE kept   == Kept(held \ {v})
           native == NativeKept(kept)
<1>1. /\ running = "yes" /\ held' = held \ {v}
      /\ class' = [w \in Views |-> IF Alive(w) /\ w \notin kept THEN "freed" ELSE class[w]]
      /\ subviews' = [w \in Views |-> IF w \in kept THEN subviews[w] ELSE <<>>]
      /\ nsview' = native
      /\ nativeSuper' = [w \in Views |->
                           IF nativeSuper[w] \in native THEN nativeSuper[w] ELSE NoView]
      /\ tracked' = tracked \cap native
      /\ handler' = [w \in Views |-> IF w \in kept THEN handler[w] ELSE {}]
      /\ UNCHANGED <<id, superview, calls, running>>
  BY DEF Drop
<1>2. held \ {v} \in SUBSET Views
  BY DEF TypeOK
<1>3. /\ \A w \in kept : w \in Views /\ Alive(w)
      /\ \A w \in (held \ {v}) \cup {Root} : Alive(w) => w \in kept
      /\ \A p \in kept : Children(p) \subseteq kept
  BY <1>2, KeptIs
<1>4. native = kept \cap nsview
  BY <1>2, NativeKeptIs
<1> HIDE DEF kept, native
<1>5. TypeOK'
  <2>1. <<>> \in Seq(Views)
    OBVIOUS
  <2>2. subviews' \in [Views -> Seq(Views)]
    BY <1>1, <2>1 DEF TypeOK
  <2>3. nativeSuper' \in [Views -> Views \cup {NoView}] /\ nsview' \in SUBSET Views
    BY <1>1, <1>4 DEF TypeOK
  <2>4. class' \in [Views -> Classes \cup {"none", "freed"}] /\ handler' \in [Views -> SUBSET Events]
    BY <1>1 DEF TypeOK
  <2> QED
    BY <1>1, <2>2, <2>3, <2>4 DEF TypeOK
<1>6. /\ \A w \in Views : class'[w] = IF Alive(w) /\ w \notin kept THEN "freed" ELSE class[w]
      /\ \A w \in Views : Alive(w)' <=> w \in kept
  <2>1. \A w \in Views : class'[w] = IF Alive(w) /\ w \notin kept THEN "freed" ELSE class[w]
    BY <1>1
  <2>2. "freed" \notin Classes
    BY DEF Classes
  <2> QED
    BY <1>3, <2>1, <2>2 DEF Alive
<1>7. /\ \A w \in Views : subviews'[w] = IF w \in kept THEN subviews[w] ELSE <<>>
      /\ \A w \in Views : nativeSuper'[w] = IF nativeSuper[w] \in native THEN nativeSuper[w] ELSE NoView
      /\ \A w \in kept : handler'[w] = handler[w]
  BY <1>1, <1>3
<1>8. /\ \A w \in Views : w \in kept => Children(w)' = Children(w)
      /\ \A w \in Views : w \notin kept => Children(w)' = {}
  BY <1>7 DEF Children
<1>9. LinksAgree'
  <2>1. OneParent'
    <3>1. \A w \in Views : subviews'[w] = subviews[w] \/ subviews'[w] = <<>>
      BY <1>7
    <3> QED
      BY <1>1, <3>1 DEF OneParent, LinksAgree
  <2>2. \A q \in Views : \A w \in Children(q)' : Alive(w)'
    BY <1>3, <1>6, <1>8
  <2>3. ASSUME NEW w \in Views, Alive(w)', NEW q \in Views, superview'[w] = q, Alive(q)'
        PROVE  w \in Children(q)'
    BY <1>1, <1>3, <1>6, <1>8, <2>3 DEF LinksAgree
  <2> QED
    BY <2>1, <2>2, <2>3 DEF LinksAgree, Alive, Children
<1>10. NativeMirrorsTree'
  <2> SUFFICES ASSUME NEW w \in nsview'
               PROVE  /\ Alive(w)'
                      /\ nativeSuper'[w] = (IF superview'[w] \in nsview' THEN superview'[w] ELSE NoView)
    BY DEF NativeMirrorsTree, Alive
  <2>1. w \in kept /\ w \in nsview /\ w \in Views /\ nsview' = native /\ NoView \notin native
    BY <1>1, <1>4, ViewConstants DEF TypeOK
  <2>2. nativeSuper[w] = (IF superview[w] \in nsview THEN superview[w] ELSE NoView)
    BY <2>1 DEF NativeMirrorsTree
  <2> QED
    BY <1>1, <1>4, <1>6, <1>7, <2>1, <2>2
<1>11. TrackedOnlyIfWanted'
  BY <1>1, <1>4, <1>7 DEF TrackedOnlyIfWanted
<1>12. Owned'
  <2>1. \A w \in Views : class'[w] = "none" <=> class[w] = "none"
    BY <1>6 DEF Alive, Classes
  <2>2. \A w \in Views : class'[w] = "none" => superview'[w] = NoView /\ nativeSuper'[w] = NoView
    BY <1>1, <1>7, <2>1 DEF Owned
  <2>3. \A w \in Views : superview'[w] \in Views => class'[superview'[w]] # "none"
    BY <1>1, <2>1 DEF Owned
  <2>4. \A w \in held' \cup {Root} : Alive(w)'
    BY <1>1, <1>3, <1>6 DEF Owned
  <2>5. tracked' \subseteq nsview' /\ running' # "loading"
    BY <1>1
  <2> QED
    BY <2>2, <2>3, <2>4, <2>5 DEF Owned
<1> QED
  BY <1>5, <1>9, <1>10, <1>11, <1>12

LEMMA SetKeeps ==
    ASSUME TreeInv, NEW v \in Views, NEW e \in Events, NEW set \in BOOLEAN, SetHandler(v, e, set)
    PROVE  TreeInv'
<1> USE DEF TreeInv
<1>1. /\ running = "yes" /\ calls' = calls + 1 /\ calls < MaxCalls
      /\ UNCHANGED <<class, id, superview, subviews, nsview, nativeSuper, held>>
  BY DEF SetHandler
<1>2. calls' \in 0 .. MaxCalls
  BY <1>1, ViewConstants DEF TypeOK
<1>3. CASE running' = "exception" /\ UNCHANGED <<handler, tracked>>
  <2>1. TypeOK'
    BY <1>1, <1>2, <1>3 DEF TypeOK
  <2> QED
    BY <1>1, <1>3, <2>1, SameTree
<1>4. CASE /\ handler' = [handler EXCEPT ![v] = IF set THEN @ \cup {e} ELSE @ \ {e}]
           /\ tracked' = TrackedAfter(v, e, set)
           /\ UNCHANGED running
  <2>1. handler[v] \cup {e} \in SUBSET Events /\ handler[v] \ {e} \in SUBSET Events
    BY DEF TypeOK
  <2>2. handler' \in [Views -> SUBSET Events]
    BY <1>4, <2>1 DEF TypeOK
  <2>3. \A w \in Views : handler'[w] = IF w # v THEN handler[w]
                                       ELSE IF set THEN handler[v] \cup {e} ELSE handler[v] \ {e}
    BY <1>4 DEF TypeOK
  <2>4. tracked' = IF e \notin Mouse \/ v \notin nsview THEN tracked
                   ELSE IF set THEN tracked \cup {v} ELSE tracked \ {v}
    BY <1>4 DEF TrackedAfter
  <2>5. tracked' \in SUBSET Views /\ tracked' \subseteq nsview
    BY <2>4 DEF TypeOK, Owned
  <2>6. TypeOK'
    BY <1>1, <1>2, <1>4, <2>2, <2>5 DEF TypeOK
  <2>7. TrackedOnlyIfWanted'
    <3> SUFFICES ASSUME NEW w \in tracked' PROVE handler'[w] \cap Mouse # {}
      BY DEF TrackedOnlyIfWanted
    <3>1. w \in Views /\ w \in nsview
      BY <2>5 DEF TypeOK
    <3>2. CASE w # v
      BY <2>3, <2>4, <3>1, <3>2 DEF TrackedOnlyIfWanted
    <3>3. CASE w = v /\ e \in Mouse
      <4>1. set /\ handler'[w] = handler[v] \cup {e}
        BY <2>3, <2>4, <3>1, <3>3
      <4> QED
        BY <3>3, <4>1
    <3>4. CASE w = v /\ e \notin Mouse
      <4>1. w \in tracked /\ handler[w] \cap Mouse # {}
        BY <2>4, <3>4 DEF TrackedOnlyIfWanted
      <4> QED
        BY <2>3, <3>1, <3>4, <4>1
    <3> QED
      BY <3>2, <3>3, <3>4
  <2>8. LinksAgree' /\ NativeMirrorsTree'
    BY <1>1 DEF LinksAgree, OneParent, Children, Alive, NativeMirrorsTree
  <2>9. Owned'
    BY <1>1, <1>4, <2>5 DEF Owned, Alive
  <2> QED
    BY <2>6, <2>7, <2>8, <2>9
<1> QED
  BY <1>3, <1>4 DEF SetHandler

LEMMA NextTree ==
    ASSUME TreeInv, [Next]_vars
    PROVE  TreeInv'
<1>1. CASE StartScript \/ (\E v \in Views : Click(v)) \/ Close \/ UNCHANGED vars
  <2>1. /\ UNCHANGED <<class, id, superview, subviews, nsview, nativeSuper, handler, tracked,
                       held, calls>>
        /\ running' \in {running, "yes", "exception", "exited"}
    BY <1>1 DEF StartScript, Click, Close, vars
  <2>2. TypeOK'
    BY <2>1 DEF TreeInv, TypeOK
  <2> QED
    BY <2>1, <2>2, SameTree
<1> QED
  BY <1>1, LoadKeeps, NewKeeps, AddKeeps, FindKeeps, DropKeeps, SetKeeps DEF Next

-----------------------------------------------------------------------------
(* The window's tree.                                                       *)

(* Going down a path visits no view twice: the first view that came again   *)
(* would have two parents, or be the root.                                  *)
LEMMA WindowIsFinite ==
    ASSUME TypeOK, OneParent
    PROVE  WindowTreeFinite
<1> DEFINE size == Cardinality(Views)
<1> SUFFICES ASSUME superview[Root] = NoView, NEW w \in Below(Root, size)
             PROVE  FALSE
  BY DEF WindowTreeFinite
<1>1. size \in Nat /\ Root \in Views
  BY SizeOfViews, ViewConstants
<1> HIDE DEF size
<1>2. PICK path \in [0 .. size -> Views] : path[0] = Root /\ Path(path, size)
  BY <1>1, BelowIs
<1>3. \A i \in 1 .. size : superview[path[i]] = path[i - 1]
  <2> SUFFICES ASSUME NEW i \in 1 .. size PROVE superview[path[i]] = path[i - 1]
    OBVIOUS
  <2>1. i - 1 \in 0 .. size - 1 /\ (i - 1) + 1 = i /\ i - 1 \in 0 .. size
    BY <1>1
  <2>2. path[i] \in Children(path[i - 1]) /\ path[i - 1] \in Views
    BY <1>2, <2>1 DEF Path
  <2> QED
    BY <2>2 DEF Children, OneParent
<1> DEFINE Again == {j \in 0 .. size : \E i \in 0 .. size : i < j /\ path[i] = path[j]}
<1>4. Again # {}
  <2>1. IsFiniteSet(0 .. size) /\ Cardinality(0 .. size) = size + 1
    BY <1>1, FS_Interval
  <2>2. PICK i, j \in 0 .. size : i # j /\ path[i] = path[j]
    BY <1>1, <2>1, ViewConstants, FS_PigeonHole DEF size
  <2> QED
    BY <1>1, <2>2
<1>5. PICK j \in Again : \A k \in Again : j <= k
  <2>1. Again \in SUBSET Nat
    BY <1>1
  <2> HIDE DEF Again
  <2> QED
    BY <1>4, <2>1, LeastNat
<1>6. PICK i \in 0 .. size : i < j /\ path[i] = path[j]
  BY <1>5
<1>7. j \in 1 .. size /\ j - 1 \in 0 .. size
  BY <1>1, <1>5, <1>6
<1>8. CASE i = 0
  <2>1. superview[Root] = path[j - 1] /\ path[j - 1] \in Views
    BY <1>2, <1>3, <1>6, <1>7, <1>8
  <2> QED
    BY <2>1, ViewConstants
<1>9. CASE i # 0
  <2>1. i \in 1 .. size /\ i - 1 \in 0 .. size /\ i - 1 < j - 1
    BY <1>1, <1>6, <1>7, <1>9
  <2>2. path[i - 1] = path[j - 1]
    BY <1>3, <1>6, <1>7, <2>1
  <2>3. j - 1 \in Again
    BY <1>7, <2>1, <2>2
  <2> QED
    BY <1>5, <1>7, <2>3
<1> QED
  BY <1>8, <1>9

-----------------------------------------------------------------------------

(* Every variable keeps its type, whatever a script does to the views.      *)
THEOREM TypeCorrect == Spec => []TypeOK
<1>1. TreeInv => TypeOK
  BY DEF TreeInv
<1> QED
  BY InitTree, NextTree, <1>1, PTL DEF Spec

(* addView's assertion is enough: no view is ever listed by two parents or  *)
(* twice by one; a listed view is alive, and a view whose raw pointer leads *)
(* to a living parent is in that parent's list, whatever was dropped.       *)
THEOREM ParentAndChild == Spec => []LinksAgree
<1>1. TreeInv => LinksAgree
  BY DEF TreeInv
<1> QED
  BY InitTree, NextTree, <1>1, PTL DEF Spec

(* The native hierarchy is the tree restricted to the views that have a     *)
(* native view, and no native view outlives the View it calls back.         *)
THEOREM NativeFollows == Spec => []NativeMirrorsTree
<1>1. TreeInv => NativeMirrorsTree
  BY DEF TreeInv
<1> QED
  BY InitTree, NextTree, <1>1, PTL DEF Spec

(* setWantMouseEnterExit leaves no tracking area behind on a view without a *)
(* mouse handler.                                                           *)
THEOREM TrackingStops == Spec => []TrackedOnlyIfWanted
<1>1. TreeInv => TrackedOnlyIfWanted
  BY DEF TreeInv
<1> QED
  BY InitTree, NextTree, <1>1, PTL DEF Spec

(* However many views there are, recursing down from the root view ends     *)
(* unless a script gave the root view a superview, whatever cycles it made  *)
(* elsewhere.                                                               *)
THEOREM WindowEnds == Spec => []WindowTreeFinite
<1>1. TreeInv => WindowTreeFinite
  BY WindowIsFinite DEF TreeInv, LinksAgree
<1> QED
  BY InitTree, NextTree, <1>1, PTL DEF Spec

(* findView returns a view with the id from below the view it is asked of,  *)
(* null only if there is none, and goes on without end only round a cycle.  *)
THEOREM FindsWhatIsThere == Spec => []FindComplete
  BY TypeCorrect, FindIsComplete, PTL

(* findView of the window returns while the root view has no superview.     *)
FindReturns ==
    superview[Root] = NoView =>
      \A name \in Ids : FindWithin[Cardinality(Views)][Root][name] # "deeper"

(* Window::findView never runs out of stack on a window whose root view was *)
(* not added anywhere: with at most as many calls as there are views.       *)
THEOREM WindowFindReturns == Spec => []FindReturns
<1>1. FindComplete /\ WindowTreeFinite => FindReturns
  BY ViewConstants DEF FindComplete, WindowTreeFinite, FindReturns
<1> QED
  BY WindowEnds, FindsWhatIsThere, <1>1, PTL
=============================================================================
