-------------------------------- MODULE Val --------------------------------
(***************************************************************************)
(* acorn::val of base/val.cpp and base/val.h: a tagged union that owns     *)
(* what it points at.  Strings, byte arrays, errors, vectors and maps are  *)
(* copied when a val is copied, so a val is drawn as a tree: a function    *)
(* from paths to contents.  Objects are the exception: a val of type       *)
(* OBJECT points at a heap-allocated shared_ptr (a box), and assignment    *)
(* copies that pointer.                                                    *)
(*                                                                         *)
(* Callers name vals by places: a variable and a path of map keys and      *)
(* array indices, as in v["a"].arrayRef()[0].  get() of a missing key      *)
(* yields the place <<EmptyVar, <<>>>>, the one global val s_emptyVar.     *)
(***************************************************************************)
EXTENDS Integers, Sequences, SequencesExt, FiniteSets

CONSTANTS
  Vars,       \* the val variables of the program
  EmptyVar,   \* s_emptyVar
  Keys,       \* map keys
  MaxArray,   \* bound on the length of an array
  Depth,      \* bound on the length of a path
  MaxVals,    \* bound on the number of vals in existence, s_emptyVar included
  Plain,      \* data of every type but EMPTY, ARRAY, MAP and OBJECT
  Objects,    \* the objects that vals refer to
  Boxes,      \* where new puts a shared_ptr
  Free,       \* the contents of a box that is not allocated
  Null,       \* an empty shared_ptr, a null pointer
  Hazards     \* the hazardous call patterns (HazardKinds) the callers use

VARIABLES
  tree,       \* the tree of every variable and of s_emptyVar
  box,        \* the object of every shared_ptr on the heap
  copied,     \* the last call stored the value it was given (for properties)
  fault       \* how the program died, or "none"

vars == <<tree, box, copied, fault>>

(* Assigning a val to itself, from below or from above itself; storing an  *)
(* empty val in itself; copying a val that refers to an object; writing    *)
(* through the reference get() returns for a missing key; a map or array   *)
(* call on another type.                                                   *)
HazardKinds == {"overlap", "store_self", "copy_object", "write_missing", "wrong_type"}

ASSUME BoundsAssumption  == MaxArray \in Nat /\ Depth \in Nat /\ MaxVals \in Nat
ASSUME ValuesAssumption  == /\ EmptyVar \notin Vars
                            /\ Keys \cap Nat = {}
                            /\ {Free, Null} \cap Objects = {} /\ Free # Null
ASSUME HazardsAssumption == Hazards \subseteq HazardKinds

Names   == Keys \cup 1..MaxArray
Paths   == SeqOf(Names, Depth)
Holders == Vars \cup {EmptyVar}

Content == [type : {"ABSENT", "EMPTY", "ARRAY", "MAP"}, data : {Null}]
             \cup [type : {"PLAIN"}, data : Plain]
             \cup [type : {"OBJECT"}, data : Boxes]

Absent  == [type |-> "ABSENT", data |-> Null]
Empty   == [type |-> "EMPTY", data |-> Null]
Array   == [type |-> "ARRAY", data |-> Null]
Map     == [type |-> "MAP", data |-> Null]
Datum(x) == [type |-> "PLAIN", data |-> x]
Ref(b)  == [type |-> "OBJECT", data |-> b]

-----------------------------------------------------------------------------
(* Trees and places.                                                       *)

Leaf(c) == [x \in Paths |-> IF x = <<>> THEN c ELSE Absent]

Sub(t, p) == [x \in Paths |-> IF Len(p) + Len(x) <= Depth THEN t[p \o x] ELSE Absent]

Graft(t, p, s) ==
  [x \in Paths |-> IF IsPrefix(p, x) THEN s[SubSeq(x, Len(p) + 1, Len(x))] ELSE t[x]]

Fits(s, p) == \A x \in Paths : s[x] # Absent => Len(p) + Len(x) <= Depth

Root(v)      == <<v, <<>>>>
Child(p, k)  == <<p[1], Append(p[2], k)>>
At(tr, p)    == tr[p[1]][p[2]]
SubAt(tr, p) == Sub(tr[p[1]], p[2])

Put(tr, p, s) == [tr EXCEPT ![p[1]] = Graft(@, p[2], s)]

PlacesOf(tr) == {p \in Holders \X Paths : At(tr, p) # Absent}

Places == PlacesOf(tree)

HasChild(p, k) == Len(p[2]) < Depth /\ At(tree, Child(p, k)) # Absent

Above(p, q) == p[1] = q[1] /\ IsPrefix(p[2], q[2])

Overlap(p, q) == Above(p, q) \/ Above(q, p)

(* Where the next push_back() of the array at p goes.                      *)
NextSlot(p) == Cardinality({i \in 1..MaxArray : HasChild(p, i)}) + 1

-----------------------------------------------------------------------------
(* Boxes.                                                                  *)

BoxesOf(t) == {t[x].data : x \in {y \in Paths : t[y].type = "OBJECT"}}

(* A box no val points at: allocated by new, or leaked and so never seen   *)
(* again, which is the same to every caller.                               *)
FreshBoxes == Boxes \ UNION {BoxesOf(tree[v]) : v \in Holders}

(* ~val(): reset() empties the box and does not free it.                   *)
Reset(bx, t) == [b \in Boxes |-> IF b \in BoxesOf(t) THEN Null ELSE bx[b]]

(* Bug: a setType() that forgets to delete _obj.                           *)
ReleaseNot(bx, t) == Reset(bx, [t EXCEPT ![<<>>] = Empty])

(* setType(): delete _obj for the val itself, ~val() for its elements.     *)
Release(bx, t) ==
  IF t[<<>>].type = "OBJECT" THEN [bx EXCEPT ![t[<<>>].data] = Free] ELSE Reset(bx, t)

TouchesFreed(bx, t) == \E b \in BoxesOf(t) : bx[b] = Free

(* The value of a tree: an OBJECT stands for the object in its box.        *)
Resolve(c, bx) == IF c.type = "OBJECT" THEN <<"OBJECT", bx[c.data]>> ELSE <<c.type, c.data>>

ValueIn(t, bx) == [x \in Paths |-> Resolve(t[x], bx)]

Value(p) == ValueIn(SubAt(tree, p), box)

-----------------------------------------------------------------------------
(* How a call ends.                                                        *)

Crash(kind) ==
  /\ fault' = kind
  /\ UNCHANGED <<tree, box, copied>>

Done(tr, bx) ==
  /\ Cardinality(PlacesOf(tr)) <= MaxVals
  /\ tree' = tr
  /\ box' = bx
  /\ copied' = TRUE
  /\ UNCHANGED fault

(* The call was to store a copy of the val whose value is w at place p.    *)
Stored(tr, bx, p, w) ==
  /\ Cardinality(PlacesOf(tr)) <= MaxVals
  /\ tree' = tr
  /\ box' = bx
  /\ copied' = (ValueIn(SubAt(tr, p), bx) = w)
  /\ UNCHANGED fault

OnlyIf(kind, pattern) == pattern => kind \in Hazards

Writable(p) == OnlyIf("write_missing", p[1] = EmptyVar)

Copyable(q) == OnlyIf("copy_object", BoxesOf(SubAt(tree, q)) # {})

Typed(p, types) == OnlyIf("wrong_type", At(tree, p).type \notin types)

-----------------------------------------------------------------------------
(* Construction, assignment, destruction.                                  *)

Init ==
  /\ tree = [v \in Holders |-> Leaf(Empty)]
  /\ box = [b \in Boxes |-> Free]
  /\ copied = TRUE
  /\ fault = "none"

(* ~val() of a variable; val() constructs it anew.                         *)
Destroy(v) ==
  \/ TouchesFreed(box, tree[v]) /\ Crash("use_after_free")
  \/ /\ ~TouchesFreed(box, tree[v])
     /\ Done([tree EXCEPT ![v] = Leaf(Empty)], Reset(box, tree[v]))

(* setType(EMPTY).                                                         *)
Clear(p) ==
  /\ Writable(p)
  /\ \/ TouchesFreed(box, SubAt(tree, p)) /\ Crash("use_after_free")
     \/ /\ ~TouchesFreed(box, SubAt(tree, p))
        /\ Done(Put(tree, p, Leaf(Empty)), Release(box, SubAt(tree, p)))

(* setInt32, setString and their like; operator= from a temporary of such  *)
(* a type.                                                                 *)
AssignPlain(p, x) ==
  /\ Writable(p)
  /\ \/ TouchesFreed(box, SubAt(tree, p)) /\ Crash("use_after_free")
     \/ /\ ~TouchesFreed(box, SubAt(tree, p))
        /\ Done(Put(tree, p, Leaf(Datum(x))), Release(box, SubAt(tree, p)))

(* val(const sp<T>&).                                                      *)
ConstructObject(v, o) ==
  /\ tree[v] = Leaf(Empty)
  /\ \E b \in FreshBoxes :
       Stored([tree EXCEPT ![v] = Leaf(Ref(b))], [box EXCEPT ![b] = o],
              Root(v), ValueIn(Leaf(Ref(b)), [box EXCEPT ![b] = o]))

(* operator= from a temporary val(object): the box is shared with the      *)
(* temporary, whose destructor then empties it.                            *)
AssignObject(p, o) ==
  /\ Writable(p) /\ "copy_object" \in Hazards
  /\ \/ TouchesFreed(box, SubAt(tree, p)) /\ Crash("use_after_free")
     \/ /\ ~TouchesFreed(box, SubAt(tree, p))
        /\ \E b \in FreshBoxes :
             Stored(Put(tree, p, Leaf(Ref(b))),
                    [Release(box, SubAt(tree, p)) EXCEPT ![b] = Null],
                    p, ValueIn(Leaf(Ref(b)), [box EXCEPT ![b] = o]))

(* Bug: a move constructor that leaves the pointer in the source too.      *)
MoveSharing(v, w) == tree[v] = Leaf(Empty) /\ Done([tree EXCEPT ![v] = tree[w]], box)

(* val(val&&): v is under construction.                                    *)
MoveConstruct(v, w) ==
  /\ v # w
  /\ tree[v] = Leaf(Empty)
  /\ Done([tree EXCEPT ![v] = tree[w], ![w] = Leaf(Empty)], box)

(* Bug: the source is read before the destination is emptied, and what the *)
(* destination held stays.                                                 *)
AssignedOver(tr, p, q) ==
  LET s == SubAt(tr, q)
      t == SubAt(tr, p)
  IN  Put(tr, p, [x \in Paths |-> IF s[x] = Absent THEN t[x] ELSE s[x]])

(* assign(): the destination is emptied, then the source is read.          *)
Assigned(tr, p, q) ==
  LET emptied == Put(tr, p, Leaf(Empty)) IN
  Put(emptied, p, SubAt(emptied, q))

AssignFaults(bx, p, q) ==
  TouchesFreed(bx, SubAt(tree, p)) \/ (Above(p, q) /\ p # q)

(* operator=(const val&); the copy constructor when p is empty.            *)
Assign(p, q) ==
  /\ Writable(p) /\ Copyable(q) /\ OnlyIf("overlap", Overlap(p, q))
  /\ \/ AssignFaults(box, p, q) /\ Crash("use_after_free")
     \/ /\ ~AssignFaults(box, p, q)
        /\ Fits(SubAt(tree, q), p[2])
        /\ Stored(Assigned(tree, p, q), Release(box, SubAt(tree, p)), p, Value(q))

-----------------------------------------------------------------------------
(* Maps and arrays.                                                        *)

(* An EMPTY val becomes a container of the kind the call wants.            *)
Made(p, c) == IF At(tree, p) = Empty THEN Put(tree, p, Leaf(c)) ELSE tree

Misused(p, c) == At(tree, p) \notin {Empty, c}

(* operator[].                                                             *)
Index(p, k) ==
  /\ Writable(p) /\ Typed(p, {"EMPTY", "MAP"})
  /\ Len(p[2]) < Depth
  /\ \/ Misused(p, Map) /\ Crash("assert")
     \/ /\ ~Misused(p, Map)
        /\ Done(IF HasChild(p, k) THEN tree ELSE Put(Made(p, Map), Child(p, k), Leaf(Empty)),
                box)

(* set(key, val).  emplace() may build a node from the val, and destroys   *)
(* it again, when the key is there already.                                *)
Set(p, k, q) ==
  LET c    == Child(p, k)
      made == Made(p, Map)
  IN
  /\ Writable(p) /\ Copyable(q) /\ Typed(p, {"EMPTY", "MAP"})
  /\ Len(p[2]) < Depth
  /\ OnlyIf("overlap", HasChild(p, k) /\ Overlap(c, q))
  /\ OnlyIf("store_self", At(tree, p) = Empty /\ Above(q, p))
  /\ \/ Misused(p, Map) /\ Crash("assert")
     \/ /\ ~Misused(p, Map) /\ ~HasChild(p, k)
        /\ Fits(SubAt(made, q), c[2])
        /\ Stored(Put(made, c, SubAt(made, q)), box, c, Value(q))
     \/ /\ ~Misused(p, Map) /\ HasChild(p, k)
        /\ \E node \in {Leaf(Empty), SubAt(tree, q)} :
             LET bx == Reset(box, node) IN
             \/ (TouchesFreed(box, node) \/ AssignFaults(bx, c, q)) /\ Crash("use_after_free")
             \/ /\ ~TouchesFreed(box, node) /\ ~AssignFaults(bx, c, q)
                /\ Fits(SubAt(tree, q), c[2])
                /\ Stored(Assigned(tree, c, q), Release(bx, SubAt(tree, c)), c, Value(q))

(* set(key, ISerializeToVal* ): x is what toVal() writes, or the pointer   *)
(* is null.                                                                *)
SetSerialized(p, k, x) ==
  LET c == Child(p, k) IN
  /\ Writable(p) /\ Typed(p, {"EMPTY", "MAP"})
  /\ Len(p[2]) < Depth
  /\ \/ Misused(p, Map) /\ Crash("assert")
     \/ ~Misused(p, Map) /\ x = Null /\ Done(Made(p, Map), box)
     \/ /\ ~Misused(p, Map) /\ x # Null /\ HasChild(p, k)
        /\ TouchesFreed(box, SubAt(tree, c)) /\ Crash("use_after_free")
     \/ /\ ~Misused(p, Map) /\ x # Null /\ HasChild(p, k)
        /\ ~TouchesFreed(box, SubAt(tree, c))
        /\ Done(Put(tree, c, Leaf(Datum(x))), Release(box, SubAt(tree, c)))
     \/ /\ ~Misused(p, Map) /\ x # Null /\ ~HasChild(p, k)
        /\ Done(Put(Made(p, Map), c, Leaf(Datum(x))), box)

Unset(p, k) ==
  LET s == SubAt(tree, Child(p, k)) IN
  /\ Writable(p) /\ Typed(p, {"EMPTY", "MAP"})
  /\ \/ Misused(p, Map) /\ Crash("assert")
     \/ ~Misused(p, Map) /\ ~HasChild(p, k) /\ Done(tree, box)
     \/ ~Misused(p, Map) /\ HasChild(p, k) /\ TouchesFreed(box, s) /\ Crash("use_after_free")
     \/ /\ ~Misused(p, Map) /\ HasChild(p, k) /\ ~TouchesFreed(box, s)
        /\ Done(Put(tree, Child(p, k), Leaf(Absent)), Reset(box, s))

(* appendVal(): std::move of a const reference copies.                     *)
AppendVal(p, q) ==
  LET c    == Child(p, NextSlot(p))
      made == Made(p, Array)
  IN
  /\ Writable(p) /\ Copyable(q) /\ Typed(p, {"EMPTY", "ARRAY"})
  /\ OnlyIf("store_self", At(tree, p) = Empty /\ Above(q, p))
  /\ \/ Misused(p, Array) /\ Crash("assert")
     \/ /\ ~Misused(p, Array)
        /\ NextSlot(p) <= MaxArray
        /\ Fits(SubAt(made, q), c[2])
        /\ Stored(Put(made, c, SubAt(made, q)), box, c, Value(q))

-----------------------------------------------------------------------------

Next ==
  /\ fault = "none"
  /\ \/ \E v \in Vars : Destroy(v)
     \/ \E v \in Vars, o \in Objects : ConstructObject(v, o)
     \/ \E v, w \in Vars : MoveConstruct(v, w)
     \/ \E p \in Places :
          \/ Clear(p)
          \/ \E x \in Plain : AssignPlain(p, x)
          \/ \E o \in Objects : AssignObject(p, o)
          \/ \E q \in Places : Assign(p, q)
          \/ \E k \in Keys : Index(p, k)
          \/ \E k \in Keys, q \in Places : Set(p, k, q)
          \/ \E k \in Keys, x \in Plain \cup {Null} : SetSerialized(p, k, x)
          \/ \E k \in Keys : Unset(p, k)
          \/ \E q \in Places : AppendVal(p, q)

Spec == Init /\ [][Next]_vars

-----------------------------------------------------------------------------
(* Properties.                                                             *)

(* An element exists only in a container of its kind, and an array has no  *)
(* gaps: emptying or overwriting a container leaves none of its elements.  *)
WellFormed ==
  \A v \in Holders, x \in Paths :
    /\ x = <<>> => tree[v][x] # Absent
    /\ x # <<>> /\ tree[v][x] # Absent =>
         LET n == x[Len(x)] IN
         IF n \in Keys THEN tree[v][Front(x)] = Map
         ELSE /\ tree[v][Front(x)] = Array
              /\ n > 1 => tree[v][Append(Front(x), n - 1)] # Absent

(* Every variable has its type, and the trees are trees.                   *)
TypeOK ==
  /\ WellFormed
  /\ tree \in [Holders -> [Paths -> Content]]
  /\ box \in [Boxes -> Objects \cup {Free, Null}]
  /\ copied \in BOOLEAN
  /\ fault \in {"none", "assert", "use_after_free"}

(* No call reaches freed memory or a failing assertion.                    *)
NoFault == fault = "none"

(* An object is kept alive only by a val that refers to it: ~val(),        *)
(* setType() and the containers drop every reference they should, whatever *)
(* the callers do.                                                         *)
NoObjectLeak ==
  \A b \in Boxes : box[b] \in Objects => \E v \in Holders : b \in BoxesOf(tree[v])

(* "Constructors and operator=() all make copies rather than share         *)
(* references" (val.h): every OBJECT val has a shared_ptr of its own, with *)
(* an object in it.  Copying an OBJECT val is what breaks it; without the  *)
(* pattern copy_object it holds, and NoFault rests on it.                  *)
OwnReference ==
  \A p, q \in Places :
    /\ At(tree, p).type = "OBJECT" => box[At(tree, p).data] \in Objects
    /\ At(tree, p).type = "OBJECT" /\ At(tree, p) = At(tree, q) => p = q

(* After a call that was to store a val, the place it was to store it at   *)
(* holds the value the val had when the call was made.                     *)
StoredIsCopy == copied
=============================================================================
