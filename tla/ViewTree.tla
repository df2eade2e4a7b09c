------------------------------ MODULE ViewTree ------------------------------
(***************************************************************************)
(* The view tree of a window (src/ux/view.cpp, window.cpp, button.cpp,      *)
(* nsview.objc.inc) and what scripts and the user do to it.                 *)
(*                                                                         *)
(* Two hierarchies have to agree: the View objects, where a parent owns its *)
(* subviews through shared pointers and a subview knows its parent by a raw *)
(* pointer, and the native views, where AppKit retains the subviews and     *)
(* each native view knows its View by a raw pointer.  A View is freed with  *)
(* its last owner: a reference of a script, a parent or the window.         *)
(*                                                                         *)
(* Geometry is the subject of Layout.  The window is kept by the script as  *)
(* long as the process runs.                                               *)
(***************************************************************************)
EXTENDS Naturals, Sequences, FiniteSets

CONSTANTS
    Views,      \* bound on the views of a run
    Root,       \* the root view of the window
    Ids,        \* values of the id property
    NoView,     \* a null pointer
    MaxCalls    \* bound on the handlers a script sets or clears

ASSUME ViewConstants ==
    /\ IsFiniteSet(Views)
    /\ Root \in Views
    /\ NoView \notin Views
    /\ "deeper" \notin Views \cup {NoView}
    /\ MaxCalls \in Nat

VARIABLES
    class,        \* each view: not made yet, its class, or freed
    id,           \* _id
    superview,    \* _superview, never reset
    subviews,     \* _subviews
    nsview,       \* the native views that exist
    nativeSuper,  \* the native superview, which retains its subviews
    handler,      \* the handler properties that are set
    tracked,      \* the native views that have a tracking area
    held,         \* views a script has a reference to
    calls,        \* handlers set or cleared so far
    running       \* "loading", "yes", "exited", or how the process died

vars == <<class, id, superview, subviews, nsview, nativeSuper, handler, tracked,
          held, calls, running>>

Classes == {"View", "Button"}
Events  == {"mouseenter", "mouseexit", "drag", "click"}  \* both drag handlers
Mouse   == {"mouseenter", "mouseexit"}

TypeOK ==
    /\ class \in [Views -> Classes \cup {"none", "freed"}]
    /\ id \in [Views -> Ids \cup {NoView}]
    /\ superview \in [Views -> Views \cup {NoView}]
    /\ subviews \in [Views -> Seq(Views)]
    /\ nsview \in SUBSET Views
    /\ nativeSuper \in [Views -> Views \cup {NoView}]
    /\ handler \in [Views -> SUBSET Events]
    /\ tracked \in SUBSET Views
    /\ held \in SUBSET Views
    /\ calls \in 0 .. MaxCalls
    /\ running \in {"loading", "yes", "exited", "assertion", "exception", "overflow"}

(* Window(): the root view has its native view and is the content view.     *)
Init ==
    /\ class = [v \in Views |-> IF v = Root THEN "View" ELSE "none"]
    /\ id \in [Views -> Ids \cup {NoView}] /\ \A v \in Views : id[v] = NoView <=> v = Root
    /\ superview = [v \in Views |-> NoView]
    /\ subviews = [v \in Views |-> <<>>]
    /\ nsview = {Root}
    /\ nativeSuper = [v \in Views |-> NoView]
    /\ handler = [v \in Views |-> {}]
    /\ tracked = {}
    /\ held = {}
    /\ calls = 0
    /\ running = "loading"

Alive(v)    == class[v] \in Classes
Children(v) == {subviews[v][i] : i \in DOMAIN subviews[v]}

(***************************************************************************)
(* addView                                                                 *)
(***************************************************************************)
(* A message to a null native view does nothing, and a null native view is  *)
(* not added to one that exists.                                            *)
NativeAdd(p, v) ==
    IF p \in nsview /\ v \in nsview
    THEN nativeSuper' = [nativeSuper EXCEPT ![v] = p]
    ELSE UNCHANGED nativeSuper

Link(p, v) ==
    /\ superview' = [superview EXCEPT ![v] = p]
    /\ subviews' = [subviews EXCEPT ![p] = Append(@, v)]

(* Mutant: the assertion is compiled out.                                   *)
AddViewAgain(p, v) ==
    /\ running = "yes"
    /\ p \in held \cup {Root}
    /\ v \in held \cup {Root}
    /\ Link(p, v)
    /\ NativeAdd(p, v)
    /\ UNCHANGED <<class, id, nsview, handler, tracked, held, calls, running>>

(* The only condition is that the view has no superview.                    *)
AddView(p, v) ==
    /\ running = "yes"
    /\ p \in held \cup {Root}
    /\ v \in held \cup {Root}
    /\ \/ /\ superview[v] # NoView
          /\ running' = "assertion"
          /\ UNCHANGED <<superview, subviews, nativeSuper>>
       \/ /\ superview[v] = NoView
          /\ Link(p, v)
          /\ NativeAdd(p, v)
          /\ UNCHANGED running
    /\ UNCHANGED <<class, id, nsview, handler, tracked, held, calls>>

(***************************************************************************)
(* Making views                                                            *)
(***************************************************************************)
(* The "views" of the window's asset: createImpl makes the native view      *)
(* before the properties are applied and the view is added to its parent.   *)
LoadView(p, v, c) ==
    /\ running = "loading"
    /\ Alive(p)
    /\ class[v] = "none"
    /\ class' = [class EXCEPT ![v] = c]
    /\ nsview' = nsview \cup {v}
    /\ Link(p, v)
    /\ nativeSuper' = [nativeSuper EXCEPT ![v] = p]
    /\ UNCHANGED <<id, handler, tracked, held, calls, running>>

StartScript ==
    /\ running = "loading"
    /\ running' = "yes"
    /\ UNCHANGED <<class, id, superview, subviews, nsview, nativeSuper, handler,
                   tracked, held, calls>>

(* new View() or new Button() in a script: only the constructor of Button   *)
(* makes the native view.                                                   *)
NewView(v, c) ==
    /\ running = "yes"
    /\ class[v] = "none"
    /\ class' = [class EXCEPT ![v] = c]
    /\ nsview' = IF c = "Button" THEN nsview \cup {v} ELSE nsview
    /\ held' = held \cup {v}
    /\ UNCHANGED <<id, superview, subviews, nativeSuper, handler, tracked, calls,
                   running>>

(***************************************************************************)
(* findView                                                                *)
(***************************************************************************)
(* The index at which a loop over the subviews returns.                     *)
Least(S) == CHOOSE i \in S : \A j \in S : i <= j

(* Mutant: the search goes down into the first subview only.                *)
SearchedFirst(kids) == DOMAIN kids \cap {1}

(* The subviews the second loop goes down into.                             *)
Searched(kids) == DOMAIN kids

(* Direct subviews first, then the subtrees in order, for which below has   *)
(* the answers.                                                             *)
Search(below, v, name) ==
    LET kids   == subviews[v]
        direct == {i \in DOMAIN kids : id[kids[i]] = name}
        deep   == {i \in Searched(kids) : below[kids[i]][name] # NoView}
    IN  IF direct # {} THEN kids[Least(direct)]
        ELSE IF deep # {} THEN below[kids[Least(deep)]][name]
        ELSE NoView

(* The answers of a recursion of n calls at most: "deeper" is the answer of *)
(* the call after them.                                                     *)
FindWithin[n \in Nat] ==
    IF n = 0 THEN [v \in Views |-> [name \in Ids |-> "deeper"]]
    ELSE [v \in Views |-> [name \in Ids |-> Search(FindWithin[n - 1], v, name)]]

(* The script keeps what it finds.  A recursion deeper than there are views *)
(* is going round a cycle and ends with the stack.                          *)
FindView(v, name) ==
    LET found == FindWithin[Cardinality(Views)][v][name] IN
    /\ running = "yes"
    /\ v \in held \cup {Root}
    /\ \/ found = "deeper" /\ running' = "overflow" /\ UNCHANGED held
       \/ found \in Views /\ held' = held \cup {found} /\ UNCHANGED running
    /\ UNCHANGED <<class, id, superview, subviews, nsview, nativeSuper, handler,
                   tracked, calls>>

(***************************************************************************)
(* Dropping references                                                     *)
(***************************************************************************)
(* Mutant: a parent does not own its subviews.                              *)
KeptByScript(h) == {v \in Views : Alive(v)} \cap (h \cup {Root})

(* The largest set whose members have an owner: what reference counting     *)
(* keeps, cycles included.                                                  *)
Kept(h) ==
    UNION {S \in SUBSET {v \in Views : Alive(v)} :
             \A v \in S : \/ v \in h \cup {Root}
                          \/ \E p \in S : v \in Children(p)}

(* A native view is kept by its View and by its native superview.           *)
NativeKept(kept) ==
    UNION {S \in SUBSET nsview :
             \A v \in S : v \in kept \/ nativeSuper[v] \in S}

(* The script's last reference to v goes away.                              *)
Drop(v) ==
    LET kept   == Kept(held \ {v})
        native == NativeKept(kept) IN
    /\ running = "yes"
    /\ v \in held
    /\ held' = held \ {v}
    /\ class' = [w \in Views |-> IF Alive(w) /\ w \notin kept THEN "freed" ELSE class[w]]
    /\ subviews' = [w \in Views |-> IF w \in kept THEN subviews[w] ELSE <<>>]
    /\ nsview' = native
    /\ nativeSuper' = [w \in Views |->
                         IF nativeSuper[w] \in native THEN nativeSuper[w] ELSE NoView]
    /\ tracked' = tracked \cap native
    /\ handler' = [w \in Views |-> IF w \in kept THEN handler[w] ELSE {}]
    /\ UNCHANGED <<id, superview, calls, running>>

(***************************************************************************)
(* Handlers and events                                                     *)
(***************************************************************************)
(* Mutant: the tracking area is never removed.                              *)
TrackedSince(v, e, set) == IF e \in Mouse /\ set THEN tracked \cup {v} ELSE tracked

(* setWantMouseEnterExit: both mouse handlers share one tracking area, which *)
(* follows the last call.                                                   *)
TrackedAfter(v, e, set) ==
    IF e \notin Mouse \/ v \notin nsview THEN tracked
    ELSE IF set THEN tracked \cup {v} ELSE tracked \ {v}

(* The setters of the handler properties.  The native view of a Button does *)
(* not have setWantMouseEnterExit, nor setWantDragDest.                     *)
SetHandler(v, e, set) ==
    /\ running = "yes"
    /\ v \in held \cup {Root}
    /\ e = "click" => class[v] = "Button"
    /\ calls < MaxCalls
    /\ calls' = calls + 1
    /\ \/ /\ e # "click" /\ v \in nsview /\ class[v] = "Button"
          /\ running' = "exception"
          /\ UNCHANGED <<handler, tracked>>
       \/ /\ e = "click" \/ v \notin nsview \/ class[v] = "View"
          /\ handler' = [handler EXCEPT ![v] = IF set THEN @ \cup {e} ELSE @ \ {e}]
          /\ tracked' = TrackedAfter(v, e, set)
          /\ UNCHANGED running
    /\ UNCHANGED <<class, id, superview, subviews, nsview, nativeSuper, held>>

(* The native view is in the window.                                        *)
InWindow(v) ==
    \E n \in 0 .. Cardinality(Views) : \E path \in [0 .. n -> nsview] :
      /\ path[0] = v
      /\ path[n] = Root
      /\ \A i \in 0 .. n - 1 : nativeSuper[path[i]] = path[i + 1]

(* A click on a button calls its handler, set or not: an empty              *)
(* std::function throws.  With a handler the script runs, which is its own  *)
(* steps.                                                                  *)
Click(v) ==
    /\ running = "yes"
    /\ v \in nsview /\ class[v] = "Button" /\ InWindow(v)
    /\ "click" \notin handler[v]
    /\ running' = "exception"
    /\ UNCHANGED <<class, id, superview, subviews, nsview, nativeSuper, handler,
                   tracked, held, calls>>

(* The window's close button: onclose if it is set, then exit(0).           *)
Close ==
    /\ running = "yes"
    /\ running' = "exited"
    /\ UNCHANGED <<class, id, superview, subviews, nsview, nativeSuper, handler,
                   tracked, held, calls>>

Next ==
    \/ \E p, v \in Views, c \in Classes : LoadView(p, v, c)
    \/ StartScript
    \/ \E v \in Views, c \in Classes : NewView(v, c)
    \/ \E p, v \in Views : AddView(p, v)
    \/ \E v \in Views, name \in Ids : FindView(v, name)
    \/ \E v \in Views : Drop(v)
    \/ \E v \in Views, e \in Events, set \in BOOLEAN : SetHandler(v, e, set)
    \/ \E v \in Views : Click(v)
    \/ Close

Spec == Init /\ [][Next]_vars

(***************************************************************************)
(* Properties                                                              *)
(***************************************************************************)
(* No view is listed twice, by one parent or by two: superview of a listed  *)
(* view is its parent.                                                      *)
OneParent ==
    \A p \in Views : \A i \in DOMAIN subviews[p] :
      /\ superview[subviews[p][i]] = p
      /\ \A j \in DOMAIN subviews[p] : subviews[p][i] = subviews[p][j] => i = j

(* Parent and child agree: a listed view is alive and has one parent, and a *)
(* view whose parent is still there is in its list.                         *)
LinksAgree ==
    /\ OneParent
    /\ \A p \in Views : \A v \in Children(p) : Alive(v)
    /\ \A v \in Views :
         Alive(v) /\ superview[v] \in Views /\ Alive(superview[v])
           => v \in Children(superview[v])

(* The native hierarchy is the tree, restricted to the views that have a    *)
(* native view: a view is on screen below its own parent or not at all.     *)
(* No native view outlives its View, whose address it calls back through:   *)
(* whatever AppKit still retains is owned on the other side as well.        *)
NativeMirrorsTree ==
    \A v \in nsview :
      /\ Alive(v)
      /\ nativeSuper[v] = (IF superview[v] \in nsview THEN superview[v] ELSE NoView)

(* The steps down from the root, or from any other view.                    *)
Below(v, n) ==
    {w \in Views : \E path \in [0 .. n -> Views] :
        /\ path[0] = v
        /\ path[n] = w
        /\ \A i \in 0 .. n - 1 : path[i + 1] \in Children(path[i])}

(* As long as no script has given the root view a superview, the window's   *)
(* tree is finite: layout and findView, which recurse through it, end.      *)
WindowTreeFinite ==
    superview[Root] = NoView => Below(Root, Cardinality(Views)) = {}

(* Mouse events are delivered to the native view of a View only while a     *)
(* handler for one of them is set.  (Not the converse: clearing one of two  *)
(* handlers removes the tracking area they share.)                          *)
TrackedOnlyIfWanted ==
    \A v \in tracked : handler[v] \cap Mouse # {}

(* findView finds what is there: any view below v whose id no other view    *)
(* has, unless the recursion never gets back.                               *)
FindComplete ==
    \A v \in Views, name \in Ids :
      LET found == FindWithin[Cardinality(Views)][v][name]
          named == {w \in UNION {Below(v, n) : n \in 1 .. Cardinality(Views)} :
                      id[w] = name}
      IN  /\ found = NoView => named = {}
          /\ found \in Views => found \in named
          /\ found = "deeper" => Below(v, Cardinality(Views)) # {}
=============================================================================
