------------------------------- MODULE Layout -------------------------------
(***************************************************************************)
(* View::layout (src/ux/view.cpp): the rectangles a container gives its     *)
(* subviews, as a row, a column, or one upon the other, down the tree.      *)
(*                                                                         *)
(* A rectangle is an origin and a size on two axes, and row and column are  *)
(* the same algorithm with the axes exchanged, as in the code.  Lengths     *)
(* are integers, in a unit of which a pixel has several, small enough for   *)
(* the shares of the instances to be exact: the rounding of floats is not   *)
(* modelled, that of ceilf() to whole pixels is.                            *)
(***************************************************************************)
EXTENDS Integers, Sequences, FiniteSets, SequencesExt

CONSTANTS
    Views,     \* the views of the tree
    Root,      \* its root
    Pixel,     \* the units in a pixel
    Subviews,  \* _subviews of each view
    None,      \* a property that is not set
    Center,    \* the position "center"
    Sizes,     \* sizes of the window's content, by axis
    InitialSize,
    Styles,    \* the properties each view may have
    Insets,    \* margins and paddings set while the window is open
    MaxSets    \* bound: calls of set_margin and set_padding

VARIABLES
    style,     \* the properties of each view
    window,    \* the size of the root view
    frame,     \* the rectangle each view was given, or None
    needs,     \* native views flagged setNeedsLayout
    missed,    \* views changed since the root was laid out
    sets       \* calls of set_margin and set_padding so far

vars == <<style, window, frame, needs, missed, sets>>

Axis     == {"x", "y"}
Other(a) == CHOOSE b \in Axis : b # a

(* A length of the style sheet: hardware pixels or a percentage of the       *)
(* container.                                                               *)
Px(n) == [unit |-> "px", n |-> n]
Pc(n) == [unit |-> "pc", n |-> n]

Measurement == [unit : {"px", "pc"}, n : Int]
Measurable  == Measurement \union {None}
InsetsType  == [Axis -> Measurement \X Measurement]
SizeType    == [Axis -> Int]

(* The properties of a view; content is the size of an image, or of a       *)
(* button's title.                                                          *)
StyleType ==
    [kind : {"view", "image", "button"}, layout : {None, "row", "column"},
     length : [Axis -> Measurable], basis : Int \union {None}, grow : Int, shrink : Int,
     margin : InsetsType, padding : InsetsType, pos : [Axis -> Measurable \union {Center}],
     content : [Axis -> Nat \ {0}] \union {None}]

ASSUME StyleAssumption ==
    /\ None # Center /\ Pixel \in Nat \ {0}
    /\ Insets \subseteq InsetsType /\ Sizes \union {InitialSize} \subseteq SizeType
    /\ DOMAIN Styles = Views
    /\ \A v \in Views : \A s \in Styles[v] :
         s \in StyleType /\ (s.kind # "view" => s.content # None)

(* Every view but the root is in one place of one list of subviews, and the *)
(* lists make no cycle.                                                     *)
ASSUME TreeAssumption ==
    /\ IsFiniteSet(Views) /\ Root \in Views /\ Subviews \in [Views -> Seq(Views)]
    /\ \A v \in Views : v # Root <=> \E p \in Views : v \in ToSet(Subviews[p])
    /\ \A p, q \in Views : \A i \in DOMAIN Subviews[p], j \in DOMAIN Subviews[q] :
         Subviews[p][i] = Subviews[q][j] => p = q /\ i = j
    /\ \E depth \in [Views -> 0 .. Cardinality(Views)] :
         \A p \in Views : \A v \in ToSet(Subviews[p]) : depth[p] < depth[v]

Init ==
    /\ style \in {s \in [Views -> UNION {Styles[v] : v \in Views}] :
                    \A v \in Views : s[v] \in Styles[v]}
    /\ window = InitialSize
    /\ frame = [v \in Views |-> None]
    /\ needs = {Root}
    /\ missed = {}
    /\ sets = 0

(***************************************************************************)
(* Lengths                                                                 *)
(***************************************************************************)
(* measurement::valuePx, in a container of that length.                     *)
ValuePx(m, container) ==
    IF m = None THEN 0
    ELSE IF m.unit = "pc" THEN (m.n * container) \div 100 ELSE m.n

(* getActualMargins, getActualPadding: insets before and after the content  *)
(* on each axis, percentages of the rectangle given.                        *)
Lead(insets, r)  == [a \in Axis |-> ValuePx(insets[a][1], r.size[a])]
Trail(insets, r) == [a \in Axis |-> ValuePx(insets[a][2], r.size[a])]
Both(insets, r)  == [a \in Axis |-> Lead(insets, r)[a] + Trail(insets, r)[a]]

(* insets::applyToRect, with insets taken from the rectangle by.            *)
Inset(r, insets, by) ==
    [origin |-> [a \in Axis |-> r.origin[a] + Lead(insets, by)[a]],
     size   |-> [a \in Axis |-> r.size[a] - Both(insets, by)[a]]]

(* measure(): a plain view answers its width and height properties, an      *)
(* image the size of its content, made to fit the rectangle with its        *)
(* proportions and rounded up to whole pixels, a button that of its title   *)
(* and its padding.                                                         *)
CeilDiv(n, d) == (n + d - 1) \div d

(* ceilf() of n / d.                                                        *)
Ceilf(n, d) == Pixel * CeilDiv(n, d * Pixel)

(* Mutant: an image is fitted to the height of the rectangle only.          *)
FittedHeight(own, room) ==
    IF own.y > room.y
    THEN [x |-> Ceilf(own.x * room.y, own.y), y |-> Ceilf(room.y, 1)]
    ELSE [a \in Axis |-> Ceilf(own[a], 1)]

(* The height is made to fit, and the width after it if it still does not.  *)
Fitted(own, room) ==
    IF own.y > room.y /\ own.x * room.y <= room.x * own.y
    THEN [x |-> Ceilf(own.x * room.y, own.y), y |-> Ceilf(room.y, 1)]
    ELSE IF own.x > room.x
    THEN [x |-> Ceilf(room.x, 1), y |-> Ceilf(own.y * room.x, own.x)]
    ELSE [a \in Axis |-> Ceilf(own[a], 1)]

Measure(s, r) ==
    CASE s.kind = "view"   -> [a \in Axis |-> ValuePx(s.length[a], r.size[a])]
      [] s.kind = "image"  -> Fitted(s.content, r.size)
      [] s.kind = "button" -> [a \in Axis |-> s.content[a] + Both(s.padding, r)[a]]

(* applyPosition: the offset of the x and y properties.                     *)
Position(pos, container, own) ==
    IF pos = None THEN 0
    ELSE IF pos = Center THEN (container - own) \div 2
    ELSE ValuePx(pos, container)

Placed(s, r, sub) ==
    [sub EXCEPT !.origin = [a \in Axis |->
       sub.origin[a] + Position(s.pos[a], r.size[a], sub.size[a])]]

(***************************************************************************)
(* A container                                                             *)
(***************************************************************************)
(* The padding is taken off a rectangle with the container's own origin.    *)
Inner(s, r) ==
    Inset([origin |-> [a \in Axis |-> 0], size |-> r.size], s.padding, r)

(* The flex basis: its own property, the length along the main axis, or the *)
(* measured size with no limit along it; margins included.  "No limit" is    *)
(* 2000000000 in the code; this one keeps TLC's products within 32 bits and *)
(* is still far beyond every length of an instance.                         *)
Endless == 2000000

Own(s, a, r) ==
    IF s.basis # None THEN s.basis
    ELSE IF s.length[a] # None THEN ValuePx(s.length[a], r.size[a])
    ELSE Measure(s, [r EXCEPT !.size[a] = Endless])[a]

Basis(s, a, r) == Own(s, a, r) + Both(s.margin, r)[a]

Bases(kids, a, r) == [i \in DOMAIN kids |-> Basis(kids[i], a, r)]

(* The sums of the first members of a sequence, and of all of them.         *)
Sums(s) ==
    LET Sum[i \in 0 .. Len(s)] == IF i = 0 THEN 0 ELSE Sum[i - 1] + s[i]
    IN  Sum

Total(s) == Sums(s)[Len(s)]

(* What is left of the main axis is shared out by flex-grow, what is        *)
(* missing by flex-shrink.                                                  *)
Diff(kids, a, r) == r.size[a] - Total(Bases(kids, a, r))

Weights(kids, diff) ==
    [i \in DOMAIN kids |-> IF diff >= 0 THEN kids[i].grow ELSE kids[i].shrink]

(* Mutant: the weights are not divided by their sum.                        *)
SharesUnscaled(kids, a, r) ==
    LET diff == Diff(kids, a, r)
    IN  [i \in DOMAIN kids |-> Basis(kids[i], a, r) + Weights(kids, diff)[i] * diff]

Shares(kids, a, r) ==
    LET diff == Diff(kids, a, r)
        w    == Weights(kids, diff)
    IN  [i \in DOMAIN kids |-> Basis(kids[i], a, r)
           + (IF Total(w) > 0 THEN (w[i] * diff) \div Total(w) ELSE 0)]

(* The rectangle of a subview in what is left of the container: its margins *)
(* are taken off its share, from the rectangle that is left.                *)
FlexRect(s, a, share, left) ==
    Placed(s, left, Inset([left EXCEPT !.size[a] = share], s.margin, left))

(* Mutant: the room that is left grows.                                    *)
AdvanceGrowing(sub, a, left) ==
    [origin |-> [left.origin EXCEPT ![a] = @ + sub.size[a]],
     size   |-> [left.size EXCEPT ![a] = @ + sub.size[a]]]

(* The next subview starts where this one's size, without margins, ends.    *)
FlexAdvance(sub, a, left) ==
    [origin |-> [left.origin EXCEPT ![a] = @ + sub.size[a]],
     size   |-> [left.size EXCEPT ![a] = @ - sub.size[a]]]

(* What is left of the container for each subview.                          *)
Rooms(kids, a, shares, inner) ==
    LET Room[i \in DOMAIN kids] ==
          IF i = 1 THEN inner
          ELSE FlexAdvance(FlexRect(kids[i - 1], a, shares[i - 1], Room[i - 1]), a, Room[i - 1])
    IN  Room

FlexRects(kids, a, inner) ==
    LET shares == Shares(kids, a, inner)
    IN  [i \in DOMAIN kids |->
           FlexRect(kids[i], a, shares[i], Rooms(kids, a, shares, inner)[i])]

(* Without a layout property each subview is where its own properties say.  *)
PlainRect(s, inner) ==
    Placed(s, inner,
           [origin |-> [a \in Axis |-> inner.origin[a] + Lead(s.margin, inner)[a]],
            size   |-> Measure(s, inner)])

MainAxis == [row |-> "x", column |-> "y"]

(* The rectangles of the subviews, whose properties are kids, of a view that *)
(* has the properties s and the rectangle r.                                *)
SubRects(s, kids, r) ==
    IF s.layout = None
    THEN [i \in DOMAIN kids |-> PlainRect(kids[i], Inner(s, r))]
    ELSE FlexRects(kids, MainAxis[s.layout], Inner(s, r))

(***************************************************************************)
(* The tree                                                                *)
(***************************************************************************)
Parent(v) == CHOOSE p \in Views : v \in ToSet(Subviews[p])
Place(v)  == CHOOSE i \in DOMAIN Subviews[Parent(v)] : Subviews[Parent(v)][i] = v
Kids(v)   == [i \in DOMAIN Subviews[v] |-> style[Subviews[v][i]]]

AboveOrSelf[v \in Views] ==
    {v} \union (IF v = Root THEN {} ELSE AboveOrSelf[Parent(v)])

FrameOf[v \in Views] ==
    IF v = Root THEN [origin |-> [a \in Axis |-> 0], size |-> window]
    ELSE SubRects(style[Parent(v)], Kids(Parent(v)), FrameOf[Parent(v)])[Place(v)]

(* AppKit sends [layout] to a flagged native view.  Only the root's does     *)
(* anything, and then it lays out the whole tree.                           *)
NativeLayout(v) ==
    /\ v \in needs
    /\ needs' = needs \ {v}
    /\ IF v = Root
       THEN frame' = [w \in Views |-> FrameOf[w]] /\ missed' = {}
       ELSE UNCHANGED <<frame, missed>>
    /\ UNCHANGED <<style, window, sets>>

(* The user resizes the window; AppKit flags the content view.              *)
Resize ==
    /\ window' \in Sizes \ {window}
    /\ needs' = needs \union {Root}
    /\ UNCHANGED <<style, frame, missed, sets>>

(* Mutant: the property is stored and nothing is flagged.                   *)
ChangedSilently(v) ==
    /\ sets < MaxSets
    /\ sets' = sets + 1
    /\ missed' = missed \union {v}
    /\ UNCHANGED <<window, frame, needs>>

(* set_margin, set_padding: the property, and a flag on the own native view *)
(* only.                                                                    *)
Changed(v) ==
    /\ sets < MaxSets
    /\ sets' = sets + 1
    /\ needs' = needs \union {v}
    /\ missed' = missed \union {v}
    /\ UNCHANGED <<window, frame>>

SetMargin(v, insets) ==
    style' = [style EXCEPT ![v].margin = insets] /\ Changed(v)

SetPadding(v, insets) ==
    style' = [style EXCEPT ![v].padding = insets] /\ Changed(v)

Next ==
    \/ Resize
    \/ \E v \in Views : NativeLayout(v)
    \/ \E v \in Views, i \in Insets : SetMargin(v, i) \/ SetPadding(v, i)

Spec == Init /\ [][Next]_vars

(***************************************************************************)
(* Properties                                                              *)
(***************************************************************************)
(* A change of margin or padding flags only the view itself, and a view that *)
(* is not the root answers [layout] with nothing.  Once the root has been    *)
(* laid out the damage is local: a frame can be out of date only if the      *)
(* view or one of its ancestors stands beside or inside a subview changed    *)
(* since.                                                                    *)
StaleNearChange ==
    Root \notin needs =>
      \A v \in Views \ {Root} :
        frame[v] = FrameOf[v] \/ \E w \in AboveOrSelf[v] \ {Root} :
          \E m \in missed \ {Root} : m = Parent(w) \/ m \in ToSet(Subviews[Parent(w)])

LaidOut == frame[Root] # None /\ Root \notin needs /\ missed = {}

Flex(v) == Subviews[v] # <<>> /\ style[v].layout # None

(* For each container laid out as a row or a column: its main axis, its     *)
(* content rectangle, the properties of its subviews and their frames.      *)
Rects(v) == [i \in DOMAIN Subviews[v] |-> frame[Subviews[v][i]]]

EachFlex(P(_, _, _, _)) ==
    LaidOut => \A v \in {w \in Views : Flex(w)} :
      P(MainAxis[style[v].layout], Inner(style[v], frame[v]), Kids(v), Rects(v))

(* What a container owes its subviews, and they the container.             *)
Fixed(insets) == \A a \in Axis, i \in 1 .. 2 : insets[a][i].unit = "px"

Fills(a, inner, kids, rects) ==
    LET diff == Diff(kids, a, inner)
        w    == Weights(kids, diff)
        used == [i \in DOMAIN kids |-> rects[i].size[a] + Both(kids[i].margin, inner)[a]]
    IN  Total(w) > 0 /\ (\A i \in DOMAIN kids : Fixed(kids[i].margin))
        => Total(w) * (inner.size[a] - Total(used))
             = Total([i \in DOMAIN kids |-> (w[i] * diff) % Total(w)])

(* Subviews that can grow or shrink use up the container: sizes and margins *)
(* add up to the content's length, whatever mixture of bases, weights and   *)
(* margins in pixels, but for what the integer divisions of this model      *)
(* round off, which is nothing when every share is a whole number.          *)
FillsMainAxis == EachFlex(Fills)

KeepsOwn(a, inner, kids, rects) ==
    Diff(kids, a, inner) >= 0 /\ (\A i \in DOMAIN kids : Own(kids[i], a, inner) >= 0)
    => \A i \in DOMAIN kids : rects[i].size[a] >= Own(kids[i], a, inner)

(* Where there is room, and nobody asks for a negative length, no subview   *)
(* gets less than it asks for: the loop reads percentage margins again from *)
(* a rectangle that has become smaller, and the difference only ever makes  *)
(* the subview larger.                                                      *)
RoomKeepsBasis == EachFlex(KeepsOwn)

Inside(r, outer) ==
    \A a \in Axis :
      /\ r.origin[a] >= outer.origin[a]
      /\ r.origin[a] + r.size[a] <= outer.origin[a] + outer.size[a]

Bare(s)       == s.pos = [a \in Axis |-> None]
Marginless(s) == \A b \in Axis, j \in 1 .. 2 : s.margin[b][j].n = 0

KeepsInside(a, inner, kids, rects) ==
    /\ Total([i \in DOMAIN kids |-> kids[i].grow]) > 0
    /\ Total([i \in DOMAIN kids |-> kids[i].shrink]) > 0
    /\ \A i \in DOMAIN kids : Bare(kids[i]) /\ Marginless(kids[i]) /\ rects[i].size[a] >= 0
    => \A i \in DOMAIN kids : Inside(rects[i], inner)

PlainInside(inner, s, r) ==
    \A a \in Axis :
      /\ s.kind = "image" =>
           IF inner.size[a] % Pixel = 0 THEN r.size[a] <= inner.size[a]
           ELSE r.size[a] < inner.size[a] + Pixel
      /\ s.pos[a] = Center /\ Marginless(s)
         => LET before == r.origin[a] - inner.origin[a]
                after  == inner.size[a] - before - r.size[a]
            IN  after - before \in 0 .. 1

(* Nothing sticks out: a container that distributes its length keeps its    *)
(* subviews, whatever their depth, inside its content when their margins    *)
(* and positions are not set and none of them is left with a negative       *)
(* size.  In a container without a layout an image exceeds the rectangle it *)
(* is measured for by less than a pixel, and not at all where that has      *)
(* whole pixels; "center" leaves the same space on both sides of a view     *)
(* without margins.  measure() "is given a rect that cannot be exceeded"     *)
(* (view.h:47): images keep to that but for the rounding, plain views and    *)
(* buttons do not look at the rectangle's size as a limit and are left out. *)
InsideContent ==
    /\ EachFlex(KeepsInside)
    /\ LaidOut => \A p \in {v \in Views : style[v].layout = None} :
         \A i \in DOMAIN Subviews[p] :
           PlainInside(Inner(style[p], frame[p]), Kids(p)[i], Rects(p)[i])
=============================================================================
