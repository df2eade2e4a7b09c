------------------------------ MODULE MCLayout ------------------------------
(***************************************************************************)
(* A window whose root holds a container a, with a view c of its own, and a *)
(* view b.  Lengths are multiples of 24, so that equal shares, shares of    *)
(* one in four and halves are exact; a pixel has 48 units, so that some     *)
(* rectangles have half pixels, of padding or of sharing out.               *)
(***************************************************************************)
EXTENDS Layout

CONSTANTS top, a, b, c

MCViews    == {top, a, b, c}
MCSubviews == (top :> <<a, b>>) @@ (a :> <<c>>) @@ (b :> <<>>) @@ (c :> <<>>)

Both0    == <<Px(0), Px(0)>>
NoInsets == [d \in Axis |-> Both0]
Middle   == [d \in Axis |-> Center]
Unset    == [d \in Axis |-> None]
Leading  == [x |-> <<Px(24), Px(0)>>, y |-> Both0]
Trailing == [d \in Axis |-> <<Px(0), Px(48)>>]
Quarter  == [d \in Axis |-> <<Pc(0), Pc(25)>>]

Plain == [kind |-> "view", layout |-> None, length |-> Unset, basis |-> None,
          grow |-> 0, shrink |-> 1, margin |-> NoInsets, padding |-> NoInsets,
          pos |-> Unset, content |-> None]

With(m)   == [Plain EXCEPT !.length = m]
Lengths   == {Unset, [x |-> Px(192), y |-> Px(96)], [x |-> Pc(50), y |-> Px(288)]}

MCStyles ==
    (top :> {Plain, [Plain EXCEPT !.layout = "column"]}
       \union {[Plain EXCEPT !.layout = "row", !.padding = p] : p \in {NoInsets, Leading}})
 @@ (a   :> {[With(m) EXCEPT !.layout = w[1], !.grow = w[2], !.shrink = w[3]] :
               m \in Lengths, w \in {<<None, 0, 0>>, <<"column", 1, 1>>, <<None, 3, 1>>}})
 @@ (b   :> {[With(m) EXCEPT !.margin = w[1], !.grow = w[2], !.shrink = w[3]] :
               m \in Lengths,
               w \in {<<NoInsets, 0, 1>>, <<NoInsets, 1, 3>>, <<Quarter, 1, 3>>}}
       \union {[Plain EXCEPT !.basis = 144, !.pos = Middle],
               [With([d \in Axis |-> Px(48)]) EXCEPT !.pos = Middle],
               [Plain EXCEPT !.kind = "button", !.content = [x |-> 72, y |-> 24],
                             !.padding = Trailing]})
 @@ (c   :> {[Plain EXCEPT !.kind = "image", !.content = [x |-> 288, y |-> 192],
                           !.pos = p] : p \in {Unset, Middle}})

MCSizes  == {[x |-> 384, y |-> 192], [x |-> 192, y |-> 384]}
MCInitialSize == [x |-> 384, y |-> 192]
MCInsets == {Trailing}
=============================================================================
