---------------------------- MODULE MCValStream ----------------------------
(***************************************************************************)
(* Instances of ValStream for TLC.                                         *)
(***************************************************************************)
EXTENDS ValStream

V(t, d)  == [type |-> t, data |-> d]
Nothing  == V("EMPTY", <<>>)
Number   == V("INT32", <<3, 0>>)
Long     == V("INT64", <<4, 0, 0, 5>>)
Border   == V("MEASUREMENT", <<6, 1>>)
Key      == <<12>>
Deep     == V("ARRAY", <<Number, V("ARRAY", <<Nothing>>), Nothing>>)
Config   == V("MAP", <<<<Key, Number>>, <<<<12, 14>>, Deep>>>>)
Problem  == V("ERROR", <<15, <<16>>>>)

Inside   == V("ARRAY", <<Problem, Border>>)

AllVals == {Nothing, Number, Long, Border, Problem, Inside, V("MAP", <<>>), Deep, Config}
=============================================================================
