----------------------------- MODULE MCValParse -----------------------------
(***************************************************************************)
(* An instance of ValParse for TLC.  Among the vals written are such as do  *)
(* not come back as they are (an empty string, a percentage) and, at the    *)
(* end, such whose text does not end by itself.                             *)
(***************************************************************************)
EXTENDS ValParse

MCAlphabet   == {"{", "}", "[", "]", ":", ",", "a", "1", " ", "#", Newline,
                 Quote, Escape}
MCBeginnings == {<<>>, <<"{", "a", ":", "1">>, <<"[", "a">>}

MCKeyOrder == <<(<<"a">>), (<<"b">>)>>
One(v)     == Map(<<"a">> :> v)

MCDocs == {
    Array(<<>>), Map(<<>>), Str(<<>>), One(Percent(50)),
    Str(<<"a", "]", ":", ",">>),
    Str(<<Newline, "#", "{">>),
    Array(<<Int32(1), Str(<<"a">>)>>),
    Array(<<Array(<<Int32(-12)>>), Str(<<>>), One(Array(<<>>))>>),
    One(Str(<<"}", " ">>)),
    Map((<<"a">> :> Int32(0)) @@ (<<"b">> :> One(Array(<<Int32(7), Int32(-1)>>)))),
    Int32(5), Str(<<"a", Quote, "b">>), Array(<<Empty, One(Empty)>>) }

MCSearches     == {<<",">>, <<"a", "a">>, <<"a", ",">>, <<"a", "1", "a">>}
MCReplacements == {<<>>, <<"a">>, <<"a", ",", "a">>}
=============================================================================
