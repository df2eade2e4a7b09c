---------------------------- MODULE MCByteStream ----------------------------
(***************************************************************************)
(* Instances of ByteStream for TLC.                                        *)
(***************************************************************************)
EXTENDS ByteStream

Words == {<<"a">>, <<"b", "b", "a">>}
=============================================================================
