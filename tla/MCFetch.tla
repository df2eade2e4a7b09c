------------------------------ MODULE MCFetch ------------------------------
(***************************************************************************)
(* An instance of Fetch, and of the promises under it, for TLC.             *)
(***************************************************************************)
EXTENDS Fetch

CONSTANTS ok, bad
=============================================================================
