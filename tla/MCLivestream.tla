---------------------------- MODULE MCLivestream ----------------------------
(***************************************************************************)
(* The livestream recorder on a creator with a few short broadcasts.       *)
(***************************************************************************)
EXTENDS Livestream
=============================================================================
