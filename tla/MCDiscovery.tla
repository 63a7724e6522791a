---------------------------- MODULE MCDiscovery ----------------------------
(* Instances of Discovery for TLC. *)
EXTENDS Discovery

Two == {"alice", "bob"}
One == {"alice"}
==============================================================================
