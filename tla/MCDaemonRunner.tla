--------------------------- MODULE MCDaemonRunner ---------------------------
(* Instances of DaemonRunner for TLC. *)
EXTENDS DaemonRunner

Two == {"alice", "bob"}
One == {"alice"}
Nobody == {}
JustDm == {"Dm"}
JustText == {"Text"}
Subs == {"Text", "SubConfirmed"}
==============================================================================
