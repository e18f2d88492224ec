---------------------------- MODULE MCConnections ----------------------------
(* Instances of Connections. *)
EXTENDS Connections, TLC

CONSTANTS h1, a1, a2, s1, s2, owner
=============================================================================
