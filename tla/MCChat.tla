-------------------------------- MODULE MCChat -------------------------------
(* Instances of Chat. *)
EXTENDS Chat, TLC

CONSTANTS h1, h2

Requests == Permutations({h1, h2})
=============================================================================
