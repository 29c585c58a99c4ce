--------------------------- MODULE MCSignalingHub ---------------------------
(***************************************************************************)
(* Constants for TLC: clients are interchangeable.                         *)
(***************************************************************************)
EXTENDS SignalingHub

CONSTANTS c1, c2, c3, c4

Alike == Permutations(Client)
=============================================================================
