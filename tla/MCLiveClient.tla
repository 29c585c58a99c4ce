---------------------------- MODULE MCLiveClient ----------------------------
(***************************************************************************)
(* Constants for TLC: two sockets at most, one worker per queue, channels   *)
(* of one and limits of one or two.                                        *)
(***************************************************************************)
EXTENDS LiveClient

CONSTANTS c1, c2, v1, a1

FeedOf == [w \in LiveWorker |-> IF w = a1 THEN "audio" ELSE "video"]

One == [m \in Media |-> 1]
TwoFrames == [m \in Media |-> IF m = "video" THEN 2 ELSE 1]

\* The sockets run the same handler.
Sockets == Permutations({c1, c2})
=============================================================================
