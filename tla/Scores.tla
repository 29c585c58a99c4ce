------------------------------- MODULE Scores -------------------------------
(***************************************************************************)
(* Scores from 0 to 1 as integers.  A detector's score of a frame is one   *)
(* from 0 to Grain, and every other score one from 0 to Full.              *)
(***************************************************************************)
EXTENDS Integers

CONSTANTS Full, Grain

ASSUME ScoresAssumption == Full \in Nat \ {0} /\ Grain \in Nat \ {0}

Score == 0 .. Full

\* clamp01.
Clamp01(x) == IF x < 0 THEN 0 ELSE IF x > Full THEN Full ELSE x
=============================================================================
