------------------------------ MODULE Outages ------------------------------
(***************************************************************************)
(* Redis and PostgreSQL sit behind the network: any call to them may       *)
(* return an error.  The gateway's reaction to that error is modelled in   *)
(* the modules that make the call; this one only bounds how many calls     *)
(* fail in a behaviour, so that TLC's runs are finite.                     *)
(***************************************************************************)
EXTENDS Naturals

CONSTANT MaxOutages   \* how many calls to Redis or PostgreSQL may fail

ASSUME OutagesAssumption == MaxOutages \in Nat

VARIABLE outages      \* how many calls have failed so far

\* The call is answered.
Answered == UNCHANGED outages

\* The call returns an error.  Whether it took effect on the server before the
\* reply was lost is for the action that uses this to say.
Outage == /\ outages < MaxOutages
          /\ outages' = outages + 1
=============================================================================
