----------------------------- MODULE RateLimiter -----------------------------
(***************************************************************************)
(* gateway/internal/ratelimit: the fixed-window limit on one client's      *)
(* requests to one scope.  The window is named by the gateway's clock and  *)
(* the counter of that name kept in Redis, so the time at which a request  *)
(* is counted is not the time at which its window was read.                *)
(***************************************************************************)
EXTENDS Outages, FiniteSets

CONSTANTS Request,    \* the requests of one client to one scope
          Limit,      \* defaultRateLimit
          MaxClock    \* bounds the windows of a behaviour

ASSUME LimitAssumption == Limit \in Nat /\ MaxClock \in Nat

VARIABLES clock,      \* the current window
          counter,    \* Redis: per window its count, and when the key expires
          gate,       \* where Middleware stands with each request
          stamp       \* the window each request read

limitVars == <<clock, counter, gate, stamp>>

Window == 0 .. MaxClock

GateLabel == {"outside", "stamped", "admitted", "unlimited", "refused"}

NoCount == [count |-> 0, expires |-> 0]

LimitTypeOK ==
    /\ clock \in Window
    /\ counter \in [Window -> [count : Nat, expires : Nat]]
    /\ gate \in [Request -> GateLabel]
    /\ stamp \in [Request -> Window]

LimitInit ==
    /\ clock = 0
    /\ counter = [w \in Window |-> NoCount]
    /\ gate = [r \in Request |-> "outside"]
    /\ stamp = [r \in Request |-> 0]

----------------------------------------------------------------------------
\* Mutant: the key lives no longer than the window it counts.
OneWindow == 1

\* ttl, in windows.
Ttl == 2

\* Allow reads the clock and names the window.
ReadClock(r) ==
    /\ gate[r] = "outside"
    /\ gate' = [gate EXCEPT ![r] = "stamped"]
    /\ stamp' = [stamp EXCEPT ![r] = clock]
    /\ UNCHANGED <<clock, counter>>

\* incrementScript: INCR, and PEXPIRE for whoever creates the key.
Increment(w) ==
    counter' = [counter EXCEPT ![w] =
                   [count |-> @.count + 1,
                    expires |-> IF @.count = 0 THEN clock + Ttl ELSE @.expires]]

\* Allow asks Redis, and Middleware lets the request through, answers 429, or,
\* when Redis does not answer, lets it through all the same.
CountRequest(r) ==
    /\ gate[r] = "stamped"
    /\ \/ /\ Answered
          /\ Increment(stamp[r])
          /\ gate' = [gate EXCEPT ![r] = IF counter[stamp[r]].count + 1 > Limit
                                            THEN "refused" ELSE "admitted"]
       \/ /\ Outage
          /\ Increment(stamp[r]) \/ UNCHANGED counter
          /\ gate' = [gate EXCEPT ![r] = "unlimited"]
    /\ UNCHANGED <<clock, stamp>>

\* A minute goes by, and Redis drops the keys that are due.  A call to Redis that
\* has not been answered within a minute has failed: the client library gives up
\* after a few seconds.
Tick ==
    /\ clock < MaxClock
    /\ \A r \in Request : gate[r] = "stamped" => stamp[r] = clock
    /\ clock' = clock + 1
    /\ counter' = [w \in Window |-> IF counter[w].expires <= clock + 1 THEN NoCount
                                                                       ELSE counter[w]]
    /\ UNCHANGED <<gate, stamp>>

----------------------------------------------------------------------------
Admitted(w) == {r \in Request : gate[r] = "admitted" /\ stamp[r] = w}

\* Of the requests that named the same window no more than the limit are admitted,
\* whichever order Redis counts them in and however late, except for those let
\* through because Redis did not answer (limiter.go, Allow and Middleware).
AdmittedWithinLimit == \A w \in Window : Cardinality(Admitted(w)) <= Limit
=============================================================================
