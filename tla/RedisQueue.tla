----------------------------- MODULE RedisQueue -----------------------------
(***************************************************************************)
(* gateway/internal/queue/redis.go: one durable queue per modality, made   *)
(* of three Redis lists.  Each operation below is one Redis command, and   *)
(* so atomic; Enqueue and Fail are two commands each, and the callers'     *)
(* actions take them one at a time.                                        *)
(***************************************************************************)
EXTENDS AnalysisJobs, SequencesExt

CONSTANT Capacity    \* asyncQueueCapacity

ASSUME QueueAssumption == Capacity \in Nat

VARIABLES pending,     \* [Modality -> Seq(Delivery)], head is the oldest
          processing,  \* dequeued, neither acked nor failed
          failed       \* the dead-letter list

queueVars == <<pending, processing, failed>>

QueueTypeOK ==
    /\ pending \in [Modality -> Seq(Delivery)]
    /\ processing \in [Modality -> Seq(Delivery)]
    /\ failed \in [Modality -> Seq(Delivery)]

QueueInit ==
    /\ pending = [q \in Modality |-> <<>>]
    /\ processing = [q \in Modality |-> <<>>]
    /\ failed = [q \in Modality |-> <<>>]

----------------------------------------------------------------------------
\* Enqueue, first command: LLEN against the capacity.
Full(q) == Len(pending[q]) >= Capacity

\* Enqueue, second command: RPUSH.
RPush(q, d) ==
    /\ pending' = [pending EXCEPT ![q] = Append(@, d)]
    /\ UNCHANGED <<processing, failed>>

\* Dequeue: BLMOVE LEFT RIGHT.
BLMove(q) ==
    /\ pending[q] # <<>>
    /\ pending' = [pending EXCEPT ![q] = Tail(@)]
    /\ processing' = [processing EXCEPT ![q] = Append(@, Head(pending[q]))]
    /\ UNCHANGED failed

\* Mutant: LREM 0, which removes every copy.
LRemAll(q, d) ==
    /\ processing' = [processing EXCEPT ![q] = SelectSeq(@, LAMBDA e : e # d)]
    /\ UNCHANGED <<pending, failed>>

\* Ack, and the first command of Fail: LREM 1 by value.
LRem(q, d) ==
    /\ processing' = [processing EXCEPT ![q] = RemoveFirst(@, d)]
    /\ UNCHANGED <<pending, failed>>

\* Fail, second command: RPUSH on the dead-letter list.
RPushFailed(q, d) ==
    /\ failed' = [failed EXCEPT ![q] = Append(@, d)]
    /\ UNCHANGED <<pending, processing>>

\* What n of RecoverStale's LMOVEs (LEFT to LEFT) make of the two lists: the
\* oldest n deliveries in flight, last moved first, in front of the pending ones.
RecoveredPending(q, n) == Reverse(SubSeq(processing[q], 1, n)) \o pending[q]
RecoveredProcessing(q, n) == SubSeq(processing[q], n + 1, Len(processing[q]))

\* Mutant: a start that recovers nothing.
RecoverNothing(moved) == UNCHANGED queueVars

\* Mutant: a start that forgets what it did not get to recover.
RecoverStaleClearing(moved) ==
    /\ pending' = [q \in Modality |-> RecoveredPending(q, moved[q])]
    /\ processing' = [q \in Modality |-> <<>>]
    /\ UNCHANGED failed

\* RecoverStale on every queue; moved[q] LMOVEs succeed before it stops.
RecoverStale(moved) ==
    /\ pending' = [q \in Modality |-> RecoveredPending(q, moved[q])]
    /\ processing' = [q \in Modality |-> RecoveredProcessing(q, moved[q])]
    /\ UNCHANGED failed
=============================================================================
