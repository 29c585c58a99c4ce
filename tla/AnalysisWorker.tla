--------------------------- MODULE AnalysisWorker ---------------------------
(***************************************************************************)
(* gateway/internal/analysisworker: the goroutine that takes jobs off one  *)
(* queue and runs them through the video or audio Handler.  Every action   *)
(* is the code between two calls that leave the process, with the call     *)
(* that ends it: a crash, or another worker, can come between any two.     *)
(*                                                                         *)
(*   idle -> start -> handle -> check -> upsert -> ack -> complete -> idle *)
(*             |        |         |        |                               *)
(*             |        +---------+--------+--> failed -> backoff          *)
(*             |        |                          -> requeue -> ackRetry  *)
(*             +--------+--> dead -> notify -> finalize -> remove          *)
(*                                                      -> record -> idle  *)
(***************************************************************************)
EXTENDS RedisQueue, JobStore, Outages

CONSTANTS Worker,    \* the worker goroutines
          Serves     \* [Worker -> Modality], the pool a worker belongs to

ASSUME WorkerAssumption == Serves \in [Worker -> Modality]

VARIABLES gateway,    \* "up", "stopping" (workers' context cancelled) or "down"
          pc,         \* where each worker stands
          held,       \* the delivery it is processing
          compute,    \* what the coordinator told it
          handled,    \* history: jobs whose Handle returned nil
          removed,    \* history: jobs that Fail took off their processing list
          unchecked   \* history: sessions where a job was given up without the
                      \* coordinator's answer, or without the risk it called for,
                      \* or one asked while the other modality was past its look

workerVars == <<pc, held, compute>>
historyVars == <<handled, removed, unchecked>>

PC == {"idle", "start", "handle", "check", "upsert", "ack", "complete",
       "failed", "backoff", "requeue", "ackRetry",
       "dead", "notify", "finalize", "remove", "record",
       "stopped", "gone"}

WorkerTypeOK ==
    /\ gateway \in {"up", "stopping", "down"}
    /\ pc \in [Worker -> PC]
    /\ held \in [Worker -> Delivery \union {NoDelivery}]
    /\ compute \in [Worker -> BOOLEAN]
    /\ handled \subseteq Job
    /\ removed \subseteq Job
    /\ unchecked \subseteq Session

WorkerInit ==
    /\ gateway = "up"
    /\ pc = [w \in Worker |-> "idle"]
    /\ held = [w \in Worker |-> NoDelivery]
    /\ compute = [w \in Worker |-> FALSE]
    /\ handled = {}
    /\ removed = {}
    /\ unchecked = {}

HeldJob(w) == held[w].job
HeldSession(w) == SessionOfJob(HeldJob(w))

At(w, label) == pc[w] = label

GoTo(w, label) ==
    /\ pc' = [pc EXCEPT ![w] = label]
    /\ UNCHANGED <<held, compute>>

\* process returns: run dequeues again, which fails at once when stopping.
Release(w) ==
    /\ pc' = [pc EXCEPT ![w] = IF gateway = "stopping" THEN "gone" ELSE "idle"]
    /\ held' = [held EXCEPT ![w] = NoDelivery]
    /\ compute' = [compute EXCEPT ![w] = FALSE]

\* The worker's label after Handle returned an error.
AfterError(w, permanent) ==
    IF permanent \/ ~HasAttemptsRemaining(held[w]) THEN "dead" ELSE "failed"

\* A status write that is logged, and nothing more, when it fails.
BestEffort(write) == \/ write /\ Answered
                     \/ Outage /\ UNCHANGED rows

GiveUpUnchecked(w) == unchecked' = unchecked \union {HeldSession(w)}

----------------------------------------------------------------------------
(* run and Dequeue.                                                        *)

\* BLMOVE hands the worker the oldest pending delivery.  Or Dequeue returns an error,
\* since the reply was lost or the job's envelope does not unmarshal: the delivery
\* stays in the processing list and run dequeues again.  While stopping, the select
\* in blmove may still prefer the answer to the cancelled context.
Dequeue(w) ==
    /\ gateway \in {"up", "stopping"}
    /\ At(w, "idle")
    /\ BLMove(Serves[w])
    /\ \/ /\ Answered
          /\ pc' = [pc EXCEPT ![w] = "start"]
          /\ held' = [held EXCEPT ![w] = Head(pending[Serves[w]])]
       \/ Outage /\ UNCHANGED <<pc, held>>
    /\ UNCHANGED <<compute, rows, made, scores, risk, gateway, historyVars>>

\* The cancelled context wins: run returns, its last BLMOVE still outstanding.
LeaveLoop(w) ==
    /\ gateway = "stopping"
    /\ At(w, "idle")
    /\ GoTo(w, "stopped")
    /\ UNCHANGED <<queueVars, storeVars, outages, gateway, historyVars>>

\* That BLMOVE moves a delivery which nobody is left to receive.
StrayMove(w) ==
    /\ gateway = "stopping"
    /\ At(w, "stopped")
    /\ BLMove(Serves[w])
    /\ GoTo(w, "gone")
    /\ UNCHANGED <<storeVars, outages, gateway, historyVars>>

----------------------------------------------------------------------------
(* process: decode, mark, handle.                                          *)

Begin(w) ==
    /\ At(w, "start")
    /\ IF HeldJob(w) \in Corrupt
         THEN /\ GoTo(w, "dead")
              /\ UNCHANGED <<rows, outages>>
         ELSE /\ BestEffort(MarkProcessing(held[w]))
              /\ GoTo(w, "handle")
    /\ UNCHANGED <<queueVars, made, scores, risk, gateway, historyVars>>

\* Fetch and detector: a score, an error worth a retry (a timeout, a 5xx), or a
\* permanent one (IsPermanent, or a panic that safeHandle recovered).
Handle(w) ==
    /\ At(w, "handle")
    /\ \/ GoTo(w, "check")
       \/ \E permanent \in BOOLEAN : GoTo(w, AfterError(w, permanent))
    /\ UNCHANGED <<queueVars, storeVars, outages, gateway, historyVars>>

\* The results of these workers are written, or about to be, without another
\* look at the coordinator, while their rows do not yet say so.
PastCheck == {"upsert", "ack", "complete"}

SiblingPastCheck(w) ==
    \E v \in Worker : /\ pc[v] \in PastCheck
                      /\ HeldSession(v) = HeldSession(w)
                      /\ HeldJob(v).mod = Other(HeldJob(w).mod)

\* History: the coordinator is asked while the other modality is past it.
NoteRace(w) ==
    unchecked' = IF SiblingPastCheck(w) THEN unchecked \union {HeldSession(w)}
                                        ELSE unchecked

\* shouldComputeRisk: an answer, or an error that fails this attempt.
CoordinatorRead(w) ==
    /\ At(w, "check")
    /\ \/ /\ Answered
          /\ pc' = [pc EXCEPT ![w] = "upsert"]
          /\ compute' = [compute EXCEPT ![w] = ShouldFinalize(HeldJob(w))]
          /\ NoteRace(w)
          /\ UNCHANGED held
       \/ /\ Outage
          /\ GoTo(w, AfterError(w, FALSE))
          /\ UNCHANGED unchecked
    /\ UNCHANGED <<queueVars, storeVars, gateway, handled, removed>>

\* Mutant: Handle returns nil though the upsert failed.
UpsertUnchecked(w) ==
    /\ At(w, "upsert")
    /\ \/ /\ Answered
          /\ UpsertModality(HeldJob(w), compute[w])
          /\ handled' = handled \union {HeldJob(w)}
       \/ Outage /\ UNCHANGED <<scores, risk, handled>>
    /\ GoTo(w, "ack")
    /\ UNCHANGED <<queueVars, rows, made, gateway, removed, unchecked>>

\* The upsert's transaction.  When its reply is lost it may have committed.
Upsert(w) ==
    /\ At(w, "upsert")
    /\ \/ /\ Answered
          /\ UpsertModality(HeldJob(w), compute[w])
          /\ handled' = handled \union {HeldJob(w)}
          /\ GoTo(w, "ack")
       \/ /\ Outage
          /\ \/ UpsertModality(HeldJob(w), compute[w])
             \/ UNCHANGED <<scores, risk>>
          /\ GoTo(w, AfterError(w, FALSE))
          /\ UNCHANGED handled
    /\ UNCHANGED <<queueVars, rows, made, gateway, removed, unchecked>>

----------------------------------------------------------------------------
(* process: Handle returned nil.                                           *)

Ack(w) ==
    /\ At(w, "ack")
    /\ \/ LRem(Serves[w], held[w]) /\ Answered
       \/ Outage /\ UNCHANGED queueVars
    /\ GoTo(w, "complete")
    /\ UNCHANGED <<storeVars, gateway, historyVars>>

Complete(w) ==
    /\ At(w, "complete")
    /\ BestEffort(MarkCompleted(HeldJob(w)))
    /\ Release(w)
    /\ UNCHANGED <<queueVars, made, scores, risk, gateway, historyVars>>

----------------------------------------------------------------------------
(* process: the job is given up.                                           *)

\* markDeadLetter; a job that did not decode is not notified.
MarkDead(w) ==
    /\ At(w, "dead")
    /\ BestEffort(MarkDeadLetter(HeldJob(w)))
    /\ IF HeldJob(w) \in Corrupt
         THEN GoTo(w, "remove") /\ GiveUpUnchecked(w)
         ELSE GoTo(w, "notify") /\ UNCHANGED unchecked
    /\ UNCHANGED <<queueVars, made, scores, risk, gateway, handled, removed>>

\* notifyDeadLetter: ask the coordinator; an error is only logged.
NotifyDeadLetter(w) ==
    /\ At(w, "notify")
    /\ \/ /\ Answered
          /\ GoTo(w, IF ShouldFinalize(HeldJob(w)) THEN "finalize" ELSE "remove")
          /\ NoteRace(w)
       \/ /\ Outage
          /\ GoTo(w, "remove")
          /\ GiveUpUnchecked(w)
    /\ UNCHANGED <<queueVars, storeVars, gateway, handled, removed>>

Finalize(w) ==
    /\ At(w, "finalize")
    /\ \/ FinalizeRisk(HeldSession(w)) /\ Answered /\ UNCHANGED unchecked
       \/ Outage /\ UNCHANGED <<scores, risk>> /\ GiveUpUnchecked(w)
    /\ GoTo(w, "remove")
    /\ UNCHANGED <<queueVars, rows, made, gateway, handled, removed>>

\* failPermanently, Fail's LREM.  An error ends Fail, whatever it left behind.
FailRemove(w) ==
    /\ At(w, "remove")
    /\ \/ /\ LRem(Serves[w], held[w])
          /\ removed' = removed \union {HeldJob(w)}
          /\ \/ Answered /\ GoTo(w, "record")
             \/ Outage /\ Release(w)
       \/ Outage /\ UNCHANGED <<queueVars, removed>> /\ Release(w)
    /\ UNCHANGED <<storeVars, gateway, handled, unchecked>>

\* Fail's RPUSH.
FailRecord(w) ==
    /\ At(w, "record")
    /\ \/ RPushFailed(Serves[w], held[w]) /\ Answered
       \/ Outage /\ UNCHANGED queueVars
    /\ Release(w)
    /\ UNCHANGED <<storeVars, gateway, historyVars>>

----------------------------------------------------------------------------
(* process: the job is retried.                                            *)

MarkAttemptFailed(w) ==
    /\ At(w, "failed")
    /\ BestEffort(MarkFailed(held[w]))
    /\ GoTo(w, "backoff")
    /\ UNCHANGED <<queueVars, made, scores, risk, gateway, historyVars>>

\* Mutant: the old attempt is acked before the next one is enqueued.
RetryAckFirst(w) ==
    /\ At(w, "backoff")
    /\ LRem(Serves[w], held[w])
    /\ Answered
    /\ GoTo(w, "requeue")
    /\ UNCHANGED <<storeVars, gateway, handled, removed, unchecked>>

\* The backoff ends, by its timer or by Stop, and Enqueue reads LLEN.
RetryCheck(w) ==
    /\ At(w, "backoff")
    /\ \/ ~Full(Serves[w]) /\ Answered /\ GoTo(w, "requeue") /\ UNCHANGED unchecked
       \/ Full(Serves[w]) /\ Answered /\ GoTo(w, "remove") /\ GiveUpUnchecked(w)
       \/ Outage /\ GoTo(w, "remove") /\ GiveUpUnchecked(w)
    /\ UNCHANGED <<queueVars, storeVars, gateway, handled, removed>>

\* Enqueue's RPUSH of the next attempt.  When its reply is lost the delivery may
\* be there, and the original is dead-lettered all the same.
RetryPush(w) ==
    /\ At(w, "requeue")
    /\ \/ /\ Answered
          /\ RPush(Serves[w], WithFailure(held[w]))
          /\ GoTo(w, "ackRetry")
          /\ UNCHANGED unchecked
       \/ /\ Outage
          /\ RPush(Serves[w], WithFailure(held[w])) \/ UNCHANGED queueVars
          /\ GoTo(w, "remove")
          /\ GiveUpUnchecked(w)
    /\ UNCHANGED <<storeVars, gateway, handled, removed>>

AckRetried(w) ==
    /\ At(w, "ackRetry")
    /\ \/ LRem(Serves[w], held[w]) /\ Answered
       \/ Outage /\ UNCHANGED queueVars
    /\ Release(w)
    /\ UNCHANGED <<storeVars, gateway, historyVars>>

----------------------------------------------------------------------------
\* One job through process, whichever way it goes.
Process(w) ==
    \/ Begin(w) \/ Handle(w) \/ CoordinatorRead(w) \/ Upsert(w)
    \/ Ack(w) \/ Complete(w)
    \/ MarkDead(w) \/ NotifyDeadLetter(w) \/ Finalize(w)
    \/ FailRemove(w) \/ FailRecord(w)
    \/ MarkAttemptFailed(w) \/ RetryCheck(w) \/ RetryPush(w) \/ AckRetried(w)

WorkerStep(w) == Dequeue(w) \/ LeaveLoop(w) \/ StrayMove(w) \/ Process(w)
=============================================================================
