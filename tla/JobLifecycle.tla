---------------------------- MODULE JobLifecycle ----------------------------
(***************************************************************************)
(* What GET /api/v1/analysis/jobs/:id promises of each job's row, without  *)
(* queues, workers or stores: a job is queued, picked up, and completed,   *)
(* failed for another attempt, or given up; a terminal job never moves,    *)
(* attempts count up one by one within their budget, and every attempt     *)
(* that begins, and every retry that is due, comes to an end.              *)
(***************************************************************************)
EXTENDS Naturals

CONSTANTS Job,
          MaxAttempts   \* a positive number

VARIABLES status, attempt

lifecycleVars == <<status, attempt>>

Init == /\ status = [j \in Job |-> "none"]
        /\ attempt = [j \in Job |-> 0]

Becomes(j, s, n) == /\ status' = [status EXCEPT ![j] = s]
                    /\ attempt' = [attempt EXCEPT ![j] = n]

Create(j) == status[j] = "none" /\ Becomes(j, "queued", 1)

PickUp(j) == \/ status[j] = "queued" /\ Becomes(j, "processing", 1)
             \/ status[j] = "failed" /\ Becomes(j, "processing", attempt[j] + 1)

Complete(j) == status[j] = "processing" /\ Becomes(j, "completed", attempt[j])

Fail(j) == /\ status[j] = "processing"
           /\ attempt[j] < MaxAttempts
           /\ Becomes(j, "failed", attempt[j])

GiveUp(j) == /\ status[j] = "processing"
             /\ Becomes(j, "dead_letter", attempt[j])

\* The job could not be enqueued.
Refuse(j) == status[j] = "queued" /\ Becomes(j, "dead_letter", attempt[j])

Progress(j) == PickUp(j) \/ Complete(j) \/ Fail(j) \/ GiveUp(j) \/ Refuse(j)

Next == \E j \in Job : Create(j) \/ Progress(j)

Spec == /\ Init
        /\ [][Next]_lifecycleVars
        /\ \A j \in Job : WF_lifecycleVars(Progress(j))
=============================================================================
