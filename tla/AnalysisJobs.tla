---------------------------- MODULE AnalysisJobs ----------------------------
(***************************************************************************)
(* The vocabulary of the asynchronous analysis pipeline                    *)
(* (gateway/internal/analysisjob): jobs, their attempts and their          *)
(* deliveries through Redis.                                               *)
(*                                                                         *)
(* A POST /api/v1/analysis request asks for one or both modalities of one  *)
(* session and makes one job per modality.  A delivery is the queue's copy *)
(* of a job, the raw bytes of which differ between attempts.               *)
(***************************************************************************)
EXTENDS Naturals

CONSTANTS Request,      \* the POST /api/v1/analysis requests
          Session,      \* the sessions they name
          SessionOf,    \* [Request -> Session]
          Wants,        \* [Request -> modalities asked for]
          MaxAttempts,  \* defaultMaxAttempts
          Corrupt,      \* jobs whose payload no longer decodes
          NoJob,        \* "no score": SQL NULL
          NoDelivery    \* a worker that holds nothing

Modality == {"video", "audio"}

Other(m) == IF m = "video" THEN "audio" ELSE "video"

Job == {j \in [req : Request, mod : Modality] : j.mod \in Wants[j.req]}

Delivery == [job : Job, attempt : 1 .. MaxAttempts]

ASSUME JobsAssumption ==
    /\ SessionOf \in [Request -> Session]
    /\ Wants \in [Request -> (SUBSET Modality) \ {{}}]
    /\ MaxAttempts \in Nat \ {0}
    /\ Corrupt \subseteq Job
    /\ NoJob \notin Job
    /\ NoDelivery \notin Delivery

SessionOfJob(j) == SessionOf[j.req]

FirstDelivery(j) == [job |-> j, attempt |-> 1]

WithFailure(d) == [d EXCEPT !.attempt = @ + 1]

\* Mutant: one attempt too many.
HasAttemptsRemainingInclusive(d) == d.attempt <= MaxAttempts

HasAttemptsRemaining(d) == d.attempt < MaxAttempts
=============================================================================
