------------------------------ MODULE JobStore ------------------------------
(***************************************************************************)
(* The PostgreSQL side of the pipeline: analysis_jobs                      *)
(* (gateway/internal/repository/jobs), analysis_results                    *)
(* (gateway/internal/repository/analysis) and the completion coordinator,  *)
(* which is a read of the former.  Each operation is one statement or one  *)
(* transaction under a row lock, and so atomic.                            *)
(***************************************************************************)
EXTENDS AnalysisJobs, FiniteSetsExt, Sequences

VARIABLES rows,    \* analysis_jobs: status and attempt per job
          made,    \* the jobs in the order of their created_at
          scores,  \* analysis_results: per session and modality, the job whose
                   \* score is on record, or NoJob
          risk     \* the scores the combined risk on record was computed from;
                   \* all NoJob while the row's verdict is 'UNKNOWN'

storeVars == <<rows, made, scores, risk>>

Status == {"none", "queued", "processing", "completed", "failed", "dead_letter"}

IsTerminal(status) == status \in {"completed", "dead_letter"}

Row == [status : Status, attempt : 0 .. MaxAttempts]

Scores == [Modality -> Job \union {NoJob}]

NoScores == [m \in Modality |-> NoJob]

StoreTypeOK ==
    /\ rows \in [Job -> Row]
    /\ made \in Seq(Job)
    /\ scores \in [Session -> Scores]
    /\ risk \in [Session -> Scores]

StoreInit ==
    /\ rows = [j \in Job |-> [status |-> "none", attempt |-> 0]]
    /\ made = <<>>
    /\ scores = [s \in Session |-> NoScores]
    /\ risk = [s \in Session |-> NoScores]

----------------------------------------------------------------------------
(* analysis_jobs.  The status updates are unconditional.                   *)

InsertRow(j) ==
    rows' = [rows EXCEPT ![j] = [status |-> "queued", attempt |-> 1]]

MarkProcessing(d) ==
    rows' = [rows EXCEPT ![d.job] = [status |-> "processing", attempt |-> d.attempt]]

MarkCompleted(j) == rows' = [rows EXCEPT ![j].status = "completed"]

\* Mutant: the row is written after the attempt was incremented.
MarkFailedAsNext(d) ==
    rows' = [rows EXCEPT ![d.job] = [status |-> "failed", attempt |-> d.attempt + 1]]

MarkFailed(d) ==
    rows' = [rows EXCEPT ![d.job] = [status |-> "failed", attempt |-> d.attempt]]

MarkDeadLetter(j) == rows' = [rows EXCEPT ![j].status = "dead_letter"]

----------------------------------------------------------------------------
(* analysis_results.                                                       *)

\* Mutant: the risk is computed from the new score alone.
UpsertIgnoringOther(j, compute) ==
    LET s == SessionOfJob(j)
    IN  /\ scores' = [scores EXCEPT ![s][j.mod] = j]
        /\ risk' = IF compute THEN [risk EXCEPT ![s] = [NoScores EXCEPT ![j.mod] = j]]
                              ELSE risk

\* UpsertVideoResult and UpsertAudioResult: record the score and, when the
\* coordinator said so, recompute the risk from the row as it then stands.
UpsertModality(j, compute) ==
    LET s == SessionOfJob(j)
    IN  /\ scores' = [scores EXCEPT ![s][j.mod] = j]
        /\ risk' = IF compute
                     THEN [risk EXCEPT ![s] = [scores[s] EXCEPT ![j.mod] = j]]
                     ELSE risk

\* FinalizeRisk.  Without a row there is nothing to compute from (ErrNotFound),
\* which is what copying NoScores amounts to.
FinalizeRisk(s) ==
    /\ risk' = [risk EXCEPT ![s] = scores[s]]
    /\ UNCHANGED scores

----------------------------------------------------------------------------
(* The completion coordinator.                                             *)

\* The positions in `made` of the inserted jobs of a session and modality.
Inserted(s, m) ==
    {i \in 1 .. Len(made) : /\ made[i].mod = m
                            /\ SessionOfJob(made[i]) = s
                            /\ rows[made[i]].status # "none"}

\* Mutant: waits for a job that was given up.
ShouldFinalizeIfCompleted(j) ==
    LET others == Inserted(SessionOfJob(j), Other(j.mod))
    IN  others # {} => rows[made[Max(others)]].status = "completed"

\* May the combined risk be computed, now that job j's modality is done?  Yes
\* unless the latest job of the other modality is still outstanding.
ShouldFinalize(j) ==
    LET others == Inserted(SessionOfJob(j), Other(j.mod))
    IN  others # {} => IsTerminal(rows[made[Max(others)]].status)
=============================================================================
