----------------------- MODULE AnalysisPipelineProofs -----------------------
(***************************************************************************)
(* Theorems about the asynchronous analysis pipeline, for any number of    *)
(* requests, sessions and workers, any attempt budget and capacity, and    *)
(* any number of outages, crashes and restarts.                            *)
(***************************************************************************)
EXTENDS AnalysisPipeline, RedisQueueProofs

----------------------------------------------------------------------------
(* Type correctness.                                                       *)

\* A worker between Dequeue and the end of process holds a delivery, and one on
\* its way to another attempt has an attempt left to take.
HeldOK ==
    \A w \in Worker :
        /\ pc[w] \notin {"idle", "stopped", "gone"} => held[w] \in Delivery
        /\ pc[w] \in {"failed", "backoff", "requeue"} => HasAttemptsRemaining(held[w])

\* A handler creates jobs only for what its request asked for.
MakingOK == \A r \in Request : making[r] \in Wants[r]

TypeInv == TypeOK /\ HeldOK /\ MakingOK

\* The job a handler is creating is one, and so is the delivery it will push.
LEMMA MakingIsJob ==
    ASSUME TypeInv, NEW r \in Request
    PROVE  Making(r) \in Job /\ FirstDelivery(Making(r)) \in Delivery
BY JobsAssumption DEF TypeInv, TypeOK, MakingOK, Making, Job, FirstDelivery, Delivery

\* A worker inside process holds a delivery of a job of a session.
LEMMA HeldIsJob ==
    ASSUME TypeInv, NEW w \in Worker, pc[w] \notin {"idle", "stopped", "gone"}
    PROVE  /\ held[w] \in Delivery
           /\ HeldJob(w) \in Job
           /\ HeldSession(w) \in Session
BY JobsAssumption DEF TypeInv, HeldOK, HeldJob, HeldSession, SessionOfJob, Delivery, Job

\* WithFailure of a job with attempts remaining is its next attempt.
LEMMA NextAttemptIsDelivery ==
    ASSUME NEW d \in Delivery, HasAttemptsRemaining(d)
    PROVE  /\ WithFailure(d) \in Delivery
           /\ WithFailure(d).job = d.job
           /\ WithFailure(d).attempt = d.attempt + 1
BY JobsAssumption DEF Delivery, WithFailure, HasAttemptsRemaining

\* A gateway that starts on empty stores is well typed.
LEMMA TypeInit == Init => TypeInv
<1> SUFFICES ASSUME Init PROVE TypeInv
  OBVIOUS
<1> USE DEF Init
<1>1. QueueTypeOK
  BY DEF QueueInit, QueueTypeOK
<1>2. StoreTypeOK
  <2>1. [status |-> "none", attempt |-> 0] \in Row
    BY JobsAssumption DEF Row, Status
  <2>2. NoScores \in Scores
    BY DEF Scores, NoScores
  <2>3. <<>> \in Seq(Job)
    OBVIOUS
  <2> QED
    BY <2>1, <2>2, <2>3 DEF StoreInit, StoreTypeOK
<1>3. WorkerTypeOK
  BY DEF WorkerInit, WorkerTypeOK, PC
<1>4. MakingOK
  <2> SUFFICES ASSUME NEW r \in Request PROVE making[r] \in Wants[r]
    BY DEF MakingOK
  <2>1. Wants[r] # {} /\ Wants[r] \subseteq {"video", "audio"}
    BY JobsAssumption DEF Modality
  <2>2. making[r] = FirstWanted(r)
    OBVIOUS
  <2> QED
    BY <2>1, <2>2 DEF FirstWanted
<1>5. HeldOK
  BY DEF WorkerInit, HeldOK
<1>6. making \in [Request -> Modality]
  BY DEF FirstWanted, Modality
<1> QED
  BY <1>1, <1>2, <1>3, <1>4, <1>5, <1>6, OutagesAssumption, LifeAssumption
  DEF TypeInv, TypeOK, ApiLabel

\* What a call's outcome does to the bound on outages.
LEMMA OutageType ==
    ASSUME TypeInv, Answered \/ Outage
    PROVE  outages' \in 0 .. MaxOutages
BY OutagesAssumption DEF TypeInv, TypeOK, Answered, Outage

\* Moving a worker to another label keeps what its new label requires of it.
LEMMA GoToType ==
    ASSUME TypeInv, NEW w \in Worker, NEW label \in PC, GoTo(w, label),
           label \notin {"idle", "stopped", "gone"} => held[w] \in Delivery,
           label \in {"failed", "backoff", "requeue"} => HasAttemptsRemaining(held[w])
    PROVE  /\ pc' \in [Worker -> PC]
           /\ held' \in [Worker -> Delivery \union {NoDelivery}]
           /\ compute' \in [Worker -> BOOLEAN]
           /\ HeldOK'
BY DEF TypeInv, TypeOK, WorkerTypeOK, HeldOK, GoTo, HasAttemptsRemaining

\* The end of process leaves the worker with nothing it has to hold.
LEMMA ReleaseType ==
    ASSUME TypeInv, NEW w \in Worker, Release(w)
    PROVE  /\ pc' \in [Worker -> PC]
           /\ held' \in [Worker -> Delivery \union {NoDelivery}]
           /\ compute' \in [Worker -> BOOLEAN]
           /\ HeldOK'
<1>1. \A v \in Worker : v # w => pc'[v] = pc[v] /\ held'[v] = held[v]
  BY DEF TypeInv, TypeOK, WorkerTypeOK, Release
<1>2. pc'[w] \in {"idle", "gone"}
  BY DEF TypeInv, TypeOK, WorkerTypeOK, Release
<1>3. HeldOK'
  BY <1>1, <1>2 DEF TypeInv, HeldOK, HasAttemptsRemaining
<1> QED
  BY <1>3 DEF TypeInv, TypeOK, WorkerTypeOK, Release, PC

\* A failed attempt is retried only when the job has an attempt left.
LEMMA AfterErrorType ==
    ASSUME TypeInv, NEW w \in Worker, NEW permanent \in BOOLEAN
    PROVE  /\ AfterError(w, permanent) \in {"dead", "failed"}
           /\ AfterError(w, permanent) = "failed" => HasAttemptsRemaining(held[w])
BY DEF AfterError

\* The statements on analysis_jobs.
LEMMA RowsType ==
    ASSUME TypeInv
    PROVE  /\ \A j \in Job : InsertRow(j) => rows' \in [Job -> Row]
           /\ \A d \in Delivery : MarkProcessing(d) => rows' \in [Job -> Row]
           /\ \A j \in Job : MarkCompleted(j) => rows' \in [Job -> Row]
           /\ \A d \in Delivery : MarkFailed(d) => rows' \in [Job -> Row]
           /\ \A j \in Job : MarkDeadLetter(j) => rows' \in [Job -> Row]
<1>1. rows \in [Job -> Row]
  BY DEF TypeInv, TypeOK, StoreTypeOK
<1>2. \A s \in Status, n \in 0 .. MaxAttempts : [status |-> s, attempt |-> n] \in Row
  BY DEF Row
<1>3. \A j \in Job, s \in Status :
        [rows EXCEPT ![j].status = s] \in [Job -> Row]
  BY <1>1 DEF Row
<1>4. \A d \in Delivery : d.job \in Job /\ d.attempt \in 0 .. MaxAttempts
  BY JobsAssumption DEF Delivery
<1>5. 1 \in 0 .. MaxAttempts
  BY JobsAssumption
<1>6. {"queued", "processing", "completed", "failed", "dead_letter"} \subseteq Status
  BY DEF Status
<1> QED
  BY <1>1, <1>2, <1>3, <1>4, <1>5, <1>6
  DEF InsertRow, MarkProcessing, MarkCompleted, MarkFailed, MarkDeadLetter

\* The transactions on analysis_results.
LEMMA ScoresType ==
    ASSUME TypeInv
    PROVE  /\ \A j \in Job : \A b \in BOOLEAN : UpsertModality(j, b) =>
                 scores' \in [Session -> Scores] /\ risk' \in [Session -> Scores]
           /\ \A s \in Session : FinalizeRisk(s) =>
                 scores' \in [Session -> Scores] /\ risk' \in [Session -> Scores]
<1>1. scores \in [Session -> Scores] /\ risk \in [Session -> Scores]
  BY DEF TypeInv, TypeOK, StoreTypeOK
<1>2. \A s \in Session, j \in Job :
        /\ [scores EXCEPT ![s][j.mod] = j] \in [Session -> Scores]
        /\ [scores[s] EXCEPT ![j.mod] = j] \in Scores
  BY <1>1 DEF Scores
<1>3. \A j \in Job : SessionOfJob(j) \in Session
  BY JobsAssumption DEF Job, SessionOfJob
<1>4. ASSUME NEW j \in Job, NEW b \in BOOLEAN, UpsertModality(j, b)
      PROVE  scores' \in [Session -> Scores] /\ risk' \in [Session -> Scores]
  <2> DEFINE s == SessionOfJob(j)
             known == [scores[s] EXCEPT ![j.mod] = j]
  <2>1. s \in Session /\ known \in Scores
    BY <1>2, <1>3
  <2>2. /\ scores' = [scores EXCEPT ![s][j.mod] = j]
        /\ risk' = IF b THEN [risk EXCEPT ![s] = known] ELSE risk
    BY <1>4 DEF UpsertModality
  <2> HIDE DEF s, known
  <2> QED
    BY <2>1, <2>2, <1>1, <1>2
<1>5. ASSUME NEW s \in Session, FinalizeRisk(s)
      PROVE  scores' \in [Session -> Scores] /\ risk' \in [Session -> Scores]
  BY <1>1, <1>5 DEF FinalizeRisk
<1> QED
  BY <1>4, <1>5

\* Every step of a worker keeps the types.  The conclusion leaves out what no
\* worker touches.
LEMMA WorkerStepType ==
    ASSUME TypeInv, NEW w \in Worker, WorkerStep(w)
    PROVE  /\ QueueTypeOK'
           /\ StoreTypeOK'
           /\ WorkerTypeOK'
           /\ HeldOK'
           /\ outages' \in 0 .. MaxOutages
<1> DEFINE PcTypes == /\ pc' \in [Worker -> PC]
                      /\ held' \in [Worker -> Delivery \union {NoDelivery}]
                      /\ compute' \in [Worker -> BOOLEAN]
                      /\ HeldOK'
<1>q. Serves[w] \in Modality
  BY WorkerAssumption
<1>t. QueueTypeOK /\ StoreTypeOK /\ WorkerTypeOK /\ outages \in 0 .. MaxOutages
  BY DEF TypeInv, TypeOK
<1>Q. UNCHANGED queueVars => QueueTypeOK'
  BY <1>t DEF queueVars, QueueTypeOK
<1>S. UNCHANGED storeVars => StoreTypeOK'
  BY <1>t DEF storeVars, StoreTypeOK
<1>O. Answered \/ Outage => outages' \in 0 .. MaxOutages
  BY OutageType
<1>1. CASE Dequeue(w)
  <2>1. QueueTypeOK' /\ Head(pending[Serves[w]]) \in Delivery
    BY <1>1, <1>q, <1>t, BLMoveKeeps DEF Dequeue
  <2>2. PcTypes
    <3>1. CASE UNCHANGED <<pc, held>>
      BY <1>1, <3>1, <1>t DEF TypeInv, WorkerTypeOK, Dequeue, HeldOK, HasAttemptsRemaining
    <3>2. CASE /\ pc' = [pc EXCEPT ![w] = "start"]
               /\ held' = [held EXCEPT ![w] = Head(pending[Serves[w]])]
      <4>1. \A v \in Worker : v # w => pc'[v] = pc[v] /\ held'[v] = held[v]
        BY <3>2, <1>t DEF WorkerTypeOK
      <4>2. pc'[w] = "start" /\ held'[w] \in Delivery
        BY <3>2, <2>1, <1>t DEF WorkerTypeOK
      <4>3. HeldOK'
        BY <4>1, <4>2 DEF TypeInv, HeldOK, HasAttemptsRemaining
      <4> QED
        BY <1>1, <3>2, <2>1, <4>3, <1>t DEF WorkerTypeOK, Dequeue, PC
    <3> QED
      BY <1>1, <3>1, <3>2 DEF Dequeue
  <2> QED
    BY <1>1, <2>1, <2>2, <1>t, <1>O DEF Dequeue, StoreTypeOK, WorkerTypeOK, historyVars
<1>2. CASE LeaveLoop(w)
  <2>1. PcTypes
    BY <1>2, GoToType DEF LeaveLoop, PC
  <2> QED
    BY <1>2, <2>1, <1>t, <1>Q, <1>S DEF LeaveLoop, WorkerTypeOK, historyVars
<1>3. CASE StrayMove(w)
  <2>1. PcTypes
    BY <1>3, GoToType DEF StrayMove, PC
  <2>2. QueueTypeOK'
    BY <1>3, <1>q, <1>t, BLMoveKeeps DEF StrayMove
  <2> QED
    BY <1>3, <2>1, <2>2, <1>t, <1>S DEF StrayMove, WorkerTypeOK, historyVars
<1>4. ASSUME Process(w)
      PROVE  pc[w] \notin {"idle", "stopped", "gone"}
  BY <1>4 DEF Process, At, Begin, Handle, CoordinatorRead, Upsert, Ack, Complete,
              MarkDead, NotifyDeadLetter, Finalize, FailRemove, FailRecord,
              MarkAttemptFailed, RetryCheck, RetryPush, AckRetried
<1>h. ASSUME Process(w)
      PROVE  held[w] \in Delivery /\ HeldJob(w) \in Job /\ HeldSession(w) \in Session
  BY <1>h, <1>4, HeldIsJob
<1>L. ASSUME Process(w), NEW label \in PC \ {"idle", "stopped", "gone"},
             label \notin {"failed", "backoff", "requeue"}, GoTo(w, label)
      PROVE  PcTypes
  BY <1>L, <1>h, GoToType
<1>R. ASSUME Release(w)
      PROVE  PcTypes
  BY <1>R, ReleaseType
<1>5. CASE Begin(w)
  <2>1. PcTypes
    BY <1>5, <1>L DEF Begin, Process, PC
  <2>2. rows' \in [Job -> Row]
    BY <1>5, <1>h, <1>t, RowsType DEF Begin, Process, BestEffort, StoreTypeOK
  <2>3. outages' \in 0 .. MaxOutages
    BY <1>5, <1>t, <1>O DEF Begin, BestEffort
  <2> QED
    BY <1>5, <2>1, <2>2, <2>3, <1>t, <1>Q DEF Begin, StoreTypeOK, WorkerTypeOK, historyVars
<1>6. CASE Handle(w)
  <2>1. PcTypes
    <3>1. CASE GoTo(w, "check")
      BY <1>6, <3>1, <1>L DEF Process, PC
    <3>2. CASE \E permanent \in BOOLEAN : GoTo(w, AfterError(w, permanent))
      BY <1>6, <3>2, <1>h, AfterErrorType, GoToType DEF Process, PC
    <3> QED
      BY <1>6, <3>1, <3>2 DEF Handle
  <2> QED
    BY <1>6, <2>1, <1>t, <1>Q, <1>S DEF Handle, WorkerTypeOK, historyVars
<1>7. CASE CoordinatorRead(w)
  <2>1. PcTypes
    <3>1. CASE GoTo(w, AfterError(w, FALSE))
      BY <1>7, <3>1, <1>h, AfterErrorType, GoToType DEF Process, PC
    <3>2. CASE /\ pc' = [pc EXCEPT ![w] = "upsert"]
               /\ compute' = [compute EXCEPT ![w] = ShouldFinalize(HeldJob(w))]
               /\ UNCHANGED held
      <4>1. ShouldFinalize(HeldJob(w)) \in BOOLEAN
        BY DEF ShouldFinalize, IsTerminal
      <4>2. HeldOK'
        BY <3>2, <1>7, <1>h, <1>t DEF Process, TypeInv, WorkerTypeOK, HeldOK, HasAttemptsRemaining
      <4> QED
        BY <3>2, <4>1, <4>2, <1>t DEF WorkerTypeOK, PC
    <3> QED
      BY <1>7, <3>1, <3>2 DEF CoordinatorRead
  <2>2. unchecked' \subseteq Session
    BY <1>7, <1>h, <1>t DEF Process, CoordinatorRead, NoteRace, WorkerTypeOK
  <2> QED
    BY <1>7, <2>1, <2>2, <1>t, <1>Q, <1>S, <1>O DEF CoordinatorRead, WorkerTypeOK
<1>8. CASE Upsert(w)
  <2>1. PcTypes
    <3>1. CASE GoTo(w, AfterError(w, FALSE))
      BY <1>8, <3>1, <1>h, AfterErrorType, GoToType DEF Process, PC
    <3>2. CASE GoTo(w, "ack")
      BY <1>8, <3>2, <1>L DEF Process, PC
    <3> QED
      BY <1>8, <3>1, <3>2 DEF Upsert
  <2>2. scores' \in [Session -> Scores] /\ risk' \in [Session -> Scores]
    <3>1. compute[w] \in BOOLEAN
      BY <1>t DEF WorkerTypeOK
    <3> QED
      BY <1>8, <3>1, <1>h, <1>t, ScoresType DEF Process, Upsert, StoreTypeOK
  <2>3. handled' \subseteq Job
    BY <1>8, <1>h, <1>t DEF Process, Upsert, WorkerTypeOK
  <2> QED
    BY <1>8, <2>1, <2>2, <2>3, <1>t, <1>Q, <1>O DEF Upsert, StoreTypeOK, WorkerTypeOK
<1>9. CASE Ack(w)
  <2>1. PcTypes
    BY <1>9, <1>L DEF Ack, Process, PC
  <2>2. QueueTypeOK'
    BY <1>9, <1>q, <1>t, <1>Q, LRemTakesOne DEF Ack
  <2> QED
    BY <1>9, <2>1, <2>2, <1>t, <1>S, <1>O DEF Ack, WorkerTypeOK, historyVars
<1>10. CASE Complete(w)
  <2>1. PcTypes
    BY <1>10, <1>R DEF Complete
  <2>2. rows' \in [Job -> Row]
    BY <1>10, <1>h, <1>t, RowsType DEF Complete, Process, BestEffort, StoreTypeOK
  <2>3. outages' \in 0 .. MaxOutages
    BY <1>10, <1>O DEF Complete, BestEffort
  <2> QED
    BY <1>10, <2>1, <2>2, <2>3, <1>t, <1>Q DEF Complete, StoreTypeOK, WorkerTypeOK, historyVars
<1>11. CASE MarkDead(w)
  <2>1. PcTypes
    BY <1>11, <1>L DEF MarkDead, Process, PC
  <2>2. rows' \in [Job -> Row]
    BY <1>11, <1>h, <1>t, RowsType DEF MarkDead, Process, BestEffort, StoreTypeOK
  <2>3. outages' \in 0 .. MaxOutages
    BY <1>11, <1>O DEF MarkDead, BestEffort
  <2>4. unchecked' \subseteq Session
    BY <1>11, <1>h, <1>t DEF Process, MarkDead, GiveUpUnchecked, WorkerTypeOK
  <2> QED
    BY <1>11, <2>1, <2>2, <2>3, <2>4, <1>t, <1>Q DEF MarkDead, StoreTypeOK, WorkerTypeOK
<1>12. CASE NotifyDeadLetter(w)
  <2>1. PcTypes
    BY <1>12, <1>L DEF NotifyDeadLetter, Process, PC
  <2>2. unchecked' \subseteq Session
    BY <1>12, <1>h, <1>t
    DEF Process, NotifyDeadLetter, NoteRace, GiveUpUnchecked, WorkerTypeOK
  <2> QED
    BY <1>12, <2>1, <2>2, <1>t, <1>Q, <1>S, <1>O DEF NotifyDeadLetter, WorkerTypeOK
<1>13. CASE Finalize(w)
  <2>1. PcTypes
    BY <1>13, <1>L DEF Finalize, Process, PC
  <2>2. scores' \in [Session -> Scores] /\ risk' \in [Session -> Scores]
    BY <1>13, <1>h, <1>t, ScoresType DEF Process, Finalize, StoreTypeOK
  <2>3. unchecked' \subseteq Session
    BY <1>13, <1>h, <1>t DEF Process, Finalize, GiveUpUnchecked, WorkerTypeOK
  <2> QED
    BY <1>13, <2>1, <2>2, <2>3, <1>t, <1>Q, <1>O DEF Finalize, StoreTypeOK, WorkerTypeOK
<1>14. CASE FailRemove(w)
  <2>1. PcTypes
    BY <1>14, <1>L, <1>R DEF FailRemove, Process, PC
  <2>2. QueueTypeOK'
    BY <1>14, <1>q, <1>t, <1>Q, LRemTakesOne DEF FailRemove
  <2>3. removed' \subseteq Job
    BY <1>14, <1>h, <1>t DEF Process, FailRemove, WorkerTypeOK
  <2> QED
    BY <1>14, <2>1, <2>2, <2>3, <1>t, <1>S, <1>O DEF FailRemove, WorkerTypeOK
<1>15. CASE FailRecord(w)
  <2>1. PcTypes
    BY <1>15, <1>R DEF FailRecord
  <2>2. QueueTypeOK'
    BY <1>15, <1>q, <1>h, <1>t, <1>Q, RPushFailedKeeps DEF FailRecord, Process
  <2> QED
    BY <1>15, <2>1, <2>2, <1>t, <1>S, <1>O DEF FailRecord, WorkerTypeOK, historyVars
<1>16. CASE MarkAttemptFailed(w)
  <2>1. PcTypes
    BY <1>16, <1>h, GoToType DEF MarkAttemptFailed, At, TypeInv, HeldOK, Process, PC
  <2>2. rows' \in [Job -> Row]
    BY <1>16, <1>h, <1>t, RowsType DEF MarkAttemptFailed, Process, BestEffort, StoreTypeOK
  <2>3. outages' \in 0 .. MaxOutages
    BY <1>16, <1>O DEF MarkAttemptFailed, BestEffort
  <2> QED
    BY <1>16, <2>1, <2>2, <2>3, <1>t, <1>Q
    DEF MarkAttemptFailed, StoreTypeOK, WorkerTypeOK, historyVars
<1>17. CASE RetryCheck(w)
  <2>1. PcTypes
    <3>1. CASE GoTo(w, "requeue")
      BY <1>17, <3>1, <1>h, GoToType DEF RetryCheck, At, TypeInv, HeldOK, Process, PC
    <3>2. CASE GoTo(w, "remove")
      BY <1>17, <3>2, <1>L DEF Process, PC
    <3> QED
      BY <1>17, <3>1, <3>2 DEF RetryCheck
  <2>2. unchecked' \subseteq Session
    BY <1>17, <1>h, <1>t DEF Process, RetryCheck, GiveUpUnchecked, WorkerTypeOK
  <2> QED
    BY <1>17, <2>1, <2>2, <1>t, <1>Q, <1>S, <1>O DEF RetryCheck, WorkerTypeOK
<1>18. CASE RetryPush(w)
  <2>1. PcTypes
    BY <1>18, <1>L DEF RetryPush, Process, PC
  <2>2. QueueTypeOK'
    <3>1. WithFailure(held[w]) \in Delivery
      BY <1>18, <1>h, NextAttemptIsDelivery DEF RetryPush, At, TypeInv, HeldOK, Process
    <3> QED
      BY <1>18, <3>1, <1>q, <1>t, <1>Q, RPushAdds DEF RetryPush
  <2>3. unchecked' \subseteq Session
    BY <1>18, <1>h, <1>t DEF Process, RetryPush, GiveUpUnchecked, WorkerTypeOK
  <2> QED
    BY <1>18, <2>1, <2>2, <2>3, <1>t, <1>S, <1>O DEF RetryPush, WorkerTypeOK
<1>19. CASE AckRetried(w)
  <2>1. PcTypes
    BY <1>19, <1>R DEF AckRetried
  <2>2. QueueTypeOK'
    BY <1>19, <1>q, <1>t, <1>Q, LRemTakesOne DEF AckRetried
  <2> QED
    BY <1>19, <2>1, <2>2, <1>t, <1>S, <1>O DEF AckRetried, WorkerTypeOK, historyVars
<1> QED
  BY <1>1, <1>2, <1>3, <1>5, <1>6, <1>7, <1>8, <1>9, <1>10, <1>11, <1>12, <1>13,
     <1>14, <1>15, <1>16, <1>17, <1>18, <1>19 DEF WorkerStep, Process

\* Every step of a request's handler keeps the types.
LEMMA RequestStepType ==
    ASSUME TypeInv, NEW r \in Request, StartRequest(r) \/ ApiStep(r) \/ HangUp(r)
    PROVE  TypeInv'
<1>t. TypeOK /\ QueueTypeOK /\ StoreTypeOK /\ WorkerTypeOK /\ outages \in 0 .. MaxOutages
  BY DEF TypeInv, TypeOK
<1>j. Making(r) \in Job /\ FirstDelivery(Making(r)) \in Delivery /\ making[r] \in Modality
  BY MakingIsJob DEF TypeInv, TypeOK
<1>Q. UNCHANGED queueVars => QueueTypeOK'
  BY <1>t DEF queueVars, QueueTypeOK
<1>O. Answered \/ Outage \/ CallSucceeds(r) \/ CallFails(r) => outages' \in 0 .. MaxOutages
  BY OutageType DEF CallSucceeds, CallFails
<1>G. \A label \in ApiLabel : ApiGoTo(r, label) => api' \in [Request -> ApiLabel]
  BY <1>t DEF TypeOK, ApiGoTo
<1>l. {"create", "check", "push", "undo", "done"} \subseteq ApiLabel
  BY DEF ApiLabel
<1>1. CASE StartRequest(r)
  <2>1. made' \in Seq(Job)
    BY <1>1, <1>t, <1>j, AppendProperties DEF StartRequest, StoreTypeOK
  <2>2. api' \in [Request -> ApiLabel]
    BY <1>1, <1>G, <1>l DEF StartRequest
  <2> QED
    BY <1>1, <2>1, <2>2, <1>t, <1>Q
    DEF StartRequest, TypeInv, TypeOK, StoreTypeOK, WorkerTypeOK, HeldOK, MakingOK,
        HasAttemptsRemaining, workerVars, historyVars, lifeVars
<1>2. CASE CreateRow(r)
  <2>1. rows' \in [Job -> Row]
    BY <1>2, <1>t, <1>j, RowsType DEF CreateRow, StoreTypeOK
  <2>2. api' \in [Request -> ApiLabel]
    BY <1>2, <1>G, <1>l DEF CreateRow
  <2>3. outages' \in 0 .. MaxOutages
    BY <1>2, <1>O DEF CreateRow
  <2> QED
    BY <1>2, <2>1, <2>2, <2>3, <1>t, <1>Q
    DEF CreateRow, TypeInv, TypeOK, StoreTypeOK, WorkerTypeOK, HeldOK, MakingOK,
        HasAttemptsRemaining, workerVars, historyVars, lifeVars
<1>3. CASE EnqueueCheck(r)
  <2>1. api' \in [Request -> ApiLabel]
    BY <1>3, <1>G, <1>l DEF EnqueueCheck
  <2>2. outages' \in 0 .. MaxOutages
    BY <1>3, <1>O DEF EnqueueCheck
  <2> QED
    BY <1>3, <2>1, <2>2, <1>t, <1>Q
    DEF EnqueueCheck, TypeInv, TypeOK, StoreTypeOK, WorkerTypeOK, HeldOK, MakingOK,
        HasAttemptsRemaining, storeVars, workerVars, historyVars, lifeVars
<1>4. CASE EnqueuePush(r)
  <2>1. QueueTypeOK'
    BY <1>4, <1>t, <1>j, <1>Q, RPushAdds DEF EnqueuePush
  <2>2. /\ api' \in [Request -> ApiLabel]
        /\ making' \in [Request -> Modality]
        /\ MakingOK'
        /\ made' \in Seq(Job)
    <3>1. CASE NextJobOrReply(r)
      <4>1. CASE making[r] = "video" /\ "audio" \in Wants[r]
        <5>1. [req |-> r, mod |-> "audio"] \in Job
          BY <4>1, JobsAssumption DEF Job, Modality
        <5>2. made' = Append(made, [req |-> r, mod |-> "audio"])
          BY <3>1, <4>1 DEF NextJobOrReply
        <5>3. made \in Seq(Job)
          BY <1>t DEF StoreTypeOK
        <5>4. made' \in Seq(Job)
          BY <5>1, <5>2, <5>3, AppendProperties
        <5> QED
          BY <3>1, <4>1, <5>4, <1>t, <1>G, <1>l
          DEF NextJobOrReply, TypeInv, TypeOK, MakingOK, Modality
      <4>2. CASE ~ (making[r] = "video" /\ "audio" \in Wants[r])
        BY <3>1, <4>2, <1>t, <1>G, <1>l
        DEF NextJobOrReply, TypeInv, TypeOK, StoreTypeOK, MakingOK
      <4> QED
        BY <4>1, <4>2
    <3>2. CASE ApiGoTo(r, "undo") /\ UNCHANGED <<making, made>>
      BY <3>2, <1>t, <1>G, <1>l DEF TypeInv, TypeOK, StoreTypeOK, MakingOK
    <3> QED
      BY <1>4, <3>1, <3>2 DEF EnqueuePush
  <2>3. accepted' \subseteq Job
    BY <1>4, <1>t, <1>j DEF EnqueuePush, TypeOK
  <2>4. outages' \in 0 .. MaxOutages
    BY <1>4, <1>O DEF EnqueuePush
  <2> QED
    BY <1>4, <2>1, <2>2, <2>3, <2>4, <1>t
    DEF EnqueuePush, TypeInv, TypeOK, StoreTypeOK, WorkerTypeOK, HeldOK,
        HasAttemptsRemaining, workerVars, historyVars, lifeVars
<1>5. CASE UndoCreate(r)
  <2>1. rows' \in [Job -> Row]
    BY <1>5, <1>t, <1>j, RowsType DEF UndoCreate, StoreTypeOK
  <2>2. api' \in [Request -> ApiLabel]
    BY <1>5, <1>G, <1>l DEF UndoCreate
  <2>3. outages' \in 0 .. MaxOutages
    BY <1>5, <1>O DEF UndoCreate
  <2>4. unchecked' \subseteq Session
    BY <1>5, <1>t, JobsAssumption DEF UndoCreate, WorkerTypeOK
  <2> QED
    BY <1>5, <2>1, <2>2, <2>3, <2>4, <1>t, <1>Q
    DEF UndoCreate, TypeInv, TypeOK, StoreTypeOK, WorkerTypeOK, HeldOK, MakingOK,
        HasAttemptsRemaining, workerVars, lifeVars
<1>6. CASE HangUp(r)
  BY <1>6, <1>t, <1>Q
  DEF HangUp, TypeInv, TypeOK, StoreTypeOK, WorkerTypeOK, HeldOK, MakingOK,
      HasAttemptsRemaining, storeVars, workerVars, historyVars, lifeVars
<1> QED
  BY <1>1, <1>2, <1>3, <1>4, <1>5, <1>6 DEF ApiStep

\* The recovery at a start keeps every delivery, whether or not it is cut short.
LEMMA RestartRecovers ==
    ASSUME QueueTypeOK, Restart
    PROVE  QueueTypeOK' /\ Outstanding' = Outstanding
<1>1. \A q \in Modality : Len(processing[q]) \in Nat
  BY LenProperties DEF QueueTypeOK
<1>2. PICK moved : /\ \A q \in Modality : moved[q] \in 0 .. Len(processing[q])
                   /\ RecoverStale(moved)
  <2>1. CASE RecoverStale([q \in Modality |-> Len(processing[q])])
    BY <2>1, <1>1
  <2>2. CASE \E v \in 0 .. Len(processing["video"]), a \in 0 .. Len(processing["audio"]) :
                RecoverStale([q \in Modality |-> IF q = "video" THEN v ELSE a])
    BY <2>2 DEF Modality
  <2> QED
    BY <2>1, <2>2 DEF Restart
<1> QED
  BY <1>2, RecoverStaleKeeps

\* Stopping, dying and starting again keep the types.
LEMMA LifeStepType ==
    ASSUME TypeInv, Stop \/ Exit \/ Crash \/ Restart
    PROVE  TypeInv'
<1>t. TypeOK /\ QueueTypeOK /\ StoreTypeOK /\ WorkerTypeOK /\ outages \in 0 .. MaxOutages
  BY DEF TypeInv, TypeOK
<1>Q. UNCHANGED queueVars => QueueTypeOK'
  BY <1>t DEF queueVars, QueueTypeOK
<1>1. CASE Stop
  <2>1. stops' \in 0 .. MaxStops
    BY <1>1, <1>t, LifeAssumption DEF Stop, TypeOK
  <2> QED
    BY <1>1, <2>1, <1>t, <1>Q
    DEF Stop, TypeInv, TypeOK, StoreTypeOK, WorkerTypeOK, HeldOK, MakingOK,
        HasAttemptsRemaining, storeVars, workerVars, historyVars, apiVars
<1>2. CASE Exit
  <2>1. \A w \in Worker : pc'[w] = "gone"
    BY <1>2 DEF Exit
  <2>2. HeldOK'
    BY <2>1 DEF HeldOK
  <2>3. pc' \in [Worker -> PC]
    BY <1>2 DEF Exit, PC
  <2> QED
    BY <1>2, <2>2, <2>3, <1>t, <1>Q
    DEF Exit, TypeInv, TypeOK, StoreTypeOK, WorkerTypeOK, MakingOK,
        storeVars, historyVars, apiVars, lifeVars
<1>3. CASE Crash
  <2>1. \A w \in Worker : pc'[w] = "gone"
    BY <1>3 DEF Crash
  <2>2. HeldOK'
    BY <2>1 DEF HeldOK
  <2>3. /\ pc' \in [Worker -> PC]
        /\ held' \in [Worker -> Delivery \union {NoDelivery}]
        /\ compute' \in [Worker -> BOOLEAN]
        /\ gateway' \in {"up", "stopping", "down"}
    BY <1>3 DEF Crash, PC
  <2>4. api' \in [Request -> ApiLabel]
    BY <1>3 DEF Crash, ApiLabel
  <2>5. crashes' \in 0 .. MaxCrashes
    BY <1>3, <1>t, LifeAssumption DEF Crash, TypeOK
  <2> QED
    BY <1>3, <2>2, <2>3, <2>4, <2>5, <1>t, <1>Q
    DEF Crash, TypeInv, TypeOK, StoreTypeOK, WorkerTypeOK, MakingOK, storeVars, historyVars
<1>4. CASE Restart
  <2>1. QueueTypeOK'
    BY <1>4, RestartRecovers DEF TypeInv, TypeOK
  <2>2. \A w \in Worker : pc'[w] = "idle"
    BY <1>4 DEF Restart
  <2>3. HeldOK'
    BY <2>2 DEF HeldOK
  <2>4. pc' \in [Worker -> PC] /\ gateway' \in {"up", "stopping", "down"}
    BY <1>4 DEF Restart, PC
  <2>5. outages' \in 0 .. MaxOutages
    BY <1>4, OutageType DEF Restart
  <2> QED
    BY <1>4, <2>1, <2>3, <2>4, <2>5, <1>t
    DEF Restart, TypeInv, TypeOK, StoreTypeOK, WorkerTypeOK, MakingOK,
        storeVars, historyVars, apiVars, lifeVars
<1> QED
  BY <1>1, <1>2, <1>3, <1>4

\* Every step of the pipeline keeps the types.
LEMMA TypeNext == TypeInv /\ [Next]_vars => TypeInv'
<1> SUFFICES ASSUME TypeInv, [Next]_vars
             PROVE  TypeInv'
  OBVIOUS
<1>1. CASE UNCHANGED vars
  BY <1>1 DEF vars, queueVars, storeVars, workerVars, historyVars, apiVars, lifeVars,
     TypeInv, TypeOK, QueueTypeOK, StoreTypeOK, WorkerTypeOK, HeldOK, MakingOK,
     HasAttemptsRemaining
<1>2. CASE \E r \in Request : StartRequest(r) \/ ApiStep(r) \/ HangUp(r)
  BY <1>2, RequestStepType
<1>3. CASE WorkerSteps
  <2>1. PICK w \in Worker : WorkerStep(w)
    BY <1>3 DEF WorkerSteps
  <2>2. UNCHANGED <<apiVars, lifeVars>>
    BY <1>3 DEF WorkerSteps
  <2> QED
    BY <2>1, <2>2, WorkerStepType DEF TypeInv, TypeOK, MakingOK, apiVars, lifeVars
<1>4. CASE Stop \/ Exit \/ Crash \/ Restart
  BY <1>4, LifeStepType
<1> QED
  BY <1>1, <1>2, <1>3, <1>4 DEF Next

\* Every variable keeps its type, every worker inside process holds a delivery, and
\* a worker about to retry one never does so past its attempt budget (TypeInv).
THEOREM TypeInvariant == Spec => []TypeInv
<1>1. Init => TypeInv
  BY TypeInit
<1>2. TypeInv /\ [Next]_vars => TypeInv'
  BY TypeNext
<1> QED
  BY <1>1, <1>2, PTL DEF Spec

\* Every variable of the pipeline keeps its type; in particular no delivery is
\* ever put in a queue with more than MaxAttempts attempts (TypeOK).
THEOREM TypeCorrect == Spec => []TypeOK
<1>1. TypeInv => TypeOK
  BY DEF TypeInv
<1> QED
  BY <1>1, TypeInvariant, PTL

----------------------------------------------------------------------------
(* No accepted job is lost.                                                *)

\* Job j is done with, or a delivery of an attempt after its n-th is outstanding.
Kept(j, n) ==
    \/ j \in handled \union removed
    \/ \E d \in Outstanding : d.job = j /\ d.attempt > n

\* The invariant: what a worker is about to take out of its processing list is
\* done with, or has been superseded by an outstanding later attempt.
NeverLostInv ==
    /\ \A j \in accepted : Kept(j, 0)
    /\ \A w \in Worker : pc[w] = "ack" => HeldJob(w) \in handled
    /\ \A w \in Worker : pc[w] = "ackRetry" => Kept(HeldJob(w), held[w].attempt)

\* A step of worker w leaves the other workers alone.
LEMMA WorkerFrame ==
    ASSUME TypeInv, NEW w \in Worker, WorkerStep(w), NEW v \in Worker, v # w
    PROVE  pc'[v] = pc[v] /\ held'[v] = held[v]
<1>1. pc \in [Worker -> PC] /\ held \in [Worker -> Delivery \union {NoDelivery}]
  BY DEF TypeInv, TypeOK, WorkerTypeOK
<1>2. \A label : GoTo(w, label) => pc'[v] = pc[v] /\ held'[v] = held[v]
  BY <1>1 DEF GoTo
<1>3. Release(w) => pc'[v] = pc[v] /\ held'[v] = held[v]
  BY <1>1 DEF Release
<1>4. CASE Dequeue(w)
  BY <1>1, <1>4 DEF Dequeue
<1>5. CASE CoordinatorRead(w)
  BY <1>1, <1>2, <1>5 DEF CoordinatorRead
<1>6. CASE ~ Dequeue(w) /\ ~ CoordinatorRead(w)
  BY <1>2, <1>3, <1>6
  DEF WorkerStep, Process, LeaveLoop, StrayMove, Begin, Handle, Upsert, Ack, Complete,
      MarkDead, NotifyDeadLetter, Finalize, FailRemove, FailRecord, MarkAttemptFailed,
      RetryCheck, RetryPush, AckRetried
<1> QED
  BY <1>4, <1>5, <1>6

\* A step takes at most one delivery out of the queues: one that a worker acks or
\* that Fail removes.  What has been done with stays so.
LEMMA OutstandingStep ==
    ASSUME TypeInv, [Next]_vars
    PROVE  /\ handled \subseteq handled' /\ removed \subseteq removed'
           /\ \/ Outstanding \subseteq Outstanding'
              \/ \E w \in Worker :
                    /\ Outstanding \ {held[w]} \subseteq Outstanding'
                    /\ \/ pc[w] \in {"ack", "ackRetry"}
                       \/ pc[w] = "remove" /\ HeldJob(w) \in removed'
<1>t. QueueTypeOK
  BY DEF TypeInv, TypeOK
<1>Q. UNCHANGED queueVars => Outstanding' = Outstanding
  BY DEF queueVars, Outstanding
<1>1. CASE UNCHANGED vars
  BY <1>1, <1>Q DEF vars, historyVars
<1>2. ASSUME NEW r \in Request, StartRequest(r) \/ ApiStep(r) \/ HangUp(r)
      PROVE  /\ handled \subseteq handled' /\ removed \subseteq removed'
             /\ Outstanding \subseteq Outstanding'
  <2>1. CASE EnqueuePush(r)
    <3>1. FirstDelivery(Making(r)) \in Delivery /\ making[r] \in Modality
      BY MakingIsJob DEF TypeInv, TypeOK
    <3> QED
      BY <2>1, <3>1, <1>t, <1>Q, RPushAdds DEF EnqueuePush, historyVars
  <2>2. CASE ~ EnqueuePush(r)
    BY <1>2, <2>2, <1>Q
    DEF ApiStep, StartRequest, CreateRow, EnqueueCheck, UndoCreate, HangUp, historyVars
  <2> QED
    BY <2>1, <2>2
<1>3. ASSUME NEW w \in Worker, WorkerStep(w)
      PROVE  /\ handled \subseteq handled' /\ removed \subseteq removed'
             /\ \/ Outstanding \subseteq Outstanding'
                \/ /\ Outstanding \ {held[w]} \subseteq Outstanding'
                   /\ \/ pc[w] \in {"ack", "ackRetry"}
                      \/ pc[w] = "remove" /\ HeldJob(w) \in removed'
  <2>q. Serves[w] \in Modality
    BY WorkerAssumption
  <2>1. CASE Dequeue(w) \/ StrayMove(w)
    BY <2>1, <2>q, <1>t, BLMoveKeeps DEF Dequeue, StrayMove, historyVars
  <2>2. CASE Ack(w) \/ AckRetried(w)
    BY <2>2, <2>q, <1>t, <1>Q, LRemTakesOne DEF Ack, AckRetried, At, historyVars
  <2>3. CASE FailRemove(w)
    BY <2>3, <2>q, <1>t, <1>Q, LRemTakesOne DEF FailRemove, At, queueVars
  <2>4. CASE FailRecord(w)
    <3>1. held[w] \in Delivery
      BY <2>4, HeldIsJob DEF FailRecord, At
    <3> QED
      BY <2>4, <3>1, <2>q, <1>t, <1>Q, RPushFailedKeeps DEF FailRecord, historyVars
  <2>5. CASE RetryPush(w)
    <3>1. WithFailure(held[w]) \in Delivery
      BY <2>5, HeldIsJob, NextAttemptIsDelivery DEF RetryPush, At, TypeInv, HeldOK
    <3> QED
      BY <2>5, <3>1, <2>q, <1>t, <1>Q, RPushAdds DEF RetryPush
  <2>6. CASE LeaveLoop(w) \/ Begin(w) \/ Handle(w) \/ CoordinatorRead(w) \/ Upsert(w)
             \/ Complete(w) \/ MarkDead(w) \/ NotifyDeadLetter(w) \/ Finalize(w)
             \/ MarkAttemptFailed(w) \/ RetryCheck(w)
    BY <2>6, <1>Q
    DEF LeaveLoop, Begin, Handle, CoordinatorRead, Upsert, Complete, MarkDead,
        NotifyDeadLetter, Finalize, MarkAttemptFailed, RetryCheck, historyVars
  <2> QED
    BY <1>3, <2>1, <2>2, <2>3, <2>4, <2>5, <2>6 DEF WorkerStep, Process
<1>4. CASE Stop \/ Exit \/ Crash
  BY <1>4, <1>Q DEF Stop, Exit, Crash, historyVars
<1>5. CASE Restart
  BY <1>5, <1>t, RestartRecovers DEF Restart, historyVars
<1> QED
  BY <1>1, <1>2, <1>3, <1>4, <1>5 DEF Next, WorkerSteps

\* What is kept stays kept.
LEMMA KeptStep ==
    ASSUME TypeInv, NeverLostInv, [Next]_vars, NEW j, NEW n \in Nat, Kept(j, n)
    PROVE  Kept(j, n)'
<1>1. CASE j \in handled \union removed
  BY <1>1, OutstandingStep DEF Kept
<1>2. CASE j \notin handled \union removed
  <2>1. PICK d \in Outstanding : d.job = j /\ d.attempt > n
    BY <1>2 DEF Kept
  <2>2. CASE d \in Outstanding'
    BY <2>1, <2>2 DEF Kept
  <2>3. CASE d \notin Outstanding'
    <3>1. PICK w \in Worker :
            /\ Outstanding \ {held[w]} \subseteq Outstanding'
            /\ \/ pc[w] \in {"ack", "ackRetry"}
               \/ pc[w] = "remove" /\ HeldJob(w) \in removed'
      BY <2>1, <2>3, OutstandingStep
    <3>2. d = held[w] /\ HeldJob(w) = j
      BY <2>1, <2>3, <3>1 DEF HeldJob
    <3>3. CASE pc[w] = "ack"
      BY <3>2, <3>3, <1>2 DEF NeverLostInv
    <3>4. CASE pc[w] = "remove"
      BY <3>1, <3>2, <3>4 DEF Kept
    <3>5. CASE pc[w] = "ackRetry"
      <4>1. PICK e \in Outstanding : e.job = j /\ e.attempt > d.attempt
        BY <3>2, <3>5, <1>2 DEF NeverLostInv, Kept
      <4>2. d \in Delivery /\ e \in Delivery
        BY <2>1, <4>1, OutstandingType DEF TypeInv, TypeOK
      <4>3. e # held[w] /\ e.attempt > n
        BY <2>1, <3>2, <4>1, <4>2, JobsAssumption DEF Delivery
      <4> QED
        BY <3>1, <4>1, <4>3 DEF Kept
    <3> QED
      BY <3>1, <3>3, <3>4, <3>5
  <2> QED
    BY <2>2, <2>3
<1> QED
  BY <1>1, <1>2

\* How a worker comes to be at one of the two labels where it acks, or at the last
\* one of a completed job.
LEMMA ReachesAck ==
    ASSUME TypeInv, [Next]_vars, NEW v \in Worker, pc'[v] \in {"ack", "ackRetry", "complete"}
    PROVE  /\ held'[v] = held[v]
           /\ \/ pc'[v] = pc[v]
              \/ pc'[v] = "ack" /\ HeldJob(v) \in handled'
              \/ pc'[v] = "complete" /\ pc[v] = "ack"
              \/ pc'[v] = "ackRetry" /\ pc[v] = "requeue"
                   /\ RPush(Serves[v], WithFailure(held[v]))
<1>t. pc \in [Worker -> PC] /\ held \in [Worker -> Delivery \union {NoDelivery}]
  BY DEF TypeInv, TypeOK, WorkerTypeOK
<1>1. CASE pc' = pc /\ held' = held
  BY <1>1
<1>2. ASSUME NEW w \in Worker, WorkerStep(w), w # v
      PROVE  pc'[v] = pc[v] /\ held'[v] = held[v]
  BY <1>2, WorkerFrame
<1>3. CASE Upsert(v)
  BY <1>3, <1>t, AfterErrorType DEF Upsert, GoTo, HeldJob
<1>4. CASE RetryPush(v)
  BY <1>4, <1>t DEF RetryPush, GoTo, At
<1>5. CASE WorkerStep(v) /\ ~ Upsert(v) /\ ~ RetryPush(v)
  <2>1. \A label : GoTo(v, label) => pc'[v] = label /\ held' = held
    BY <1>t DEF GoTo
  <2>2. Release(v) => pc'[v] \in {"idle", "gone"}
    BY <1>t DEF Release
  <2>3. ~ Dequeue(v)
    <3>1. CASE pc' = [pc EXCEPT ![v] = "start"]
      BY <3>1, <1>t
    <3>2. CASE UNCHANGED <<pc, held>>
      BY <3>2 DEF Dequeue, At
    <3> QED
      BY <3>1, <3>2 DEF Dequeue
  <2>4. ~ CoordinatorRead(v)
    BY <1>t, <2>1, AfterErrorType DEF CoordinatorRead
  <2>5. ~ Handle(v)
    BY <2>1, AfterErrorType DEF Handle
  <2>6. CASE Ack(v)
    BY <2>1, <2>6 DEF Ack, At
  <2>7. CASE ~ Ack(v)
    BY <1>5, <2>1, <2>2, <2>3, <2>4, <2>5, <2>7
    DEF WorkerStep, Process, LeaveLoop, StrayMove, Begin, Complete, MarkDead,
        NotifyDeadLetter, Finalize, FailRemove, FailRecord, MarkAttemptFailed,
        RetryCheck, AckRetried
  <2> QED
    BY <2>6, <2>7
<1>6. CASE Exit \/ Crash \/ Restart
  BY <1>6 DEF Exit, Crash, Restart
<1>7. CASE UNCHANGED vars \/ Stop
        \/ \E r \in Request : StartRequest(r) \/ ApiStep(r) \/ HangUp(r)
  BY <1>1, <1>7
  DEF vars, Stop, StartRequest, ApiStep, CreateRow, EnqueueCheck, EnqueuePush,
      UndoCreate, HangUp, workerVars
<1> QED
  BY <1>2, <1>3, <1>4, <1>5, <1>6, <1>7 DEF Next, WorkerSteps

\* At the first start nothing has been accepted.
LEMMA NeverLostInit == Init => NeverLostInv
BY DEF Init, NeverLostInv, WorkerInit

\* Every step keeps the invariant: a job enters `accepted` with its RPUSH, a worker
\* reaches "ack" with Handle's nil and "ackRetry" with the RPUSH of the next attempt.
LEMMA NeverLostNext == TypeInv /\ NeverLostInv /\ [Next]_vars => NeverLostInv'
<1> SUFFICES ASSUME TypeInv, NeverLostInv, [Next]_vars
             PROVE  NeverLostInv'
  OBVIOUS
<1>a. ASSUME NEW j \in accepted'
      PROVE  Kept(j, 0)'
  <2>1. CASE j \in accepted
    BY <2>1, KeptStep DEF NeverLostInv
  <2>2. CASE j \notin accepted
    <3>1. PICK r \in Request : /\ RPush(making[r], FirstDelivery(Making(r)))
                               /\ j = Making(r)
      <4>1. PICK r \in Request : EnqueuePush(r)
        BY <1>a, <2>2
        DEF Next, WorkerSteps, ApiStep, StartRequest, CreateRow, EnqueueCheck, UndoCreate,
            HangUp, Stop, Exit, Crash, Restart, vars, apiVars
      <4> QED
        BY <4>1, <1>a, <2>2 DEF EnqueuePush
    <3>2. FirstDelivery(j) \in Outstanding'
      <4>1. FirstDelivery(j) \in Delivery /\ making[r] \in Modality /\ QueueTypeOK
        BY <3>1, MakingIsJob DEF TypeInv, TypeOK
      <4> QED
        BY <3>1, <4>1, RPushAdds
    <3> QED
      BY <3>2 DEF Kept, FirstDelivery
  <2> QED
    BY <2>1, <2>2
<1>b. ASSUME NEW v \in Worker, pc'[v] = "ack"
      PROVE  HeldJob(v)' \in handled'
  <2>1. HeldJob(v)' = HeldJob(v)
    BY <1>b, ReachesAck DEF HeldJob
  <2> QED
    BY <1>b, ReachesAck, <2>1, OutstandingStep DEF NeverLostInv
<1>c. ASSUME NEW v \in Worker, pc'[v] = "ackRetry"
      PROVE  Kept(HeldJob(v), held[v].attempt)'
  <2>1. HeldJob(v)' = HeldJob(v) /\ held'[v] = held[v]
    BY <1>c, ReachesAck DEF HeldJob
  <2>2. CASE pc[v] = "ackRetry"
    <3>1. held[v] \in Delivery /\ held[v].attempt \in Nat
      BY <2>2, HeldIsJob, JobsAssumption DEF Delivery
    <3>2. Kept(HeldJob(v), held[v].attempt)
      BY <2>2 DEF NeverLostInv
    <3> DEFINE j == HeldJob(v)
               n == held[v].attempt
    <3>3. \A i, k : (i = j /\ k = n) => Kept(i, k)'
      BY <3>1, <3>2, KeptStep
    <3> QED
      BY <2>1, <3>3
  <2>3. CASE pc[v] = "requeue" /\ RPush(Serves[v], WithFailure(held[v]))
    <3>1. held[v] \in Delivery /\ HasAttemptsRemaining(held[v])
      BY <2>3, HeldIsJob DEF TypeInv, HeldOK
    <3>2. WithFailure(held[v]) \in Outstanding'
      BY <2>3, <3>1, NextAttemptIsDelivery, RPushAdds, WorkerAssumption DEF TypeInv, TypeOK
    <3>3. WithFailure(held[v]).job = HeldJob(v) /\ WithFailure(held[v]).attempt > held[v].attempt
      BY <3>1, NextAttemptIsDelivery, JobsAssumption DEF HeldJob, Delivery
    <3> QED
      BY <2>1, <3>2, <3>3 DEF Kept
  <2> QED
    BY <1>c, ReachesAck, <2>2, <2>3
<1> QED
  BY <1>a, <1>b, <1>c DEF NeverLostInv

\* A job that was enqueued is never lost between the queues: some Handle of it
\* returned nil, or Fail took it off, or it is waiting or in flight
\* (AcceptedIsNeverLost), across crashes, retries, duplicates and outages.
THEOREM NeverLost == Spec => []AcceptedIsNeverLost
<1>1. NeverLostInv => AcceptedIsNeverLost
  BY DEF NeverLostInv, AcceptedIsNeverLost, Kept, Outstanding, JobsIn
<1>2. Init => NeverLostInv
  BY NeverLostInit
<1>3. TypeInv /\ NeverLostInv /\ [Next]_vars => NeverLostInv'
  BY NeverLostNext
<1> QED
  BY <1>1, <1>2, <1>3, TypeInvariant, PTL DEF Spec

----------------------------------------------------------------------------
(* What a client reads of completed jobs and of the risk.                  *)

\* The invariant: a worker acks, and a row says completed, only after a Handle
\* that returned nil, which left a score; and the risk uses only such scores.
ScoresInv ==
    /\ \A j \in Job : rows[j].status = "completed" => j \in handled
    /\ \A w \in Worker : pc[w] \in {"ack", "complete"} => HeldJob(w) \in handled
    /\ \A j \in handled : scores[SessionOfJob(j)][j.mod] # NoJob
    /\ \A s \in Session, m \in Modality : risk[s][m] # NoJob => scores[s][m] # NoJob

\* A row becomes completed only at the end of a process whose Handle returned nil.
LEMMA CompletedStep ==
    ASSUME TypeInv, [Next]_vars, NEW j \in Job, rows'[j].status = "completed"
    PROVE  \/ rows[j].status = "completed"
           \/ \E w \in Worker : pc[w] = "complete" /\ HeldJob(w) = j
<1>t. rows \in [Job -> Row]
  BY DEF TypeInv, TypeOK, StoreTypeOK
<1>1. /\ \A k \in Job : InsertRow(k) => rows[j].status = "completed"
      /\ \A d \in Delivery : MarkProcessing(d) => rows[j].status = "completed"
      /\ \A d \in Delivery : MarkFailed(d) => rows[j].status = "completed"
      /\ \A k \in Job : MarkDeadLetter(k) => rows[j].status = "completed"
  BY <1>t DEF Row, Delivery, InsertRow, MarkProcessing, MarkFailed, MarkDeadLetter
<1>2. ASSUME NEW r \in Request, StartRequest(r) \/ ApiStep(r) \/ HangUp(r)
      PROVE  rows[j].status = "completed"
  <2>1. Making(r) \in Job
    BY MakingIsJob
  <2> QED
    BY <1>1, <1>2, <2>1
    DEF ApiStep, StartRequest, CreateRow, EnqueueCheck, EnqueuePush, UndoCreate, HangUp,
        storeVars
<1>3. ASSUME NEW w \in Worker, WorkerStep(w), rows[j].status # "completed"
      PROVE  pc[w] = "complete" /\ HeldJob(w) = j
  <2>1. CASE Complete(w)
    <3>1. pc[w] = "complete" /\ HeldJob(w) \in Job
      BY <2>1, HeldIsJob DEF Complete, At
    <3>2. MarkCompleted(HeldJob(w))
      BY <2>1, <1>3 DEF Complete, BestEffort
    <3> QED
      BY <1>3, <1>t, <3>1, <3>2 DEF MarkCompleted, Row
  <2>2. CASE Begin(w) \/ MarkDead(w) \/ MarkAttemptFailed(w)
    <3>1. held[w] \in Delivery /\ HeldJob(w) \in Job
      BY <2>2, HeldIsJob DEF Begin, MarkDead, MarkAttemptFailed, At
    <3> QED
      BY <2>2, <3>1, <1>1, <1>3 DEF Begin, MarkDead, MarkAttemptFailed, BestEffort
  <2>3. CASE UNCHANGED rows
    BY <1>3, <2>3
  <2> QED
    BY <1>3, <2>1, <2>2, <2>3
    DEF WorkerStep, Process, Dequeue, LeaveLoop, StrayMove, Handle, CoordinatorRead,
        Upsert, Ack, NotifyDeadLetter, Finalize, FailRemove, FailRecord, RetryCheck,
        RetryPush, AckRetried, storeVars
<1>4. CASE Stop \/ Exit \/ Crash \/ Restart
  BY <1>4 DEF Stop, Exit, Crash, Restart, storeVars
<1> QED
  BY <1>2, <1>3, <1>4 DEF Next, WorkerSteps, vars, storeVars

\* What a transaction on analysis_results does to a consistent row: scores and risk
\* gain modalities, and the risk has no modality without a score.
LEMMA ResultsStep ==
    ASSUME TypeInv, ScoresInv, NEW s \in Session, NEW m \in Modality,
           \/ \E j \in Job, b \in BOOLEAN : UpsertModality(j, b)
           \/ \E t \in Session : FinalizeRisk(t)
           \/ UNCHANGED <<scores, risk>>
    PROVE  /\ scores[s][m] # NoJob => scores'[s][m] # NoJob
           /\ risk[s][m] # NoJob => risk'[s][m] # NoJob
           /\ risk'[s][m] # NoJob => scores'[s][m] # NoJob
<1>t. scores \in [Session -> Scores] /\ risk \in [Session -> Scores]
  BY DEF TypeInv, TypeOK, StoreTypeOK
<1>i. risk[s][m] # NoJob => scores[s][m] # NoJob
  BY DEF ScoresInv
<1>1. ASSUME NEW j \in Job, NEW b \in BOOLEAN, UpsertModality(j, b)
      PROVE  /\ scores[s][m] # NoJob => scores'[s][m] # NoJob
             /\ risk[s][m] # NoJob => risk'[s][m] # NoJob
             /\ risk'[s][m] # NoJob => scores'[s][m] # NoJob
  <2> DEFINE t == SessionOfJob(j)
             known == [scores[t] EXCEPT ![j.mod] = j]
  <2>1. t \in Session /\ j.mod \in Modality /\ j # NoJob
    BY JobsAssumption DEF Job, SessionOfJob
  <2>2. /\ scores' = [scores EXCEPT ![t] = known]
        /\ risk' = IF b THEN [risk EXCEPT ![t] = known] ELSE risk
    BY <1>1 DEF UpsertModality
  <2>3. known[m] = IF m = j.mod THEN j ELSE scores[t][m]
    BY <1>t, <2>1 DEF Scores
  <2> HIDE DEF t, known
  <2>4. CASE s = t
    <3>1. scores'[s] = known /\ risk'[s] = IF b THEN known ELSE risk[s]
      BY <2>1, <2>2, <2>4, <1>t
    <3> QED
      BY <3>1, <2>1, <2>3, <2>4, <1>i
  <2>5. CASE s # t
    BY <2>2, <2>5, <1>t, <1>i
  <2> QED
    BY <2>4, <2>5
<1>2. ASSUME NEW t \in Session, FinalizeRisk(t)
      PROVE  /\ scores[s][m] # NoJob => scores'[s][m] # NoJob
             /\ risk[s][m] # NoJob => risk'[s][m] # NoJob
             /\ risk'[s][m] # NoJob => scores'[s][m] # NoJob
  BY <1>2, <1>t, <1>i DEF FinalizeRisk
<1>3. CASE UNCHANGED <<scores, risk>>
  BY <1>3, <1>i
<1> QED
  BY <1>1, <1>2, <1>3

\* The steps of the pipeline that touch analysis_results are such transactions.
LEMMA ResultsNext ==
    ASSUME TypeInv, [Next]_vars
    PROVE  \/ \E j \in Job, b \in BOOLEAN : UpsertModality(j, b)
           \/ \E t \in Session : FinalizeRisk(t)
           \/ UNCHANGED <<scores, risk>>
<1>1. ASSUME NEW w \in Worker, WorkerStep(w)
      PROVE  \/ \E j \in Job, b \in BOOLEAN : UpsertModality(j, b)
             \/ \E t \in Session : FinalizeRisk(t)
             \/ UNCHANGED <<scores, risk>>
  <2>1. CASE Upsert(w)
    <3>1. HeldJob(w) \in Job /\ compute[w] \in BOOLEAN
      BY <2>1, HeldIsJob DEF Upsert, At, TypeInv, TypeOK, WorkerTypeOK
    <3> QED
      BY <2>1, <3>1 DEF Upsert
  <2>2. CASE Finalize(w)
    <3>1. HeldSession(w) \in Session
      BY <2>2, HeldIsJob DEF Finalize, At
    <3> QED
      BY <2>2, <3>1 DEF Finalize
  <2> QED
    BY <1>1, <2>1, <2>2
    DEF WorkerStep, Process, Dequeue, LeaveLoop, StrayMove, Begin, Handle,
        CoordinatorRead, Ack, Complete, MarkDead, NotifyDeadLetter, FailRemove,
        FailRecord, MarkAttemptFailed, RetryCheck, RetryPush, AckRetried, storeVars
<1>2. CASE \E r \in Request : StartRequest(r) \/ ApiStep(r) \/ HangUp(r)
  BY <1>2
  DEF ApiStep, StartRequest, CreateRow, EnqueueCheck, EnqueuePush, UndoCreate, HangUp,
      storeVars
<1>3. CASE Stop \/ Exit \/ Crash \/ Restart
  BY <1>3 DEF Stop, Exit, Crash, Restart, storeVars
<1> QED
  BY <1>1, <1>2, <1>3 DEF Next, WorkerSteps, vars, storeVars

\* At the first start no job has been handled and no score is on record.
LEMMA ScoresInit == Init => ScoresInv
BY DEF Init, ScoresInv, StoreInit, WorkerInit, NoScores

\* Every step keeps the invariant: Handle's nil comes after its upsert, MarkCompleted
\* after Handle's nil, and no transaction takes a score away.
LEMMA ScoresNext == TypeInv /\ ScoresInv /\ [Next]_vars => ScoresInv'
<1> SUFFICES ASSUME TypeInv, ScoresInv, [Next]_vars
             PROVE  ScoresInv'
  OBVIOUS
<1>t. /\ pc \in [Worker -> PC]
      /\ held \in [Worker -> Delivery \union {NoDelivery}]
      /\ scores \in [Session -> Scores]
  BY DEF TypeInv, TypeOK, WorkerTypeOK, StoreTypeOK
<1>g. handled \subseteq handled'
  BY OutstandingStep
<1>r. \A s \in Session, m \in Modality :
        /\ scores[s][m] # NoJob => scores'[s][m] # NoJob
        /\ risk'[s][m] # NoJob => scores'[s][m] # NoJob
  BY ResultsNext, ResultsStep
<1>1. ASSUME NEW j \in Job, rows'[j].status = "completed"
      PROVE  j \in handled'
  BY <1>1, <1>g, CompletedStep DEF ScoresInv
<1>2. ASSUME NEW v \in Worker, pc'[v] \in {"ack", "complete"}
      PROVE  HeldJob(v)' \in handled'
  <2>1. CASE pc'[v] = "ack"
    <3>1. \/ pc'[v] = pc[v] /\ held'[v] = held[v]
          \/ HeldJob(v) \in handled' /\ held'[v] = held[v]
      BY <2>1, ReachesAck
    <3> QED
      BY <3>1, <2>1, <1>g DEF ScoresInv, HeldJob
  <2>2. CASE pc'[v] = "complete"
    <3>1. held'[v] = held[v] /\ pc[v] \in {"ack", "complete"}
      BY <2>2, ReachesAck
    <3> QED
      BY <3>1, <1>g DEF ScoresInv, HeldJob
  <2> QED
    BY <1>2, <2>1, <2>2
<1>3. ASSUME NEW j \in handled'
      PROVE  scores'[SessionOfJob(j)][j.mod] # NoJob
  <2>1. CASE j \in handled
    <3>1. SessionOfJob(j) \in Session /\ j.mod \in Modality
      BY <2>1, JobsAssumption DEF TypeInv, TypeOK, WorkerTypeOK, Job, SessionOfJob
    <3> QED
      BY <2>1, <3>1, <1>r DEF ScoresInv
  <2>2. CASE j \notin handled
    <3>1. PICK w \in Worker : Upsert(w)
      BY <2>2, <1>3
      DEF Next, WorkerSteps, WorkerStep, Process, Dequeue, LeaveLoop, StrayMove, Begin,
          Handle, CoordinatorRead, Ack, Complete, MarkDead, NotifyDeadLetter, Finalize,
          FailRemove, FailRecord, MarkAttemptFailed, RetryCheck, RetryPush, AckRetried,
          ApiStep, StartRequest, CreateRow, EnqueueCheck, EnqueuePush, UndoCreate, HangUp,
          Stop, Exit, Crash, Restart, vars, historyVars
    <3>2. j = HeldJob(w) /\ UpsertModality(j, compute[w])
      BY <2>2, <3>1, <1>3 DEF Upsert
    <3>3. j \in Job /\ SessionOfJob(j) \in Session /\ j.mod \in Modality /\ j # NoJob
      BY <3>1, <3>2, HeldIsJob, JobsAssumption DEF Upsert, At, Job, SessionOfJob
    <3> DEFINE s == SessionOfJob(j)
    <3>4. scores' = [scores EXCEPT ![s][j.mod] = j] /\ s \in Session
      BY <3>2, <3>3 DEF UpsertModality
    <3> HIDE DEF s
    <3>5. scores'[s][j.mod] = j
      BY <3>3, <3>4, <1>t DEF Scores
    <3> QED
      BY <3>3, <3>5 DEF s
  <2> QED
    BY <2>1, <2>2
<1> QED
  BY <1>1, <1>2, <1>3, <1>r DEF ScoresInv

\* The scores are consistent with the rows and with the risk in every state.
LEMMA ScoresInvariant == Spec => [](TypeInv /\ ScoresInv)
<1>1. Init => ScoresInv
  BY ScoresInit
<1>2. TypeInv /\ ScoresInv /\ [Next]_vars => ScoresInv'
  BY ScoresNext
<1> QED
  BY <1>1, <1>2, TypeInvariant, PTL DEF Spec

\* A job a client reads as completed has its modality's score on record, whatever
\* crashed, was redelivered or failed to be written (CompletedHasScore).
THEOREM CompletedIsScored == Spec => []CompletedHasScore
<1>1. ScoresInv => CompletedHasScore
  BY DEF ScoresInv, CompletedHasScore
<1> QED
  BY <1>1, ScoresInvariant, PTL

\* The combined risk never loses a modality it took into account and never has one
\* without a score, in any interleaving of the pools' transactions (RiskOnlyGains).
THEOREM RiskGrows == Spec => RiskOnlyGains
<1>1. TypeInv /\ ScoresInv /\ [Next]_vars =>
        [\A s \in Session, m \in Modality :
            /\ risk[s][m] # NoJob => risk'[s][m] # NoJob
            /\ risk'[s][m] # NoJob => scores'[s][m] # NoJob]_vars
  BY ResultsNext, ResultsStep
<1> QED
  BY <1>1, ScoresInvariant, PTL DEF Spec, RiskOnlyGains

----------------------------------------------------------------------------
(* What the workers can see, a client can poll.                            *)

HasRow(j) == rows[j].status # "none"

Inside(w) == pc[w] \notin {"idle", "stopped", "gone"}

\* The invariant: a job has its row from the moment its handler goes on to Enqueue,
\* and so in every list and in every worker's hands.
RowInv ==
    /\ \A r \in Request : api[r] \in {"check", "push"} => HasRow(Making(r))
    /\ \A d \in Outstanding : HasRow(d.job)
    /\ \A q \in Modality : \A d \in ToSet(failed[q]) : HasRow(d.job)
    /\ \A w \in Worker : Inside(w) => HasRow(HeldJob(w))

\* No statement on analysis_jobs takes a row away.
LEMMA StatementsKeepRows ==
    ASSUME TypeInv, NEW j \in Job, HasRow(j)
    PROVE  /\ \A k \in Job : InsertRow(k) => HasRow(j)'
           /\ \A d \in Delivery : MarkProcessing(d) => HasRow(j)'
           /\ \A k \in Job : MarkCompleted(k) => HasRow(j)'
           /\ \A d \in Delivery : MarkFailed(d) => HasRow(j)'
           /\ \A k \in Job : MarkDeadLetter(k) => HasRow(j)'
<1>t. rows \in [Job -> Row]
  BY DEF TypeInv, TypeOK, StoreTypeOK
<1>1. \A k \in Job : InsertRow(k) => HasRow(j)'
  BY <1>t DEF Row, HasRow, InsertRow
<1>2. \A d \in Delivery : MarkProcessing(d) \/ MarkFailed(d) => HasRow(j)'
  BY <1>t DEF Row, Delivery, HasRow, MarkProcessing, MarkFailed
<1>3. \A k \in Job : MarkCompleted(k) \/ MarkDeadLetter(k) => HasRow(j)'
  BY <1>t DEF Row, HasRow, MarkCompleted, MarkDeadLetter
<1> QED
  BY <1>1, <1>2, <1>3

\* A row, once there, stays.
LEMMA RowStays ==
    ASSUME TypeInv, [Next]_vars, NEW j \in Job, HasRow(j)
    PROVE  HasRow(j)'
<1>u. UNCHANGED rows => HasRow(j)'
  BY DEF HasRow
<1>1. ASSUME NEW r \in Request, StartRequest(r) \/ ApiStep(r) \/ HangUp(r)
      PROVE  HasRow(j)'
  <2>1. Making(r) \in Job
    BY MakingIsJob
  <2> QED
    BY <1>1, <1>u, <2>1, StatementsKeepRows
    DEF ApiStep, StartRequest, CreateRow, EnqueueCheck, EnqueuePush, UndoCreate, HangUp,
        storeVars
<1>2. ASSUME NEW w \in Worker, WorkerStep(w)
      PROVE  HasRow(j)'
  <2>1. CASE Begin(w) \/ Complete(w) \/ MarkDead(w) \/ MarkAttemptFailed(w)
    <3>1. held[w] \in Delivery /\ HeldJob(w) \in Job
      BY <2>1, HeldIsJob DEF Begin, Complete, MarkDead, MarkAttemptFailed, At
    <3> QED
      BY <2>1, <3>1, <1>u, StatementsKeepRows
      DEF Begin, Complete, MarkDead, MarkAttemptFailed, BestEffort
  <2>2. CASE UNCHANGED rows
    BY <2>2, <1>u
  <2> QED
    BY <1>2, <2>1, <2>2
    DEF WorkerStep, Process, Dequeue, LeaveLoop, StrayMove, Handle, CoordinatorRead,
        Upsert, Ack, NotifyDeadLetter, Finalize, FailRemove, FailRecord, RetryCheck,
        RetryPush, AckRetried, storeVars
<1>3. CASE Stop \/ Exit \/ Crash \/ Restart
  BY <1>3, <1>u DEF Stop, Exit, Crash, Restart, storeVars
<1> QED
  BY <1>1, <1>2, <1>3, <1>u DEF Next, WorkerSteps, vars, storeVars

\* A delivery that a step adds to the queues is the first of the job a handler is
\* pushing, or the next attempt of the one a worker retries.
LEMMA NewDelivery ==
    ASSUME TypeInv, [Next]_vars, NEW d \in Outstanding'
    PROVE  \/ d \in Outstanding
           \/ \E r \in Request : api[r] = "push" /\ d = FirstDelivery(Making(r))
           \/ \E w \in Worker : pc[w] = "requeue" /\ d = WithFailure(held[w])
<1>t. QueueTypeOK
  BY DEF TypeInv, TypeOK
<1>Q. UNCHANGED queueVars => Outstanding' = Outstanding
  BY DEF queueVars, Outstanding
<1>1. ASSUME NEW r \in Request, StartRequest(r) \/ ApiStep(r) \/ HangUp(r)
      PROVE  d \in Outstanding \/ (api[r] = "push" /\ d = FirstDelivery(Making(r)))
  <2>1. CASE EnqueuePush(r)
    <3>1. FirstDelivery(Making(r)) \in Delivery /\ making[r] \in Modality
      BY MakingIsJob DEF TypeInv, TypeOK
    <3> QED
      BY <2>1, <3>1, <1>t, <1>Q, RPushAdds DEF EnqueuePush
  <2>2. CASE ~ EnqueuePush(r)
    BY <1>1, <2>2, <1>Q
    DEF ApiStep, StartRequest, CreateRow, EnqueueCheck, UndoCreate, HangUp
  <2> QED
    BY <2>1, <2>2
<1>2. ASSUME NEW w \in Worker, WorkerStep(w)
      PROVE  d \in Outstanding \/ (pc[w] = "requeue" /\ d = WithFailure(held[w]))
  <2>q. Serves[w] \in Modality
    BY WorkerAssumption
  <2>1. CASE Dequeue(w) \/ StrayMove(w)
    BY <2>1, <2>q, <1>t, BLMoveKeeps DEF Dequeue, StrayMove
  <2>2. CASE Ack(w) \/ AckRetried(w) \/ FailRemove(w)
    BY <2>2, <2>q, <1>t, <1>Q, LRemTakesOne DEF Ack, AckRetried, FailRemove
  <2>3. CASE FailRecord(w)
    <3>1. held[w] \in Delivery
      BY <2>3, HeldIsJob DEF FailRecord, At
    <3> QED
      BY <2>3, <3>1, <2>q, <1>t, <1>Q, RPushFailedKeeps DEF FailRecord
  <2>4. CASE RetryPush(w)
    <3>1. WithFailure(held[w]) \in Delivery
      BY <2>4, HeldIsJob, NextAttemptIsDelivery DEF RetryPush, At, TypeInv, HeldOK
    <3> QED
      BY <2>4, <3>1, <2>q, <1>t, <1>Q, RPushAdds DEF RetryPush, At
  <2>5. CASE UNCHANGED queueVars
    BY <2>5, <1>Q
  <2> QED
    BY <1>2, <2>1, <2>2, <2>3, <2>4, <2>5
    DEF WorkerStep, Process, LeaveLoop, Begin, Handle, CoordinatorRead, Upsert, Complete,
        MarkDead, NotifyDeadLetter, Finalize, MarkAttemptFailed, RetryCheck
<1>3. CASE Stop \/ Exit \/ Crash
  BY <1>3, <1>Q DEF Stop, Exit, Crash
<1>4. CASE Restart
  BY <1>4, <1>t, RestartRecovers
<1> QED
  BY <1>1, <1>2, <1>3, <1>4, <1>Q DEF Next, WorkerSteps, vars

\* Only Fail's second command adds to a dead-letter list.
LEMMA NewDeadLetter ==
    ASSUME TypeInv, [Next]_vars, NEW q \in Modality, NEW d \in ToSet(failed'[q])
    PROVE  \/ d \in ToSet(failed[q])
           \/ \E w \in Worker : pc[w] = "record" /\ d = held[w]
<1>1. CASE UNCHANGED failed
  BY <1>1
<1>2. ASSUME NEW w \in Worker, FailRecord(w), ~ UNCHANGED failed
      PROVE  d \in ToSet(failed[q]) \/ (pc[w] = "record" /\ d = held[w])
  <2>1. pc[w] = "record" /\ held[w] \in Delivery /\ Serves[w] \in Modality
    BY <1>2, HeldIsJob, WorkerAssumption DEF FailRecord, At
  <2>2. failed' = [failed EXCEPT ![Serves[w]] = Append(failed[Serves[w]], held[w])]
    BY <1>2 DEF FailRecord, RPushFailed, queueVars
  <2>3. failed \in [Modality -> Seq(Delivery)]
    BY DEF TypeInv, TypeOK, QueueTypeOK
  <2>4. ToSet(Append(failed[Serves[w]], held[w])) = ToSet(failed[Serves[w]]) \union {held[w]}
    BY <2>1, <2>3, AppendToSet
  <2> QED
    BY <2>1, <2>2, <2>3, <2>4
<1>3. UNCHANGED failed \/ \E w \in Worker : FailRecord(w)
  <2>1. ASSUME NEW w \in Worker, WorkerStep(w), ~ FailRecord(w)
        PROVE  UNCHANGED failed
    BY <2>1
    DEF WorkerStep, Process, Dequeue, LeaveLoop, StrayMove, Begin, Handle, CoordinatorRead,
        Upsert, Ack, Complete, MarkDead, NotifyDeadLetter, Finalize, FailRemove,
        MarkAttemptFailed, RetryCheck, RetryPush, AckRetried, queueVars, BLMove, LRem, RPush
  <2>2. CASE UNCHANGED vars \/ Stop \/ Exit \/ Crash \/ Restart
             \/ \E r \in Request : StartRequest(r) \/ ApiStep(r) \/ HangUp(r)
    BY <2>2
    DEF vars, Stop, Exit, Crash, Restart, RecoverStale, ApiStep, StartRequest, CreateRow,
        EnqueueCheck, EnqueuePush, UndoCreate, HangUp, queueVars, RPush
  <2> QED
    BY <2>1, <2>2 DEF Next, WorkerSteps
<1> QED
  BY <1>1, <1>2, <1>3

\* What a worker holds it held before, or has just taken off its queue.
LEMMA NewlyHeld ==
    ASSUME TypeInv, [Next]_vars, NEW v \in Worker, Inside(v)'
    PROVE  \/ Inside(v) /\ held'[v] = held[v]
           \/ held'[v] \in Outstanding
<1>t. pc \in [Worker -> PC] /\ held \in [Worker -> Delivery \union {NoDelivery}]
  BY DEF TypeInv, TypeOK, WorkerTypeOK
<1>1. ASSUME NEW w \in Worker, WorkerStep(w), w # v
      PROVE  Inside(v) /\ held'[v] = held[v]
  BY <1>1, WorkerFrame DEF Inside
<1>2. CASE Dequeue(v)
  <2>1. CASE held' = [held EXCEPT ![v] = Head(pending[Serves[v]])]
    <3>1. Serves[v] \in Modality /\ pending[Serves[v]] # <<>>
      BY <1>2, WorkerAssumption DEF Dequeue, BLMove
    <3>2. Head(pending[Serves[v]]) \in ToSet(pending[Serves[v]])
      BY <3>1, HeadTailToSet DEF TypeInv, TypeOK, QueueTypeOK
    <3> QED
      BY <2>1, <3>1, <3>2, <1>t DEF Outstanding
  <2>2. CASE UNCHANGED <<pc, held>>
    BY <2>2 DEF Inside
  <2> QED
    BY <1>2, <2>1, <2>2 DEF Dequeue
<1>3. CASE WorkerStep(v) /\ ~ Dequeue(v)
  <2>1. \A label : GoTo(v, label) => pc'[v] = label /\ held' = held
    BY <1>t DEF GoTo
  <2>2. ~ Release(v)
    BY <1>t DEF Release, Inside
  <2>3. CASE CoordinatorRead(v)
    BY <2>1, <2>3 DEF CoordinatorRead, At, Inside
  <2>4. CASE ~ CoordinatorRead(v)
    BY <1>3, <2>1, <2>2, <2>4
    DEF WorkerStep, Process, LeaveLoop, StrayMove, Begin, Handle, Upsert, Ack, Complete,
        MarkDead, NotifyDeadLetter, Finalize, FailRemove, FailRecord, MarkAttemptFailed,
        RetryCheck, RetryPush, AckRetried, At, Inside
  <2> QED
    BY <2>3, <2>4
<1>4. ~ (Exit \/ Crash \/ Restart)
  BY DEF Exit, Crash, Restart, Inside
<1>5. CASE UNCHANGED vars \/ Stop
        \/ \E r \in Request : StartRequest(r) \/ ApiStep(r) \/ HangUp(r)
  BY <1>5
  DEF vars, Stop, StartRequest, ApiStep, CreateRow, EnqueueCheck, EnqueuePush,
      UndoCreate, HangUp, workerVars, Inside
<1> QED
  BY <1>1, <1>2, <1>3, <1>4, <1>5 DEF Next, WorkerSteps

\* A handler that is about to enqueue a job was already, or has just inserted its row.
LEMMA AboutToEnqueue ==
    ASSUME TypeInv, [Next]_vars, NEW r \in Request, api'[r] \in {"check", "push"}
    PROVE  /\ Making(r)' = Making(r)
           /\ api[r] \in {"check", "push"} \/ InsertRow(Making(r))
<1>t. api \in [Request -> ApiLabel] /\ making \in [Request -> Modality]
  BY DEF TypeInv, TypeOK
<1>s. ASSUME api' = api, making' = making
      PROVE  Making(r)' = Making(r) /\ api[r] \in {"check", "push"}
  BY <1>s DEF Making
<1>1. ASSUME NEW p \in Request, StartRequest(p) \/ ApiStep(p), p # r
      PROVE  Making(r)' = Making(r) /\ api[r] \in {"check", "push"}
  <2>1. api'[r] = api[r]
    BY <1>1, <1>t
    DEF StartRequest, ApiStep, CreateRow, EnqueueCheck, EnqueuePush, UndoCreate, ApiGoTo,
        NextJobOrReply
  <2>2. making'[r] = making[r]
    BY <1>1, <1>t
    DEF StartRequest, ApiStep, CreateRow, EnqueueCheck, EnqueuePush, UndoCreate,
        NextJobOrReply
  <2> QED
    BY <2>1, <2>2 DEF Making
<1>2. \A label : ApiGoTo(r, label) => api'[r] = label
  BY <1>t DEF ApiGoTo
<1>3. CASE CreateRow(r)
  BY <1>2, <1>3 DEF CreateRow, Making
<1>4. CASE EnqueueCheck(r)
  BY <1>2, <1>4 DEF EnqueueCheck, Making
<1>5. ~ (StartRequest(r) \/ EnqueuePush(r) \/ UndoCreate(r))
  BY <1>2 DEF StartRequest, EnqueuePush, UndoCreate, NextJobOrReply
<1>6. ~ Crash
  BY DEF Crash
<1>7. CASE \/ UNCHANGED vars \/ WorkerSteps \/ Stop \/ Exit \/ Restart
           \/ \E p \in Request : HangUp(p)
  BY <1>7, <1>s DEF vars, WorkerSteps, Stop, Exit, Restart, HangUp, apiVars
<1> QED
  BY <1>1, <1>3, <1>4, <1>5, <1>6, <1>7 DEF Next, ApiStep

\* At the first start there is nothing that could lack its row.
LEMMA RowInit == Init => RowInv
<1> SUFFICES ASSUME Init PROVE RowInv
  OBVIOUS
<1>1. ToSet(<<>>) = {}
  BY DEF ToSet
<1>2. Outstanding = {} /\ \A q \in Modality : ToSet(failed[q]) = {}
  BY <1>1 DEF Init, QueueInit, Outstanding
<1> QED
  BY <1>2 DEF Init, WorkerInit, RowInv, Inside

\* Every step keeps the invariant: CreateRow comes before the first RPUSH, and a
\* delivery passes on its job's row from list to worker to list.
LEMMA RowNext == TypeInv /\ RowInv /\ [Next]_vars => RowInv'
<1> SUFFICES ASSUME TypeInv, RowInv, [Next]_vars
             PROVE  RowInv'
  OBVIOUS
<1>a. ASSUME NEW r \in Request, api'[r] \in {"check", "push"}
      PROVE  HasRow(Making(r))'
  <2>1. Making(r)' = Making(r) /\ Making(r) \in Job
    BY <1>a, AboutToEnqueue, MakingIsJob
  <2> DEFINE j == Making(r)
  <2>2. CASE api[r] \in {"check", "push"}
    <3>1. HasRow(j)
      BY <2>2 DEF RowInv
    <3>2. \A k \in Job : HasRow(k) => rows'[k].status # "none"
      BY RowStays DEF HasRow
    <3> QED
      BY <2>1, <3>1, <3>2 DEF HasRow
  <2>3. CASE InsertRow(j)
    <3>1. rows'[j].status = "queued"
      BY <2>1, <2>3 DEF InsertRow, TypeInv, TypeOK, StoreTypeOK
    <3> QED
      BY <2>1, <3>1 DEF HasRow
  <2> QED
    BY <1>a, <2>2, <2>3, AboutToEnqueue
<1>k. \A k \in Job : HasRow(k) => rows'[k].status # "none"
  BY RowStays DEF HasRow
<1>h. \A w \in Worker : Inside(w) =>
        held[w] \in Delivery /\ HeldJob(w) \in Job /\ rows'[HeldJob(w)].status # "none"
  BY <1>k, HeldIsJob DEF RowInv, Inside
<1>o. \A d \in Outstanding : rows'[d.job].status # "none"
  <2>1. \A d \in Outstanding : d.job \in Job
    BY OutstandingType DEF TypeInv, TypeOK, Delivery
  <2> QED
    BY <2>1, <1>k DEF RowInv
<1>b. ASSUME NEW d \in Outstanding'
      PROVE  rows'[d.job].status # "none"
  <2>1. CASE d \in Outstanding
    BY <2>1, <1>o
  <2>2. ASSUME NEW r \in Request, api[r] = "push", d = FirstDelivery(Making(r))
        PROVE  rows'[d.job].status # "none"
    <3>1. d.job = Making(r) /\ Making(r) \in Job
      BY <2>2, MakingIsJob DEF FirstDelivery
    <3> QED
      BY <2>2, <3>1, <1>k DEF RowInv
  <2>3. ASSUME NEW w \in Worker, pc[w] = "requeue", d = WithFailure(held[w])
        PROVE  rows'[d.job].status # "none"
    <3>1. d.job = HeldJob(w)
      BY <2>3, HeldIsJob, NextAttemptIsDelivery DEF TypeInv, HeldOK, HeldJob
    <3> QED
      BY <2>3, <3>1, <1>h DEF Inside
  <2> QED
    BY <2>1, <2>2, <2>3, NewDelivery
<1>c. ASSUME NEW q \in Modality, NEW d \in ToSet(failed'[q])
      PROVE  rows'[d.job].status # "none"
  <2>1. CASE d \in ToSet(failed[q])
    <3>1. failed[q] \in Seq(Delivery)
      BY DEF TypeInv, TypeOK, QueueTypeOK
    <3>2. d.job \in Job
      BY <2>1, <3>1, ToSetSubset DEF Delivery
    <3> QED
      BY <2>1, <3>2, <1>k DEF RowInv
  <2>2. ASSUME NEW w \in Worker, pc[w] = "record", d = held[w]
        PROVE  rows'[d.job].status # "none"
    BY <2>2, <1>h DEF Inside, HeldJob
  <2> QED
    BY <2>1, <2>2, NewDeadLetter
<1>d. ASSUME NEW w \in Worker, Inside(w)'
      PROVE  rows'[held'[w].job].status # "none"
  BY <1>d, <1>h, <1>o, NewlyHeld DEF HeldJob
<1> QED
  BY <1>a, <1>b, <1>c, <1>d DEF RowInv, HasRow, HeldJob

\* A client never gets a 404 for a job that a queue, a processing list or a
\* dead-letter list holds (DeliveryHasRow), whatever failed or crashed on the way.
THEOREM DeliveriesHaveRows == Spec => []DeliveryHasRow
<1>1. RowInv => DeliveryHasRow
  BY DEF RowInv, DeliveryHasRow, InSomeList, JobsIn, Outstanding, HasRow
<1> QED
  BY <1>1, RowInit, RowNext, TypeInvariant, PTL DEF Spec

----------------------------------------------------------------------------
(* Whatever a worker is working on is in its processing list.              *)

\* The invariant counts for every delivery, held or not; that its holders are
\* finitely many follows from their arriving one at a time.
InFlightInv ==
    \A q \in Modality, d \in Delivery :
        /\ IsFiniteSet(Holders(q, d))
        /\ Cardinality(Holders(q, d)) <= Copies(processing[q], d)

\* Copies counts positions.
LEMMA CopiesType ==
    ASSUME QueueTypeOK, NEW q \in Modality, NEW d
    PROVE  /\ Copies(processing[q], d) = Cardinality(Positions(processing[q], d))
           /\ Copies(processing[q], d) \in Nat
<1>1. Copies(processing[q], d) = Cardinality(Positions(processing[q], d))
  BY DEF Copies, Positions
<1> QED
  BY <1>1, PositionsFinite DEF QueueTypeOK

\* BLMOVE adds an occurrence of the delivery it hands over.
LEMMA BLMoveCopies ==
    ASSUME QueueTypeOK, NEW p \in Modality, BLMove(p), NEW q \in Modality, NEW d
    PROVE  Copies(processing[q], d)' = Copies(processing[q], d)
             + (IF q = p /\ d = Head(pending[p]) THEN 1 ELSE 0)
<1> DEFINE h == Head(pending[p])
<1>1. h \in Delivery
  BY BLMoveKeeps
<1>2. processing' = [processing EXCEPT ![p] = Append(processing[p], h)]
  BY DEF BLMove
<1> HIDE DEF h
<1>3. /\ Copies(processing[q], d) = Cardinality(Positions(processing[q], d))
      /\ Copies(processing[q], d) \in Nat
  BY CopiesType
<1>4. Copies(processing[q], d)' = Cardinality(Positions(processing'[q], d))
  BY DEF Copies, Positions
<1>5. CASE q = p
  <2>1. processing'[q] = Append(processing[q], h) /\ processing[q] \in Seq(Delivery)
    BY <1>2, <1>5 DEF QueueTypeOK
  <2>2. Cardinality(Positions(Append(processing[q], h), d))
          = Cardinality(Positions(processing[q], d)) + (IF d = h THEN 1 ELSE 0)
    BY <1>1, <2>1, AppendPositions
  <2> QED
    BY <1>3, <1>4, <1>5, <2>1, <2>2 DEF h
<1>6. CASE q # p
  <2>1. processing'[q] = processing[q]
    BY <1>2, <1>6 DEF QueueTypeOK
  <2> QED
    BY <1>3, <1>4, <1>6, <2>1
<1> QED
  BY <1>5, <1>6

\* LREM takes away at most one occurrence of the delivery it names.
LEMMA LRemCopies ==
    ASSUME QueueTypeOK, NEW p \in Modality, NEW e, LRem(p, e), NEW q \in Modality, NEW d
    PROVE  Copies(processing[q], d) <= Copies(processing[q], d)'
             + (IF q = p /\ d = e THEN 1 ELSE 0)
<1>1. processing' = [processing EXCEPT ![p] = RemoveFirst(processing[p], e)]
  BY DEF LRem
<1>2. /\ Copies(processing[q], d) = Cardinality(Positions(processing[q], d))
      /\ Copies(processing[q], d) \in Nat
  BY CopiesType
<1>3. Copies(processing[q], d)' = Cardinality(Positions(processing'[q], d))
  BY DEF Copies, Positions
<1>4. CASE q = p
  <2>1. processing'[q] = RemoveFirst(processing[q], e) /\ processing[q] \in Seq(Delivery)
    BY <1>1, <1>4 DEF QueueTypeOK
  <2>2. Cardinality(Positions(processing[q], d))
          <= Cardinality(Positions(RemoveFirst(processing[q], e), d))
               + (IF d = e THEN 1 ELSE 0)
    BY <2>1, RemoveFirstPositions
  <2> QED
    BY <1>2, <1>3, <1>4, <2>1, <2>2
<1>5. CASE q # p
  <2>1. processing'[q] = processing[q]
    BY <1>1, <1>5 DEF QueueTypeOK
  <2> QED
    BY <1>2, <1>3, <1>5, <2>1
<1> QED
  BY <1>4, <1>5

\* A worker that starts on a delivery has just taken it off its queue; one that takes
\* a delivery off its processing list is done with it; any other step of a worker
\* makes nobody a holder.
LEMMA HoldersStep ==
    ASSUME TypeInv, NEW w \in Worker, WorkerStep(w)
    PROVE  \/ /\ \A q, d : Holders(q, d)' \subseteq Holders(q, d)
              /\ UNCHANGED processing \/ BLMove(Serves[w])
           \/ /\ BLMove(Serves[w])
              /\ \A q, d : Holders(q, d)' \subseteq
                    IF q = Serves[w] /\ d = Head(pending[Serves[w]])
                      THEN Holders(q, d) \union {w} ELSE Holders(q, d)
           \/ /\ Ack(w) \/ FailRemove(w) \/ AckRetried(w)
              /\ LRem(Serves[w], held[w])
              /\ w \in Holders(Serves[w], held[w])
              /\ \A q, d : Holders(q, d)' \subseteq Holders(q, d) \ {w}
<1>t. pc \in [Worker -> PC] /\ held \in [Worker -> Delivery \union {NoDelivery}]
  BY DEF TypeInv, TypeOK, WorkerTypeOK
<1>v. \A v \in Worker : v # w => pc'[v] = pc[v] /\ held'[v] = held[v]
  BY WorkerFrame
<1>k. ASSUME pc'[w] \in Holding => pc[w] \in Holding /\ held'[w] = held[w]
      PROVE  \A q, d : Holders(q, d)' \subseteq Holders(q, d)
  BY <1>v, <1>k DEF Holders
<1>l. ASSUME pc'[w] \notin Holding
      PROVE  \A q, d : Holders(q, d)' \subseteq Holders(q, d) \ {w}
  BY <1>v, <1>l DEF Holders
<1>g. \A label : GoTo(w, label) => pc'[w] = label /\ held'[w] = held[w]
  BY <1>t DEF GoTo
<1>r. Release(w) => pc'[w] \notin Holding
  BY <1>t DEF Release, Holding
<1>1. CASE Dequeue(w)
  <2>1. CASE held' = [held EXCEPT ![w] = Head(pending[Serves[w]])]
    <3>1. held'[w] = Head(pending[Serves[w]])
      BY <2>1, <1>t
    <3>2. \A q, d : Holders(q, d)' \subseteq
             IF q = Serves[w] /\ d = Head(pending[Serves[w]])
               THEN Holders(q, d) \union {w} ELSE Holders(q, d)
      BY <3>1, <1>v DEF Holders
    <3> QED
      BY <1>1, <3>2 DEF Dequeue
  <2>2. CASE UNCHANGED <<pc, held>>
    BY <1>1, <1>k, <2>2 DEF Dequeue
  <2> QED
    BY <1>1, <2>1, <2>2 DEF Dequeue
<1>2. CASE StrayMove(w)
  BY <1>2, <1>g, <1>k DEF StrayMove, Holding
<1>3. CASE Ack(w) \/ FailRemove(w) \/ AckRetried(w)
  <2>1. pc'[w] \notin Holding
    BY <1>3, <1>g, <1>r DEF Ack, FailRemove, AckRetried, Holding
  <2>2. w \in Holders(Serves[w], held[w])
    BY <1>3 DEF Ack, FailRemove, AckRetried, At, Holders, Holding, PC
  <2>3. LRem(Serves[w], held[w]) \/ UNCHANGED processing
    BY <1>3 DEF Ack, FailRemove, AckRetried, queueVars
  <2> QED
    BY <1>3, <2>1, <2>2, <2>3, <1>k, <1>l
<1>4. CASE FailRecord(w) \/ Complete(w)
  <2>1. UNCHANGED processing
    BY <1>4 DEF FailRecord, Complete, queueVars, RPushFailed
  <2>2. pc'[w] \notin Holding
    BY <1>4, <1>r DEF FailRecord, Complete
  <2> QED
    BY <2>1, <2>2, <1>k
<1>5. CASE \/ LeaveLoop(w) \/ Begin(w) \/ Handle(w) \/ CoordinatorRead(w) \/ Upsert(w)
           \/ MarkDead(w) \/ NotifyDeadLetter(w) \/ Finalize(w) \/ MarkAttemptFailed(w)
           \/ RetryCheck(w) \/ RetryPush(w)
  <2>1. UNCHANGED processing
    BY <1>5
    DEF LeaveLoop, Begin, Handle, CoordinatorRead, Upsert, MarkDead, NotifyDeadLetter,
        Finalize, MarkAttemptFailed, RetryCheck, RetryPush, queueVars, RPush
  <2>2. CASE LeaveLoop(w)
    BY <2>1, <2>2, <1>g, <1>k DEF LeaveLoop, Holding
  <2>3. CASE ~ LeaveLoop(w)
    <3>1. pc[w] \in Holding
      BY <1>5, <2>3
      DEF Begin, Handle, CoordinatorRead, Upsert, MarkDead, NotifyDeadLetter, Finalize,
          MarkAttemptFailed, RetryCheck, RetryPush, At, Holding, PC
    <3>2. held'[w] = held[w]
      BY <1>5, <1>g, <2>3
      DEF Begin, Handle, CoordinatorRead, Upsert, MarkDead, NotifyDeadLetter, Finalize,
          MarkAttemptFailed, RetryCheck, RetryPush
    <3> QED
      BY <2>1, <3>1, <3>2, <1>k
  <2> QED
    BY <2>2, <2>3
<1> QED
  BY <1>1, <1>2, <1>3, <1>4, <1>5 DEF WorkerStep, Process

\* At the first start no worker holds anything.
LEMMA InFlightInit == Init => InFlightInv
<1> SUFFICES ASSUME Init, NEW q \in Modality, NEW d \in Delivery
             PROVE  /\ IsFiniteSet(Holders(q, d))
                    /\ Cardinality(Holders(q, d)) <= Copies(processing[q], d)
  BY DEF InFlightInv
<1>1. Holders(q, d) = {}
  BY DEF Init, WorkerInit, Holders, Holding
<1>2. Copies(processing[q], d) \in Nat
  BY TypeInit, CopiesType DEF TypeInv, TypeOK
<1> QED
  BY <1>1, <1>2, FS_EmptySet

\* Every step keeps the invariant: a holder comes with its BLMOVE and goes before, or
\* with, its LREM, and a crash leaves no holder.
LEMMA InFlightNext == TypeInv /\ InFlightInv /\ [Next]_vars => InFlightInv'
<1> SUFFICES ASSUME TypeInv, InFlightInv, [Next]_vars,
                    NEW q \in Modality, NEW d \in Delivery
             PROVE  /\ IsFiniteSet(Holders(q, d)')
                    /\ Cardinality(Holders(q, d)') <= Copies(processing[q], d)'
  BY DEF InFlightInv
<1> DEFINE H == Holders(q, d)
           G == Holders(q, d)'
           m == Copies(processing[q], d)
           n == Copies(processing[q], d)'
<1>t. QueueTypeOK /\ QueueTypeOK'
  BY TypeNext DEF TypeInv, TypeOK
<1>n. m \in Nat /\ n \in Nat
  <2>1. Copies(processing'[q], d) = Cardinality(Positions(processing'[q], d))
    BY DEF Copies, Positions
  <2>2. Cardinality(Positions(processing'[q], d)) \in Nat
    BY <1>t, PositionsFinite DEF QueueTypeOK
  <2> QED
    BY <1>t, <2>1, <2>2, CopiesType
<1>h. IsFiniteSet(H) /\ Cardinality(H) \in Nat /\ Cardinality(H) <= m
  BY FS_CardinalityType DEF InFlightInv
<1>p. UNCHANGED processing => n = m
  OBVIOUS
<1> HIDE DEF H, G, m, n
<1>s. ASSUME NEW K, G \subseteq K, IsFiniteSet(K), Cardinality(K) <= n
      PROVE  IsFiniteSet(G) /\ Cardinality(G) <= n
  <2>1. IsFiniteSet(G) /\ Cardinality(G) <= Cardinality(K)
    BY <1>s, FS_Subset
  <2>2. Cardinality(G) \in Nat /\ Cardinality(K) \in Nat
    BY <1>s, <2>1, FS_CardinalityType
  <2> QED
    BY <2>1, <2>2, <1>s, <1>n
<1>1. ASSUME NEW w \in Worker, WorkerStep(w)
      PROVE  IsFiniteSet(G) /\ Cardinality(G) <= n
  <2>q. Serves[w] \in Modality
    BY WorkerAssumption
  <2> DEFINE h == Head(pending[Serves[w]])
  <2>1. CASE G \subseteq H /\ (UNCHANGED processing \/ BLMove(Serves[w]))
    <3>1. m <= n
      <4>1. CASE UNCHANGED processing
        BY <4>1, <1>p, <1>n
      <4>2. CASE BLMove(Serves[w])
        <5>1. n = m + (IF q = Serves[w] /\ d = h THEN 1 ELSE 0)
          BY <4>2, <2>q, <1>t, BLMoveCopies DEF m, n
        <5> QED
          BY <5>1, <1>n
      <4> QED
        BY <2>1, <4>1, <4>2
    <3> QED
      BY <2>1, <3>1, <1>h, <1>n, <1>s
  <2>2. CASE /\ BLMove(Serves[w])
             /\ G \subseteq IF q = Serves[w] /\ d = h THEN H \union {w} ELSE H
    <3>1. n = m + (IF q = Serves[w] /\ d = h THEN 1 ELSE 0)
      BY <2>2, <2>q, <1>t, BLMoveCopies DEF m, n
    <3> HIDE DEF h
    <3>2. CASE q = Serves[w] /\ d = h
      <4>1. IsFiniteSet(H \union {w})
        BY <1>h, FS_AddElement
      <4>2. Cardinality(H \union {w})
              = IF w \in H THEN Cardinality(H) ELSE Cardinality(H) + 1
        BY <1>h, FS_AddElement
      <4>3. Cardinality(H \union {w}) <= n
        BY <4>2, <3>1, <3>2, <1>h, <1>n
      <4> QED
        BY <2>2, <3>2, <4>1, <4>3, <1>s
    <3>3. CASE ~ (q = Serves[w] /\ d = h)
      BY <2>2, <3>1, <3>3, <1>h, <1>n, <1>s
    <3> QED
      BY <3>2, <3>3
  <2>3. CASE /\ LRem(Serves[w], held[w])
             /\ w \in Holders(Serves[w], held[w])
             /\ G \subseteq H \ {w}
    <3>1. m <= n + (IF q = Serves[w] /\ d = held[w] THEN 1 ELSE 0)
      BY <2>3, <2>q, <1>t, LRemCopies DEF m, n
    <3>2. CASE q = Serves[w] /\ d = held[w]
      <4>1. w \in H
        BY <2>3, <3>2 DEF H
      <4>2. IsFiniteSet(H \ {w}) /\ Cardinality(H \ {w}) = Cardinality(H) - 1
        BY <4>1, <1>h, FS_RemoveElement
      <4>3. Cardinality(H \ {w}) <= n
        BY <4>2, <3>1, <3>2, <1>h, <1>n
      <4> QED
        BY <2>3, <4>2, <4>3, <1>s
    <3>3. CASE ~ (q = Serves[w] /\ d = held[w])
      BY <2>3, <3>1, <3>3, <1>h, <1>n, <1>s
    <3> QED
      BY <3>2, <3>3
  <2> QED
    BY <1>1, <2>1, <2>2, <2>3, HoldersStep DEF G, H
<1>2. CASE Exit \/ Crash \/ Restart
  <2>1. G = {}
    BY <1>2 DEF Exit, Crash, Restart, G, Holders, Holding
  <2> QED
    BY <2>1, <1>n, FS_EmptySet DEF G, n
<1>3. CASE UNCHANGED vars \/ Stop
        \/ \E r \in Request : StartRequest(r) \/ ApiStep(r) \/ HangUp(r)
  <2>1. UNCHANGED <<pc, held, processing>>
    BY <1>3
    DEF vars, Stop, StartRequest, ApiStep, CreateRow, EnqueueCheck, EnqueuePush,
        UndoCreate, HangUp, workerVars, queueVars, RPush
  <2>2. G = H /\ n = m
    BY <2>1, <1>p DEF G, H, Holders
  <2> QED
    BY <2>2, <1>h DEF G, n
<1> QED
  BY <1>1, <1>2, <1>3 DEF Next, WorkerSteps, G, n

\* A crash at any point of process leaves every delivery that was in flight in its
\* processing list, once for each worker that was working on it (HeldIsInFlight),
\* however often it was redelivered.
THEOREM InFlightIsKept == Spec => []HeldIsInFlight
<1>1. TypeInv /\ InFlightInv => HeldIsInFlight
  <2> SUFFICES ASSUME TypeInv, InFlightInv, NEW w \in Worker, pc[w] \in Holding
               PROVE  Cardinality(Holders(Serves[w], held[w]))
                        <= Copies(processing[Serves[w]], held[w])
    BY DEF HeldIsInFlight
  <2>1. held[w] \in Delivery /\ Serves[w] \in Modality
    BY HeldIsJob, WorkerAssumption DEF Holding
  <2> QED
    BY <2>1 DEF InFlightInv
<1> QED
  BY <1>1, InFlightInit, InFlightNext, TypeInvariant, PTL DEF Spec
=============================================================================
