----------------------- MODULE AnalysisOutcomeProofs -----------------------
(***************************************************************************)
(* Theorems about what becomes of an accepted job: that its row is left    *)
(* open only where the code leaves it, that the risk of its session is     *)
(* final once nothing is left to do, and that, as long as nothing fails,   *)
(* its row goes through the life cycle of JobLifecycle.                    *)
(***************************************************************************)
EXTENDS AnalysisPipelineProofs

----------------------------------------------------------------------------
(* Who can have changed what.                                              *)

\* How a worker comes to a label at which it answers for a delivery.
LEMMA LabelStep ==
    ASSUME TypeInv, [Next]_vars, NEW v \in Worker, pc'[v] \in Holding, pc'[v] # pc[v]
    PROVE  \/ Dequeue(v) /\ pc'[v] = "start"
           \/ /\ held'[v] = held[v]
              /\ \/ Begin(v) /\ pc[v] = "start" /\ pc'[v] \in {"handle", "dead"}
                 \/ Handle(v) /\ pc[v] = "handle" /\ pc'[v] \in {"check", "failed", "dead"}
                 \/ CoordinatorRead(v) /\ pc[v] = "check" /\ pc'[v] \in {"upsert", "failed", "dead"}
                 \/ Upsert(v) /\ pc[v] = "upsert" /\ pc'[v] \in {"ack", "failed", "dead"}
                 \/ MarkDead(v) /\ pc[v] = "dead" /\ pc'[v] \in {"notify", "remove"}
                 \/ NotifyDeadLetter(v) /\ pc[v] = "notify" /\ pc'[v] \in {"finalize", "remove"}
                 \/ Finalize(v) /\ pc[v] = "finalize" /\ pc'[v] = "remove"
                 \/ MarkAttemptFailed(v) /\ pc[v] = "failed" /\ pc'[v] = "backoff"
                 \/ RetryCheck(v) /\ pc[v] = "backoff" /\ pc'[v] \in {"requeue", "remove"}
                 \/ RetryPush(v) /\ pc[v] = "requeue" /\ pc'[v] \in {"ackRetry", "remove"}
<1>t. pc \in [Worker -> PC] /\ held \in [Worker -> Delivery \union {NoDelivery}]
  BY DEF TypeInv, TypeOK, WorkerTypeOK
<1>g. \A label : GoTo(v, label) => pc'[v] = label /\ held'[v] = held[v]
  BY <1>t DEF GoTo
<1>r. ~ Release(v)
  BY <1>t DEF Release, Holding
<1>e. \A permanent \in BOOLEAN : AfterError(v, permanent) \in {"dead", "failed"}
  BY AfterErrorType
<1>1. ASSUME NEW w \in Worker, WorkerStep(w), w # v
      PROVE  FALSE
  BY <1>1, WorkerFrame
<1>2. ~ (Exit \/ Crash \/ Restart)
  BY DEF Exit, Crash, Restart, Holding
<1>3. ~ (UNCHANGED vars \/ Stop \/ \E r \in Request : StartRequest(r) \/ ApiStep(r) \/ HangUp(r))
  BY DEF vars, Stop, StartRequest, ApiStep, CreateRow, EnqueueCheck, EnqueuePush, UndoCreate,
         HangUp, workerVars
<1>4. WorkerStep(v)
  BY <1>1, <1>2, <1>3 DEF Next, WorkerSteps
<1>5. CASE Dequeue(v)
  BY <1>5, <1>t DEF Dequeue
<1>6. ~ (LeaveLoop(v) \/ StrayMove(v) \/ Ack(v) \/ Complete(v) \/ FailRemove(v)
           \/ FailRecord(v) \/ AckRetried(v))
  BY <1>g, <1>r
  DEF LeaveLoop, StrayMove, Ack, Complete, FailRemove, FailRecord, AckRetried, Holding
<1>7. CASE Begin(v)
  BY <1>7, <1>g DEF Begin, At
<1>8. CASE Handle(v)
  BY <1>8, <1>g, <1>e DEF Handle, At
<1>9. CASE CoordinatorRead(v)
  BY <1>9, <1>g, <1>e, <1>t DEF CoordinatorRead, At
<1>10. CASE Upsert(v)
  BY <1>10, <1>g, <1>e DEF Upsert, At
<1>11. CASE MarkDead(v)
  BY <1>11, <1>g DEF MarkDead, At
<1>12. CASE NotifyDeadLetter(v)
  BY <1>12, <1>g DEF NotifyDeadLetter, At
<1>13. CASE Finalize(v) \/ MarkAttemptFailed(v)
  BY <1>13, <1>g DEF Finalize, MarkAttemptFailed, At
<1>14. CASE RetryCheck(v)
  BY <1>14, <1>g DEF RetryCheck, At
<1>15. CASE RetryPush(v)
  BY <1>15, <1>g DEF RetryPush, At
<1> QED
  BY <1>4, <1>5, <1>6, <1>7, <1>8, <1>9, <1>10, <1>11, <1>12, <1>13, <1>14, <1>15
  DEF WorkerStep, Process

\* The statements that change a row, and the steps that make them.
RowWritten(j) ==
    \/ \E r \in Request : /\ CreateRow(r) /\ Making(r) = j
                          /\ rows'[j] = [status |-> "queued", attempt |-> 1]
    \/ \E r \in Request : /\ UndoCreate(r) /\ Making(r) = j
                          /\ rows'[j] = [rows[j] EXCEPT !.status = "dead_letter"]
    \/ \E w \in Worker :
          /\ HeldJob(w) = j
          /\ \/ /\ Begin(w) /\ j \notin Corrupt
                /\ rows'[j] = [status |-> "processing", attempt |-> held[w].attempt]
             \/ /\ MarkAttemptFailed(w)
                /\ rows'[j] = [status |-> "failed", attempt |-> held[w].attempt]
             \/ Complete(w) /\ rows'[j] = [rows[j] EXCEPT !.status = "completed"]
             \/ MarkDead(w) /\ rows'[j] = [rows[j] EXCEPT !.status = "dead_letter"]

LEMMA RowStep ==
    ASSUME TypeInv, [Next]_vars, NEW j \in Job, rows'[j] # rows[j]
    PROVE  RowWritten(j)
<1>t. rows \in [Job -> Row]
  BY DEF TypeInv, TypeOK, StoreTypeOK
<1>1. ASSUME NEW r \in Request, StartRequest(r) \/ ApiStep(r) \/ HangUp(r)
      PROVE  RowWritten(j)
  <2>1. CASE CreateRow(r)
    <3>1. InsertRow(Making(r))
      BY <2>1 DEF CreateRow
    <3>2. Making(r) = j /\ rows'[j] = [status |-> "queued", attempt |-> 1]
      BY <3>1, <1>t DEF InsertRow
    <3> QED
      BY <2>1, <3>2 DEF RowWritten
  <2>2. CASE UndoCreate(r)
    <3>1. MarkDeadLetter(Making(r))
      BY <2>2 DEF UndoCreate
    <3>2. Making(r) = j /\ rows'[j] = [rows[j] EXCEPT !.status = "dead_letter"]
      BY <3>1, <1>t DEF MarkDeadLetter
    <3> QED
      BY <2>2, <3>2 DEF RowWritten
  <2> QED
    BY <1>1, <2>1, <2>2
    DEF ApiStep, StartRequest, EnqueueCheck, EnqueuePush, HangUp, storeVars
<1>2. ASSUME NEW w \in Worker, WorkerStep(w)
      PROVE  RowWritten(j)
  <2>1. CASE Begin(w)
    <3>1. MarkProcessing(held[w]) /\ HeldJob(w) \notin Corrupt
      BY <2>1 DEF Begin, BestEffort
    <3>2. /\ HeldJob(w) = j
          /\ rows'[j] = [status |-> "processing", attempt |-> held[w].attempt]
      BY <3>1, <1>t DEF MarkProcessing, HeldJob
    <3> QED
      BY <2>1, <3>1, <3>2 DEF RowWritten
  <2>2. CASE MarkAttemptFailed(w)
    <3>1. MarkFailed(held[w])
      BY <2>2 DEF MarkAttemptFailed, BestEffort
    <3>2. /\ HeldJob(w) = j
          /\ rows'[j] = [status |-> "failed", attempt |-> held[w].attempt]
      BY <3>1, <1>t DEF MarkFailed, HeldJob
    <3> QED
      BY <2>2, <3>2 DEF RowWritten
  <2>3. CASE Complete(w)
    <3>1. MarkCompleted(HeldJob(w))
      BY <2>3 DEF Complete, BestEffort
    <3>2. HeldJob(w) = j /\ rows'[j] = [rows[j] EXCEPT !.status = "completed"]
      BY <3>1, <1>t DEF MarkCompleted
    <3> QED
      BY <2>3, <3>2 DEF RowWritten
  <2>4. CASE MarkDead(w)
    <3>1. MarkDeadLetter(HeldJob(w))
      BY <2>4 DEF MarkDead, BestEffort
    <3>2. HeldJob(w) = j /\ rows'[j] = [rows[j] EXCEPT !.status = "dead_letter"]
      BY <3>1, <1>t DEF MarkDeadLetter
    <3> QED
      BY <2>4, <3>2 DEF RowWritten
  <2> QED
    BY <1>2, <2>1, <2>2, <2>3, <2>4
    DEF WorkerStep, Process, Dequeue, LeaveLoop, StrayMove, Handle, CoordinatorRead,
        Upsert, Ack, NotifyDeadLetter, Finalize, FailRemove, FailRecord, RetryCheck,
        RetryPush, AckRetried, storeVars
<1>3. ~ (UNCHANGED vars \/ Stop \/ Exit \/ Crash \/ Restart)
  BY DEF vars, Stop, Exit, Crash, Restart, storeVars
<1> QED
  BY <1>1, <1>2, <1>3 DEF Next, WorkerSteps

\* The status each of them writes.
LEMMA StatusStep ==
    ASSUME TypeInv, [Next]_vars, NEW j \in Job, rows'[j] # rows[j]
    PROVE  \/ \E r \in Request :
                 /\ Making(r) = j
                 /\ \/ CreateRow(r) /\ rows'[j].status = "queued"
                    \/ UndoCreate(r) /\ rows'[j].status = "dead_letter"
           \/ \E w \in Worker :
                 /\ HeldJob(w) = j
                 /\ \/ Begin(w) /\ j \notin Corrupt /\ rows'[j].status = "processing"
                    \/ MarkAttemptFailed(w) /\ rows'[j].status = "failed"
                    \/ Complete(w) /\ rows'[j].status = "completed"
                    \/ MarkDead(w) /\ rows'[j].status = "dead_letter"
<1>1. rows[j] \in Row
  BY DEF TypeInv, TypeOK, StoreTypeOK
<1>2. /\ rows'[j] = [rows[j] EXCEPT !.status = "dead_letter"]
           => rows'[j].status = "dead_letter"
      /\ rows'[j] = [rows[j] EXCEPT !.status = "completed"]
           => rows'[j].status = "completed"
  BY <1>1 DEF Row
<1>3. \A n : /\ rows'[j] = [status |-> "queued", attempt |-> n]
                  => rows'[j].status = "queued"
             /\ rows'[j] = [status |-> "processing", attempt |-> n]
                  => rows'[j].status = "processing"
             /\ rows'[j] = [status |-> "failed", attempt |-> n]
                  => rows'[j].status = "failed"
  OBVIOUS
<1>4. RowWritten(j)
  BY RowStep
<1> QED
  BY <1>2, <1>3, <1>4, Zenon DEF RowWritten

\* Calls that have failed stay counted.
LEMMA OutagesStay ==
    ASSUME TypeInv, [Next]_vars, outages' = 0
    PROVE  Answered
<1>t. outages \in Nat
  BY DEF TypeInv, TypeOK
<1>o. ~ Outage
  BY <1>t DEF Outage
<1>1. ASSUME NEW r \in Request, StartRequest(r) \/ ApiStep(r) \/ HangUp(r)
      PROVE  Answered
  BY <1>1, <1>o
  DEF StartRequest, ApiStep, CreateRow, EnqueueCheck, EnqueuePush, UndoCreate, HangUp,
      CallSucceeds, CallFails, Answered
<1>2. ASSUME NEW w \in Worker, WorkerStep(w)
      PROVE  Answered
  BY <1>2, <1>o
  DEF WorkerStep, Process, Dequeue, LeaveLoop, StrayMove, Begin, Handle, CoordinatorRead,
      Upsert, Ack, Complete, MarkDead, NotifyDeadLetter, Finalize, FailRemove, FailRecord,
      MarkAttemptFailed, RetryCheck, RetryPush, AckRetried, BestEffort, Answered
<1>3. CASE UNCHANGED vars \/ Stop \/ Exit \/ Crash \/ Restart
  BY <1>3, <1>o DEF vars, Stop, Exit, Crash, Restart, Answered
<1> QED
  BY <1>1, <1>2, <1>3 DEF Next, WorkerSteps

----------------------------------------------------------------------------
(* Deliveries with something left to do.                                   *)

HoldersAt(q, d, done) == {w \in Holders(q, d) : pc[w] \in done}

\* Job j has a delivery that is waiting, or one in flight for which no worker at the
\* labels `done` answers: nobody does, or one that stands elsewhere.
Live(q, d, done) ==
    \/ d \in ToSet(pending[q])
    \/ Cardinality(HoldersAt(q, d, done)) < Copies(processing[q], d)

Open(j, done) == \E q \in Modality, d \in Delivery : d.job = j /\ Live(q, d, done)

\* A set that leaves out an element of a larger one is smaller than its bound.
LEMMA Fewer ==
    ASSUME NEW H, IsFiniteSet(H), NEW n \in Nat, Cardinality(H) <= n,
           NEW A \in SUBSET H, NEW w \in H \ A
    PROVE  Cardinality(A) < n
<1>1. Cardinality(H) \in Nat
  BY FS_CardinalityType
<1>2. IsFiniteSet(H \ {w}) /\ Cardinality(H \ {w}) = Cardinality(H) - 1
  BY FS_RemoveElement
<1>3. A \subseteq H \ {w}
  OBVIOUS
<1>4. Cardinality(A) <= Cardinality(H \ {w}) /\ IsFiniteSet(A)
  BY <1>2, <1>3, FS_Subset
<1>5. Cardinality(A) \in Nat /\ Cardinality(H \ {w}) \in Nat
  BY <1>2, <1>4, FS_CardinalityType
<1> QED
  BY <1>1, <1>2, <1>4, <1>5

\* A worker keeps its delivery as long as it answers for it.
LEMMA HeldStays ==
    ASSUME TypeInv, [Next]_vars, NEW w \in Worker, pc[w] \in Holding, pc'[w] \in Holding
    PROVE  held'[w] = held[w]
<1>t. pc \in [Worker -> PC] /\ held \in [Worker -> Delivery \union {NoDelivery}]
  BY DEF TypeInv, TypeOK, WorkerTypeOK
<1>1. CASE pc'[w] # pc[w]
  <2>1. ~ Dequeue(w)
    BY DEF Dequeue, At, Holding
  <2> QED
    BY <1>1, <2>1, LabelStep
<1>2. CASE pc'[w] = pc[w]
  <2>1. ASSUME NEW v \in Worker, WorkerStep(v), v # w
        PROVE  held'[w] = held[w]
    BY <2>1, WorkerFrame
  <2>2. ASSUME WorkerStep(w)
        PROVE  held'[w] = held[w]
    <3>1. ~ (Dequeue(w) \/ Release(w))
      BY <1>t DEF Dequeue, Release, At, Holding
    <3>2. \A label : GoTo(w, label) => held'[w] = held[w]
      BY DEF GoTo
    <3> QED
      BY <2>2, <3>1, <3>2
      DEF WorkerStep, Process, LeaveLoop, StrayMove, Begin, Handle, CoordinatorRead, Upsert,
          Ack, Complete, MarkDead, NotifyDeadLetter, Finalize, FailRemove, FailRecord,
          MarkAttemptFailed, RetryCheck, RetryPush, AckRetried
  <2>3. ~ (Exit \/ Crash \/ Restart)
    BY DEF Exit, Crash, Restart, Holding
  <2>4. CASE UNCHANGED vars \/ Stop \/ \E r \in Request : StartRequest(r) \/ ApiStep(r) \/ HangUp(r)
    BY <2>4 DEF vars, Stop, StartRequest, ApiStep, CreateRow, EnqueueCheck, EnqueuePush,
                UndoCreate, HangUp, workerVars
  <2> QED
    BY <2>1, <2>2, <2>3, <2>4 DEF Next, WorkerSteps
<1> QED
  BY <1>1, <1>2

\* A worker at another label than those done leaves its job with something to do.
HoldersKeepOpen ==
    \A w \in Worker, done \in SUBSET Holding :
        pc[w] \in Holding \ done => Open(HeldJob(w), done)

LEMMA HolderElsewhere == TypeInv /\ InFlightInv => HoldersKeepOpen
<1> SUFFICES ASSUME TypeInv, InFlightInv, NEW w \in Worker, NEW done \in SUBSET Holding,
                    pc[w] \in Holding \ done
             PROVE  Open(HeldJob(w), done)
  BY DEF HoldersKeepOpen
<1>1. Serves[w] \in Modality /\ held[w] \in Delivery
  BY HeldIsJob, WorkerAssumption DEF Holding
<1> DEFINE H == Holders(Serves[w], held[w])
           n == Copies(processing[Serves[w]], held[w])
           A == HoldersAt(Serves[w], held[w], done)
<1>2. /\ IsFiniteSet(H) /\ Cardinality(H) <= n
      /\ n \in Nat
      /\ A \in SUBSET H /\ w \in H \ A
  BY <1>1, CopiesType DEF InFlightInv, HoldersAt, Holders, TypeInv, TypeOK
<1>3. Cardinality(A) < n
  <2> HIDE DEF H, n, A
  <2> QED
    BY <1>2, Fewer
<1> QED
  BY <1>1, <1>3 DEF Open, Live, HeldJob

LEMMA KeepOpenNext == TypeInv /\ InFlightInv /\ [Next]_vars => HoldersKeepOpen'
BY TypeNext, InFlightNext, HolderElsewhere, PTL

\* A delivery in its queue leaves its job with something to do, whoever has done what.
LEMMA PendingIsOpen ==
    ASSUME NEW q \in Modality, NEW d \in Delivery, NEW done, d \in ToSet(pending[q])'
    PROVE  Open(d.job, done)'
BY DEF Open, Live

\* As long as no worker comes to stand at one of the labels done with job j, its
\* deliveries' holders at those labels only become fewer.
LEMMA HoldersAtShrink ==
    ASSUME TypeInv, [Next]_vars, NEW j, NEW done \in SUBSET Holding,
           \A w \in Worker : pc'[w] \in done /\ held'[w].job = j => pc[w] \in done,
           NEW q, NEW d \in Delivery, d.job = j
    PROVE  HoldersAt(q, d, done)' \subseteq HoldersAt(q, d, done)
<1> SUFFICES ASSUME NEW w \in Worker, Serves[w] = q, held'[w] = d, pc'[w] \in done
             PROVE  w \in HoldersAt(q, d, done)
  BY DEF HoldersAt, Holders
<1>1. pc[w] \in done
  OBVIOUS
<1>2. held[w] = d
  BY <1>1, HeldStays
<1> QED
  BY <1>1, <1>2 DEF HoldersAt, Holders

\* Only a BLMOVE takes a delivery out of its queue.
LEMMA PendingStays ==
    ASSUME TypeInv, NEW w \in Worker, WorkerStep(w), ~ BLMove(Serves[w]), NEW q \in Modality
    PROVE  ToSet(pending[q]) \subseteq ToSet(pending'[q])
<1>t. pending \in [Modality -> Seq(Delivery)] /\ Serves[w] \in Modality
  BY WorkerAssumption DEF TypeInv, TypeOK, QueueTypeOK
<1>1. ASSUME RetryPush(w), ~ UNCHANGED queueVars
      PROVE  ToSet(pending[q]) \subseteq ToSet(pending'[q])
  <2> DEFINE d == WithFailure(held[w])
  <2>1. held[w] \in Delivery /\ HasAttemptsRemaining(held[w])
    BY <1>1 DEF RetryPush, At, TypeInv, HeldOK
  <2>2. d \in Delivery
    BY <2>1, NextAttemptIsDelivery
  <2>3. pending' = [pending EXCEPT ![Serves[w]] = Append(@, d)]
    BY <1>1 DEF RetryPush, RPush
  <2> HIDE DEF d
  <2>4. \/ pending'[q] = pending[q]
        \/ pending'[q] = Append(pending[q], d)
    BY <2>3, <1>t
  <2>5. pending[q] \in Seq(Delivery)
    BY <1>t
  <2>6. ToSet(Append(pending[q], d)) = ToSet(pending[q]) \union {d}
    BY <2>2, <2>5, AppendToSet
  <2> QED
    BY <2>4, <2>6
<1>2. CASE ~ RetryPush(w) \/ UNCHANGED queueVars
  <2>1. UNCHANGED pending
    BY <1>2
    DEF WorkerStep, Process, Dequeue, LeaveLoop, StrayMove, Begin, Handle, CoordinatorRead,
        Upsert, Ack, Complete, MarkDead, NotifyDeadLetter, Finalize, FailRemove, FailRecord,
        MarkAttemptFailed, RetryCheck, AckRetried, LRem, RPushFailed, queueVars
  <2> QED
    BY <2>1
<1> QED
  BY <1>1, <1>2

\* Job j keeps something to do: nobody comes to stand at the labels done with it, and
\* whoever takes a delivery of it off its processing list stands there.
LEMMA OpenStep ==
    ASSUME TypeInv, InFlightInv, [Next]_vars, NEW j, NEW done \in SUBSET Holding,
           {"ack", "ackRetry"} \subseteq done,
           \A w \in Worker : pc'[w] \in done /\ held'[w].job = j => pc[w] \in done,
           "remove" \in done \/ \A w \in Worker : FailRemove(w) => HeldJob(w) # j,
           Open(j, done)
    PROVE  Open(j, done)'
<1>1. PICK q \in Modality, d \in Delivery : d.job = j /\ Live(q, d, done)
  BY DEF Open
<1> DEFINE H == Holders(q, d)
           A == HoldersAt(q, d, done)
           B == HoldersAt(q, d, done)'
           m == Copies(processing[q], d)
           n == Copies(processing[q], d)'
           waiting == d \in ToSet(pending[q])
           waitingNext == d \in ToSet(pending'[q])
<1>t. QueueTypeOK /\ QueueTypeOK'
  BY TypeNext DEF TypeInv, TypeOK
<1>l. waiting \/ Cardinality(A) < m
  BY <1>1 DEF Live
<1>g. ASSUME waitingNext \/ Cardinality(B) < n
      PROVE  Open(j, done)'
  BY <1>1, <1>g DEF Open, Live
<1>n. m \in Nat /\ n \in Nat
  <2>1. Copies(processing'[q], d) = Cardinality(Positions(processing'[q], d))
    BY DEF Copies, Positions
  <2>2. Cardinality(Positions(processing'[q], d)) \in Nat
    BY <1>t, PositionsFinite DEF QueueTypeOK
  <2> QED
    BY <1>t, <2>1, <2>2, CopiesType
<1>b. B \subseteq A
  BY <1>1, HoldersAtShrink
<1>p. UNCHANGED processing => n = m
  OBVIOUS
<1>h. IsFiniteSet(H) /\ Cardinality(H) <= m /\ A \subseteq H
  BY DEF InFlightInv, HoldersAt
<1>c. /\ IsFiniteSet(A) /\ IsFiniteSet(B)
      /\ Cardinality(A) \in Nat /\ Cardinality(B) \in Nat
      /\ Cardinality(B) <= Cardinality(A) /\ Cardinality(A) <= m
  <2> HIDE DEF H, A, B, m
  <2>1. IsFiniteSet(A) /\ Cardinality(A) <= Cardinality(H)
    BY <1>h, FS_Subset
  <2>2. IsFiniteSet(B) /\ Cardinality(B) <= Cardinality(A)
    BY <2>1, <1>b, FS_Subset
  <2>3. Cardinality(A) \in Nat /\ Cardinality(B) \in Nat /\ Cardinality(H) \in Nat
    BY <2>1, <2>2, <1>h, FS_CardinalityType
  <2> QED
    BY <2>1, <2>2, <2>3, <1>h, <1>n
<1>2. ASSUME NEW w \in Worker, WorkerStep(w)
      PROVE  waitingNext \/ Cardinality(B) < n
  <2>q. Serves[w] \in Modality
    BY WorkerAssumption
  <2>1. CASE BLMove(Serves[w])
    <3> DEFINE h == Head(pending[Serves[w]])
    <3>1. n = m + (IF q = Serves[w] /\ d = h THEN 1 ELSE 0)
      BY <2>1, <2>q, <1>t, BLMoveCopies
    <3>2. waiting => waitingNext \/ (q = Serves[w] /\ d = h)
      <4>1. CASE q = Serves[w]
        <5>1. pending'[q] = Tail(pending[q]) /\ pending[q] # <<>>
          BY <2>1, <4>1, <1>t DEF BLMove, QueueTypeOK
        <5>2. ToSet(pending[q]) = {Head(pending[q])} \union ToSet(Tail(pending[q]))
          BY <5>1, <1>t, HeadTailToSet DEF QueueTypeOK
        <5> QED
          BY <4>1, <5>1, <5>2
      <4>2. CASE q # Serves[w]
        <5>1. pending'[q] = pending[q]
          BY <2>1, <4>2, <1>t DEF BLMove, QueueTypeOK
        <5> QED
          BY <5>1
      <4> QED
        BY <4>1, <4>2
    <3> HIDE DEF h, A, B, m, n, waiting, waitingNext
    <3> QED
      BY <3>1, <3>2, <1>l, <1>c, <1>n
  <2>2. CASE ~ BLMove(Serves[w]) /\ UNCHANGED processing
    <3>1. waiting => waitingNext
      BY <1>2, <2>2, PendingStays
    <3> HIDE DEF A, B, m, n, waiting, waitingNext
    <3> QED
      BY <2>2, <3>1, <1>l, <1>c, <1>n, <1>p
  <2>3. CASE /\ ~ BLMove(Serves[w])
             /\ Ack(w) \/ FailRemove(w) \/ AckRetried(w)
             /\ LRem(Serves[w], held[w])
             /\ w \in Holders(Serves[w], held[w])
             /\ Holders(q, d)' \subseteq Holders(q, d) \ {w}
    <3>1. m <= n + (IF q = Serves[w] /\ d = held[w] THEN 1 ELSE 0)
      BY <2>3, <2>q, <1>t, LRemCopies
    <3>2. waiting => waitingNext
      BY <1>2, <2>3, PendingStays
    <3>3. CASE q = Serves[w] /\ d = held[w]
      <4>1. pc[w] \in done
        BY <2>3, <3>3, <1>1 DEF Ack, FailRemove, AckRetried, At, HeldJob
      <4>2. w \in A /\ B \subseteq A \ {w}
        BY <2>3, <3>3, <4>1, <1>b DEF HoldersAt
      <4> HIDE DEF A, B, m, n, waiting, waitingNext
      <4>3. IsFiniteSet(A \ {w}) /\ Cardinality(A \ {w}) = Cardinality(A) - 1
        BY <4>2, <1>c, FS_RemoveElement
      <4>4. Cardinality(B) <= Cardinality(A) - 1
        BY <4>2, <4>3, FS_Subset
      <4> QED
        BY <4>4, <3>1, <3>2, <3>3, <1>l, <1>c, <1>n
    <3>4. CASE ~ (q = Serves[w] /\ d = held[w])
      <4> HIDE DEF A, B, m, n, waiting, waitingNext
      <4> QED
        BY <3>1, <3>2, <3>4, <1>l, <1>c, <1>n
    <3> QED
      BY <3>3, <3>4
  <2> QED
    BY <1>2, <2>1, <2>2, <2>3, HoldersStep
<1>3. CASE Restart
  <2>1. d \in Outstanding
    <3>1. CASE waiting
      BY <3>1 DEF Outstanding
    <3>2. CASE Cardinality(A) < m
      <4>1. m = Cardinality(Positions(processing[q], d))
        BY <1>t, CopiesType
      <4>2. m # 0
        <5> HIDE DEF A, m
        <5> QED
          BY <3>2, <1>c, <1>n
      <4>3. Positions(processing[q], d) # {}
        BY <4>1, <4>2, FS_EmptySet
      <4>4. d \in ToSet(processing[q])
        BY <4>3 DEF Positions, ToSet
      <4> QED
        BY <4>4 DEF Outstanding
    <3> QED
      BY <1>l, <3>1, <3>2
  <2>2. d \in Outstanding'
    BY <2>1, <1>3, <1>t, RestartRecovers
  <2>3. PICK p \in Modality : d \in ToSet(pending'[p]) \/ d \in ToSet(processing'[p])
    BY <2>2 DEF Outstanding
  <2> DEFINE C == HoldersAt(p, d, done)'
             k == Copies(processing[p], d)'
  <2>4. C = {}
    BY <1>3 DEF Restart, HoldersAt, Holders, Holding
  <2>5. k = Cardinality(Positions(processing'[p], d))
    BY DEF Copies, Positions
  <2>6. d \in ToSet(processing'[p]) => Positions(processing'[p], d) # {}
    <3>1. processing'[p] \in Seq(Delivery)
      BY <1>t DEF QueueTypeOK
    <3>2. d \in ToSet(processing'[p]) => \E i \in 1 .. Len(processing'[p]) : processing'[p][i] = d
      BY <3>1, InjectivePositions
    <3> QED
      BY <3>2 DEF Positions
  <2>7. k \in Nat /\ (d \in ToSet(processing'[p]) => k # 0)
    <3>1. IsFiniteSet(Positions(processing'[p], d))
      BY <1>t, PositionsFinite DEF QueueTypeOK
    <3> HIDE DEF k
    <3> QED
      BY <3>1, <2>5, <2>6, FS_EmptySet, FS_CardinalityType
  <2>8. d \in ToSet(pending'[p]) \/ Cardinality(C) < k
    <3> HIDE DEF C, k
    <3> QED
      BY <2>3, <2>4, <2>7, FS_EmptySet
  <2> QED
    BY <1>1, <2>8 DEF Open, Live
<1>4. CASE Exit \/ Crash
  <2>1. UNCHANGED <<pending, processing>>
    BY <1>4 DEF Exit, Crash, queueVars
  <2>2. waiting = waitingNext
    BY <2>1
  <2> HIDE DEF A, B, m, n, waiting, waitingNext
  <2> QED
    BY <2>1, <2>2, <1>g, <1>l, <1>c, <1>n, <1>p
<1>5. CASE UNCHANGED vars \/ Stop \/ \E r \in Request : StartRequest(r) \/ ApiStep(r) \/ HangUp(r)
  <2>1. UNCHANGED processing
    BY <1>5
    DEF vars, Stop, StartRequest, ApiStep, CreateRow, EnqueueCheck, EnqueuePush,
        UndoCreate, HangUp, queueVars, RPush
  <2>2. waiting => waitingNext
    <3>1. ASSUME NEW r \in Request, RPush(making[r], FirstDelivery(Making(r)))
          PROVE  waiting => waitingNext
      <4>1. FirstDelivery(Making(r)) \in Delivery
        BY MakingIsJob
      <4> DEFINE e == FirstDelivery(Making(r))
      <4>2. \/ pending'[q] = pending[q]
            \/ pending'[q] = Append(pending[q], e)
        BY <3>1, <1>t DEF RPush, QueueTypeOK
      <4> HIDE DEF e
      <4> QED
        BY <4>1, <4>2, <1>t, AppendToSet DEF QueueTypeOK, e
    <3>2. CASE UNCHANGED pending
      BY <3>2
    <3> QED
      BY <1>5, <3>1, <3>2
      DEF vars, Stop, StartRequest, ApiStep, CreateRow, EnqueueCheck, EnqueuePush,
          UndoCreate, HangUp, queueVars
  <2> HIDE DEF A, B, m, n, waiting, waitingNext
  <2> QED
    BY <2>1, <2>2, <1>g, <1>l, <1>c, <1>n, <1>p
<1> QED
  BY <1>g, <1>2, <1>3, <1>4, <1>5 DEF Next, WorkerSteps

----------------------------------------------------------------------------
(* Rows that are left open.                                                *)

\* The handler may yet create job j.
ToCome(j) ==
    \/ making[j.req] = j.mod /\ api[j.req] \in {"ready", "create"}
    \/ making[j.req] = "video" /\ j.mod = "audio"

\* A job is accepted once, after its row was written, and a payload that does not
\* decode takes its job nowhere but to the dead letters.
SettlingInv ==
    /\ \A j \in accepted : ~ ToCome(j)
    /\ \A j \in Corrupt : rows[j].status \notin {"processing", "failed"}
    /\ \A w \in Worker :
          pc[w] \in Holding /\ HeldJob(w) \in Corrupt => pc[w] \in {"start", "dead", "remove"}

\* The labels a worker reaches only by writing another status over this one, or, from
\* "processing" and "failed", by what StrandedRowsAreKnown names.
BeyondQueued == Holding \ {"start", "dead"}
BeyondProcessing == {"ack", "backoff", "requeue", "ackRetry", "notify", "finalize", "remove"}
BeyondFailed == {"handle", "check", "upsert", "ack", "failed", "dead", "ackRetry"}

\* An open row has a delivery that will bring it on.
OpenInv ==
    outages = 0 =>
        \A j \in Job :
            /\ rows[j].status = "queued" /\ j \in accepted => Open(j, BeyondQueued)
            /\ rows[j].status = "processing" /\ j \notin handled => Open(j, BeyondProcessing)
            /\ rows[j].status = "failed" /\ j \notin removed => Open(j, BeyondFailed)

\* A handler creates each job once.
LEMMA ToComeStep ==
    ASSUME TypeInv, [Next]_vars, NEW j \in Job, ToCome(j)'
    PROVE  ToCome(j) /\ (j \in accepted' => j \in accepted)
<1>t. /\ api \in [Request -> ApiLabel] /\ making \in [Request -> Modality]
      /\ j.req \in Request /\ j.mod \in Modality
  BY DEF TypeInv, TypeOK, Job
<1>1. ASSUME NEW r \in Request, EnqueuePush(r)
      PROVE  ToCome(j) /\ (j \in accepted' => j \in accepted)
  <2>1. ASSUME j.req # r
        PROVE  making'[j.req] = making[j.req] /\ api'[j.req] = api[j.req] /\ j # Making(r)
    BY <1>1, <2>1, <1>t DEF EnqueuePush, NextJobOrReply, ApiGoTo, Making
  <2>2. ASSUME j.req = r
        PROVE  \/ /\ making[r] = "video" /\ making'[r] = "audio" /\ j.mod = "audio"
               \/ /\ making[r] = "video" /\ making'[r] = "video" /\ j.mod = "audio"
    BY <1>1, <2>2, <1>t DEF EnqueuePush, NextJobOrReply, ApiGoTo, ToCome, Modality
  <2>3. j # Making(r)
    BY <2>1, <2>2 DEF Making
  <2>4. accepted' \subseteq accepted \union {Making(r)}
    BY <1>1 DEF EnqueuePush
  <2> QED
    BY <2>1, <2>2, <2>3, <2>4 DEF ToCome
<1>2. ASSUME NEW r \in Request,
             StartRequest(r) \/ CreateRow(r) \/ EnqueueCheck(r) \/ UndoCreate(r) \/ HangUp(r)
      PROVE  ToCome(j) /\ (j \in accepted' => j \in accepted)
  BY <1>2, <1>t
  DEF StartRequest, CreateRow, EnqueueCheck, UndoCreate, HangUp, ApiGoTo, ToCome
<1>3. CASE UNCHANGED vars \/ Stop \/ Exit \/ Restart \/ WorkerSteps
  BY <1>3 DEF vars, Stop, Exit, Restart, WorkerSteps, apiVars, ToCome
<1>4. CASE Crash
  BY <1>4, <1>t DEF Crash, ToCome
<1> QED
  BY <1>1, <1>2, <1>3, <1>4 DEF Next, ApiStep

LEMMA SettlingInit == Init => SettlingInv
BY JobsAssumption DEF Init, StoreInit, WorkerInit, SettlingInv, Holding

LEMMA SettlingNext == TypeInv /\ SettlingInv /\ [Next]_vars => SettlingInv'
<1> SUFFICES ASSUME TypeInv, SettlingInv, [Next]_vars
             PROVE  SettlingInv'
  OBVIOUS
<1>t. accepted' \subseteq Job
  BY TypeNext DEF TypeInv, TypeOK
<1>1. ASSUME NEW j \in accepted'
      PROVE  ~ ToCome(j)'
  BY <1>1, <1>t, ToComeStep DEF SettlingInv
<1>2. ASSUME NEW j \in Corrupt
      PROVE  rows'[j].status \notin {"processing", "failed"}
  <2>1. CASE rows'[j] = rows[j]
    BY <2>1 DEF SettlingInv
  <2>2. CASE rows'[j] # rows[j]
    <3>1. j \in Job /\ rows[j] \in Row
      BY JobsAssumption DEF TypeInv, TypeOK, StoreTypeOK
    <3>2. ~ \E w \in Worker : HeldJob(w) = j /\ MarkAttemptFailed(w)
      BY DEF SettlingInv, MarkAttemptFailed, At, Holding, PC
    <3> QED
      BY <2>2, <3>1, <3>2, StatusStep
  <2> QED
    BY <2>1, <2>2
<1>3. ASSUME NEW w \in Worker, pc'[w] \in Holding, held'[w].job \in Corrupt
      PROVE  pc'[w] \in {"start", "dead", "remove"}
  <2>1. CASE pc'[w] = pc[w]
    BY <1>3, <2>1, HeldStays DEF SettlingInv, HeldJob
  <2>2. CASE pc'[w] # pc[w] /\ held'[w] = held[w]
    <3>1. HeldJob(w) \in Corrupt
      BY <1>3, <2>2 DEF HeldJob
    <3>2. pc[w] \in Holding => pc[w] \in {"start", "dead", "remove"}
      BY <3>1 DEF SettlingInv
    <3>3. pc \in [Worker -> PC]
      BY DEF TypeInv, TypeOK, WorkerTypeOK
    <3>4. Begin(w) => pc'[w] = "dead"
      BY <3>1, <3>3 DEF Begin, GoTo
    <3>5. MarkDead(w) => pc'[w] = "remove"
      BY <3>1, <3>3 DEF MarkDead, GoTo
    <3>6. pc[w] \in {"start", "handle", "check", "upsert", "dead", "notify", "finalize",
                     "failed", "backoff", "requeue"} => pc[w] \in Holding
      BY DEF Holding, PC
    <3> QED
      BY <1>3, <2>2, <3>2, <3>4, <3>5, <3>6, LabelStep
  <2>3. CASE pc'[w] # pc[w] /\ held'[w] # held[w]
    BY <1>3, <2>3, LabelStep
  <2> QED
    BY <2>1, <2>2, <2>3
<1> QED
  BY <1>1, <1>2, <1>3 DEF SettlingInv, HeldJob

LEMMA OpenInit == Init => OpenInv
BY DEF Init, StoreInit, OpenInv

\* Every step leaves an open row with a delivery that will bring it on: who writes the
\* row stands where more is to be done, and who goes on from there writes another one.
LEMMA OpenNext ==
    TypeInv /\ InFlightInv /\ SettlingInv /\ OpenInv /\ [Next]_vars => OpenInv'
<1> SUFFICES ASSUME TypeInv, InFlightInv, SettlingInv, OpenInv, [Next]_vars,
                    outages' = 0, NEW j \in Job
             PROVE  /\ rows'[j].status = "queued" /\ j \in accepted'
                          => Open(j, BeyondQueued)'
                    /\ rows'[j].status = "processing" /\ j \notin handled'
                          => Open(j, BeyondProcessing)'
                    /\ rows'[j].status = "failed" /\ j \notin removed'
                          => Open(j, BeyondFailed)'
  BY DEF OpenInv
<1>t. /\ rows \in [Job -> Row] /\ pc \in [Worker -> PC] /\ outages \in Nat
      /\ pending \in [Modality -> Seq(Delivery)]
  BY DEF TypeInv, TypeOK, StoreTypeOK, WorkerTypeOK, QueueTypeOK
<1>a. Answered /\ ~ Outage /\ outages = 0
  BY <1>t, OutagesStay DEF Answered, Outage
<1>k. HoldersKeepOpen'
  BY KeepOpenNext
<1>s. /\ BeyondQueued \in SUBSET Holding /\ BeyondProcessing \in SUBSET Holding
      /\ BeyondFailed \in SUBSET Holding
  BY DEF BeyondQueued, BeyondProcessing, BeyondFailed, Holding, PC
\* A worker that has just written the row.
<1>w. ASSUME NEW w \in Worker, HeldJob(w) = j, held'[w] = held[w],
             NEW done \in SUBSET Holding, pc'[w] \in Holding \ done
      PROVE  Open(j, done)'
  BY <1>w, <1>k DEF HoldersKeepOpen, HeldJob
<1>h. ASSUME NEW w \in Worker, pc'[w] \in Holding, pc'[w] # pc[w], pc'[w] # "start"
      PROVE  held'[w] = held[w]
  BY <1>h, LabelStep
<1>1. ASSUME rows'[j].status = "queued", j \in accepted'
      PROVE  Open(j, BeyondQueued)'
  <2>1. CASE j \notin accepted
    <3>1. PICK r \in Request : EnqueuePush(r) /\ Making(r) = j /\ accepted' # accepted
      BY <1>1, <2>1
      DEF Next, vars, apiVars, WorkerSteps, Stop, Exit, Crash, Restart, StartRequest, ApiStep,
          HangUp, CreateRow, EnqueueCheck, EnqueuePush, UndoCreate
    <3>2. RPush(making[r], FirstDelivery(j))
      BY <3>1 DEF EnqueuePush
    <3>3. FirstDelivery(j) \in Delivery /\ making[r] \in Modality /\ FirstDelivery(j).job = j
      BY <3>1, MakingIsJob DEF FirstDelivery, TypeInv, TypeOK
    <3>4. FirstDelivery(j) \in ToSet(pending'[making[r]])
      <4>1. pending'[making[r]] = Append(pending[making[r]], FirstDelivery(j))
        BY <3>2, <3>3, <1>t DEF RPush
      <4> QED
        BY <4>1, <3>3, <1>t, AppendToSet
    <3> QED
      BY <3>3, <3>4, PendingIsOpen
  <2>2. CASE j \in accepted
    <3>1. rows'[j] = rows[j]
      <4>1. SUFFICES ASSUME rows'[j] # rows[j] PROVE FALSE
        OBVIOUS
      <4>2. PICK r \in Request : CreateRow(r) /\ Making(r) = j
        BY <4>1, <1>1, StatusStep
      <4> QED
        BY <4>2, <2>2 DEF CreateRow, Making, SettlingInv, ToCome
    <3>2. Open(j, BeyondQueued)
      BY <1>1, <1>a, <2>2, <3>1 DEF OpenInv
    <3>3. ASSUME NEW w \in Worker, pc'[w] \in BeyondQueued, held'[w].job = j,
                 pc[w] \notin BeyondQueued
          PROVE  FALSE
      <4>1. pc'[w] # pc[w] /\ pc'[w] \in Holding /\ pc'[w] \notin {"start", "dead"}
        BY <3>3 DEF BeyondQueued
      <4>2. HeldJob(w) = j
        BY <3>3, <4>1, <1>h DEF HeldJob
      <4>3. \/ Begin(w) /\ pc'[w] = "handle"
            \/ MarkDead(w)
        BY <3>3, <4>1, LabelStep DEF BeyondQueued, Holding, PC
      <4>4. rows'[j].status \in {"processing", "dead_letter"}
        BY <4>2, <4>3, <1>a, <1>t
        DEF Begin, MarkDead, BestEffort, MarkProcessing, MarkDeadLetter, GoTo, HeldJob, Row
      <4> QED
        BY <4>4, <1>1
    <3>4. {"ack", "ackRetry", "remove"} \subseteq BeyondQueued
      BY DEF BeyondQueued, Holding, PC
    <3> QED
      BY <3>2, <3>3, <3>4, <1>s, OpenStep
  <2> QED
    BY <2>1, <2>2
<1>2. ASSUME rows'[j].status = "processing", j \notin handled'
      PROVE  Open(j, BeyondProcessing)'
  <2>1. CASE rows'[j] # rows[j]
    <3>1. PICK w \in Worker : HeldJob(w) = j /\ Begin(w) /\ j \notin Corrupt
      BY <2>1, <1>2, StatusStep
    <3>2. pc'[w] = "handle" /\ held'[w] = held[w]
      BY <3>1, <1>t DEF Begin, GoTo
    <3> QED
      BY <3>1, <3>2, <1>s, <1>w DEF BeyondProcessing, Holding, PC
  <2>2. CASE rows'[j] = rows[j]
    <3>1. j \notin handled
      BY <1>2
      DEF Next, vars, historyVars, WorkerSteps, WorkerStep, Process, Dequeue, LeaveLoop,
          StrayMove, Begin, Handle, CoordinatorRead, Upsert, Ack, Complete, MarkDead,
          NotifyDeadLetter, Finalize, FailRemove, FailRecord, MarkAttemptFailed, RetryCheck,
          RetryPush, AckRetried, Stop, Exit, Crash, Restart, StartRequest, ApiStep, HangUp,
          CreateRow, EnqueueCheck, EnqueuePush, UndoCreate
    <3>2. Open(j, BeyondProcessing)
      BY <1>2, <1>a, <2>2, <3>1 DEF OpenInv
    <3>3. ASSUME NEW w \in Worker, pc'[w] \in BeyondProcessing, held'[w].job = j,
                 pc[w] \notin BeyondProcessing
          PROVE  FALSE
      <4>1. pc'[w] # pc[w] /\ pc'[w] \in Holding /\ pc'[w] # "start"
        BY <3>3, <1>s DEF BeyondProcessing
      <4>2. HeldJob(w) = j
        BY <3>3, <4>1, <1>h DEF HeldJob
      <4>3. \/ Upsert(w) /\ pc'[w] = "ack"
            \/ MarkDead(w)
            \/ MarkAttemptFailed(w)
        BY <3>3, <4>1, LabelStep DEF BeyondProcessing
      <4>4. CASE Upsert(w)
        BY <4>4, <4>2, <1>a, <1>2 DEF Upsert
      <4>5. CASE MarkDead(w) \/ MarkAttemptFailed(w)
        <5>1. rows'[j].status \in {"failed", "dead_letter"}
          BY <4>2, <4>5, <1>a, <1>t
          DEF MarkAttemptFailed, MarkDead, BestEffort, MarkFailed, MarkDeadLetter, HeldJob, Row
        <5> QED
          BY <5>1, <1>2
      <4> QED
        BY <4>3, <4>4, <4>5
    <3>4. {"ack", "ackRetry", "remove"} \subseteq BeyondProcessing
      BY DEF BeyondProcessing
    <3> QED
      BY <3>2, <3>3, <3>4, <1>s, OpenStep
  <2> QED
    BY <2>1, <2>2
<1>3. ASSUME rows'[j].status = "failed", j \notin removed'
      PROVE  Open(j, BeyondFailed)'
  <2>1. CASE rows'[j] # rows[j]
    <3>1. PICK w \in Worker : HeldJob(w) = j /\ MarkAttemptFailed(w)
      BY <2>1, <1>3, StatusStep
    <3>2. pc'[w] = "backoff" /\ held'[w] = held[w]
      BY <3>1, <1>t DEF MarkAttemptFailed, GoTo
    <3> QED
      BY <3>1, <3>2, <1>s, <1>w DEF BeyondFailed, Holding, PC
  <2>2. ASSUME NEW w \in Worker, RetryPush(w), HeldJob(w) = j
        PROVE  Open(j, BeyondFailed)'
    <3> DEFINE d == WithFailure(held[w])
               q == Serves[w]
    <3>1. held[w] \in Delivery /\ HasAttemptsRemaining(held[w]) /\ q \in Modality
      BY <2>2, WorkerAssumption DEF RetryPush, At, TypeInv, HeldOK
    <3>2. d \in Delivery /\ d.job = j
      BY <3>1, <2>2, NextAttemptIsDelivery DEF HeldJob
    <3>3. RPush(q, d)
      BY <2>2, <1>a DEF RetryPush
    <3>4. d \in ToSet(pending'[q])
      <4> HIDE DEF d, q
      <4>1. pending'[q] = Append(pending[q], d)
        BY <3>1, <3>3, <1>t DEF RPush
      <4> QED
        BY <4>1, <3>1, <3>2, <1>t, AppendToSet
    <3> QED
      BY <3>1, <3>2, <3>4, PendingIsOpen
  <2>3. CASE rows'[j] = rows[j] /\ ~ \E w \in Worker : RetryPush(w) /\ HeldJob(w) = j
    <3>1. j \notin removed
      BY <1>3
      DEF Next, vars, historyVars, WorkerSteps, WorkerStep, Process, Dequeue, LeaveLoop,
          StrayMove, Begin, Handle, CoordinatorRead, Upsert, Ack, Complete, MarkDead,
          NotifyDeadLetter, Finalize, FailRemove, FailRecord, MarkAttemptFailed, RetryCheck,
          RetryPush, AckRetried, Stop, Exit, Crash, Restart, StartRequest, ApiStep, HangUp,
          CreateRow, EnqueueCheck, EnqueuePush, UndoCreate
    <3>2. Open(j, BeyondFailed)
      BY <1>3, <1>a, <2>3, <3>1 DEF OpenInv
    <3>3. ASSUME NEW w \in Worker, pc'[w] \in BeyondFailed, held'[w].job = j,
                 pc[w] \notin BeyondFailed
          PROVE  FALSE
      <4>1. pc'[w] # pc[w] /\ pc'[w] \in Holding /\ pc'[w] # "start"
        BY <3>3, <1>s DEF BeyondFailed
      <4>2. HeldJob(w) = j
        BY <3>3, <4>1, <1>h DEF HeldJob
      <4>3. Begin(w)
        BY <3>3, <4>1, <4>2, <2>3, LabelStep DEF BeyondFailed
      <4>4. CASE j \in Corrupt
        BY <4>4, <1>3, <2>3 DEF SettlingInv
      <4>5. CASE j \notin Corrupt
        <5>1. rows'[j].status = "processing"
          BY <4>2, <4>3, <4>5, <1>a, <1>t DEF Begin, BestEffort, MarkProcessing, HeldJob
        <5> QED
          BY <5>1, <1>3
      <4> QED
        BY <4>4, <4>5
    <3>4. ASSUME NEW w \in Worker, FailRemove(w)
          PROVE  HeldJob(w) # j
      BY <3>4, <1>3, <1>a DEF FailRemove
    <3>5. {"ack", "ackRetry"} \subseteq BeyondFailed
      BY DEF BeyondFailed
    <3> QED
      BY <3>2, <3>3, <3>4, <3>5, <1>s, OpenStep
  <2> QED
    BY <2>1, <2>2, <2>3
<1> QED
  BY <1>1, <1>2, <1>3

\* Nothing is left to do for a job that is quiet.
LEMMA QuietIsNotOpen ==
    ASSUME TypeInv, InFlightInv, NEW j, NEW done, Open(j, done)
    PROVE  j \in JobsIn(pending) \union JobsIn(processing)
<1>1. PICK q \in Modality, d \in Delivery : d.job = j /\ Live(q, d, done)
  BY DEF Open
<1>2. CASE d \in ToSet(pending[q])
  BY <1>1, <1>2 DEF JobsIn
<1>3. CASE d \notin ToSet(pending[q])
  <2> DEFINE A == HoldersAt(q, d, done)
             n == Copies(processing[q], d)
  <2>1. n = Cardinality(Positions(processing[q], d)) /\ n \in Nat
    BY CopiesType DEF TypeInv, TypeOK
  <2>2. Cardinality(A) < n
    BY <1>1, <1>3 DEF Live
  <2>3. IsFiniteSet(Holders(q, d)) /\ A \subseteq Holders(q, d)
    BY DEF InFlightInv, HoldersAt
  <2> HIDE DEF A, n
  <2>4. Cardinality(A) \in Nat
    BY <2>3, FS_Subset, FS_CardinalityType
  <2>5. Positions(processing[q], d) # {}
    BY <2>1, <2>2, <2>4, FS_EmptySet
  <2>6. d \in ToSet(processing[q])
    BY <2>5 DEF Positions, ToSet
  <2> QED
    BY <1>1, <2>6 DEF JobsIn
<1> QED
  BY <1>2, <1>3

\* A handler between the row of its job and the end of its Enqueue.
Enqueuing(r) == api[r] \in {"check", "push", "undo"}

\* A row whose job was not enqueued has its handler still at it, unless that was cut off.
CreatedInv ==
    outages = 0 /\ crashes = 0 =>
        \A j \in Job :
            rows[j].status = "queued" /\ j \notin accepted /\ j.req \notin hungUp =>
                Enqueuing(j.req) /\ Making(j.req) = j

LEMMA CreatedInit == Init => CreatedInv
BY DEF Init, StoreInit, CreatedInv

LEMMA CreatedNext == TypeInv /\ CreatedInv /\ [Next]_vars => CreatedInv'
<1> SUFFICES ASSUME TypeInv, CreatedInv, [Next]_vars, outages' = 0, crashes' = 0,
                    NEW j \in Job, rows'[j].status = "queued", j \notin accepted',
                    j.req \notin hungUp'
             PROVE  (Enqueuing(j.req) /\ Making(j.req) = j)'
  BY DEF CreatedInv, Making
<1>t. /\ api \in [Request -> ApiLabel] /\ making \in [Request -> Modality]
      /\ rows \in [Job -> Row] /\ j.req \in Request
      /\ outages \in Nat /\ crashes \in Nat
  BY LifeAssumption DEF TypeInv, TypeOK, StoreTypeOK, Job
<1>a. ~ Outage /\ outages = 0
  BY <1>t, OutagesStay DEF Answered, Outage
<1>c. ~ Crash
  BY <1>t DEF Crash
<1>1. crashes = 0 /\ j \notin accepted /\ j.req \notin hungUp
  BY <1>c
  DEF Next, vars, apiVars, lifeVars, WorkerSteps, StartRequest, ApiStep, HangUp, CreateRow,
      EnqueueCheck, EnqueuePush, UndoCreate, Stop, Exit, Restart
<1>2. CASE rows'[j] # rows[j]
  <2>1. PICK r \in Request : CreateRow(r) /\ Making(r) = j
    BY <1>2, StatusStep
  <2>2. j.req = r
    BY <2>1 DEF Making
  <2>3. api' = [api EXCEPT ![r] = "check"] /\ making' = making
    BY <2>1, <2>2, <1>1, <1>a DEF CreateRow, CallFails, ApiGoTo
  <2> QED
    BY <2>1, <2>2, <2>3, <1>t DEF Enqueuing, Making
<1>3. CASE rows'[j] = rows[j]
  <2>1. Enqueuing(j.req) /\ Making(j.req) = j
    BY <1>1, <1>3, <1>a DEF CreatedInv
  <2>2. ASSUME NEW r \in Request, StartRequest(r) \/ ApiStep(r) \/ HangUp(r), r # j.req
        PROVE  api'[j.req] = api[j.req] /\ making'[j.req] = making[j.req]
    BY <2>2, <1>t
    DEF StartRequest, ApiStep, HangUp, CreateRow, EnqueueCheck, EnqueuePush, UndoCreate,
        NextJobOrReply, ApiGoTo
  <2>3. CASE EnqueueCheck(j.req)
    BY <2>1, <2>3, <1>1, <1>a, <1>t DEF EnqueueCheck, CallFails, ApiGoTo, Enqueuing, Making
  <2>4. CASE EnqueuePush(j.req)
    BY <2>1, <2>4, <1>1, <1>a DEF EnqueuePush, CallFails
  <2>5. CASE UndoCreate(j.req)
    <3>1. MarkDeadLetter(j)
      BY <2>1, <2>5, <1>1, <1>a DEF UndoCreate, CallFails
    <3> QED
      BY <3>1, <1>t DEF MarkDeadLetter, Row
  <2>6. CASE StartRequest(j.req) \/ CreateRow(j.req)
    BY <2>1, <2>6 DEF StartRequest, CreateRow, Enqueuing
  <2>7. CASE UNCHANGED vars \/ Stop \/ Exit \/ Restart \/ WorkerSteps \/ HangUp(j.req)
    <3>1. UNCHANGED <<api, making>>
      BY <2>7 DEF vars, apiVars, WorkerSteps, Stop, Exit, Restart, HangUp
    <3> QED
      BY <2>1, <3>1 DEF Enqueuing, Making
  <2>8. CASE \E r \in Request : r # j.req /\ (StartRequest(r) \/ ApiStep(r) \/ HangUp(r))
    BY <2>1, <2>2, <2>8 DEF Enqueuing, Making
  <2> QED
    BY <1>c, <1>t, <2>3, <2>4, <2>5, <2>6, <2>7, <2>8 DEF Next, ApiStep
<1> QED
  BY <1>2, <1>3

\* As long as the stores answer, the rows a client polls stay open for good only where
\* the code leaves them (StrandedRowsAreKnown): for a handler or a worker that was cut
\* off, by a crash or by a client that hung up, and for a retry the queue had no place
\* for, whatever crashes and restarts there were.
THEOREM OnlyKnownRowsAreStranded == Spec => []StrandedRowsAreKnown
<1>1. TypeInv /\ InFlightInv /\ OpenInv /\ CreatedInv => StrandedRowsAreKnown
  <2> SUFFICES ASSUME TypeInv, InFlightInv, OpenInv, CreatedInv, outages = 0,
                      NEW j \in Job, Quiet(j)
               PROVE  CASE rows[j].status = "queued" ->
                             /\ j \notin accepted
                             /\ crashes > 0 \/ j.req \in hungUp
                        [] rows[j].status = "processing" -> j \in handled
                        [] rows[j].status = "failed" -> j \in removed
                        [] OTHER -> TRUE
    BY DEF StrandedRowsAreKnown
  <2>1. \A done : ~ Open(j, done)
    BY QuietIsNotOpen DEF Quiet
  <2>2. /\ rows[j].status = "queued" => j \notin accepted
        /\ rows[j].status = "processing" => j \in handled
        /\ rows[j].status = "failed" => j \in removed
    BY <2>1 DEF OpenInv
  <2>3. ASSUME rows[j].status = "queued", j.req \notin hungUp
        PROVE  crashes > 0
    <3>1. ~ Enqueuing(j.req)
      BY DEF Quiet, Enqueuing
    <3>2. crashes # 0
      BY <2>2, <2>3, <3>1 DEF CreatedInv
    <3> QED
      BY <3>2, LifeAssumption DEF TypeInv, TypeOK
  <2> QED
    BY <2>2, <2>3
<1> QED
  BY <1>1, TypeInvariant, InFlightInit, InFlightNext, SettlingInit, SettlingNext,
     OpenInit, OpenNext, CreatedInit, CreatedNext, PTL DEF Spec

----------------------------------------------------------------------------
(* The risk of a session.                                                  *)

\* The labels a worker reaches only past the coordinator, or after enqueueing a retry.
Looked == {"upsert", "ack", "finalize", "remove", "ackRetry"}

\* Somebody will ask the coordinator about job k again: the workers of a delivery of it,
\* or, as its row is open and nobody is about to complete it, those who make it terminal.
ToLook(k) ==
    \/ Open(k, Looked)
    \/ /\ HasRow(k)
       /\ ~ IsTerminal(rows[k].status)
       /\ \A w \in Worker : pc[w] \in PastCheck => HeldJob(w) # k

\* A worker was told to compute the risk of session s.
ToCompute(s) ==
    \E w \in Worker :
        /\ pc[w] \in {"upsert", "finalize"}
        /\ pc[w] = "upsert" => compute[w]
        /\ HeldSession(w) = s

RiskInv ==
    \A s \in Session \ unchecked :
        /\ \A w \in Worker :
              pc[w] = "upsert" /\ ~ compute[w] /\ HeldSession(w) = s =>
                  \E k \in Job : /\ SessionOfJob(k) = s
                                 /\ k.mod = Other(HeldJob(w).mod)
                                 /\ ToLook(k)
        /\ \/ risk[s] = scores[s]
           \/ ToCompute(s)
           \/ \E k \in Job : SessionOfJob(k) = s /\ ToLook(k)

\* A worker at a label of process goes on to another one with each of its steps.
LEMMA Moves ==
    ASSUME TypeInv, NEW w \in Worker, WorkerStep(w), pc[w] \in Holding
    PROVE  pc'[w] # pc[w]
<1>t. pc \in [Worker -> PC]
  BY DEF TypeInv, TypeOK, WorkerTypeOK
<1>1. \A label : GoTo(w, label) => pc'[w] = label
  BY <1>t DEF GoTo
<1>2. Release(w) => pc'[w] \in {"idle", "gone"}
  BY <1>t DEF Release
<1>3. \A permanent \in BOOLEAN : AfterError(w, permanent) \in {"dead", "failed"}
  BY AfterErrorType
<1>4. CoordinatorRead(w) => pc'[w] \in {"upsert", "failed", "dead"}
  BY <1>t, <1>1, <1>3 DEF CoordinatorRead
<1> QED
  BY <1>1, <1>2, <1>3, <1>4
  DEF WorkerStep, Process, Dequeue, LeaveLoop, StrayMove, Begin, Handle, CoordinatorRead,
      Upsert, Ack, Complete, MarkDead, NotifyDeadLetter, Finalize, FailRemove, FailRecord,
      MarkAttemptFailed, RetryCheck, RetryPush, AckRetried, At, Holding

\* What the coordinator told a worker stays in its hands while it stays where it is.
LEMMA ComputeStays ==
    ASSUME TypeInv, [Next]_vars, NEW w \in Worker, pc[w] \in Holding, pc'[w] = pc[w]
    PROVE  compute'[w] = compute[w]
<1>t. compute \in [Worker -> BOOLEAN]
  BY DEF TypeInv, TypeOK, WorkerTypeOK
<1>1. ASSUME NEW v \in Worker, WorkerStep(v)
      PROVE  compute'[w] = compute[w]
  <2>1. v # w
    BY <1>1, Moves
  <2>2. \A label : GoTo(v, label) => compute'[w] = compute[w]
    BY DEF GoTo
  <2>3. Release(v) => compute'[w] = compute[w]
    BY <1>t, <2>1 DEF Release
  <2> QED
    BY <1>1, <1>t, <2>1, <2>2, <2>3
    DEF WorkerStep, Process, Dequeue, LeaveLoop, StrayMove, Begin, Handle, CoordinatorRead,
        Upsert, Ack, Complete, MarkDead, NotifyDeadLetter, Finalize, FailRemove, FailRecord,
        MarkAttemptFailed, RetryCheck, RetryPush, AckRetried
<1>2. ~ Crash
  BY DEF Crash, Holding
<1>3. CASE UNCHANGED vars \/ Stop \/ Exit \/ Restart
        \/ \E r \in Request : StartRequest(r) \/ ApiStep(r) \/ HangUp(r)
  BY <1>3 DEF vars, Stop, Exit, Restart, StartRequest, ApiStep, CreateRow, EnqueueCheck,
              EnqueuePush, UndoCreate, HangUp, workerVars
<1> QED
  BY <1>1, <1>2, <1>3 DEF Next, WorkerSteps

\* A worker comes past the coordinator by asking it.
LEMMA PastCheckStep ==
    ASSUME TypeInv, [Next]_vars, NEW w \in Worker, pc'[w] \in PastCheck
    PROVE  held'[w] = held[w] /\ (pc[w] \in PastCheck \/ CoordinatorRead(w))
<1>t. pc \in [Worker -> PC]
  BY DEF TypeInv, TypeOK, WorkerTypeOK
<1>1. ASSUME NEW v \in Worker, WorkerStep(v), v # w
      PROVE  held'[w] = held[w] /\ pc'[w] = pc[w]
  BY <1>1, WorkerFrame
<1>2. ASSUME WorkerStep(w)
      PROVE  held'[w] = held[w] /\ (pc[w] \in PastCheck \/ CoordinatorRead(w))
  <2>1. \A label : GoTo(w, label) => pc'[w] = label /\ held'[w] = held[w]
    BY <1>t DEF GoTo
  <2>2. ~ Release(w)
    BY <1>t DEF Release, PastCheck
  <2>3. \A permanent \in BOOLEAN : AfterError(w, permanent) \in {"dead", "failed"}
    BY AfterErrorType
  <2>4. CASE Dequeue(w)
    BY <1>t, <2>4 DEF Dequeue, At, PastCheck
  <2>5. CASE CoordinatorRead(w)
    BY <2>1, <2>5 DEF CoordinatorRead
  <2>6. CASE Upsert(w) \/ Ack(w)
    BY <2>1, <2>6 DEF Upsert, Ack, At, PastCheck
  <2>7. ~ Handle(w)
    BY <2>1, <2>3 DEF Handle, PastCheck
  <2>8. ~ (LeaveLoop(w) \/ StrayMove(w) \/ Begin(w) \/ MarkDead(w) \/ NotifyDeadLetter(w)
             \/ Finalize(w) \/ MarkAttemptFailed(w) \/ RetryCheck(w) \/ RetryPush(w))
    BY <2>1
    DEF LeaveLoop, StrayMove, Begin, MarkDead, NotifyDeadLetter, Finalize,
        MarkAttemptFailed, RetryCheck, RetryPush, PastCheck
  <2>9. ~ (Complete(w) \/ FailRemove(w) \/ FailRecord(w) \/ AckRetried(w))
    BY <2>1, <2>2 DEF Complete, FailRemove, FailRecord, AckRetried, PastCheck
  <2> QED
    BY <1>2, <2>4, <2>5, <2>6, <2>7, <2>8, <2>9 DEF WorkerStep, Process
<1>3. ~ (Exit \/ Crash \/ Restart)
  BY DEF Exit, Crash, Restart, PastCheck
<1>4. CASE UNCHANGED vars \/ Stop \/ \E r \in Request : StartRequest(r) \/ ApiStep(r) \/ HangUp(r)
  BY <1>4 DEF vars, Stop, StartRequest, ApiStep, CreateRow, EnqueueCheck, EnqueuePush,
              UndoCreate, HangUp, workerVars
<1> QED
  BY <1>1, <1>2, <1>3, <1>4 DEF Next, WorkerSteps

\* Worker w asks the coordinator, and is answered.
Look(w) == \/ CoordinatorRead(w) /\ pc'[w] = "upsert"
           \/ NotifyDeadLetter(w) /\ Answered

\* The coordinator's latest job of a modality is an inserted one.
LEMMA LatestIsInserted ==
    ASSUME TypeInv, NEW s, NEW m, Inserted(s, m) # {}
    PROVE  /\ made[Max(Inserted(s, m))] \in Job
           /\ made[Max(Inserted(s, m))].mod = m
           /\ SessionOfJob(made[Max(Inserted(s, m))]) = s
           /\ HasRow(made[Max(Inserted(s, m))])
<1>1. Len(made) \in Nat /\ \A i \in 1 .. Len(made) : made[i] \in Job
  BY LenProperties, ElementOfSeq DEF TypeInv, TypeOK, StoreTypeOK
<1>2. /\ Inserted(s, m) \in SUBSET (1 .. Len(made))
      /\ Inserted(s, m) \in SUBSET (0 .. Len(made))
  BY <1>1 DEF Inserted
<1>3. Max(Inserted(s, m)) \in Inserted(s, m)
  BY <1>1, <1>2, GreatestElement
<1> QED
  BY <1>1, <1>2, <1>3 DEF Inserted, HasRow

\* What comes of asking: an order to compute the risk, or somebody else who will ask,
\* later, for the other modality.  And nobody of the other modality is past asking.
LEMMA LookStep ==
    ASSUME TypeInv, NEW w \in Worker, Look(w), HeldSession(w) \notin unchecked'
    PROVE  /\ ~ SiblingPastCheck(w)
           /\ \/ pc'[w] = "upsert" /\ compute'[w]
              \/ pc'[w] = "finalize"
              \/ \E k \in Job : /\ SessionOfJob(k) = HeldSession(w)
                                /\ k.mod = Other(HeldJob(w).mod)
                                /\ ToLook(k)'
<1>t. pc \in [Worker -> PC] /\ compute \in [Worker -> BOOLEAN] /\ outages \in Nat
  BY DEF TypeInv, TypeOK, WorkerTypeOK
<1>c. pc[w] \in {"check", "notify"}
  BY DEF Look, CoordinatorRead, NotifyDeadLetter, At
<1>h. HeldJob(w) \in Job /\ HeldJob(w).mod \in Modality
  BY <1>c, HeldIsJob DEF Job
<1>g. \A label : GoTo(w, label) => pc'[w] = label /\ UNCHANGED held
  BY <1>t DEF GoTo
<1>n. /\ NoteRace(w) /\ UNCHANGED <<held, rows, made>>
      /\ \A v \in Worker : v # w => pc'[v] = pc[v]
      /\ ShouldFinalize(HeldJob(w)) => \/ pc'[w] = "upsert" /\ compute'[w]
                                       \/ pc'[w] = "finalize"
  <2>1. CASE CoordinatorRead(w) /\ pc'[w] = "upsert"
    <3>1. ~ GoTo(w, AfterError(w, FALSE))
      BY <2>1, <1>g, AfterErrorType
    <3> QED
      BY <2>1, <3>1, <1>t DEF CoordinatorRead, storeVars
  <2>2. CASE NotifyDeadLetter(w) /\ Answered
    <3>1. ~ Outage
      BY <2>2, <1>t DEF Outage, Answered
    <3> QED
      BY <2>2, <3>1, <1>t, <1>g DEF NotifyDeadLetter, storeVars, GoTo
  <2> QED
    BY <2>1, <2>2 DEF Look
<1>1. ~ SiblingPastCheck(w)
  BY <1>n DEF NoteRace
<1>2. ASSUME ~ ShouldFinalize(HeldJob(w))
      PROVE  \E k \in Job : /\ SessionOfJob(k) = HeldSession(w)
                            /\ k.mod = Other(HeldJob(w).mod)
                            /\ ToLook(k)'
  <2>1. PICK k \in Job : /\ SessionOfJob(k) = HeldSession(w)
                         /\ k.mod = Other(HeldJob(w).mod)
                         /\ HasRow(k) /\ ~ IsTerminal(rows[k].status)
    <3> DEFINE others == Inserted(HeldSession(w), Other(HeldJob(w).mod))
    <3>1. others # {} /\ ~ IsTerminal(rows[made[Max(others)]].status)
      BY <1>2 DEF ShouldFinalize, HeldSession
    <3> QED
      BY <3>1, LatestIsInserted
  <2>2. ASSUME NEW v \in Worker, pc'[v] \in PastCheck
        PROVE  HeldJob(v)' # k
    <3>1. CASE v = w
      <4>1. HeldJob(w).mod # k.mod
        BY <1>h, <2>1 DEF Other, Modality
      <4> QED
        BY <3>1, <4>1, <1>n DEF HeldJob
    <3>2. CASE v # w
      BY <2>1, <2>2, <3>2, <1>1, <1>n DEF SiblingPastCheck, HeldJob, HeldSession
    <3> QED
      BY <3>1, <3>2
  <2>3. ToLook(k)'
    BY <2>1, <2>2, <1>n DEF ToLook, HasRow
  <2> QED
    BY <2>1, <2>3
<1> QED
  BY <1>1, <1>2, <1>n

\* Until somebody asks about job k, there remains somebody to ask, or its session is
\* counted among those where nobody did.
LEMMA ToLookStep ==
    ASSUME TypeInv, InFlightInv, [Next]_vars, NEW k \in Job, ToLook(k),
           SessionOfJob(k) \notin unchecked',
           \A w \in Worker : HeldJob(w) = k => ~ Look(w)
    PROVE  ToLook(k)'
<1>t. /\ pc \in [Worker -> PC] /\ outages \in Nat
      /\ pending \in [Modality -> Seq(Delivery)]
  BY DEF TypeInv, TypeOK, WorkerTypeOK, QueueTypeOK
<1>s. Looked \in SUBSET Holding
  BY DEF Looked, Holding, PC
<1>u. ASSUME NEW w \in Worker, HeldJob(w) = k
      PROVE  ~ GiveUpUnchecked(w)
  BY <1>u DEF GiveUpUnchecked, HeldSession
<1>1. CASE Open(k, Looked)
  <2>1. ASSUME NEW w \in Worker, RetryPush(w), HeldJob(w) = k
        PROVE  Open(k, Looked)'
    <3> DEFINE d == WithFailure(held[w])
               q == Serves[w]
    <3>1. held[w] \in Delivery /\ HasAttemptsRemaining(held[w]) /\ q \in Modality
      BY <2>1, WorkerAssumption DEF RetryPush, At, TypeInv, HeldOK
    <3>2. d \in Delivery /\ d.job = k
      BY <3>1, <2>1, NextAttemptIsDelivery DEF HeldJob
    <3>3. RPush(q, d)
      BY <2>1, <1>u DEF RetryPush
    <3>4. d \in ToSet(pending'[q])
      <4> HIDE DEF d, q
      <4>1. pending'[q] = Append(pending[q], d)
        BY <3>1, <3>3, <1>t DEF RPush
      <4> QED
        BY <4>1, <3>1, <3>2, <1>t, AppendToSet
    <3> QED
      BY <3>1, <3>2, <3>4, PendingIsOpen
  <2>2. CASE ~ \E w \in Worker : RetryPush(w) /\ HeldJob(w) = k
    <3>1. ASSUME NEW w \in Worker, pc'[w] \in Looked, held'[w].job = k, pc[w] \notin Looked
          PROVE  FALSE
      <4>1. pc'[w] # pc[w] /\ pc'[w] \in Holding /\ pc'[w] # "start"
        BY <3>1, <1>s DEF Looked
      <4>2. HeldJob(w) = k
        BY <3>1, <4>1, LabelStep DEF HeldJob
      <4>3. \/ CoordinatorRead(w) /\ pc'[w] = "upsert"
            \/ NotifyDeadLetter(w)
            \/ MarkDead(w) /\ pc'[w] = "remove"
            \/ RetryCheck(w) /\ pc'[w] = "remove"
        BY <3>1, <4>1, <4>2, <2>2, LabelStep DEF Looked
      <4>4. ~ Look(w) /\ ~ GiveUpUnchecked(w)
        BY <4>2, <1>u
      <4>5. CASE NotifyDeadLetter(w)
        BY <4>4, <4>5 DEF NotifyDeadLetter, Look
      <4>6. CASE MarkDead(w) /\ pc'[w] = "remove"
        BY <4>4, <4>6, <1>t DEF MarkDead, GoTo
      <4>7. CASE RetryCheck(w) /\ pc'[w] = "remove"
        BY <4>4, <4>7, <1>t DEF RetryCheck, GoTo
      <4> QED
        BY <4>3, <4>4, <4>5, <4>6, <4>7 DEF Look
    <3>2. {"ack", "ackRetry", "remove"} \subseteq Looked
      BY DEF Looked
    <3>3. Open(k, Looked)'
      BY <1>1, <3>1, <3>2, <1>s, OpenStep
    <3> QED
      BY <3>3 DEF ToLook
  <2> QED
    BY <2>1, <2>2 DEF ToLook
<1>2. CASE /\ HasRow(k)
           /\ ~ IsTerminal(rows[k].status)
           /\ \A w \in Worker : pc[w] \in PastCheck => HeldJob(w) # k
  <2>1. ASSUME NEW w \in Worker, MarkDead(w), HeldJob(w) = k
        PROVE  ToLook(k)'
    <3>1. pc'[w] = "notify" /\ held'[w] = held[w]
      BY <2>1, <1>u, <1>t DEF MarkDead, GoTo
    <3>2. pc'[w] \in Holding \ Looked
      BY <3>1 DEF Holding, PC, Looked
    <3>3. Open(k, Looked)'
      BY <2>1, <3>1, <3>2, <1>s, KeepOpenNext DEF HoldersKeepOpen, HeldJob
    <3> QED
      BY <3>3 DEF ToLook
  <2>2. CASE ~ \E w \in Worker : MarkDead(w) /\ HeldJob(w) = k
    <3>1. HasRow(k)'
      BY <1>2, RowStays
    <3>2. ~ IsTerminal(rows'[k].status)
      <4>1. ASSUME NEW r \in Request, Making(r) = k
            PROVE  ~ UndoCreate(r)
        BY <4>1 DEF UndoCreate, Making, SessionOfJob
      <4>2. ~ \E w \in Worker : HeldJob(w) = k /\ Complete(w)
        BY <1>2 DEF Complete, At, PastCheck
      <4>3. CASE rows'[k] # rows[k]
        BY <4>1, <4>2, <4>3, <2>2, StatusStep DEF IsTerminal
      <4> QED
        BY <4>3, <1>2
    <3>3. ASSUME NEW w \in Worker, pc'[w] \in PastCheck
          PROVE  HeldJob(w)' # k
      <4>1. held'[w] = held[w] /\ (pc[w] \in PastCheck \/ CoordinatorRead(w))
        BY <3>3, PastCheckStep
      <4>2. ASSUME CoordinatorRead(w)
            PROVE  pc'[w] = "upsert"
        <5>1. AfterError(w, FALSE) \in {"dead", "failed"}
          BY AfterErrorType
        <5> QED
          BY <4>2, <5>1, <3>3, <1>t DEF CoordinatorRead, GoTo, PastCheck
      <4> QED
        BY <4>1, <4>2, <1>2 DEF Look, HeldJob
    <3> QED
      BY <3>1, <3>2, <3>3 DEF ToLook
  <2> QED
    BY <2>1, <2>2
<1> QED
  BY <1>1, <1>2 DEF ToLook

\* A crash leaves whatever a worker held with everything still to do.
LEMMA CrashOpens ==
    ASSUME TypeInv, InFlightInv, Crash, NEW w \in Worker, pc[w] \in Holding, NEW done,
           NEW j, HeldJob(w) = j
    PROVE  Open(j, done)'
<1>1. PICK q \in Modality, d \in Delivery : Serves[w] = q /\ held[w] = d
  BY HeldIsJob, WorkerAssumption DEF Holding
<1> DEFINE H == Holders(q, d)
           n == Copies(processing[q], d)
           A == HoldersAt(q, d, done)'
<1>2. IsFiniteSet(H) /\ Cardinality(H) <= n /\ n \in Nat /\ w \in H
  BY <1>1, CopiesType DEF InFlightInv, Holders, TypeInv, TypeOK
<1>3. A = {}
  BY DEF Crash, HoldersAt, Holders, Holding
<1>4. Copies(processing[q], d)' = n
  BY DEF Crash, queueVars
<1>5. Cardinality(A) < n
  <2> HIDE DEF H, n, A
  <2> QED
    BY <1>2, <1>3, Fewer
<1>6. Live(q, d, done)'
  BY <1>4, <1>5 DEF Live
<1> QED
  BY <1>1, <1>6 DEF Open, HeldJob

\* A gateway that is down has no workers.
DownInv == gateway = "down" => \A w \in Worker : pc[w] = "gone"

LEMMA DownInit == Init => DownInv
BY DEF Init, WorkerInit, DownInv

LEMMA DownNext == TypeInv /\ DownInv /\ [Next]_vars => DownInv'
<1> SUFFICES ASSUME TypeInv, DownInv, [Next]_vars, gateway' = "down", NEW w \in Worker
             PROVE  pc'[w] = "gone"
  BY DEF DownInv
<1>1. CASE Exit \/ Crash
  BY <1>1 DEF Exit, Crash
<1>2. ~ (Stop \/ Restart)
  BY DEF Stop, Restart
<1>3. CASE ~ (Exit \/ Crash)
  <2>1. gateway = "down"
    BY <1>2, <1>3
    DEF Next, vars, WorkerSteps, WorkerStep, Process, Dequeue, LeaveLoop,
        StrayMove, Begin, Handle, CoordinatorRead, Upsert, Ack, Complete, MarkDead,
        NotifyDeadLetter, Finalize, FailRemove, FailRecord, MarkAttemptFailed, RetryCheck,
        RetryPush, AckRetried, StartRequest, ApiStep, HangUp,
        CreateRow, EnqueueCheck, EnqueuePush, UndoCreate
  <2>2. \A v \in Worker : pc[v] = "gone"
    BY <2>1 DEF DownInv
  <2>3. ~ \E v \in Worker : WorkerStep(v)
    BY <2>2
    DEF WorkerStep, Process, Dequeue, LeaveLoop,
        StrayMove, Begin, Handle, CoordinatorRead, Upsert, Ack, Complete, MarkDead,
        NotifyDeadLetter, Finalize, FailRemove, FailRecord, MarkAttemptFailed, RetryCheck,
        RetryPush, AckRetried, At
  <2>4. UNCHANGED pc
    BY <1>2, <1>3, <2>3
    DEF Next, vars, WorkerSteps, StartRequest, ApiStep, HangUp, CreateRow, EnqueueCheck,
        EnqueuePush, UndoCreate, workerVars
  <2> QED
    BY <2>2, <2>4
<1> QED
  BY <1>1, <1>3

\* An order to compute the risk is carried out, given back or counted.
LEMMA ToComputeStep ==
    ASSUME TypeInv, InFlightInv, DownInv, [Next]_vars, NEW s \in Session, ToCompute(s),
           s \notin unchecked'
    PROVE  \/ risk'[s] = scores'[s]
           \/ ToCompute(s)'
           \/ \E k \in Job : SessionOfJob(k) = s /\ ToLook(k)'
<1>1. PICK w \in Worker : /\ pc[w] \in {"upsert", "finalize"}
                          /\ pc[w] = "upsert" => compute[w]
                          /\ HeldSession(w) = s
  BY DEF ToCompute
<1>2. pc[w] \in Holding /\ HeldJob(w) \in Job /\ SessionOfJob(HeldJob(w)) = s
  BY <1>1, HeldIsJob DEF Holding, PC, HeldSession
<1>j. PICK j \in Job : HeldJob(w) = j /\ SessionOfJob(j) = s
  BY <1>2
<1>t. /\ pc \in [Worker -> PC] /\ outages \in Nat
      /\ scores \in [Session -> Scores] /\ risk \in [Session -> Scores]
  BY DEF TypeInv, TypeOK, WorkerTypeOK, StoreTypeOK
<1>3. CASE pc'[w] = pc[w]
  <2>1. held'[w] = held[w] /\ compute'[w] = compute[w]
    BY <1>2, <1>3, HeldStays, ComputeStays
  <2> QED
    BY <1>1, <1>3, <2>1 DEF ToCompute, HeldSession, HeldJob
<1>4. CASE Upsert(w)
  <2>1. compute[w]
    BY <1>1, <1>4 DEF Upsert, At
  <2>2. ASSUME UpsertModality(HeldJob(w), compute[w])
        PROVE  risk'[s] = scores'[s]
    <3> DEFINE known == [scores[s] EXCEPT ![j.mod] = j]
    <3>1. scores' = [scores EXCEPT ![s] = known] /\ risk' = [risk EXCEPT ![s] = known]
      BY <2>1, <2>2, <1>j DEF UpsertModality
    <3> HIDE DEF known
    <3> QED
      BY <3>1, <1>t
  <2>3. CASE GoTo(w, AfterError(w, FALSE))
    <3>1. AfterError(w, FALSE) \in {"dead", "failed"}
      BY AfterErrorType
    <3>2. pc'[w] \in Holding \ Looked /\ held'[w] = held[w]
      BY <2>3, <3>1, <1>t DEF GoTo, Holding, PC, Looked
    <3>3. Looked \in SUBSET Holding
      BY DEF Looked, Holding, PC
    <3>4. Open(j, Looked)'
      BY <3>2, <3>3, <1>j, KeepOpenNext DEF HoldersKeepOpen, HeldJob
    <3> QED
      BY <3>4, <1>j DEF ToLook
  <2> QED
    BY <1>4, <2>2, <2>3 DEF Upsert
<1>5. CASE Finalize(w)
  <2>1. FinalizeRisk(s)
    BY <1>1, <1>5 DEF Finalize, GiveUpUnchecked
  <2> QED
    BY <2>1, <1>t DEF FinalizeRisk
<1>6. CASE Crash
  <2>1. Open(j, Looked)'
    BY <1>2, <1>6, <1>j, CrashOpens
  <2> QED
    BY <2>1, <1>j DEF ToLook
<1>7. ~ (Exit \/ Restart)
  BY <1>1 DEF Exit, Restart, DownInv
<1>8. ASSUME NEW v \in Worker, WorkerStep(v), pc'[w] # pc[w]
      PROVE  Upsert(w) \/ Finalize(w)
  <2>1. WorkerStep(w)
    BY <1>8, WorkerFrame
  <2> QED
    BY <2>1, <1>1
    DEF WorkerStep, Process, Dequeue, LeaveLoop,
        StrayMove, Begin, Handle, CoordinatorRead, Ack, Complete, MarkDead,
        NotifyDeadLetter, FailRemove, FailRecord, MarkAttemptFailed, RetryCheck,
        RetryPush, AckRetried, At
<1>9. CASE UNCHANGED vars \/ Stop \/ \E r \in Request : StartRequest(r) \/ ApiStep(r) \/ HangUp(r)
  BY <1>3, <1>9 DEF vars, Stop, StartRequest, ApiStep, CreateRow, EnqueueCheck, EnqueuePush,
              UndoCreate, HangUp, workerVars
<1> QED
  BY <1>3, <1>4, <1>5, <1>6, <1>7, <1>8, <1>9 DEF Next, WorkerSteps

\* Who writes the results of a session.
LEMMA WhoScores ==
    ASSUME TypeInv, [Next]_vars, NEW s \in Session, scores'[s] # scores[s] \/ risk'[s] # risk[s]
    PROVE  \E w \in Worker : HeldSession(w) = s /\ (Upsert(w) \/ Finalize(w))
<1>t. scores \in [Session -> Scores] /\ risk \in [Session -> Scores]
  BY DEF TypeInv, TypeOK, StoreTypeOK
<1>1. PICK w \in Worker : Upsert(w) \/ Finalize(w)
  BY DEF Next, vars, storeVars, WorkerSteps, WorkerStep, Process, Dequeue, LeaveLoop,
         StrayMove, Begin, Handle, CoordinatorRead, Ack, Complete, MarkDead,
         NotifyDeadLetter, FailRemove, FailRecord, MarkAttemptFailed, RetryCheck,
         RetryPush, AckRetried, Stop, Exit, Crash, Restart, StartRequest, ApiStep, HangUp,
         CreateRow, EnqueueCheck, EnqueuePush, UndoCreate
<1>2. CASE Upsert(w)
  <2>1. UpsertModality(HeldJob(w), compute[w])
    BY <1>2 DEF Upsert
  <2>2. HeldSession(w) # s => scores'[s] = scores[s] /\ risk'[s] = risk[s]
    BY <2>1, <1>t DEF UpsertModality, HeldSession
  <2> QED
    BY <1>2, <2>2
<1>3. CASE Finalize(w)
  <2>1. FinalizeRisk(HeldSession(w)) \/ UNCHANGED <<scores, risk>>
    BY <1>3 DEF Finalize
  <2>2. HeldSession(w) # s => scores'[s] = scores[s] /\ risk'[s] = risk[s]
    BY <2>1, <1>t DEF FinalizeRisk
  <2> QED
    BY <1>3, <2>2
<1> QED
  BY <1>1, <1>2, <1>3

LEMMA RiskInit == Init => RiskInv
BY DEF Init, StoreInit, WorkerInit, RiskInv

\* Every step keeps the invariant: a score that the risk does not cover leaves somebody
\* told to compute it, or somebody who will ask, or its session counted.
LEMMA RiskNext ==
    TypeInv /\ InFlightInv /\ DownInv /\ RiskInv /\ [Next]_vars => RiskInv'
<1> SUFFICES ASSUME TypeInv, InFlightInv, DownInv, RiskInv, [Next]_vars,
                    NEW s \in Session, s \notin unchecked'
             PROVE  /\ \A w \in Worker :
                          pc'[w] = "upsert" /\ ~ compute'[w] /\ HeldSession(w)' = s =>
                              \E k \in Job : /\ SessionOfJob(k) = s
                                             /\ k.mod = Other(HeldJob(w)'.mod)
                                             /\ ToLook(k)'
                    /\ \/ risk'[s] = scores'[s]
                       \/ ToCompute(s)'
                       \/ \E k \in Job : SessionOfJob(k) = s /\ ToLook(k)'
  BY DEF RiskInv
<1>u. s \notin unchecked
  BY DEF Next, vars, historyVars, WorkerSteps, WorkerStep, Process, Dequeue, LeaveLoop,
         StrayMove, Begin, Handle, CoordinatorRead, Upsert, Ack, Complete, MarkDead,
         NotifyDeadLetter, Finalize, FailRemove, FailRecord, MarkAttemptFailed, RetryCheck,
         RetryPush, AckRetried, NoteRace, GiveUpUnchecked, Stop, Exit, Crash, Restart,
         StartRequest, ApiStep, HangUp, CreateRow, EnqueueCheck, EnqueuePush, UndoCreate
<1>k. ASSUME NEW w \in Worker, Look(w)
      PROVE  HeldJob(w) \in Job /\ HeldSession(w) = SessionOfJob(HeldJob(w)) /\ held'[w] = held[w]
  <2>1. pc[w] \in {"check", "notify"}
    BY <1>k DEF Look, CoordinatorRead, NotifyDeadLetter, At
  <2> QED
    BY <1>k, <2>1, HeldIsJob DEF HeldSession, Look, CoordinatorRead, NotifyDeadLetter, GoTo
<1>1. ASSUME NEW w \in Worker, pc'[w] = "upsert", ~ compute'[w], HeldSession(w)' = s
      PROVE  \E k \in Job : /\ SessionOfJob(k) = s
                            /\ k.mod = Other(HeldJob(w)'.mod)
                            /\ ToLook(k)'
  <2>1. held'[w] = held[w] /\ (pc[w] \in PastCheck \/ CoordinatorRead(w))
    BY <1>1, PastCheckStep DEF PastCheck
  <2>2. HeldSession(w) = s /\ HeldJob(w)' = HeldJob(w)
    BY <1>1, <2>1 DEF HeldSession, HeldJob
  <2>3. CASE CoordinatorRead(w)
    <3>1. Look(w)
      BY <1>1, <2>3 DEF Look
    <3> QED
      BY <1>1, <2>2, <3>1, LookStep
  <2>4. CASE ~ CoordinatorRead(w)
    <3>1. pc[w] = "upsert"
      <4>1. pc[w] \in PastCheck
        BY <2>1, <2>4
      <4> QED
        BY <1>1, <2>4, <4>1, LabelStep DEF Holding, PC, PastCheck
    <3>2. ~ compute[w]
      BY <1>1, <3>1, ComputeStays DEF Holding, PC
    <3>3. PICK k \in Job : SessionOfJob(k) = s /\ k.mod = Other(HeldJob(w).mod) /\ ToLook(k)
      BY <3>1, <3>2, <2>2, <1>u DEF RiskInv
    <3>4. HeldJob(w).mod \in Modality
      BY <3>1, HeldIsJob DEF Job
    <3>5. ASSUME NEW v \in Worker, HeldJob(v) = k, Look(v)
          PROVE  FALSE
      <4>1. HeldSession(v) = s
        BY <3>3, <3>5 DEF HeldSession
      <4>2. HeldJob(w).mod = Other(HeldJob(v).mod)
        BY <3>3, <3>4, <3>5 DEF Other, Modality
      <4>3. SiblingPastCheck(v)
        BY <3>1, <2>2, <4>1, <4>2 DEF SiblingPastCheck, PastCheck
      <4> QED
        BY <3>5, <4>1, <4>3, LookStep
    <3> QED
      BY <2>2, <3>3, <3>5, ToLookStep
  <2> QED
    BY <2>3, <2>4
<1>2. \/ risk'[s] = scores'[s]
      \/ ToCompute(s)'
      \/ \E k \in Job : SessionOfJob(k) = s /\ ToLook(k)'
  <2>1. ASSUME NEW w \in Worker, Look(w), HeldSession(w) = s
        PROVE  ToCompute(s)' \/ \E k \in Job : SessionOfJob(k) = s /\ ToLook(k)'
    <3>1. HeldSession(w)' = s
      BY <2>1, <1>k DEF HeldSession, HeldJob
    <3> QED
      BY <2>1, <3>1, LookStep DEF ToCompute
  <2>2. CASE ToCompute(s)
    BY <2>2, ToComputeStep
  <2>3. ASSUME NEW k \in Job, SessionOfJob(k) = s, ToLook(k),
               ~ \E w \in Worker : Look(w) /\ HeldSession(w) = s
        PROVE  ToLook(k)'
    <3>1. \A w \in Worker : HeldJob(w) = k => ~ Look(w)
      BY <2>3 DEF HeldSession
    <3> QED
      BY <2>3, <3>1, ToLookStep
  <2>4. CASE /\ ~ ToCompute(s)
             /\ ~ \E k \in Job : SessionOfJob(k) = s /\ ToLook(k)
    <3>1. risk[s] = scores[s]
      BY <2>4, <1>u DEF RiskInv
    <3>2. ASSUME NEW w \in Worker, HeldSession(w) = s, Upsert(w) \/ Finalize(w)
          PROVE  FALSE
      <4>1. pc[w] = "upsert" /\ ~ compute[w]
        BY <2>4, <3>2 DEF ToCompute, Upsert, Finalize, At
      <4> QED
        BY <2>4, <3>2, <4>1, <1>u DEF RiskInv
    <3> QED
      BY <3>1, <3>2, WhoScores
  <2> QED
    BY <2>1, <2>2, <2>3, <2>4
<1> QED
  BY <1>1, <1>2

\* Once nothing is left to do for a session, its risk covers every score on record,
\* except where a job was given up without the coordinator's answer or without storing
\* the risk it called for, or where one modality's worker asked while the other's was past
\* its own look (RiskFinalUnlessUnchecked), whatever fails, crashes, restarts or is
\* redelivered.
THEOREM RiskIsFinalUnlessUnchecked == Spec => []RiskFinalUnlessUnchecked
<1>1. TypeInv /\ InFlightInv /\ RowInv /\ RiskInv => RiskFinalUnlessUnchecked
  <2> SUFFICES ASSUME TypeInv, InFlightInv, RowInv, RiskInv,
                      NEW s \in Session, s \notin unchecked, Settled(s)
               PROVE  risk[s] = scores[s]
    BY DEF RiskFinalUnlessUnchecked, RiskIsFinal
  <2>1. ~ ToCompute(s)
    <3> SUFFICES ASSUME NEW w \in Worker, pc[w] \in {"upsert", "finalize"}, HeldSession(w) = s
                 PROVE  FALSE
      BY DEF ToCompute
    <3>1. held[w] # NoDelivery
      BY HeldIsJob, JobsAssumption
    <3> QED
      BY <3>1 DEF Settled
  <2>2. ASSUME NEW k \in Job, SessionOfJob(k) = s
        PROVE  ~ ToLook(k)
    <3>1. ASSUME Open(k, Looked)
          PROVE  FALSE
      <4>1. k \in JobsIn(pending) \union JobsIn(processing)
        BY <3>1, QuietIsNotOpen
      <4>2. rows[k].status # "none"
        BY <4>1 DEF JobsIn, Outstanding, RowInv, HasRow
      <4> QED
        BY <2>2, <4>1, <4>2 DEF Settled, SessionJobs
    <3>2. ASSUME HasRow(k), ~ IsTerminal(rows[k].status)
          PROVE  FALSE
      BY <2>2, <3>2 DEF Settled, SessionJobs, HasRow
    <3> QED
      BY <3>1, <3>2 DEF ToLook
  <2> QED
    BY <2>1, <2>2 DEF RiskInv
<1> QED
  BY <1>1, TypeInvariant, InFlightInit, InFlightNext, RowInit, RowNext, DownInit, DownNext,
     RiskInit, RiskNext, PTL DEF Spec

----------------------------------------------------------------------------
(* As long as no call fails, nobody hangs up and nothing crashes, every    *)
(* row goes through its life cycle (JobLifecycle).                         *)

Calm == outages = 0 /\ crashes = 0 /\ hungUp = {}

\* A delivery that no worker has.
Waiting(d) == d \in Outstanding /\ \A w \in Worker : pc[w] \in Holding => held[w] # d

\* The row says that delivery d is the next to be run, or that the job is past it.
Ready(d) ==
    \/ rows[d.job].status = "queued" /\ d.attempt = 1
    \/ rows[d.job].status = "failed" /\ d.attempt = rows[d.job].attempt + 1

Passed(d) ==
    \/ rows[d.job].attempt > d.attempt
    \/ rows[d.job].status = "failed" /\ rows[d.job].attempt = d.attempt

RowIs(j, status, n) == rows[j].status = status /\ rows[j].attempt = n

\* The labels at which a worker runs the attempt that its job's row names.
Running == {"handle", "check", "upsert", "ack", "complete", "failed"}

\* What the row of its job says while a worker is inside process.
RowAtStage(w) ==
    /\ pc[w] = "start" => Ready(held[w])
    /\ pc[w] \in Running => RowIs(HeldJob(w), "processing", held[w].attempt)
    /\ pc[w] = "dead" => rows[HeldJob(w)].status \in {"queued", "processing"}
    /\ pc[w] \in {"backoff", "requeue"} => RowIs(HeldJob(w), "failed", held[w].attempt)
    /\ pc[w] = "ackRetry" => Passed(held[w])

\* Worker w is at its job's current attempt, and has yet to write the row or to free
\* the job for the next one.
Working(w) == pc[w] \in (Holding \ {"ackRetry"}) \union {"complete"}

\* Job j is in nobody's hands.
Untouched(j) ==
    /\ \A w \in Worker : Working(w) => HeldJob(w) # j
    /\ \A r \in Request : Enqueuing(r) => Making(r) # j

\* The invariant: a job that has a row is with its handler, waiting once in a queue, or
\* with one worker, and where it is fixes what the row says; deliveries that other
\* workers have yet to ack are of attempts the row is past.
LifeInv ==
    Calm =>
        /\ Single
        /\ \A d \in Outstanding : Waiting(d) => Ready(d) /\ Untouched(d.job)
        /\ \A w \in Worker : RowAtStage(w)
        /\ \A v, w \in Worker : Working(v) /\ Working(w) /\ HeldJob(v) = HeldJob(w) => v = w
        /\ \A r \in Request :
              Enqueuing(r) => /\ RowIs(Making(r), "queued", 1)
                              /\ \A w \in Worker : Working(w) => HeldJob(w) # Making(r)
        /\ \A j \in Job : ToCome(j) => rows[j].status = "none"
        /\ \A j \in Job : rows[j].status = "queued" => rows[j].attempt = 1

\* With what it rests on.
OutcomeInv == TypeInv /\ InFlightInv /\ RowInv /\ SettlingInv /\ DownInv /\ LifeInv

\* Nothing has failed before, if nothing has failed after a step.
LEMMA CalmStep ==
    ASSUME TypeInv, [Next]_vars, Calm'
    PROVE  Calm /\ Answered /\ ~ Outage /\ ~ Crash
<1>t. outages \in Nat /\ crashes \in Nat
  BY LifeAssumption DEF TypeInv, TypeOK
<1>1. Answered
  BY OutagesStay DEF Calm
<1>2. ~ Outage /\ outages = 0
  BY <1>1, <1>t DEF Outage, Answered, Calm
<1>3. ~ Crash
  BY <1>t DEF Crash, Calm
<1>4. crashes' = crashes /\ hungUp \subseteq hungUp'
  BY <1>3
  DEF Next, vars, lifeVars, apiVars, WorkerSteps, StartRequest, ApiStep, HangUp, CreateRow,
      EnqueueCheck, EnqueuePush, UndoCreate, Stop, Exit, Restart
<1> QED
  BY <1>1, <1>2, <1>3, <1>4 DEF Calm

\* The status and attempt a step leaves in a row.
Writes(j, status, n) == rows'[j].status = status /\ rows'[j].attempt = n

\* A calm step's row moves as JobLifecycle lets it.
RowMoves(j) ==
    \/ rows[j].status = "none" /\ Writes(j, "queued", 1)
    \/ rows[j].status = "queued" /\ Writes(j, "processing", 1)
    \/ rows[j].status = "failed" /\ Writes(j, "processing", rows[j].attempt + 1)
    \/ rows[j].status = "processing" /\ rows[j].attempt < MaxAttempts
       /\ Writes(j, "failed", rows[j].attempt)
    \/ rows[j].status = "processing" /\ Writes(j, "completed", rows[j].attempt)
    \/ rows[j].status \in {"queued", "processing"} /\ Writes(j, "dead_letter", rows[j].attempt)

\* A row is created for a job that has none.
LEMMA CreatesNew ==
    ASSUME OutcomeInv, Calm, NEW r \in Request, api[r] = "create"
    PROVE  Making(r) \in Job /\ rows[Making(r)].status = "none"
<1>1. Making(r) \in Job /\ Making(r).req = r /\ Making(r).mod = making[r]
  BY MakingIsJob DEF OutcomeInv, Making
<1>2. ToCome(Making(r))
  BY <1>1 DEF ToCome
<1> QED
  BY <1>1, <1>2 DEF OutcomeInv, LifeInv

\* Whatever is with a worker or outstanding has a row.
LEMMA TouchedHasRow ==
    ASSUME OutcomeInv
    PROVE  /\ \A w \in Worker : Working(w) \/ pc[w] = "ackRetry" =>
                 /\ held[w] \in Delivery /\ HeldJob(w) \in Job /\ held[w].job = HeldJob(w)
                 /\ held[w].attempt \in Nat
                 /\ rows[HeldJob(w)].status # "none"
           /\ \A d \in Outstanding : /\ d \in Delivery /\ d.job \in Job /\ d.attempt \in Nat
                                     /\ rows[d.job].status # "none"
           /\ \A j \in Job : /\ rows[j] \in Row /\ rows[j].attempt \in Nat
                             /\ rows[j] = [status |-> rows[j].status,
                                           attempt |-> rows[j].attempt]
<1>1. ASSUME NEW d \in Delivery
      PROVE  d.job \in Job /\ d.attempt \in Nat
  BY <1>1, JobsAssumption DEF Delivery
<1>2. ASSUME NEW w \in Worker, Working(w) \/ pc[w] = "ackRetry"
      PROVE  /\ held[w] \in Delivery /\ HeldJob(w) \in Job /\ held[w].job = HeldJob(w)
             /\ held[w].attempt \in Nat
             /\ rows[HeldJob(w)].status # "none"
  <2>1. Inside(w)
    BY <1>2 DEF Working, Inside, Holding
  <2>2. held[w] \in Delivery /\ HeldJob(w) \in Job
    BY <2>1, HeldIsJob DEF OutcomeInv, Inside
  <2> QED
    BY <2>1, <2>2, <1>1 DEF OutcomeInv, RowInv, HasRow, HeldJob
<1>3. ASSUME NEW d \in Outstanding
      PROVE  /\ d \in Delivery /\ d.job \in Job /\ d.attempt \in Nat
             /\ rows[d.job].status # "none"
  BY <1>1, OutstandingType DEF OutcomeInv, TypeInv, TypeOK, RowInv, HasRow
<1>4. ASSUME NEW j \in Job
      PROVE  /\ rows[j] \in Row /\ rows[j].attempt \in Nat
             /\ rows[j] = [status |-> rows[j].status, attempt |-> rows[j].attempt]
  <2>1. rows[j] \in Row
    BY DEF OutcomeInv, TypeInv, TypeOK, StoreTypeOK
  <2> QED
    BY <2>1, JobsAssumption DEF Row
<1> QED
  BY <1>2, <1>3, <1>4

\* Who writes a row is the one whose hands its job is in, and moves it along.
LEMMA Writers ==
    ASSUME OutcomeInv, [Next]_vars, Calm', NEW j \in Job, rows'[j] # rows[j]
    PROVE  /\ RowMoves(j)
           /\ \/ \E r \in Request : /\ Making(r) = j /\ rows[j].status = "none"
                                    /\ CreateRow(r) /\ Writes(j, "queued", 1)
              \/ \E r \in Request : Making(r) = j /\ Enqueuing(r) /\ UndoCreate(r)
              \/ \E w \in Worker : HeldJob(w) = j /\ Working(w) /\ WorkerStep(w)
<1>1. Calm
  BY CalmStep DEF OutcomeInv
<1>2. /\ rows[j].attempt \in Nat
      /\ \A s : rows'[j] = [rows[j] EXCEPT !.status = s] => Writes(j, s, rows[j].attempt)
      /\ \A s, n : rows'[j] = [status |-> s, attempt |-> n] => Writes(j, s, n)
  <2>1. rows[j] \in Row /\ rows[j].attempt \in Nat
    BY TouchedHasRow
  <2> QED
    BY <2>1 DEF Row, Writes
<1>3. RowWritten(j)
  BY RowStep DEF OutcomeInv
<1>4. ASSUME NEW r \in Request, CreateRow(r), Making(r) = j, Writes(j, "queued", 1)
      PROVE  RowMoves(j) /\ rows[j].status = "none"
  <2>1. rows[j].status = "none"
    BY <1>1, <1>4, CreatesNew DEF CreateRow
  <2> QED
    BY <1>4, <2>1 DEF RowMoves
<1>5. ASSUME NEW r \in Request, UndoCreate(r), Making(r) = j,
             Writes(j, "dead_letter", rows[j].attempt)
      PROVE  RowMoves(j) /\ Enqueuing(r)
  <2>1. Enqueuing(r)
    BY <1>5 DEF UndoCreate, Enqueuing
  <2>2. rows[j].status = "queued"
    BY <1>1, <1>5, <2>1 DEF OutcomeInv, LifeInv, RowIs
  <2> QED
    BY <1>5, <2>1, <2>2 DEF RowMoves
<1>6. ASSUME NEW w \in Worker, HeldJob(w) = j
      PROVE  /\ Begin(w) /\ Writes(j, "processing", held[w].attempt) =>
                    RowMoves(j) /\ Working(w) /\ WorkerStep(w)
             /\ MarkAttemptFailed(w) /\ Writes(j, "failed", held[w].attempt) =>
                    RowMoves(j) /\ Working(w) /\ WorkerStep(w)
             /\ Complete(w) /\ Writes(j, "completed", rows[j].attempt) =>
                    RowMoves(j) /\ Working(w) /\ WorkerStep(w)
             /\ MarkDead(w) /\ Writes(j, "dead_letter", rows[j].attempt) =>
                    RowMoves(j) /\ Working(w) /\ WorkerStep(w)
  <2>1. RowAtStage(w) /\ held[w].job = j
    BY <1>1, <1>6 DEF OutcomeInv, LifeInv, HeldJob
  <2>2. ASSUME Begin(w), Writes(j, "processing", held[w].attempt)
        PROVE  RowMoves(j) /\ Working(w) /\ WorkerStep(w)
    <3>1. pc[w] = "start"
      BY <2>2 DEF Begin, At
    <3>2. Ready(held[w])
      BY <2>1, <3>1 DEF RowAtStage
    <3>3. ASSUME rows[j].status = "queued", held[w].attempt = 1
          PROVE  RowMoves(j)
      BY <2>2, <3>3 DEF RowMoves
    <3>4. ASSUME rows[j].status = "failed", held[w].attempt = rows[j].attempt + 1
          PROVE  RowMoves(j)
      BY <2>2, <3>4 DEF RowMoves
    <3>5. Working(w)
      BY <3>1 DEF Working, Holding, PC
    <3> QED
      BY <2>1, <2>2, <3>2, <3>3, <3>4, <3>5 DEF Ready, WorkerStep, Process
  <2>3. ASSUME MarkAttemptFailed(w), Writes(j, "failed", held[w].attempt)
        PROVE  RowMoves(j) /\ Working(w) /\ WorkerStep(w)
    <3>1. pc[w] = "failed"
      BY <2>3 DEF MarkAttemptFailed, At
    <3>2. /\ RowIs(j, "processing", held[w].attempt)
          /\ held[w].attempt < MaxAttempts
      BY <1>6, <2>1, <3>1
      DEF RowAtStage, Running, OutcomeInv, TypeInv, HeldOK, HasAttemptsRemaining
    <3>3. Working(w)
      BY <3>1 DEF Working, Holding, PC
    <3> QED
      BY <2>3, <3>2, <3>3 DEF RowMoves, RowIs, WorkerStep, Process
  <2>4. ASSUME Complete(w), Writes(j, "completed", rows[j].attempt)
        PROVE  RowMoves(j) /\ Working(w) /\ WorkerStep(w)
    <3>1. pc[w] = "complete"
      BY <2>4 DEF Complete, At
    <3>2. rows[j].status = "processing"
      BY <1>6, <2>1, <3>1 DEF RowAtStage, Running, RowIs
    <3> QED
      BY <2>4, <3>1, <3>2 DEF RowMoves, Working, WorkerStep, Process
  <2>5. ASSUME MarkDead(w), Writes(j, "dead_letter", rows[j].attempt)
        PROVE  RowMoves(j) /\ Working(w) /\ WorkerStep(w)
    <3>1. pc[w] = "dead"
      BY <2>5 DEF MarkDead, At
    <3>2. rows[j].status \in {"queued", "processing"}
      BY <1>6, <2>1, <3>1 DEF RowAtStage
    <3>3. Working(w)
      BY <3>1 DEF Working, Holding, PC
    <3> QED
      BY <2>5, <3>2, <3>3 DEF RowMoves, WorkerStep, Process
  <2> QED
    BY <2>2, <2>3, <2>4, <2>5
<1>7. ASSUME NEW r \in Request, Making(r) = j,
             \/ CreateRow(r) /\ rows'[j] = [status |-> "queued", attempt |-> 1]
             \/ UndoCreate(r) /\ rows'[j] = [rows[j] EXCEPT !.status = "dead_letter"]
      PROVE  /\ RowMoves(j)
             /\ \/ rows[j].status = "none" /\ CreateRow(r) /\ Writes(j, "queued", 1)
                \/ Enqueuing(r) /\ UndoCreate(r)
  BY <1>2, <1>4, <1>5, <1>7, Zenon
<1>8. ASSUME NEW w \in Worker, HeldJob(w) = j,
             \/ /\ Begin(w) /\ j \notin Corrupt
                /\ rows'[j] = [status |-> "processing", attempt |-> held[w].attempt]
             \/ /\ MarkAttemptFailed(w)
                /\ rows'[j] = [status |-> "failed", attempt |-> held[w].attempt]
             \/ Complete(w) /\ rows'[j] = [rows[j] EXCEPT !.status = "completed"]
             \/ MarkDead(w) /\ rows'[j] = [rows[j] EXCEPT !.status = "dead_letter"]
      PROVE  RowMoves(j) /\ Working(w) /\ WorkerStep(w)
  BY <1>2, <1>6, <1>8, Zenon
<1> QED
  BY <1>3, <1>7, <1>8, Zenon DEF RowWritten

\* So a row stays as it is while its job is in nobody's hands.
LEMMA RowKept ==
    ASSUME OutcomeInv, [Next]_vars, Calm', NEW j \in Job, rows[j].status # "none",
           \A r \in Request : Enqueuing(r) /\ Making(r) = j => ~ UndoCreate(r),
           \A w \in Worker : Working(w) /\ HeldJob(w) = j => ~ WorkerStep(w)
    PROVE  rows'[j] = rows[j]
BY Writers

\* A row never comes back to an attempt it is past.
LEMMA PassedStays ==
    ASSUME OutcomeInv, [Next]_vars, Calm', NEW d, d.job \in Job, d.attempt \in Nat,
           rows[d.job].status # "none", Passed(d)
    PROVE  Passed(d)'
<1>1. CASE rows'[d.job] = rows[d.job]
  BY <1>1 DEF Passed
<1>2. CASE rows'[d.job] # rows[d.job]
  <2>1. RowMoves(d.job)
    BY <1>2, Writers
  <2>2. rows[d.job].attempt \in Nat
    BY TouchedHasRow
  <2> DEFINE n == rows[d.job].attempt
             m == rows'[d.job].attempt
  <2>q. rows[d.job].status = "queued" => n = 1
    BY CalmStep DEF OutcomeInv, LifeInv
  <2>3. m = n + 1 \/ (m = n /\ rows[d.job].status # "failed")
    BY <2>1, <2>q DEF RowMoves, Writes
  <2>4. m \in Nat /\ m >= n /\ (rows[d.job].status = "failed" => m > n)
    <3> HIDE DEF m, n
    <3> QED
      BY <2>2, <2>3 DEF n
  <2>5. CASE n > d.attempt
    <3>1. m > d.attempt
      BY <2>2, <2>4, <2>5
    <3> QED
      BY <3>1 DEF Passed
  <2>6. CASE rows[d.job].status = "failed" /\ n = d.attempt
    <3>1. m > d.attempt
      BY <2>4, <2>6
    <3> QED
      BY <3>1 DEF Passed
  <2> QED
    BY <2>5, <2>6 DEF Passed
<1> QED
  BY <1>1, <1>2

\* A worker that answers for a delivery has it in its processing list.
LEMMA HeldIsThere ==
    ASSUME TypeInv, InFlightInv, NEW w \in Worker, pc[w] \in Holding
    PROVE  held[w] \in ToSet(processing[Serves[w]])
<1>1. Serves[w] \in Modality /\ held[w] \in Delivery
  BY HeldIsJob, WorkerAssumption DEF Holding
<1> DEFINE H == Holders(Serves[w], held[w])
           s == processing[Serves[w]]
           P == Positions(s, held[w])
<1>2. /\ IsFiniteSet(H) /\ Cardinality(H) <= Cardinality(P)
      /\ w \in H
  BY <1>1, CopiesType DEF InFlightInv, Holders, TypeInv, TypeOK
<1>3. s \in Seq(Delivery)
  BY <1>1 DEF TypeInv, TypeOK, QueueTypeOK
<1> HIDE DEF H, s
<1>4. Cardinality(H) \in Nat /\ Cardinality(H) # 0
  BY <1>2, FS_CardinalityType, FS_EmptySet
<1>5. P # {}
  <2>1. Cardinality({}) = 0
    BY FS_EmptySet
  <2> QED
    BY <1>2, <1>4, <2>1
<1>6. PICK i \in 1 .. Len(s) : s[i] = held[w]
  BY <1>5 DEF Positions
<1>7. DOMAIN s = 1 .. Len(s)
  BY <1>3, LenProperties
<1> QED
  BY <1>6, <1>7 DEF ToSet, s

\* The delivery that BLMOVE takes is one that nobody has.
LEMMA HeadIsWaiting ==
    ASSUME OutcomeInv, Calm, NEW q \in Modality, BLMove(q), NEW d, d = Head(pending[q])
    PROVE  d \in Outstanding /\ Waiting(d)
<1>1. d \in ToSet(pending[q])
  BY HeadTailToSet DEF OutcomeInv, TypeInv, TypeOK, QueueTypeOK, BLMove
<1>2. d \in Outstanding
  BY <1>1 DEF Outstanding
<1>3. ASSUME NEW w \in Worker, pc[w] \in Holding
      PROVE  held[w] # d
  <2>1. held[w] \in ToSet(processing[Serves[w]]) /\ Serves[w] \in Modality
    BY <1>3, HeldIsThere, WorkerAssumption DEF OutcomeInv
  <2> QED
    BY <1>1, <2>1 DEF OutcomeInv, LifeInv, Single
<1> QED
  BY <1>2, <1>3 DEF Waiting

\* A worker that stops answering for a delivery has removed it.
LEMMA Drops ==
    ASSUME TypeInv, DownInv, [Next]_vars, Calm', NEW w \in Worker,
           pc[w] \in Holding, pc'[w] \notin Holding
    PROVE  LRem(Serves[w], held[w])
<1>t. pc \in [Worker -> PC]
  BY DEF TypeInv, TypeOK, WorkerTypeOK
<1>c. Answered /\ ~ Outage /\ ~ Crash
  BY CalmStep
<1>1. ~ (Exit \/ Restart)
  BY DEF Exit, Restart, DownInv, Holding
<1>2. ~ (UNCHANGED vars \/ Stop \/ \E r \in Request : StartRequest(r) \/ ApiStep(r) \/ HangUp(r))
  BY DEF vars, Stop, StartRequest, ApiStep, CreateRow, EnqueueCheck, EnqueuePush, UndoCreate,
         HangUp, workerVars
<1>3. ASSUME NEW v \in Worker, WorkerStep(v), v # w
      PROVE  FALSE
  BY <1>3, WorkerFrame
<1>4. WorkerStep(w)
  BY <1>c, <1>1, <1>2, <1>3 DEF Next, WorkerSteps
<1>5. \A label \in Holding : ~ GoTo(w, label)
  BY <1>t DEF GoTo
<1>6. CASE Ack(w) \/ AckRetried(w) \/ FailRemove(w)
  BY <1>6, <1>c DEF Ack, AckRetried, FailRemove
<1>7. ~ (Dequeue(w) \/ LeaveLoop(w) \/ StrayMove(w) \/ Complete(w) \/ FailRecord(w))
  BY DEF Dequeue, LeaveLoop, StrayMove, Complete, FailRecord, At, Holding
<1>8. ~ CoordinatorRead(w)
  BY <1>t, <1>c DEF CoordinatorRead, Holding, PC
<1>9. ~ (Handle(w) \/ Upsert(w))
  <2>1. \A permanent \in BOOLEAN : AfterError(w, permanent) \in Holding
    BY AfterErrorType DEF Holding, PC
  <2>2. {"check", "ack"} \subseteq Holding
    BY DEF Holding, PC
  <2> QED
    BY <1>5, <2>1, <2>2 DEF Handle, Upsert
<1>10. ~ (Begin(w) \/ MarkDead(w) \/ NotifyDeadLetter(w) \/ Finalize(w)
            \/ MarkAttemptFailed(w) \/ RetryCheck(w) \/ RetryPush(w))
  <2>1. {"dead", "handle", "remove", "notify", "finalize", "backoff", "requeue", "ackRetry"}
           \subseteq Holding
    BY DEF Holding, PC
  <2> QED
    BY <1>5, <2>1
    DEF Begin, MarkDead, NotifyDeadLetter, Finalize, MarkAttemptFailed, RetryCheck, RetryPush
<1> QED
  BY <1>4, <1>6, <1>7, <1>8, <1>9, <1>10 DEF WorkerStep, Process

\* How a worker comes to be working on a job.
LEMMA WorkingStep ==
    ASSUME OutcomeInv, [Next]_vars, Calm', NEW w \in Worker, Working(w)'
    PROVE  \/ Working(w) /\ held'[w] = held[w]
           \/ /\ Dequeue(w) /\ pc'[w] = "start"
              /\ held'[w] \in Outstanding /\ Waiting(held'[w])
<1>1. CASE pc'[w] = "complete"
  <2>1. held'[w] = held[w] /\ pc[w] \in {"complete", "ack"}
    BY <1>1, ReachesAck DEF OutcomeInv
  <2> QED
    BY <2>1 DEF Working, Holding, PC
<1>2. CASE pc'[w] # "complete" /\ pc'[w] = pc[w]
  <2>1. pc[w] \in Holding /\ pc'[w] \in Holding /\ Working(w)
    BY <1>2 DEF Working
  <2> QED
    BY <2>1, HeldStays DEF OutcomeInv
<1>3. CASE pc'[w] # "complete" /\ pc'[w] # pc[w]
  <2>1. pc'[w] \in Holding /\ pc'[w] # "ackRetry"
    BY <1>3 DEF Working
  <2>2. CASE Dequeue(w) /\ pc'[w] = "start"
    <3>1. Serves[w] \in Modality /\ BLMove(Serves[w])
      BY <2>2, WorkerAssumption DEF Dequeue
    <3>2. held'[w] = Head(pending[Serves[w]])
      <4>1. ~ Outage
        BY CalmStep DEF OutcomeInv
      <4>2. held \in [Worker -> Delivery \union {NoDelivery}]
        BY DEF OutcomeInv, TypeInv, TypeOK, WorkerTypeOK
      <4> QED
        BY <2>2, <4>1, <4>2 DEF Dequeue
    <3>3. PICK d : d = Head(pending[Serves[w]])
      OBVIOUS
    <3>4. Calm
      BY CalmStep DEF OutcomeInv
    <3>5. d \in Outstanding /\ Waiting(d)
      BY <3>1, <3>3, <3>4, HeadIsWaiting
    <3> QED
      BY <2>2, <3>2, <3>3, <3>5
  <2>3. CASE ~ (Dequeue(w) /\ pc'[w] = "start")
    <3>1. /\ held'[w] = held[w]
          /\ pc[w] \in {"start", "handle", "check", "upsert", "dead", "notify", "finalize",
                        "failed", "backoff", "requeue"}
      BY <1>3, <2>1, <2>3, LabelStep DEF OutcomeInv
    <3> QED
      BY <3>1 DEF Working, Holding, PC
  <2> QED
    BY <2>2, <2>3
<1> QED
  BY <1>1, <1>2, <1>3

\* A handler that is about to enqueue has its job's row, or has just created it.
LEMMA EnqueuingStep ==
    ASSUME OutcomeInv, [Next]_vars, Calm', NEW r \in Request, Enqueuing(r)'
    PROVE  /\ Making(r)' = Making(r)
           /\ \/ Enqueuing(r) /\ ~ UndoCreate(r)
              \/ api[r] = "create" /\ InsertRow(Making(r))
<1>t. /\ api \in [Request -> ApiLabel]
      /\ making \in [Request -> Modality]
  BY DEF OutcomeInv, TypeInv, TypeOK
<1>c. Answered /\ ~ Outage /\ ~ Crash /\ Calm
  BY CalmStep DEF OutcomeInv
<1>e. api'[r] \in {"check", "push", "undo"}
  BY DEF Enqueuing
<1>1. ASSUME NEW q \in Request, StartRequest(q) \/ ApiStep(q) \/ HangUp(q), q # r
      PROVE  api'[r] = api[r] /\ making'[r] = making[r] /\ ~ UndoCreate(r)
  <2>1. api'[r] = api[r] /\ making'[r] = making[r]
    BY <1>t, <1>1
    DEF StartRequest, ApiStep, CreateRow, EnqueueCheck, EnqueuePush, NextJobOrReply,
        UndoCreate, HangUp, ApiGoTo
  <2> QED
    BY <1>e, <2>1, <1>t DEF UndoCreate, ApiGoTo
<1>2. ASSUME StartRequest(r) \/ ApiStep(r) \/ HangUp(r)
      PROVE  /\ making'[r] = making[r]
             /\ \/ Enqueuing(r) /\ ~ UndoCreate(r)
                \/ api[r] = "create" /\ InsertRow(Making(r))
  <2>1. CASE StartRequest(r) \/ HangUp(r) \/ UndoCreate(r)
    BY <1>t, <1>e, <2>1 DEF StartRequest, HangUp, UndoCreate, ApiGoTo, Calm
  <2>2. CASE CreateRow(r)
    BY <1>t, <1>e, <2>2 DEF CreateRow, ApiGoTo
  <2>3. CASE EnqueueCheck(r)
    BY <1>t, <1>e, <2>3 DEF EnqueueCheck, ApiGoTo, Enqueuing, UndoCreate
  <2>4. CASE EnqueuePush(r)
    BY <1>t, <1>e, <2>4
    DEF EnqueuePush, ApiGoTo, NextJobOrReply, Enqueuing, UndoCreate
  <2> QED
    BY <1>2, <2>1, <2>2, <2>3, <2>4 DEF ApiStep
<1>3. ASSUME UNCHANGED apiVars
      PROVE  api'[r] = api[r] /\ making'[r] = making[r] /\ ~ UndoCreate(r)
  BY <1>3, <1>e, <1>t DEF apiVars, UndoCreate, ApiGoTo
<1>4. CASE \E q \in Request : StartRequest(q) \/ ApiStep(q) \/ HangUp(q)
  <2>1. PICK q \in Request : StartRequest(q) \/ ApiStep(q) \/ HangUp(q)
    BY <1>4
  <2>2. CASE q = r
    BY <1>2, <2>1, <2>2 DEF Making
  <2>3. CASE q # r
    BY <1>1, <1>e, <2>1, <2>3 DEF Making, Enqueuing
  <2> QED
    BY <2>2, <2>3
<1>5. CASE UNCHANGED vars \/ WorkerSteps \/ Stop \/ Exit \/ Restart
  <2>1. UNCHANGED apiVars
    BY <1>5 DEF vars, WorkerSteps, Stop, Exit, Restart
  <2> QED
    BY <1>3, <1>e, <2>1 DEF Making, Enqueuing
<1> QED
  BY <1>c, <1>4, <1>5 DEF Next

\* What is outstanding of a job that a handler or a worker has is what that worker holds,
\* or an attempt that the row is past.
LEMMA OutstandingOfTouched ==
    ASSUME OutcomeInv, Calm, NEW d \in Outstanding
    PROVE  /\ \A r \in Request : Enqueuing(r) /\ Making(r) = d.job => Passed(d)
           /\ \A w \in Worker : Working(w) /\ HeldJob(w) = d.job => held[w] = d \/ Passed(d)
<1>1. CASE Waiting(d)
  BY <1>1 DEF OutcomeInv, LifeInv, Untouched
<1>2. CASE ~ Waiting(d)
  <2>1. PICK v \in Worker : pc[v] \in Holding /\ held[v] = d
    BY <1>2 DEF Waiting
  <2>2. CASE pc[v] = "ackRetry"
    BY <2>1, <2>2 DEF OutcomeInv, LifeInv, RowAtStage
  <2>3. CASE Working(v)
    <3>1. HeldJob(v) = d.job
      BY <2>1 DEF HeldJob
    <3> QED
      BY <2>1, <2>3, <3>1 DEF OutcomeInv, LifeInv
  <2> QED
    BY <2>1, <2>2, <2>3 DEF Working
<1> QED
  BY <1>1, <1>2

\* The first delivery of a job, and the next attempt of a job, are not outstanding when
\* they are enqueued.
LEMMA FirstIsNew ==
    ASSUME OutcomeInv, Calm, NEW r \in Request, Enqueuing(r)
    PROVE  FirstDelivery(Making(r)) \notin Outstanding
<1> SUFFICES ASSUME NEW d \in Outstanding, d = FirstDelivery(Making(r))
             PROVE  FALSE
  OBVIOUS
<1>1. d.job = Making(r) /\ d.attempt = 1
  BY DEF FirstDelivery
<1>2. Passed(d)
  BY <1>1, OutstandingOfTouched
<1>3. RowIs(d.job, "queued", 1)
  BY <1>1 DEF OutcomeInv, LifeInv
<1> QED
  BY <1>1, <1>2, <1>3 DEF Passed, RowIs

LEMMA NextIsNew ==
    ASSUME OutcomeInv, Calm, NEW w \in Worker, pc[w] = "requeue"
    PROVE  /\ WithFailure(held[w]) \in Delivery
           /\ WithFailure(held[w]).job = HeldJob(w)
           /\ WithFailure(held[w]).attempt = held[w].attempt + 1
           /\ WithFailure(held[w]) \notin Outstanding
<1>1. /\ WithFailure(held[w]) \in Delivery
      /\ WithFailure(held[w]).job = HeldJob(w)
      /\ WithFailure(held[w]).attempt = held[w].attempt + 1
  BY HeldIsJob, NextAttemptIsDelivery DEF OutcomeInv, TypeInv, HeldOK, HeldJob
<1>2. Working(w) /\ held[w].attempt \in Nat
  BY TouchedHasRow DEF Working, Holding, PC
<1>3. ASSUME NEW d \in Outstanding, d = WithFailure(held[w])
      PROVE  FALSE
  <2>1. held[w] # d
    BY <1>1, <1>2, <1>3
  <2>2. Passed(d)
    BY <1>1, <1>2, <1>3, <2>1, OutstandingOfTouched
  <2>3. RowIs(d.job, "failed", held[w].attempt)
    BY <1>1, <1>3 DEF OutcomeInv, LifeInv, RowAtStage
  <2> QED
    BY <1>1, <1>2, <1>3, <2>2, <2>3 DEF Passed, RowIs
<1> QED
  BY <1>1, <1>3

\* What a calm step does to the queues.
LEMMA QueueStep ==
    ASSUME OutcomeInv, [Next]_vars, Calm'
    PROVE  /\ Single'
           /\ \/ Outstanding' \subseteq Outstanding
              \/ \E r \in Request :
                    /\ api[r] = "push" /\ api'[r] \in {"create", "done"}
                    /\ FirstDelivery(Making(r)) \notin Outstanding
                    /\ Outstanding' = Outstanding \union {FirstDelivery(Making(r))}
              \/ \E w \in Worker :
                    /\ RetryPush(w) /\ pc'[w] = "ackRetry"
                    /\ WithFailure(held[w]) \notin Outstanding
                    /\ Outstanding' = Outstanding \union {WithFailure(held[w])}
<1>t. /\ QueueTypeOK
      /\ api \in [Request -> ApiLabel]
      /\ pc \in [Worker -> PC]
  BY DEF OutcomeInv, TypeInv, TypeOK, WorkerTypeOK
<1>c. Answered /\ ~ Outage /\ ~ Crash /\ Calm
  BY CalmStep DEF OutcomeInv
<1>s. Single /\ hungUp = {}
  BY <1>c DEF OutcomeInv, LifeInv, Calm
<1>Q. UNCHANGED queueVars => Single' /\ Outstanding' = Outstanding
  BY <1>s DEF queueVars, Outstanding, Single
<1> DEFINE PushedFirst(r) ==
               /\ api[r] = "push" /\ api'[r] \in {"create", "done"}
               /\ FirstDelivery(Making(r)) \notin Outstanding
               /\ Outstanding' = Outstanding \union {FirstDelivery(Making(r))}
           PushedNext(w) ==
               /\ RetryPush(w) /\ pc'[w] = "ackRetry"
               /\ WithFailure(held[w]) \notin Outstanding
               /\ Outstanding' = Outstanding \union {WithFailure(held[w])}
<1>1. ASSUME NEW r \in Request, StartRequest(r) \/ ApiStep(r) \/ HangUp(r)
      PROVE  Single' /\ (Outstanding' \subseteq Outstanding \/ PushedFirst(r))
  <2>1. CASE EnqueuePush(r)
    <3>1. FirstDelivery(Making(r)) \in Delivery /\ making[r] \in Modality
      BY MakingIsJob DEF OutcomeInv, TypeInv, TypeOK
    <3>2. /\ api[r] = "push" /\ api'[r] \in {"create", "done"}
          /\ RPush(making[r], FirstDelivery(Making(r)))
      BY <2>1, <1>c, <1>s, <1>t
      DEF EnqueuePush, CallFails, NextJobOrReply, ApiGoTo
    <3>3. FirstDelivery(Making(r)) \notin Outstanding
      BY <1>c, <3>2, FirstIsNew DEF Enqueuing
    <3>4. Single'
      BY <1>s, <1>t, <3>1, <3>2, <3>3, RPushSingle
    <3>5. Outstanding' = Outstanding \union {FirstDelivery(Making(r))}
      BY <1>t, <3>1, <3>2, RPushAdds
    <3> QED
      BY <3>2, <3>3, <3>4, <3>5
  <2>2. CASE ~ EnqueuePush(r)
    BY <1>1, <2>2, <1>Q
    DEF ApiStep, StartRequest, CreateRow, EnqueueCheck, UndoCreate, HangUp
  <2> QED
    BY <2>1, <2>2
<1>2. ASSUME NEW w \in Worker, WorkerStep(w)
      PROVE  Single' /\ (Outstanding' \subseteq Outstanding \/ PushedNext(w))
  <2>q. Serves[w] \in Modality
    BY WorkerAssumption
  <2>1. CASE Dequeue(w) \/ StrayMove(w)
    <3>1. BLMove(Serves[w])
      BY <2>1 DEF Dequeue, StrayMove
    <3>2. Single'
      BY <1>s, <1>t, <2>q, <3>1, BLMoveSingle
    <3>3. Outstanding' = Outstanding
      BY <1>t, <2>q, <3>1, BLMoveKeeps
    <3> QED
      BY <3>2, <3>3
  <2>2. CASE Ack(w) \/ AckRetried(w) \/ FailRemove(w)
    <3>1. LRem(Serves[w], held[w]) /\ pc[w] \in Holding
      BY <2>2, <1>c DEF Ack, AckRetried, FailRemove, At, Holding, PC
    <3>2. held[w] \in ToSet(processing[Serves[w]])
      BY <3>1, HeldIsThere DEF OutcomeInv
    <3>3. Single' /\ Outstanding' = Outstanding \ {held[w]}
      BY <1>s, <1>t, <2>q, <3>1, <3>2, LRemSingle
    <3> QED
      BY <3>3
  <2>3. CASE FailRecord(w)
    <3>1. held[w] \in Delivery
      BY <2>3, HeldIsJob DEF OutcomeInv, FailRecord, At
    <3>2. RPushFailed(Serves[w], held[w])
      BY <2>3, <1>c DEF FailRecord
    <3>3. Outstanding' = Outstanding
      BY <1>t, <2>q, <3>1, <3>2, RPushFailedKeeps
    <3>4. Single'
      BY <1>s, <3>2 DEF RPushFailed, Single
    <3> QED
      BY <3>3, <3>4
  <2>4. CASE RetryPush(w)
    <3>1. pc[w] = "requeue"
      BY <2>4 DEF RetryPush, At
    <3>2. RPush(Serves[w], WithFailure(held[w])) /\ pc'[w] = "ackRetry"
      BY <2>4, <1>c, <1>t DEF RetryPush, GoTo
    <3>3. WithFailure(held[w]) \in Delivery /\ WithFailure(held[w]) \notin Outstanding
      BY <1>c, <3>1, NextIsNew
    <3>4. Single'
      BY <1>s, <1>t, <2>q, <3>2, <3>3, RPushSingle
    <3>5. Outstanding' = Outstanding \union {WithFailure(held[w])}
      BY <1>t, <2>q, <3>2, <3>3, RPushAdds
    <3> QED
      BY <2>4, <3>2, <3>3, <3>4, <3>5
  <2>5. CASE UNCHANGED queueVars
    BY <2>5, <1>Q
  <2> QED
    BY <1>2, <2>1, <2>2, <2>3, <2>4, <2>5
    DEF WorkerStep, Process, LeaveLoop, Begin, Handle, CoordinatorRead, Upsert, Complete,
        MarkDead, NotifyDeadLetter, Finalize, MarkAttemptFailed, RetryCheck
<1>3. ASSUME Stop \/ Exit \/ UNCHANGED vars
      PROVE  Single' /\ Outstanding' \subseteq Outstanding
  BY <1>3, <1>Q DEF Stop, Exit, vars
<1>4. ASSUME Restart
      PROVE  Single' /\ Outstanding' \subseteq Outstanding
  <2>1. Outstanding' = Outstanding
    BY <1>4, <1>t, RestartRecovers
  <2>2. RecoverStale([q \in Modality |-> Len(processing[q])])
    BY <1>4, <1>c DEF Restart
  <2>3. Single'
    BY <1>s, <1>t, <2>2, RecoverSingle
  <2> QED
    BY <2>1, <2>3
<1> HIDE DEF PushedFirst, PushedNext
<1>5. Single' /\ (\/ Outstanding' \subseteq Outstanding
                  \/ \E r \in Request : PushedFirst(r)
                  \/ \E w \in Worker : PushedNext(w))
  BY <1>c, <1>1, <1>2, <1>3, <1>4 DEF Next, WorkerSteps
<1> QED
  BY <1>5 DEF PushedFirst, PushedNext

\* A delivery that waits after a calm step waited before it, or was just enqueued.
LEMMA WaitingStep ==
    ASSUME OutcomeInv, [Next]_vars, Calm', NEW d, Waiting(d)'
    PROVE  \/ d \in Outstanding /\ Waiting(d)
           \/ \E r \in Request : /\ api[r] = "push" /\ api'[r] \in {"create", "done"}
                                 /\ d = FirstDelivery(Making(r))
           \/ \E w \in Worker : /\ RetryPush(w) /\ pc'[w] = "ackRetry"
                                /\ d = WithFailure(held[w])
<1>1. d \in Outstanding'
  BY DEF Waiting
<1>2. ASSUME d \in Outstanding, NEW w \in Worker, pc[w] \in Holding, held[w] = d
      PROVE  FALSE
  <2>1. CASE pc'[w] \in Holding
    <3>1. held'[w] = d
      BY <1>2, <2>1, HeldStays DEF OutcomeInv
    <3> QED
      BY <2>1, <3>1 DEF Waiting
  <2>2. CASE pc'[w] \notin Holding
    <3>1. LRem(Serves[w], d)
      BY <1>2, <2>2, Drops DEF OutcomeInv
    <3>2. d \in ToSet(processing[Serves[w]]) /\ Serves[w] \in Modality
      BY <1>2, HeldIsThere, WorkerAssumption DEF OutcomeInv
    <3>3. Single /\ QueueTypeOK
      BY CalmStep DEF OutcomeInv, LifeInv, TypeInv, TypeOK
    <3>4. Outstanding' = Outstanding \ {d}
      BY <3>1, <3>2, <3>3, LRemSingle
    <3> QED
      BY <1>1, <3>4
  <2> QED
    BY <2>1, <2>2
<1>3. d \in Outstanding => Waiting(d)
  BY <1>2 DEF Waiting
<1> QED
  BY <1>1, <1>3, QueueStep

\* While a worker is at one attempt, only that worker moves the row.
LEMMA WorkerKeepsRow ==
    ASSUME OutcomeInv, [Next]_vars, Calm', NEW w \in Worker, Working(w), ~ WorkerStep(w)
    PROVE  rows'[HeldJob(w)] = rows[HeldJob(w)]
<1>1. HeldJob(w) \in Job /\ rows[HeldJob(w)].status # "none"
  BY TouchedHasRow DEF OutcomeInv
<1>2. Calm
  BY CalmStep DEF OutcomeInv
<1>3. \A r \in Request : Enqueuing(r) => Making(r) # HeldJob(w)
  BY <1>2 DEF OutcomeInv, LifeInv
<1>4. \A v \in Worker : Working(v) /\ HeldJob(v) = HeldJob(w) => v = w
  BY <1>2 DEF OutcomeInv, LifeInv
<1> QED
  BY <1>1, <1>3, <1>4, RowKept

\* While a job is in nobody's hands its row stays.
LEMMA UntouchedKeepsRow ==
    ASSUME OutcomeInv, [Next]_vars, Calm', NEW j \in Job, rows[j].status # "none", Untouched(j)
    PROVE  rows'[j] = rows[j]
BY RowKept DEF Untouched

\* A delivery is waiting alone for its job's next attempt.
LEMMA WaitingNext ==
    ASSUME OutcomeInv, [Next]_vars, Calm', NEW d, Waiting(d)'
    PROVE  (Ready(d) /\ Untouched(d.job))'
<1>c. Calm
  BY CalmStep DEF OutcomeInv
<1>d. d \in Outstanding'
  BY DEF Waiting
<1>1. ASSUME d \in Outstanding, Waiting(d)
      PROVE  Ready(d) /\ Untouched(d.job) /\ rows'[d.job] = rows[d.job] /\ d.job \in Job
  <2>1. Ready(d) /\ Untouched(d.job)
    BY <1>c, <1>1 DEF OutcomeInv, LifeInv
  <2>2. d.job \in Job /\ rows[d.job].status # "none"
    BY <1>1, TouchedHasRow
  <2> QED
    BY <2>1, <2>2, UntouchedKeepsRow
<1>2. ASSUME NEW r \in Request, api[r] = "push", api'[r] \in {"create", "done"},
             d = FirstDelivery(Making(r))
      PROVE  /\ d.job = Making(r) /\ d.attempt = 1
             /\ RowIs(Making(r), "queued", 1) /\ rows'[Making(r)] = rows[Making(r)]
             /\ \A w \in Worker : Working(w) => HeldJob(w) # Making(r)
  <2>1. d.job = Making(r) /\ d.attempt = 1
    BY <1>2 DEF FirstDelivery
  <2>2. /\ RowIs(Making(r), "queued", 1)
        /\ \A w \in Worker : Working(w) => HeldJob(w) # Making(r)
    BY <1>c, <1>2 DEF OutcomeInv, LifeInv, Enqueuing
  <2>3. Making(r) \in Job
    BY MakingIsJob DEF OutcomeInv
  <2>4. ASSUME NEW q \in Request, Making(q) = Making(r)
        PROVE  ~ UndoCreate(q)
    BY <1>2, <2>4 DEF Making, UndoCreate
  <2>5. rows'[Making(r)] = rows[Making(r)]
    BY <2>2, <2>3, <2>4, RowKept DEF RowIs
  <2> QED
    BY <2>1, <2>2, <2>5
<1>3. ASSUME NEW w \in Worker, RetryPush(w), pc'[w] = "ackRetry", d = WithFailure(held[w])
      PROVE  /\ d.job = HeldJob(w) /\ d.attempt = held[w].attempt + 1 /\ d.job \in Job
             /\ RowIs(d.job, "failed", held[w].attempt) /\ rows'[d.job] = rows[d.job]
             /\ Working(w)
  <2>1. pc[w] = "requeue"
    BY <1>3 DEF RetryPush, At
  <2>2. d.job = HeldJob(w) /\ d.attempt = held[w].attempt + 1
    BY <1>c, <1>3, <2>1, NextIsNew
  <2>3. Working(w)
    BY <2>1 DEF Working, Holding, PC
  <2>4. HeldJob(w) \in Job
    BY <2>3, TouchedHasRow
  <2>5. RowIs(d.job, "failed", held[w].attempt)
    BY <1>c, <2>1, <2>2 DEF OutcomeInv, LifeInv, RowAtStage
  <2>6. rows' = rows
    BY <1>3 DEF RetryPush, storeVars
  <2> QED
    BY <2>2, <2>3, <2>4, <2>5, <2>6
<1>4. Ready(d)'
  <2>1. CASE d \in Outstanding /\ Waiting(d)
    BY <1>1, <2>1 DEF Ready
  <2>2. ASSUME NEW r \in Request, api[r] = "push", api'[r] \in {"create", "done"},
               d = FirstDelivery(Making(r))
        PROVE  Ready(d)'
    BY <1>2, <2>2 DEF Ready, RowIs
  <2>3. ASSUME NEW w \in Worker, RetryPush(w), pc'[w] = "ackRetry", d = WithFailure(held[w])
        PROVE  Ready(d)'
    BY <1>3, <2>3 DEF Ready, RowIs
  <2> QED
    BY <2>1, <2>2, <2>3, WaitingStep
<1>5. ASSUME NEW v \in Worker, Working(v)', held'[v].job = d.job
      PROVE  FALSE
  <2>1. CASE Working(v) /\ held'[v] = held[v]
    <3>1. HeldJob(v) = d.job
      BY <1>5, <2>1 DEF HeldJob
    <3>2. ~ (d \in Outstanding /\ Waiting(d))
      BY <1>1, <2>1, <3>1 DEF Untouched
    <3>3. ASSUME NEW r \in Request, api[r] = "push", api'[r] \in {"create", "done"},
                 d = FirstDelivery(Making(r))
          PROVE  FALSE
      BY <1>2, <2>1, <3>1, <3>3
    <3>4. ASSUME NEW w \in Worker, RetryPush(w), pc'[w] = "ackRetry",
                 d = WithFailure(held[w])
          PROVE  FALSE
      <4>1. Working(w) /\ HeldJob(w) = d.job
        BY <1>3, <3>4
      <4>2. v = w
        BY <1>c, <2>1, <3>1, <4>1 DEF OutcomeInv, LifeInv
      <4>3. pc'[v] = "ackRetry"
        BY <3>4, <4>2
      <4> QED
        BY <1>5, <4>3 DEF Working
    <3> QED
      BY <3>2, <3>3, <3>4, WaitingStep
  <2>2. CASE Dequeue(v) /\ pc'[v] = "start" /\ held'[v] \in Outstanding /\ Waiting(held'[v])
    <3> PICK e : e = held'[v]
      OBVIOUS
    <3>1. e \in Outstanding /\ Waiting(e) /\ e.job = d.job /\ Ready(e) /\ Untouched(e.job)
      BY <1>c, <1>5, <2>2 DEF OutcomeInv, LifeInv
    <3>2. CASE d \in Outstanding /\ Waiting(d)
      <4>1. d.attempt = e.attempt
        BY <1>1, <3>1, <3>2 DEF Ready
      <4>2. d \in Delivery /\ e \in Delivery
        BY <3>1, <3>2, TouchedHasRow
      <4>3. d = e
        BY <3>1, <4>1, <4>2 DEF Delivery
      <4>4. pc'[v] \in Holding /\ held'[v] = d
        BY <2>2, <4>3 DEF Holding, PC
      <4> QED
        BY <4>4 DEF Waiting
    <3>3. ASSUME NEW r \in Request, api[r] = "push", api'[r] \in {"create", "done"},
                 d = FirstDelivery(Making(r))
          PROVE  FALSE
      BY <1>2, <3>1, <3>3 DEF Untouched, Enqueuing
    <3>4. ASSUME NEW w \in Worker, RetryPush(w), pc'[w] = "ackRetry",
                 d = WithFailure(held[w])
          PROVE  FALSE
      BY <1>3, <3>1, <3>4 DEF Untouched
    <3> QED
      BY <3>2, <3>3, <3>4, WaitingStep
  <2> QED
    BY <1>5, <2>1, <2>2, WorkingStep
<1>6. ASSUME NEW r \in Request, Enqueuing(r)', Making(r)' = d.job
      PROVE  FALSE
  <2>1. /\ Making(r) = d.job
        /\ \/ Enqueuing(r)
           \/ api[r] = "create" /\ rows[d.job].status = "none"
    BY <1>c, <1>6, EnqueuingStep, CreatesNew
  <2>2. ~ (d \in Outstanding /\ Waiting(d))
    <3>1. d \in Outstanding => rows[d.job].status # "none"
      BY TouchedHasRow
    <3> QED
      BY <1>1, <2>1, <3>1 DEF Untouched
  <2>3. ASSUME NEW q \in Request, api[q] = "push", api'[q] \in {"create", "done"},
               d = FirstDelivery(Making(q))
        PROVE  FALSE
    <3>1. q = r
      BY <1>2, <2>1, <2>3 DEF Making
    <3> QED
      BY <1>6, <2>3, <3>1 DEF Enqueuing
  <2>4. ASSUME NEW w \in Worker, RetryPush(w), pc'[w] = "ackRetry", d = WithFailure(held[w])
        PROVE  FALSE
    <3>1. Working(w) /\ HeldJob(w) = d.job /\ rows[d.job].status # "none"
      BY <1>3, <2>4 DEF RowIs
    <3> QED
      BY <1>c, <2>1, <3>1 DEF OutcomeInv, LifeInv
  <2> QED
    BY <2>2, <2>3, <2>4, WaitingStep
<1> QED
  BY <1>4, <1>5, <1>6 DEF Untouched, HeldJob

\* Where a worker stands fixes what its job's row says.
LEMMA RowAtStageNext ==
    ASSUME OutcomeInv, [Next]_vars, Calm', NEW w \in Worker
    PROVE  RowAtStage(w)'
<1>t. /\ pc \in [Worker -> PC]
      /\ rows \in [Job -> Row]
  BY DEF OutcomeInv, TypeInv, TypeOK, WorkerTypeOK, StoreTypeOK
<1>c. Calm /\ ~ Outage /\ RowAtStage(w)
  BY CalmStep DEF OutcomeInv, LifeInv
<1>h. Working(w) \/ pc[w] = "ackRetry" =>
        /\ held[w] \in Delivery /\ HeldJob(w) \in Job /\ held[w].job = HeldJob(w)
        /\ held[w].attempt \in Nat
        /\ rows[HeldJob(w)].status # "none"
  BY TouchedHasRow
<1>1. CASE pc'[w] = pc[w] /\ Working(w)
  <2>1. ~ WorkerStep(w)
    <3>1. CASE pc[w] \in Holding
      BY <1>1, <3>1, Moves DEF OutcomeInv
    <3>2. CASE pc[w] = "complete"
      BY <1>1, <1>t, <3>2
      DEF WorkerStep, Process, Dequeue, LeaveLoop, StrayMove, Begin, Handle, CoordinatorRead,
          Upsert, Ack, Complete, MarkDead, NotifyDeadLetter, Finalize, FailRemove, FailRecord,
          MarkAttemptFailed, RetryCheck, RetryPush, AckRetried, At, Release
    <3> QED
      BY <1>1, <3>1, <3>2 DEF Working
  <2>2. rows'[HeldJob(w)] = rows[HeldJob(w)]
    BY <1>1, <2>1, WorkerKeepsRow
  <2>3. held'[w] = held[w]
    <3>1. Working(w)'
      BY <1>1 DEF Working
    <3>2. pc[w] # "idle"
      BY <1>1 DEF Working, Holding
    <3> QED
      BY <3>1, <3>2, WorkingStep DEF Dequeue, At
  <2>4. held[w].job = HeldJob(w) /\ pc[w] # "ackRetry"
    BY <1>1, <1>h DEF Working
  <2> QED
    BY <1>1, <1>c, <2>2, <2>3, <2>4 DEF RowAtStage, Ready, RowIs, HeldJob
<1>2. CASE pc'[w] = "ackRetry"
  <2>1. held'[w] = held[w] /\ pc[w] \in {"ackRetry", "requeue"}
    BY <1>2, ReachesAck DEF OutcomeInv
  <2>2. Working(w) \/ pc[w] = "ackRetry"
    BY <2>1 DEF Working, Holding, PC
  <2>d. PICK d : d = held[w]
    OBVIOUS
  <2>3. Passed(d)
    <3>1. CASE pc[w] = "ackRetry"
      BY <1>c, <2>d, <3>1 DEF RowAtStage
    <3>2. CASE pc[w] = "requeue"
      BY <1>c, <1>h, <2>2, <2>d, <3>2 DEF RowAtStage, RowIs, Passed
    <3> QED
      BY <2>1, <3>1, <3>2
  <2>4. Passed(d)'
    BY <1>h, <2>2, <2>d, <2>3, PassedStays
  <2> QED
    BY <1>2, <2>1, <2>d, <2>4 DEF RowAtStage, Passed, Running
<1>3. CASE pc'[w] = "complete" /\ pc[w] # "complete"
  <2>1. held'[w] = held[w] /\ pc[w] = "ack"
    BY <1>3, ReachesAck DEF OutcomeInv
  <2>2. Working(w)
    BY <2>1 DEF Working, Holding, PC
  <2>3. rows'[HeldJob(w)] = rows[HeldJob(w)]
    <3>1. CASE ~ WorkerStep(w)
      BY <2>2, <3>1, WorkerKeepsRow
    <3>2. CASE WorkerStep(w)
      BY <2>1, <3>2
      DEF WorkerStep, Process, Dequeue, LeaveLoop, StrayMove, Begin, Handle, CoordinatorRead,
          Upsert, Ack, Complete, MarkDead, NotifyDeadLetter, Finalize, FailRemove, FailRecord,
          MarkAttemptFailed, RetryCheck, RetryPush, AckRetried, At, storeVars
    <3> QED
      BY <3>1, <3>2
  <2>4. RowIs(HeldJob(w), "processing", held[w].attempt)
    BY <1>c, <2>1 DEF RowAtStage, Running
  <2> QED
    BY <1>3, <2>1, <2>3, <2>4 DEF RowAtStage, RowIs, HeldJob
<1>4. CASE Dequeue(w) /\ pc'[w] = "start"
  <2>1. PICK d : d = held'[w]
    OBVIOUS
  <2>2. d \in Outstanding /\ Waiting(d)
    <3>1. Working(w)'
      BY <1>4 DEF Working, Holding, PC
    <3>2. pc[w] = "idle"
      BY <1>4 DEF Dequeue, At
    <3> QED
      BY <2>1, <3>1, <3>2, WorkingStep DEF Working, Holding
  <2>3. Ready(d) /\ Untouched(d.job)
    BY <1>c, <2>2 DEF OutcomeInv, LifeInv
  <2>4. rows'[d.job] = rows[d.job]
    BY <2>2, <2>3, TouchedHasRow, UntouchedKeepsRow
  <2> QED
    BY <1>4, <2>1, <2>3, <2>4 DEF RowAtStage, Ready, Running
<1>5. CASE /\ pc'[w] \in Holding /\ pc'[w] # pc[w] /\ pc'[w] # "ackRetry"
           /\ ~ (Dequeue(w) /\ pc'[w] = "start")
  <2>1. held'[w] = held[w] /\ HeldJob(w) \in Job /\ held[w].job = HeldJob(w)
    <3>1. Working(w)'
      BY <1>5 DEF Working
    <3>2. Working(w) /\ held'[w] = held[w]
      BY <1>5, <3>1, WorkingStep
    <3> QED
      BY <1>h, <3>2
  <2>2. CASE Begin(w) /\ pc[w] = "start" /\ pc'[w] \in {"handle", "dead"}
    <3>1. CASE HeldJob(w) \in Corrupt
      <4>1. rows' = rows /\ pc'[w] = "dead"
        BY <1>t, <2>2, <3>1 DEF Begin, GoTo
      <4>2. rows[HeldJob(w)].status \in {"queued", "failed"}
        BY <1>c, <2>1, <2>2 DEF RowAtStage, Ready
      <4>3. rows[HeldJob(w)].status # "failed"
        BY <3>1 DEF OutcomeInv, SettlingInv
      <4> QED
        BY <2>1, <4>1, <4>2, <4>3 DEF RowAtStage, Running, HeldJob
    <3>2. CASE HeldJob(w) \notin Corrupt
      <4>1. MarkProcessing(held[w]) /\ pc'[w] = "handle"
        BY <1>t, <1>c, <2>2, <3>2 DEF Begin, GoTo, BestEffort
      <4>2. rows'[HeldJob(w)] = [status |-> "processing", attempt |-> held[w].attempt]
        BY <1>t, <2>1, <4>1 DEF MarkProcessing
      <4> QED
        BY <2>1, <4>1, <4>2 DEF RowAtStage, RowIs, HeldJob
    <3> QED
      BY <3>1, <3>2
  <2>3. CASE MarkAttemptFailed(w) /\ pc[w] = "failed" /\ pc'[w] = "backoff"
    <3>1. MarkFailed(held[w])
      BY <1>c, <2>3 DEF MarkAttemptFailed, BestEffort
    <3>2. rows'[HeldJob(w)] = [status |-> "failed", attempt |-> held[w].attempt]
      BY <1>t, <2>1, <3>1 DEF MarkFailed
    <3> QED
      BY <2>1, <2>3, <3>2 DEF RowAtStage, RowIs, HeldJob, Running
  <2>4. CASE \/ Handle(w) /\ pc[w] = "handle" /\ pc'[w] \in {"check", "failed", "dead"}
             \/ CoordinatorRead(w) /\ pc[w] = "check" /\ pc'[w] \in {"upsert", "failed", "dead"}
             \/ Upsert(w) /\ pc[w] = "upsert" /\ pc'[w] \in {"ack", "failed", "dead"}
    <3>1. rows' = rows
      BY <2>4 DEF Handle, CoordinatorRead, Upsert, storeVars
    <3>2. RowIs(HeldJob(w), "processing", held[w].attempt)
      BY <1>c, <2>4 DEF RowAtStage, Running
    <3>3. pc'[w] \in {"check", "upsert", "ack", "failed", "dead"}
      BY <2>4
    <3> QED
      BY <2>1, <3>1, <3>2, <3>3 DEF RowAtStage, RowIs, HeldJob, Running
  <2>5. CASE RetryCheck(w) /\ pc[w] = "backoff" /\ pc'[w] \in {"requeue", "remove"}
    <3>1. rows' = rows
      BY <2>5 DEF RetryCheck, storeVars
    <3>2. RowIs(HeldJob(w), "failed", held[w].attempt)
      BY <1>c, <2>5 DEF RowAtStage
    <3> QED
      BY <2>1, <2>5, <3>1, <3>2 DEF RowAtStage, RowIs, HeldJob, Running
  <2>6. CASE pc'[w] \in {"notify", "finalize", "remove"}
    BY <2>6 DEF RowAtStage, Running
  <2> QED
    BY <1>5, <2>2, <2>3, <2>4, <2>5, <2>6, LabelStep DEF OutcomeInv
<1>6. CASE pc'[w] \notin Holding /\ pc'[w] # "complete"
  BY <1>6 DEF RowAtStage, Running, Holding, PC
<1> QED
  BY <1>1, <1>2, <1>3, <1>4, <1>5, <1>6 DEF Working

\* A job is with one worker at a time, or with its handler.
LEMMA OneAtATime ==
    ASSUME OutcomeInv, [Next]_vars, Calm', NEW w \in Worker, Working(w)'
    PROVE  /\ \A v \in Worker : Working(v)' /\ HeldJob(v)' = HeldJob(w)' => v = w
           /\ \A r \in Request : Enqueuing(r)' => Making(r)' # HeldJob(w)'
<1>c. Calm
  BY CalmStep DEF OutcomeInv
<1>1. ASSUME NEW v \in Worker, Working(v)
      PROVE  HeldJob(v) \in Job /\ rows[HeldJob(v)].status # "none"
  BY <1>1, TouchedHasRow
<1>2. ASSUME NEW v \in Worker, NEW u \in Worker, Working(v)', Working(u)', u # v,
             held'[v].job = held'[u].job, Working(v), held'[v] = held[v]
      PROVE  FALSE
  <2>1. CASE Working(u) /\ held'[u] = held[u]
    BY <1>c, <1>2, <2>1 DEF OutcomeInv, LifeInv, HeldJob
  <2>2. CASE held'[u] \in Outstanding /\ Waiting(held'[u])
    BY <1>c, <1>2, <2>2 DEF OutcomeInv, LifeInv, HeldJob, Untouched
  <2> QED
    BY <1>2, <2>1, <2>2, WorkingStep
<1>3. ASSUME NEW v \in Worker, Working(v)', held'[v].job = held'[w].job, v # w
      PROVE  FALSE
  <2>1. ~ (Dequeue(v) /\ Dequeue(w) /\ pc'[v] = "start" /\ pc'[w] = "start")
    <3>1. WorkerStep(v) => pc'[w] = pc[w]
      BY <1>3, WorkerFrame DEF OutcomeInv
    <3> QED
      BY <3>1 DEF WorkerStep, Dequeue, At
  <2> QED
    BY <1>2, <1>3, <2>1, WorkingStep
<1>4. ASSUME NEW r \in Request, Enqueuing(r)', Making(r)' = held'[w].job
      PROVE  FALSE
  <2>1. /\ Making(r) = held'[w].job
        /\ Enqueuing(r) \/ (api[r] = "create" /\ rows[Making(r)].status = "none")
    BY <1>c, <1>4, EnqueuingStep, CreatesNew
  <2>2. CASE Working(w) /\ held'[w] = held[w]
    BY <1>c, <1>1, <2>1, <2>2 DEF OutcomeInv, LifeInv, HeldJob
  <2>3. CASE held'[w] \in Outstanding /\ Waiting(held'[w])
    <3>1. rows[held'[w].job].status # "none"
      BY <2>3, TouchedHasRow
    <3> QED
      BY <1>c, <2>1, <2>3, <3>1 DEF OutcomeInv, LifeInv, Untouched
  <2> QED
    BY <2>2, <2>3, WorkingStep
<1> QED
  BY <1>3, <1>4 DEF HeldJob

\* What the handlers' jobs have on record.
LEMMA HandlersNext ==
    ASSUME OutcomeInv, [Next]_vars, Calm'
    PROVE  /\ \A r \in Request : Enqueuing(r)' => RowIs(Making(r), "queued", 1)'
           /\ \A j \in Job : ToCome(j)' => rows'[j].status = "none"
           /\ \A j \in Job : rows'[j].status = "queued" => rows'[j].attempt = 1
<1>t. rows \in [Job -> Row]
  BY DEF OutcomeInv, TypeInv, TypeOK, StoreTypeOK
<1>c. Calm /\ ~ Outage /\ ~ Crash
  BY CalmStep DEF OutcomeInv
<1>1. ASSUME NEW r \in Request, Enqueuing(r)'
      PROVE  RowIs(Making(r), "queued", 1)'
  <2>1. Making(r)' = Making(r) /\ Making(r) \in Job
    BY <1>1, EnqueuingStep, MakingIsJob DEF OutcomeInv
  <2>2. CASE Enqueuing(r) /\ ~ UndoCreate(r)
    <3>1. /\ RowIs(Making(r), "queued", 1)
          /\ \A w \in Worker : Working(w) => HeldJob(w) # Making(r)
      BY <1>c, <2>2 DEF OutcomeInv, LifeInv
    <3>2. ASSUME NEW q \in Request, Making(q) = Making(r)
          PROVE  q = r
      BY <3>2 DEF Making
    <3>3. rows'[Making(r)] = rows[Making(r)]
      BY <2>1, <2>2, <3>1, <3>2, RowKept DEF RowIs
    <3> QED
      BY <2>1, <3>1, <3>3 DEF RowIs
  <2>3. CASE InsertRow(Making(r))
    BY <1>t, <2>1, <2>3 DEF InsertRow, RowIs
  <2> QED
    BY <1>1, <2>2, <2>3, EnqueuingStep
<1>2. ASSUME NEW j \in Job, ToCome(j)'
      PROVE  rows'[j].status = "none"
  <2>1. ToCome(j)
    BY <1>2, ToComeStep DEF OutcomeInv
  <2>2. rows[j].status = "none"
    BY <1>c, <2>1 DEF OutcomeInv, LifeInv
  <2>3. ASSUME rows'[j] # rows[j]
        PROVE  FALSE
    <3>1. ASSUME NEW w \in Worker, HeldJob(w) = j, Working(w)
          PROVE  FALSE
      BY <2>2, <3>1, TouchedHasRow
    <3>2. ASSUME NEW r \in Request, Making(r) = j, Enqueuing(r)
          PROVE  FALSE
      BY <1>c, <2>2, <3>2 DEF OutcomeInv, LifeInv, RowIs
    <3>3. ASSUME NEW r \in Request, Making(r) = j, CreateRow(r), Writes(j, "queued", 1)
          PROVE  FALSE
      <4>1. api[r] = "create" /\ api'[r] = "check" /\ making' = making
        BY <1>c, <3>3
        DEF CreateRow, ApiGoTo, CallFails, Calm, OutcomeInv, TypeInv, TypeOK
      <4> QED
        BY <1>2, <3>3, <4>1 DEF ToCome, Making
    <3> QED
      BY <2>3, <3>1, <3>2, <3>3, Writers
  <2> QED
    BY <2>2, <2>3
<1>3. ASSUME NEW j \in Job, rows'[j].status = "queued"
      PROVE  rows'[j].attempt = 1
  <2>1. CASE rows'[j] = rows[j]
    BY <1>c, <1>3, <2>1 DEF OutcomeInv, LifeInv
  <2>2. CASE rows'[j] # rows[j]
    BY <1>3, <2>2, Writers DEF RowMoves, Writes
  <2> QED
    BY <2>1, <2>2
<1> QED
  BY <1>1, <1>2, <1>3

\* Nothing has begun.
LEMMA LifeInit == Init => LifeInv
<1> SUFFICES ASSUME Init PROVE LifeInv
  OBVIOUS
<1>1. \A q \in Modality : pending[q] = <<>> /\ processing[q] = <<>>
  BY DEF Init, QueueInit
<1>2. ToSet(<<>>) = {} /\ IsInjective(<<>>)
  BY DEF ToSet, IsInjective
<1>3. Outstanding = {} /\ Single
  BY <1>1, <1>2 DEF Outstanding, Single
<1>4. \A w \in Worker : pc[w] = "idle"
  BY DEF Init, WorkerInit
<1>5. \A j \in Job : rows[j].status = "none"
  BY DEF Init, StoreInit
<1>6. \A r \in Request : ~ Enqueuing(r)
  BY DEF Init, Enqueuing
<1>7. \A w \in Worker : ~ Working(w) /\ RowAtStage(w)
  BY <1>4 DEF Working, Holding, RowAtStage, Running
<1> QED
  BY <1>3, <1>5, <1>6, <1>7 DEF LifeInv, Init

\* Every step keeps the invariant, conjunct by conjunct.
LEMMA LifeNext == OutcomeInv /\ [Next]_vars => LifeInv'
<1> SUFFICES ASSUME OutcomeInv, [Next]_vars, Calm'
             PROVE  LifeInv'
  BY DEF LifeInv
<1>1. Single'
  BY QueueStep
<1>2. \A d \in Outstanding' : Waiting(d)' => (Ready(d) /\ Untouched(d.job))'
  BY WaitingNext
<1>3. \A w \in Worker : RowAtStage(w)'
  BY RowAtStageNext
<1>4. \A w \in Worker : Working(w)' =>
        /\ \A v \in Worker : Working(v)' /\ HeldJob(v)' = HeldJob(w)' => v = w
        /\ \A r \in Request : Enqueuing(r)' => Making(r)' # HeldJob(w)'
  BY OneAtATime
<1> QED
  BY <1>1, <1>2, <1>3, <1>4, HandlersNext DEF LifeInv

\* The invariant, with all it rests on, holds throughout.
LEMMA LifeInvariant == Spec => []OutcomeInv
<1>1. Init => OutcomeInv
  BY TypeInit, InFlightInit, RowInit, SettlingInit, DownInit, LifeInit DEF OutcomeInv
<1>2. OutcomeInv /\ [Next]_vars => OutcomeInv'
  <2> SUFFICES ASSUME OutcomeInv, [Next]_vars
               PROVE  OutcomeInv'
    OBVIOUS
  <2>1. TypeInv' /\ InFlightInv' /\ RowInv' /\ SettlingInv' /\ DownInv'
    BY TypeNext, InFlightNext, RowNext, SettlingNext, DownNext DEF OutcomeInv
  <2>2. LifeInv'
    BY LifeNext
  <2> QED
    BY <2>1, <2>2 DEF OutcomeInv
<1> QED
  BY <1>1, <1>2, PTL DEF Spec

\* Until a call fails, a client hangs up or the process crashes, no delivery is in the
\* queues twice, and no two workers are at the current attempt of one job, however the
\* workers interleave and whatever retries and graceful restarts there are
\* (queue/redis.go; worker.go, process).
THEOREM JobsRunOnceAtATime ==
    Spec => [](Calm => /\ Single
                       /\ \A v, w \in Worker :
                             Working(v) /\ Working(w) /\ HeldJob(v) = HeldJob(w) => v = w)
BY LifeInvariant, PTL DEF OutcomeInv, LifeInv

\* One statement writes one row.
LEMMA OneRow ==
    ASSUME TypeInv, [Next]_vars
    PROVE  \E j : \A k \in Job : k # j => rows'[k] = rows[k]
<1>t. rows \in [Job -> Row]
  BY DEF TypeInv, TypeOK, StoreTypeOK
<1>1. ASSUME NEW j,
             \/ UNCHANGED rows \/ InsertRow(j) \/ MarkCompleted(j) \/ MarkDeadLetter(j)
             \/ \E d : d.job = j /\ (MarkProcessing(d) \/ MarkFailed(d))
      PROVE  \A k \in Job : k # j => rows'[k] = rows[k]
  BY <1>1, <1>t DEF InsertRow, MarkCompleted, MarkDeadLetter, MarkProcessing, MarkFailed
<1>2. ASSUME NEW w \in Worker, WorkerStep(w)
      PROVE  \/ UNCHANGED rows \/ InsertRow(HeldJob(w)) \/ MarkCompleted(HeldJob(w))
             \/ MarkDeadLetter(HeldJob(w))
             \/ \E d : d.job = HeldJob(w) /\ (MarkProcessing(d) \/ MarkFailed(d))
  BY <1>2
  DEF WorkerStep, Process, Dequeue, LeaveLoop, StrayMove, Begin, Handle, CoordinatorRead,
      Upsert, Ack, Complete, MarkDead, NotifyDeadLetter, Finalize, FailRemove, FailRecord,
      MarkAttemptFailed, RetryCheck, RetryPush, AckRetried, BestEffort, storeVars, HeldJob
<1>3. ASSUME NEW r \in Request, StartRequest(r) \/ ApiStep(r) \/ HangUp(r)
      PROVE  UNCHANGED rows \/ InsertRow(Making(r)) \/ MarkDeadLetter(Making(r))
  BY <1>3
  DEF StartRequest, ApiStep, CreateRow, EnqueueCheck, EnqueuePush, UndoCreate, HangUp,
      storeVars
<1>4. CASE UNCHANGED vars \/ Stop \/ Exit \/ Crash \/ Restart
  BY <1>4 DEF vars, storeVars, Stop, Exit, Crash, Restart
<1>5. CASE \E w \in Worker : WorkerStep(w)
  BY <1>1, <1>2, <1>5
<1>6. CASE \E r \in Request : StartRequest(r) \/ ApiStep(r) \/ HangUp(r)
  BY <1>1, <1>3, <1>6
<1> QED
  BY <1>4, <1>5, <1>6 DEF Next, WorkerSteps

\* No row is there at first.
LEMMA LifecycleInit == Init => Lifecycle!Init
BY DEF Init, StoreInit, Lifecycle!Init

\* A calm step is a step of the life cycle, or leaves the rows alone.
LEMMA LifecycleStep ==
    ASSUME OutcomeInv, [Next]_vars, Calm'
    PROVE  [Lifecycle!Next]_(Lifecycle!lifecycleVars)
<1>1. CASE \A j \in Job : rows'[j] = rows[j]
  BY <1>1 DEF Lifecycle!lifecycleVars
<1>2. CASE \E j \in Job : rows'[j] # rows[j]
  <2>1. PICK j \in Job : rows'[j] # rows[j]
    BY <1>2
  <2>2. \A k \in Job : k # j => rows'[k] = rows[k]
    BY <2>1, OneRow DEF OutcomeInv
  <2>3. RowMoves(j)
    BY <2>1, Writers
  <2>4. CASE rows[j].status = "none" /\ Writes(j, "queued", 1)
    <3>1. Lifecycle!Create(j)
      BY <2>2, <2>4 DEF Writes, Lifecycle!Create, Lifecycle!Becomes
    <3> QED
      BY <3>1 DEF Lifecycle!Next
  <2>5. CASE rows[j].status = "queued" /\ Writes(j, "processing", 1)
    <3>1. Lifecycle!PickUp(j)
      BY <2>2, <2>5 DEF Writes, Lifecycle!PickUp, Lifecycle!Becomes
    <3> QED
      BY <3>1 DEF Lifecycle!Next, Lifecycle!Progress
  <2>6. CASE rows[j].status = "failed" /\ Writes(j, "processing", rows[j].attempt + 1)
    <3>1. Lifecycle!PickUp(j)
      BY <2>2, <2>6 DEF Writes, Lifecycle!PickUp, Lifecycle!Becomes
    <3> QED
      BY <3>1 DEF Lifecycle!Next, Lifecycle!Progress
  <2>7. CASE /\ rows[j].status = "processing" /\ rows[j].attempt < MaxAttempts
             /\ Writes(j, "failed", rows[j].attempt)
    <3>1. Lifecycle!Fail(j)
      BY <2>2, <2>7 DEF Writes, Lifecycle!Fail, Lifecycle!Becomes
    <3> QED
      BY <3>1 DEF Lifecycle!Next, Lifecycle!Progress
  <2>8. CASE rows[j].status = "processing" /\ Writes(j, "completed", rows[j].attempt)
    <3>1. Lifecycle!Complete(j)
      BY <2>2, <2>8 DEF Writes, Lifecycle!Complete, Lifecycle!Becomes
    <3> QED
      BY <3>1 DEF Lifecycle!Next, Lifecycle!Progress
  <2>9. CASE /\ rows[j].status \in {"queued", "processing"}
             /\ Writes(j, "dead_letter", rows[j].attempt)
    <3>1. Lifecycle!GiveUp(j) \/ Lifecycle!Refuse(j)
      BY <2>2, <2>9 DEF Writes, Lifecycle!GiveUp, Lifecycle!Refuse, Lifecycle!Becomes
    <3> QED
      BY <3>1 DEF Lifecycle!Next, Lifecycle!Progress
  <2> QED
    BY <2>3, <2>4, <2>5, <2>6, <2>7, <2>8, <2>9 DEF RowMoves
<1> QED
  BY <1>1, <1>2

\* Until a call fails, a client hangs up or the process crashes, every step of the pipeline
\* moves at most one of the rows that clients poll, and moves it as JobLifecycle promises:
\* from queued to processing, on to completed, failed for a next attempt or dead_letter,
\* with the attempts counting up one by one (worker.go, process; handlers/analysisjobs.go).
THEOREM RowsMoveAsPromised ==
    Spec => Lifecycle!Init /\ [][Calm' => [Lifecycle!Next]_(Lifecycle!lifecycleVars)]_vars
<1>1. OutcomeInv /\ [Next]_vars => [Calm' => [Lifecycle!Next]_(Lifecycle!lifecycleVars)]_vars
  BY LifecycleStep
<1> QED
  BY <1>1, LifecycleInit, LifeInvariant, PTL DEF Spec

\* Where all calls are answered, nobody hangs up and nothing crashes, the pipeline
\* implements JobLifecycle but for its fairness, for any requests, workers, capacity,
\* attempts and number of graceful restarts (RowsFollowLifecycle adds the fairness).
THEOREM LifecycleIsImplemented ==
    ASSUME MaxOutages = 0, MaxCrashes = 0, Impatient = {}
    PROVE  Spec => Lifecycle!Init /\ [][Lifecycle!Next]_(Lifecycle!lifecycleVars)
<1>1. OutcomeInv /\ OutcomeInv' /\ [Next]_vars => [Lifecycle!Next]_(Lifecycle!lifecycleVars)
  <2> SUFFICES ASSUME OutcomeInv, OutcomeInv', [Next]_vars
               PROVE  [Lifecycle!Next]_(Lifecycle!lifecycleVars)
    OBVIOUS
  <2>1. Calm'
    BY DEF OutcomeInv, TypeInv, TypeOK, Calm
  <2> QED
    BY <2>1, LifecycleStep
<1> QED
  BY <1>1, LifecycleInit, LifeInvariant, PTL DEF Spec

\* What TerminalIsForever promises holds until a call fails, a client hangs up or the
\* process crashes: a terminal row is rewritten only after that (jobs/repository.go,
\* IsTerminal).
THEOREM TerminalUntilFault ==
    Spec => [][Calm' => \A j \in Job :
                  IsTerminal(rows[j].status) => rows'[j] = rows[j]]_vars
<1>1. ASSUME OutcomeInv, [Next]_vars, Calm', NEW j \in Job, IsTerminal(rows[j].status)
      PROVE  rows'[j] = rows[j]
  BY <1>1, Writers DEF RowMoves, IsTerminal
<1>2. OutcomeInv /\ [Next]_vars =>
        [Calm' => \A j \in Job : IsTerminal(rows[j].status) => rows'[j] = rows[j]]_vars
  BY <1>1
<1> QED
  BY <1>2, LifeInvariant, PTL DEF Spec

=============================================================================
