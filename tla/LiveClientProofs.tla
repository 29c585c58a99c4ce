-------------------------- MODULE LiveClientProofs --------------------------
(***************************************************************************)
(* Theorems about a live session and its sockets, for any number of        *)
(* sockets and workers and any sizes of queues, channels and limits.       *)
(***************************************************************************)
EXTENDS LiveClient, SequenceLemmas

----------------------------------------------------------------------------
(* Type correctness, the bounds of the queues and channels included.       *)

\* A worker that emits has a message to emit.
EmitOK == \A w \in LiveWorker : pc[w] = "emit" => batch[w] # <<>>

LiveTypeInv == LiveTypeOK /\ EmitOK

\* What a worker emits is a sequence of message types.
LEMMA ResultMessagesType ==
    ASSUME NEW m \in Media
    PROVE  /\ ResultMessages(m) \in Seq(MessageType)
           /\ ResultMessages(m) # <<>>
           /\ <<"error">> \in Seq(MessageType)
           /\ <<"error">> # <<>>
<1>1. /\ <<"video_result", "temporal_result", "risk_update">> \in Seq(MessageType)
      /\ <<"audio_result", "risk_update">> \in Seq(MessageType)
      /\ <<"error">> \in Seq(MessageType)
  BY DEF MessageType
<1>2. ResultMessages(m) \in Seq(MessageType)
  BY <1>1 DEF ResultMessages
<1>3. \A s \in Seq(MessageType) : Len(s) # 0 => s # <<>>
  BY EmptySeq
<1>4. Len(ResultMessages(m)) # 0 /\ Len(<<"error">>) # 0
  BY DEF ResultMessages
<1> QED
  BY <1>1, <1>2, <1>3, <1>4

\* A new session is well typed.
LEMMA LiveTypeInit == LiveInit => LiveTypeInv
<1> SUFFICES ASSUME LiveInit PROVE LiveTypeInv
  OBVIOUS
<1> USE SessionAssumption, ClientAssumption DEF LiveInit, SessionInit
<1>1. SessionTypeOK
  <2>1. <<>> \in Seq(Nat) /\ <<>> \in Seq(MessageType) /\ Len(<<>>) = 0
    OBVIOUS
  <2>2. \A m \in Media : Len(queue[m]) <= MaxQueue[m]
    BY <2>1
  <2>3. queue \in [Media -> Seq(Nat)] /\ batch \in [LiveWorker -> Seq(MessageType)]
    BY <2>1
  <2>4. pc \in [LiveWorker -> {"select", "analyze", "emit", "gone"}]
    OBVIOUS
  <2>5. /\ count \in [Media -> Nat]
        /\ dropped \in [Media -> SUBSET Nat]
        /\ taken \in [Media -> SUBSET Nat]
        /\ out \in 0 .. OutBuffer
        /\ built \in [LiveWorker -> Nat]
    OBVIOUS
  <2> QED
    BY <2>2, <2>3, <2>4, <2>5 DEF SessionTypeOK
<1>2. EmitOK
  BY DEF EmitOK
<1> QED
  BY <1>1, <1>2 DEF LiveTypeInv, LiveTypeOK, HandlerLabel, Result, NoItem, Media

\* Adding to a queue that has room, and taking from one that is not empty, keep it
\* within its bound.
LEMMA QueueType ==
    ASSUME SessionTypeOK, NEW m \in Media
    PROVE  /\ \A n \in Nat : HasRoom(m) =>
                 /\ [queue EXCEPT ![m] = Append(@, n)] \in [Media -> Seq(Nat)]
                 /\ Len(Append(queue[m], n)) <= MaxQueue[m]
           /\ queue[m] # <<>> =>
                 /\ Head(queue[m]) \in Nat
                 /\ [queue EXCEPT ![m] = Tail(@)] \in [Media -> Seq(Nat)]
                 /\ Len(Tail(queue[m])) <= MaxQueue[m]
<1>1. queue[m] \in Seq(Nat) /\ Len(queue[m]) <= MaxQueue[m] /\ MaxQueue[m] \in Nat
  BY SessionAssumption DEF SessionTypeOK
<1>2. ASSUME NEW n \in Nat, HasRoom(m)
      PROVE  Append(queue[m], n) \in Seq(Nat) /\ Len(Append(queue[m], n)) <= MaxQueue[m]
  BY <1>1, <1>2, AppendProperties, LenProperties DEF HasRoom
<1>3. ASSUME queue[m] # <<>>
      PROVE  /\ Head(queue[m]) \in Nat
             /\ Tail(queue[m]) \in Seq(Nat)
             /\ Len(Tail(queue[m])) <= MaxQueue[m]
  BY <1>1, <1>3, HeadTailProperties, LenProperties
<1> QED
  BY <1>2, <1>3 DEF SessionTypeOK

\* The session's part of the type invariant.
SessionTypeInv == SessionTypeOK /\ EmitOK

\* A step of a worker keeps the session well typed.
LEMMA WorkerStepType ==
    ASSUME SessionTypeInv, NEW w \in LiveWorker, LiveWorkerStep(w)
    PROVE  SessionTypeInv'
<1> USE DEF SessionTypeInv, endVars, feedVars, scoreVars
<1>0. Feeds[w] \in Media
  BY SessionAssumption
<1>1. CASE Take(w)
  <2>1. /\ queue' \in [Media -> Seq(Nat)]
        /\ Head(queue[Feeds[w]]) \in Nat
        /\ \A m \in Media : Len(queue'[m]) <= MaxQueue[m]
    BY <1>0, <1>1, QueueType DEF Take, SessionTypeOK
  <2>2. taken' \in [Media -> SUBSET Nat]
    BY <1>0, <1>1, <2>1 DEF Take, SessionTypeOK
  <2>3. EmitOK'
    BY <1>1 DEF Take, EmitOK, SessionTypeOK
  <2> QED
    BY <1>1, <2>1, <2>2, <2>3 DEF Take, SessionTypeOK
<1>2. CASE Leave(w)
  BY <1>2 DEF Leave, SessionTypeOK, EmitOK
<1>3. CASE Fold(w)
  BY <1>0, <1>3, ResultMessagesType DEF Fold, SessionTypeOK, EmitOK
<1>4. CASE Fails(w)
  BY <1>0, <1>4, ResultMessagesType DEF Fails, SessionTypeOK, EmitOK
<1>5. CASE Emit(w)
  <2>1. batch[w] \in Seq(MessageType) /\ batch[w] # <<>>
    BY <1>5 DEF Emit, EmitOK, SessionTypeOK
  <2>2. Tail(batch[w]) \in Seq(MessageType)
    BY <2>1, HeadTailProperties
  <2>3. out' \in 0 .. OutBuffer /\ emitted' \in Nat
    BY <1>5, SessionAssumption DEF Emit, Greater, SessionTypeOK
  <2>4. /\ batch' \in [LiveWorker -> Seq(MessageType)]
        /\ UNCHANGED <<feedVars, endVars, updates>>
    <3>1. batch' = [batch EXCEPT ![w] = Tail(@)] /\ UNCHANGED <<feedVars, endVars, updates>>
      BY <1>5 DEF Emit, NextMessage
    <3> QED
      BY <2>2, <3>1 DEF SessionTypeOK
  <2>5. /\ pc' \in [LiveWorker -> {"select", "analyze", "emit", "gone"}]
        /\ built' \in [LiveWorker -> Nat]
    <3>1. \/ pc' = [pc EXCEPT ![w] = "select"] /\ built' = [built EXCEPT ![w] = 0]
          \/ UNCHANGED <<pc, built>>
      BY <1>5 DEF Emit, NextMessage
    <3>2. /\ pc \in [LiveWorker -> {"select", "analyze", "emit", "gone"}]
          /\ built \in [LiveWorker -> Nat]
      BY DEF SessionTypeOK
    <3>3. CASE pc' = [pc EXCEPT ![w] = "select"] /\ built' = [built EXCEPT ![w] = 0]
      BY <3>2, <3>3
    <3>4. CASE UNCHANGED <<pc, built>>
      BY <3>2, <3>4
    <3> QED
      BY <3>1, <3>3, <3>4
  <2>6. EmitOK'
    BY <1>5 DEF Emit, NextMessage, EmitOK, SessionTypeOK
  <2> QED
    BY <2>3, <2>4, <2>5, <2>6 DEF SessionTypeOK
<1> QED
  BY <1>1, <1>2, <1>3, <1>4, <1>5 DEF LiveWorkerStep

\* A message for the browser stays within the socket's buffer.
LEMMA QueuedType ==
    ASSUME LiveTypeOK, NEW c \in Conn, Queued(c)
    PROVE  send' \in [Conn -> 0 .. SendBuffer]
BY ClientAssumption DEF LiveTypeOK, Queued

\* A handler goes from label to label.
LEMMA HandlerType ==
    ASSUME LiveTypeOK, NEW c \in Conn, NEW label \in HandlerLabel, GoTo(c, label)
    PROVE  handler' \in [Conn -> HandlerLabel]
BY DEF LiveTypeOK, GoTo

\* The submission of a frame or a chunk is well typed.
LEMMA SubmissionType ==
    ASSUME LiveTypeInv, NEW c \in Conn,
           SubmitCounts(c) \/ SubmitFrame(c) \/ SubmitAudioChunk(c)
    PROVE  LiveTypeInv'
<1> DEFINE m == arriving[c][1]
           n == arriving[c][2]
<1> USE DEF LiveTypeInv, submitUnchanged, endVars, liveWorkerVars, scoreVars, recordVars
<1>1. /\ m \in Media /\ n \in Nat
      /\ SessionTypeOK
      /\ "video" \in Media
      /\ NoItem \in Media \X Nat
      /\ {"read", "push", "drop", "retry"} \subseteq HandlerLabel
  BY DEF LiveTypeOK, Media, NoItem, HandlerLabel
<1>2. CASE SubmitCounts(c)
  <2>1. /\ count' \in [Media -> Nat]
        /\ count[m] + 1 \in Nat
        /\ UNCHANGED <<queue, dropped, taken>>
    BY <1>1, <1>2 DEF SubmitCounts, CountArrival, SessionTypeOK
  <2>2. arriving' \in [Conn -> Media \X Nat]
    BY <1>1, <1>2, <2>1 DEF SubmitCounts, LiveTypeOK
  <2>3. handler' \in [Conn -> HandlerLabel]
    BY <1>1, <1>2, HandlerType DEF SubmitCounts
  <2>4. SessionTypeOK' /\ EmitOK'
    BY <1>1, <1>2, <2>1 DEF SubmitCounts, SessionTypeOK, EmitOK
  <2> QED
    BY <1>2, <2>2, <2>3, <2>4 DEF SubmitCounts, LiveTypeOK
<1>3. ASSUME Accepted(c), HasRoom(m)
      PROVE  LiveTypeInv'
  <2>1. queue' \in [Media -> Seq(Nat)] /\ \A k \in Media : Len(queue'[k]) <= MaxQueue[k]
    BY <1>1, <1>3, QueueType DEF Accepted, Push, SessionTypeOK
  <2>2. SessionTypeOK' /\ EmitOK'
    BY <1>1, <1>3, <2>1 DEF Accepted, Push, SessionTypeOK, EmitOK
  <2>3. arriving' \in [Conn -> Media \X Nat] /\ handler' \in [Conn -> HandlerLabel]
    BY <1>1, <1>3, HandlerType DEF Accepted, LiveTypeOK
  <2> QED
    BY <1>3, <2>2, <2>3 DEF Accepted, LiveTypeOK
<1>4. ASSUME Overloaded(c)
      PROVE  LiveTypeInv'
  <2>1. SessionTypeOK' /\ EmitOK'
    BY <1>1, <1>4 DEF Overloaded, Refuse, SessionTypeOK, EmitOK
  <2>2. arriving' \in [Conn -> Media \X Nat] /\ handler' \in [Conn -> HandlerLabel]
    BY <1>1, <1>4, HandlerType DEF Overloaded, LiveTypeOK
  <2>3. send' \in [Conn -> 0 .. SendBuffer]
    BY <1>4, QueuedType DEF Overloaded
  <2> QED
    BY <1>4, <2>1, <2>2, <2>3 DEF Overloaded, LiveTypeOK
<1>5. ASSUME GoTo(c, "drop"), UNCHANGED <<feedVars, arriving, send, submitUnchanged>>
      PROVE  LiveTypeInv'
  <2>1. handler' \in [Conn -> HandlerLabel]
    BY <1>1, <1>5, HandlerType
  <2> QED
    BY <1>5, <2>1 DEF feedVars, LiveTypeOK, SessionTypeOK, EmitOK
<1>6. ASSUME DropOldest, GoTo(c, "retry"), UNCHANGED <<arriving, send, submitUnchanged>>
      PROVE  LiveTypeInv'
  <2>1. handler' \in [Conn -> HandlerLabel]
    BY <1>1, <1>6, HandlerType
  <2>2. CASE queue["video"] = <<>> /\ UNCHANGED feedVars
    BY <1>6, <2>1, <2>2 DEF feedVars, LiveTypeOK, SessionTypeOK, EmitOK
  <2>3. CASE queue["video"] # <<>>
    <3>1. /\ dropped' = [dropped EXCEPT !["video"] = @ \union {Head(queue["video"])}]
          /\ queue' = [queue EXCEPT !["video"] = Tail(@)]
          /\ UNCHANGED <<count, taken>>
      BY <1>6, <2>3 DEF DropOldest
    <3>2. /\ queue' \in [Media -> Seq(Nat)]
          /\ \A k \in Media : Len(queue'[k]) <= MaxQueue[k]
          /\ Head(queue["video"]) \in Nat
      BY <1>1, <2>3, <3>1, QueueType DEF SessionTypeOK
    <3>3. dropped' \in [Media -> SUBSET Nat]
      BY <1>1, <3>1, <3>2 DEF SessionTypeOK
    <3> QED
      BY <1>6, <2>1, <3>1, <3>2, <3>3 DEF LiveTypeOK, SessionTypeOK, EmitOK
  <2> QED
    BY <1>6, <2>2, <2>3 DEF DropOldest
<1>7. CASE SubmitFrame(c)
  BY <1>3, <1>4, <1>5, <1>6, <1>7 DEF SubmitFrame
<1>8. CASE SubmitAudioChunk(c)
  BY <1>3, <1>4, <1>8 DEF SubmitAudioChunk
<1> QED
  BY <1>2, <1>7, <1>8

\* What does not touch the session leaves it well typed.
LEMMA SessionSame ==
    ASSUME SessionTypeInv, UNCHANGED sessionVars
    PROVE  SessionTypeInv'
BY DEF SessionTypeInv, SessionTypeOK, EmitOK, sessionVars, feedVars, endVars,
       liveWorkerVars, scoreVars

\* The handler's steps outside SubmitFrame, SubmitAudioChunk and End are well typed.
LEMMA HandlerStepType ==
    ASSUME LiveTypeInv, NEW c \in Conn,
           \/ Lookup(c) \/ Upgrade(c) \/ Greet(c)
           \/ ReadFails(c) \/ ReadBeyondLimit(c) \/ ReadEndSession(c)
           \/ ReadInvalid(c) \/ ReadItem(c) \/ EndReturns(c) \/ CloseSend(c)
    PROVE  LiveTypeInv'
<1> USE DEF recordVars
<1>1. UNCHANGED sessionVars
  BY DEF Lookup, Upgrade, Greet, ReadFails, ReadBeyondLimit, ReadEndSession, ReadInvalid,
         ReadItem, EndReturns, CloseSend, sessionVars, endVars, liveWorkerVars, scoreVars
<1>2. SessionTypeOK' /\ EmitOK'
  BY <1>1, SessionSame DEF SessionTypeInv, LiveTypeInv, LiveTypeOK
<1>3. LiveTypeOK
  BY DEF LiveTypeInv
<1>4. handler' \in [Conn -> HandlerLabel]
  <2>1. {"upgrade", "gone", "greet", "read", "deferred", "ending", "count", "join",
         "final"} \subseteq HandlerLabel
    BY DEF HandlerLabel
  <2>2. \/ \E label \in HandlerLabel : GoTo(c, label)
        \/ UNCHANGED handler
    BY <2>1 DEF Lookup, Upgrade, Greet, ReadFails, ReadBeyondLimit, ReadEndSession,
                ReadInvalid, ReadItem, EndReturns, CloseSend
  <2> QED
    BY <1>3, <2>2, HandlerType DEF LiveTypeOK
<1>5. send' \in [Conn -> 0 .. SendBuffer]
  <2>1. Queued(c) \/ UNCHANGED send
    BY DEF Lookup, Upgrade, Greet, ReadFails, ReadBeyondLimit, ReadEndSession,
           ReadInvalid, ReadItem, EndReturns, CloseSend
  <2> QED
    BY <1>3, <2>1, QueuedType DEF LiveTypeOK
<1>6. arriving' \in [Conn -> Media \X Nat]
  <2>1. \/ \E m \in Media : arriving' = [arriving EXCEPT ![c] = <<m, 0>>]
        \/ UNCHANGED arriving
    BY ClientAssumption
    DEF Lookup, Upgrade, Greet, ReadFails, ReadBeyondLimit, ReadEndSession,
        ReadInvalid, ReadItem, EndReturns, CloseSend
  <2> QED
    BY <1>3, <2>1 DEF LiveTypeOK
<1>7. /\ forwarder' \in [Conn -> {"off", "range", "send", "done"}]
      /\ writer' \in [Conn -> {"off", "run", "closed"}]
      /\ sendClosed' \in [Conn -> BOOLEAN]
      /\ UNCHANGED <<stored, recordVars>>
  BY <1>3
  DEF LiveTypeOK, Lookup, Upgrade, Greet, ReadFails, ReadBeyondLimit, ReadEndSession,
      ReadInvalid, ReadItem, EndReturns, CloseSend
<1> QED
  BY <1>2, <1>3, <1>4, <1>5, <1>6, <1>7 DEF LiveTypeInv, LiveTypeOK

\* End, the pumps and the writes of the final result are well typed.
LEMMA OtherStepType ==
    ASSUME LiveTypeInv, NEW c \in Conn,
           \/ EndCancels(c) \/ EndCloses(c)
           \/ FinalResult(c) \/ Complete(c) \/ Create(c) \/ Delete(c)
           \/ Receive(c) \/ Forward(c) \/ Write(c) \/ WriteFails(c)
    PROVE  LiveTypeInv'
<1> USE DEF LiveTypeInv, clientVars, recordVars, endVars, feedVars, liveWorkerVars,
            scoreVars
<1>0. /\ LiveTypeOK /\ SessionTypeOK /\ SessionTypeInv
      /\ {"complete", "create", "delete", "gone"} \subseteq HandlerLabel
  BY DEF LiveTypeOK, SessionTypeInv, HandlerLabel
<1>1. CASE EndCancels(c)
  BY <1>0, <1>1 DEF EndCancels, Cancel, LiveTypeOK, SessionTypeOK, EmitOK
<1>2. CASE EndCloses(c)
  BY <1>0, <1>2 DEF EndCloses, CloseOut, LiveTypeOK, SessionTypeOK, EmitOK
<1>3. CASE FinalResult(c) \/ Complete(c) \/ Create(c) \/ Delete(c)
  <2>1. SessionTypeOK' /\ EmitOK'
    BY <1>0, <1>3, SessionSame
    DEF FinalResult, Complete, Create, Delete, SessionTypeInv, sessionVars
  <2>2. handler' \in [Conn -> HandlerLabel]
    BY <1>0, <1>3, HandlerType DEF FinalResult, Complete, Create, Delete
  <2>3. final' \in [Conn -> Nat] /\ row' \in Result /\ result' \in Result
    <3>1. /\ final \in [Conn -> Nat] /\ row \in Result /\ result \in Result
          /\ updates \in Nat /\ final[c] \in Result /\ NoResult \in Result
      BY <1>0 DEF LiveTypeOK, SessionTypeOK, Result
    <3>2. /\ \/ \E n \in Nat : final' = [final EXCEPT ![c] = n]
             \/ UNCHANGED final
          /\ row' \in {final[c], row}
          /\ result' \in {final[c], result, NoResult}
      BY <1>3, <3>1 DEF FinalResult, Complete, Create, Delete
    <3>3. final' \in [Conn -> Nat]
      BY <3>1, <3>2
    <3> QED
      BY <3>1, <3>2, <3>3
  <2>4. creates' \subseteq Conn /\ stored' \in BOOLEAN
    BY <1>0, <1>3 DEF FinalResult, Complete, Create, Delete, LiveTypeOK
  <2> QED
    BY <1>0, <1>3, <2>1, <2>2, <2>3, <2>4
    DEF FinalResult, Complete, Create, Delete, LiveTypeOK
<1>4. CASE Receive(c)
  <2>1. out' \in 0 .. OutBuffer
    BY <1>0, <1>4, SessionAssumption DEF Receive, SessionTypeOK
  <2>2. SessionTypeOK' /\ EmitOK'
    BY <1>0, <1>4, <2>1 DEF Receive, SessionTypeOK, EmitOK
  <2>3. forwarder' \in [Conn -> {"off", "range", "send", "done"}]
    BY <1>0, <1>4 DEF Receive, LiveTypeOK
  <2> QED
    BY <1>0, <1>4, <2>2, <2>3 DEF Receive, LiveTypeOK
<1>5. CASE Forward(c) \/ Write(c) \/ WriteFails(c)
  <2>1. SessionTypeOK' /\ EmitOK'
    BY <1>0, <1>5, SessionSame DEF Forward, Write, WriteFails, SessionTypeInv, sessionVars
  <2>2. send' \in [Conn -> 0 .. SendBuffer]
    <3>1. CASE Queued(c)
      BY <1>0, <3>1, QueuedType
    <3>2. CASE send[c] > 0 /\ send' = [send EXCEPT ![c] = @ - 1]
      BY <1>0, <3>2, ClientAssumption DEF LiveTypeOK
    <3>3. CASE UNCHANGED send
      BY <1>0, <3>3 DEF LiveTypeOK
    <3> QED
      BY <1>5, <3>1, <3>2, <3>3 DEF Forward, Write, WriteFails
  <2>3. /\ forwarder' \in [Conn -> {"off", "range", "send", "done"}]
        /\ writer' \in [Conn -> {"off", "run", "closed"}]
    BY <1>0, <1>5 DEF Forward, Write, WriteFails, LiveTypeOK
  <2> QED
    BY <1>0, <1>5, <2>1, <2>2, <2>3 DEF Forward, Write, WriteFails, LiveTypeOK
<1> QED
  BY <1>1, <1>2, <1>3, <1>4, <1>5

\* Every step keeps the type invariant.
LEMMA LiveTypeStep == LiveTypeInv /\ [LiveNext]_liveVars => LiveTypeInv'
<1> SUFFICES ASSUME LiveTypeInv, [LiveNext]_liveVars PROVE LiveTypeInv'
  OBVIOUS
<1>1. ASSUME NEW w \in LiveWorker, LiveWorkerStep(w), UNCHANGED <<clientVars, recordVars>>
      PROVE  LiveTypeInv'
  <2>1. SessionTypeInv'
    BY <1>1, WorkerStepType DEF SessionTypeInv, LiveTypeInv, LiveTypeOK
  <2> QED
    BY <1>1, <2>1 DEF SessionTypeInv, LiveTypeInv, LiveTypeOK, clientVars, recordVars
<1>2. ASSUME NEW c \in Conn,
             \/ Lookup(c) \/ ReadMessage(c) \/ HandlerStep(c)
             \/ ForwarderStep(c) \/ Write(c) \/ WriteFails(c)
      PROVE  LiveTypeInv'
  BY <1>2, SubmissionType, HandlerStepType, OtherStepType
  DEF ReadMessage, HandlerStep, ForwarderStep
<1>3. CASE UNCHANGED liveVars
  <2>1. SessionTypeInv'
    BY <1>3, SessionSame DEF SessionTypeInv, LiveTypeInv, LiveTypeOK, liveVars
  <2> QED
    BY <1>3, <2>1 DEF SessionTypeInv, LiveTypeInv, LiveTypeOK, liveVars, clientVars, recordVars
<1> QED
  BY <1>1, <1>2, <1>3 DEF LiveNext

\* LiveTypeInv holds in every reachable state.
THEOREM LiveTypeInvariant == LiveSpec => []LiveTypeInv
BY LiveTypeInit, LiveTypeStep, PTL DEF LiveSpec

\* Every variable keeps its type: in particular no queue and no channel exceeds its
\* capacity (session.go, SubmitFrame and SubmitAudioChunk; client.go, Send).
THEOREM LiveTypeCorrect == LiveSpec => []LiveTypeOK
<1>1. LiveTypeInv => LiveTypeOK
  BY DEF LiveTypeInv
<1> QED
  BY LiveTypeInvariant, <1>1, PTL
----------------------------------------------------------------------------
(* The end of a session.                                                   *)

\* A handler past its End has found Out closed.
PastEnd == {"join", "final", "complete", "create", "delete"}

\* What makes the closing of the channels and the results on record inductive: with
\* Out closed no worker is left to change the scores, and the result a handler is
\* about to write was read after that.
EndInv ==
    /\ ClosedAfterLastSend
    /\ \A c \in Conn : handler[c] \in PastEnd => outClosed
    /\ \A c \in Conn : handler[c] \in {"complete", "create"} => final[c] = updates
    /\ (row # NoResult \/ result # NoResult) => outClosed
    /\ RecordedIsFinal

\* Nothing is closed or recorded at first.
LEMMA EndInit == LiveInit => EndInv
BY DEF LiveInit, SessionInit, EndInv, ClosedAfterLastSend, RecordedIsFinal, PastEnd

\* A worker takes a step only while Out is open.
LEMMA WorkerStepEnd ==
    ASSUME LiveTypeInv, EndInv, NEW w \in LiveWorker, LiveWorkerStep(w),
           UNCHANGED <<clientVars, recordVars>>
    PROVE  EndInv'
<1>1. pc[w] # "gone" /\ UNCHANGED outClosed
  BY DEF LiveWorkerStep, Take, Leave, Fold, Fails, Emit, NextMessage, endVars
<1>2. ~outClosed
  BY <1>1 DEF EndInv, ClosedAfterLastSend
<1> QED
  BY <1>1, <1>2
  DEF EndInv, ClosedAfterLastSend, RecordedIsFinal, clientVars, recordVars, PastEnd

\* What the sockets do to the channels and the result.
LEMMA SocketStepEnd ==
    ASSUME LiveTypeInv, EndInv, NEW c \in Conn,
           \/ Lookup(c) \/ ReadMessage(c) \/ HandlerStep(c)
           \/ ForwarderStep(c) \/ Write(c) \/ WriteFails(c)
    PROVE  EndInv'
<1> USE DEF PastEnd, PastClose, endVars, liveWorkerVars, scoreVars, recordVars, feedVars,
            sessionVars, clientVars, submitUnchanged, At, GoTo
<1>1. /\ handler \in [Conn -> HandlerLabel]
      /\ forwarder \in [Conn -> {"off", "range", "send", "done"}]
      /\ sendClosed \in [Conn -> BOOLEAN]
      /\ final \in [Conn -> Nat]
  BY DEF LiveTypeInv, LiveTypeOK

\* The steps that leave the channels open and the records alone.
<1>2. ASSUME UNCHANGED <<pc, updates, outClosed, sendClosed, recordVars>>,
             UNCHANGED forwarder
               \/ \E label \in {"range", "send", "done"} :
                     /\ forwarder[c] # "done"
                     /\ forwarder' = [forwarder EXCEPT ![c] = label],
             UNCHANGED handler
               \/ /\ handler[c] \notin PastEnd \union {"gone"}
                  /\ \E label \in HandlerLabel \ (PastEnd \union {"gone"}) :
                        handler' = [handler EXCEPT ![c] = label]
               \/ /\ handler[c] \in {"away", "upgrade"}
                  /\ handler' = [handler EXCEPT ![c] = "gone"]
               \/ /\ handler[c] = "deferred" /\ outClosed
                  /\ handler' = [handler EXCEPT ![c] = "join"]
               \/ /\ handler[c] = "delete"
                  /\ handler' = [handler EXCEPT ![c] = "gone"]
      PROVE  EndInv'
  BY <1>1, <1>2 DEF EndInv, ClosedAfterLastSend, RecordedIsFinal
<1>3. CASE ReadMessage(c) \/ Lookup(c) \/ Greet(c) \/ ReadFails(c) \/ SubmitCounts(c)
  <2>1. {"upgrade", "greet", "read", "ending", "deferred", "count", "push"}
           \subseteq HandlerLabel \ (PastEnd \union {"gone"})
    BY DEF HandlerLabel
  <2> QED
    BY <1>2, <1>3, <2>1
    DEF ReadMessage, ReadBeyondLimit, ReadEndSession, ReadInvalid, ReadItem, Received,
        Lookup, Greet, ReadFails, SubmitCounts
<1>4. CASE Upgrade(c)
  <2>1. "greet" \in HandlerLabel \ (PastEnd \union {"gone"})
    BY DEF HandlerLabel
  <2>2. ~sendClosed[c]
    BY <1>4 DEF Upgrade, EndInv, ClosedAfterLastSend
  <2> QED
    BY <1>1, <1>4, <2>1, <2>2 DEF Upgrade, EndInv, ClosedAfterLastSend, RecordedIsFinal
<1>5. CASE SubmitFrame(c) \/ SubmitAudioChunk(c)
  <2>1. {"read", "drop", "retry"} \subseteq HandlerLabel \ (PastEnd \union {"gone"})
    BY DEF HandlerLabel
  <2> QED
    BY <1>2, <1>5, <2>1 DEF SubmitFrame, SubmitAudioChunk, Accepted, Overloaded
<1>6. CASE EndCancels(c)
  BY <1>2, <1>6 DEF EndCancels, Cancel
<1>7. CASE EndCloses(c)
  BY <1>7 DEF EndCloses, CloseOut, EndInv, ClosedAfterLastSend, RecordedIsFinal
<1>8. CASE EndReturns(c)
  <2>1. "deferred" \in HandlerLabel \ (PastEnd \union {"gone"})
    BY DEF HandlerLabel
  <2> QED
    BY <1>2, <1>8, <2>1 DEF EndReturns
<1>9. CASE CloseSend(c)
  BY <1>1, <1>9 DEF CloseSend, EndInv, ClosedAfterLastSend, RecordedIsFinal
<1>10. CASE FinalResult(c)
  BY <1>1, <1>10 DEF FinalResult, EndInv, ClosedAfterLastSend, RecordedIsFinal
<1>11. CASE Complete(c)
  BY <1>1, <1>11 DEF Complete, EndInv, ClosedAfterLastSend, RecordedIsFinal
<1>12. CASE Create(c)
  BY <1>1, <1>12 DEF Create, EndInv, ClosedAfterLastSend, RecordedIsFinal
<1>13. CASE Delete(c)
  BY <1>2, <1>13 DEF Delete
<1>14. CASE ForwarderStep(c) \/ Write(c) \/ WriteFails(c)
  BY <1>2, <1>14 DEF ForwarderStep, Receive, Forward, Write, WriteFails
<1> QED
  BY <1>3, <1>4, <1>5, <1>6, <1>7, <1>8, <1>9, <1>10, <1>11, <1>12, <1>13, <1>14
  DEF HandlerStep

\* EndInv is inductive.
LEMMA EndStep == LiveTypeInv /\ EndInv /\ [LiveNext]_liveVars => EndInv'
<1> SUFFICES ASSUME LiveTypeInv, EndInv, [LiveNext]_liveVars PROVE EndInv'
  OBVIOUS
<1>1. CASE LiveNext
  BY <1>1, WorkerStepEnd, SocketStepEnd DEF LiveNext
<1>2. CASE UNCHANGED liveVars
  BY <1>2
  DEF liveVars, sessionVars, clientVars, recordVars, endVars, liveWorkerVars, scoreVars,
      EndInv, ClosedAfterLastSend, RecordedIsFinal, PastEnd, PastClose
<1> QED
  BY <1>1, <1>2

\* EndInv holds in every reachable state.
LEMMA EndInvariant == LiveSpec => []EndInv
BY LiveTypeInvariant, EndInit, EndStep, PTL DEF LiveSpec

\* Nobody sends on a closed channel: Out is closed after its last worker and a
\* socket's send channel after its forwarder is gone (session.go, End; client.go,
\* ReadPump's deferred function).
THEOREM ChannelsCloseAfterLastSend == LiveSpec => []ClosedAfterLastSend
<1>1. EndInv => ClosedAfterLastSend
  BY DEF EndInv
<1> QED
  BY EndInvariant, <1>1, PTL

\* The results on record are those of the session's last state, whichever socket
\* wrote them (handlers/sessionswebsocket.go, after ReadPump).
THEOREM RecordedResultsAreFinal == LiveSpec => []RecordedIsFinal
<1>1. EndInv => RecordedIsFinal
  BY DEF EndInv
<1> QED
  BY EndInvariant, <1>1, PTL
----------------------------------------------------------------------------
(* The lifetime limits.                                                    *)

\* The sockets that passed the check of the limits and have yet to count.
Counting(m) == {c \in Conn : handler[c] = "count" /\ arriving[c][1] = m}

\* What makes LimitsHold inductive: a socket that is about to count is an opened one,
\* and its count is allowed for.
LimitsInv ==
    /\ \A c \in Conn : handler[c] \notin {"away", "upgrade", "gone"} => c \in Opened
    /\ \A m \in Media :
          count[m] + Cardinality(Counting(m)) <= MaxCount[m] + Cardinality(Opened)

\* The sockets in question are finitely many.
LEMMA SocketSets ==
    ASSUME NEW m \in Media
    PROVE  /\ IsFiniteSet(Counting(m)) /\ Cardinality(Counting(m)) \in Nat
           /\ IsFiniteSet(Opened) /\ Cardinality(Opened) \in Nat
<1>1. Counting(m) \subseteq Conn /\ Opened \subseteq Conn
  BY DEF Counting, Opened
<1> QED
  BY <1>1, ClientAssumption, FS_Subset, FS_CardinalityType

\* Nothing is counted at first.
LEMMA LimitsInit == LiveInit => LimitsInv
<1> SUFFICES ASSUME LiveInit, NEW m \in Media
             PROVE  count[m] + Cardinality(Counting(m)) <= MaxCount[m] + Cardinality(Opened)
  BY DEF LimitsInv, LiveInit
<1>1. Counting(m) = {} /\ count[m] = 0
  BY DEF LiveInit, SessionInit, Counting
<1> QED
  BY <1>1, SocketSets, FS_EmptySet, SessionAssumption

\* A step that neither counts, nor reads, nor opens a socket keeps the limits.
LEMMA LimitsSame ==
    ASSUME LimitsInv, UNCHANGED count,
           Opened' = Opened,
           \A m \in Media : Counting(m)' = Counting(m),
           \A c \in Conn : handler'[c] \notin {"away", "upgrade", "gone"} =>
                            handler[c] \notin {"away", "upgrade", "gone"}
    PROVE  LimitsInv'
BY DEF LimitsInv

\* The handler's other steps do not open a socket or bring one to its count.
LEMMA LimitsOtherStep ==
    ASSUME LiveTypeInv, LimitsInv, NEW c \in Conn, UNCHANGED count,
           \/ UNCHANGED <<handler, arriving>>
           \/ /\ handler[c] \notin {"count", "upgrade", "gone"}
              /\ handler[c] = "away" => handler'[c] \in {"upgrade", "gone"}
              /\ \E label \in HandlerLabel \ {"count"} : GoTo(c, label)
              /\ \A d \in Conn \ {c} : arriving'[d] = arriving[d],
           UNCHANGED forwarder
             \/ \E label \in {"range", "send", "done"} :
                   /\ forwarder[c] # "off"
                   /\ forwarder' = [forwarder EXCEPT ![c] = label]
    PROVE  LimitsInv'
<1>1. /\ handler \in [Conn -> HandlerLabel]
      /\ forwarder \in [Conn -> {"off", "range", "send", "done"}]
  BY DEF LiveTypeInv, LiveTypeOK
<1>2. Opened' = Opened
  BY <1>1 DEF Opened
<1>3. \A m \in Media : Counting(m)' = Counting(m)
  BY <1>1 DEF Counting, GoTo
<1>4. \A d \in Conn : handler'[d] \notin {"away", "upgrade", "gone"} =>
                       handler[d] \notin {"away", "upgrade", "gone"}
  BY <1>1 DEF GoTo
<1> QED
  BY <1>2, <1>3, <1>4, LimitsSame

\* A socket that reads a frame or chunk has just found the counts within the limits.
LEMMA LimitsReadItem ==
    ASSUME LiveTypeInv, LimitsInv, NEW c \in Conn, ReadItem(c)
    PROVE  LimitsInv'
<1>1. /\ handler \in [Conn -> HandlerLabel]
      /\ arriving \in [Conn -> Media \X Nat]
      /\ \A m \in Media : count[m] \in Nat /\ MaxCount[m] \in Nat
  BY SessionAssumption DEF LiveTypeInv, LiveTypeOK, SessionTypeOK
<1>2. PICK s \in Media : arriving' = [arriving EXCEPT ![c] = <<s, 0>>]
  BY ClientAssumption DEF ReadItem
<1>3. /\ handler[c] = "read"
      /\ handler' = [handler EXCEPT ![c] = "count"]
      /\ UNCHANGED <<count, forwarder>>
      /\ \A m \in Media : count[m] <= MaxCount[m]
  BY <1>1 DEF ReadItem, Received, At, GoTo, LimitExceeded, sessionVars, feedVars
<1>4. Opened' = Opened
  BY <1>3 DEF Opened
<1>5. \A d \in Conn : handler'[d] \notin {"away", "upgrade", "gone"} => d \in Opened'
  BY <1>1, <1>3, <1>4 DEF LimitsInv
<1>6. ASSUME NEW m \in Media
      PROVE  count'[m] + Cardinality(Counting(m)') <= MaxCount[m] + Cardinality(Opened')
  <2>1. Counting(m)' \subseteq Opened
    BY <1>1, <1>4, <1>5 DEF Counting
  <2>2. /\ Cardinality(Counting(m)') <= Cardinality(Opened)
        /\ Cardinality(Counting(m)') \in Nat /\ Cardinality(Opened) \in Nat
    BY <2>1, SocketSets, FS_Subset, FS_CardinalityType
  <2> QED
    BY <1>1, <1>3, <1>4, <2>2
<1> QED
  BY <1>5, <1>6 DEF LimitsInv

\* A socket that counts has been allowed for.
LEMMA LimitsSubmitCounts ==
    ASSUME LiveTypeInv, LimitsInv, NEW c \in Conn, SubmitCounts(c)
    PROVE  LimitsInv'
<1> DEFINE s == arriving[c][1]
<1>1. /\ handler \in [Conn -> HandlerLabel]
      /\ arriving \in [Conn -> Media \X Nat]
      /\ count \in [Media -> Nat]
      /\ s \in Media
      /\ \A m \in Media : MaxCount[m] \in Nat
  BY SessionAssumption DEF LiveTypeInv, LiveTypeOK, SessionTypeOK
<1>2. /\ handler[c] = "count"
      /\ handler' = [handler EXCEPT ![c] = "push"]
      /\ arriving' = [arriving EXCEPT ![c] = <<s, count[s] + 1>>]
      /\ count' = [count EXCEPT ![s] = @ + 1]
      /\ UNCHANGED forwarder
  BY DEF SubmitCounts, At, GoTo, CountArrival, submitUnchanged
<1>3. Opened' = Opened
  BY <1>2 DEF Opened
<1>4. \A d \in Conn : handler'[d] \notin {"away", "upgrade", "gone"} => d \in Opened'
  BY <1>1, <1>2, <1>3 DEF LimitsInv
<1>5. ASSUME NEW m \in Media
      PROVE  count'[m] + Cardinality(Counting(m)') <= MaxCount[m] + Cardinality(Opened')
  <2>1. count[m] + Cardinality(Counting(m)) <= MaxCount[m] + Cardinality(Opened)
    BY DEF LimitsInv
  <2>2. /\ IsFiniteSet(Counting(m)) /\ Cardinality(Counting(m)) \in Nat
        /\ Cardinality(Opened) \in Nat
    BY SocketSets
  <2>3. CASE m = s
    <3>1. Counting(m)' = Counting(m) \ {c} /\ c \in Counting(m)
      BY <1>1, <1>2, <2>3 DEF Counting
    <3>2. Cardinality(Counting(m)') = Cardinality(Counting(m)) - 1
      BY <2>2, <3>1, FS_RemoveElement
    <3>3. count'[m] = count[m] + 1
      BY <1>1, <1>2, <2>3
    <3> QED
      BY <1>1, <1>3, <2>1, <2>2, <3>2, <3>3
  <2>4. CASE m # s
    <3>1. Counting(m)' = Counting(m)
      BY <1>1, <1>2, <2>4 DEF Counting
    <3>2. count'[m] = count[m]
      BY <1>1, <1>2, <2>4
    <3> QED
      BY <1>3, <2>1, <3>1, <3>2
  <2> QED
    BY <2>3, <2>4
<1> QED
  BY <1>4, <1>5 DEF LimitsInv

\* A socket that is opened adds one to what is allowed.
LEMMA LimitsUpgrade ==
    ASSUME LiveTypeInv, LimitsInv, NEW c \in Conn, Upgrade(c)
    PROVE  LimitsInv'
<1>1. /\ handler \in [Conn -> HandlerLabel]
      /\ forwarder \in [Conn -> {"off", "range", "send", "done"}]
      /\ \A m \in Media : count[m] \in Nat /\ MaxCount[m] \in Nat
  BY SessionAssumption DEF LiveTypeInv, LiveTypeOK, SessionTypeOK
<1>2. /\ handler[c] = "upgrade" /\ UNCHANGED <<count, arriving>>
      /\ \/ /\ handler' = [handler EXCEPT ![c] = "greet"]
            /\ forwarder' = [forwarder EXCEPT ![c] = "range"]
         \/ handler' = [handler EXCEPT ![c] = "gone"] /\ UNCHANGED forwarder
  BY DEF Upgrade, At, GoTo, sessionVars, feedVars
<1>3. Opened \subseteq Opened'
  BY <1>1, <1>2 DEF Opened
<1>4. \A d \in Conn : handler'[d] \notin {"away", "upgrade", "gone"} => d \in Opened'
  BY <1>1, <1>2, <1>3 DEF LimitsInv, Opened
<1>5. ASSUME NEW m \in Media
      PROVE  count'[m] + Cardinality(Counting(m)') <= MaxCount[m] + Cardinality(Opened')
  <2>1. Counting(m)' = Counting(m)
    BY <1>1, <1>2 DEF Counting
  <2>2. Opened' \subseteq Conn
    BY DEF Opened
  <2>3. /\ Cardinality(Opened) <= Cardinality(Opened')
        /\ Cardinality(Opened) \in Nat /\ Cardinality(Opened') \in Nat
        /\ Cardinality(Counting(m)) \in Nat
    BY <1>3, <2>2, SocketSets, ClientAssumption, FS_Subset, FS_CardinalityType
  <2> QED
    BY <1>1, <1>2, <2>1, <2>3 DEF LimitsInv
<1> QED
  BY <1>4, <1>5 DEF LimitsInv

\* LimitsInv is inductive.
LEMMA LimitsStep == LiveTypeInv /\ LimitsInv /\ [LiveNext]_liveVars => LimitsInv'
<1> SUFFICES ASSUME LiveTypeInv, LimitsInv, [LiveNext]_liveVars PROVE LimitsInv'
  OBVIOUS
<1> USE DEF sessionVars, feedVars, clientVars, recordVars
<1>0. {"upgrade", "gone", "read", "drop", "retry", "ending", "deferred", "join", "final",
       "complete", "create", "delete"} \subseteq HandlerLabel \ {"count"}
  BY DEF HandlerLabel
<1>1. ASSUME NEW w \in LiveWorker, LiveWorkerStep(w), UNCHANGED <<clientVars, recordVars>>
      PROVE  LimitsInv'
  <2>1. UNCHANGED <<count, handler, arriving, forwarder>>
    BY <1>1 DEF LiveWorkerStep, Take, Leave, Fold, Fails, Emit, NextMessage
  <2> QED
    BY <2>1 DEF LimitsInv, Counting, Opened
<1>2. ASSUME NEW c \in Conn, Lookup(c) \/ Greet(c)
      PROVE  LimitsInv'
  <2>1. CASE Lookup(c)
    <3>1. GoTo(c, "upgrade") \/ GoTo(c, "gone")
      BY <2>1 DEF Lookup
    <3>2. handler'[c] \in {"upgrade", "gone"}
      BY <3>1 DEF GoTo, LiveTypeInv, LiveTypeOK
    <3> QED
      BY <1>0, <2>1, <3>1, <3>2, LimitsOtherStep DEF Lookup, At
  <2>2. CASE Greet(c)
    BY <1>0, <2>2, LimitsOtherStep DEF Greet, At
  <2> QED
    BY <1>2, <2>1, <2>2
<1>3. ASSUME NEW c \in Conn, ReadMessage(c) \/ ReadFails(c)
      PROVE  LimitsInv'
  <2>1. CASE ReadItem(c)
    BY <2>1, LimitsReadItem
  <2>2. CASE ReadInvalid(c)
    BY <2>2, LimitsOtherStep DEF ReadInvalid
  <2>3. CASE ReadBeyondLimit(c) \/ ReadEndSession(c) \/ ReadFails(c)
    BY <1>0, <2>3, LimitsOtherStep
    DEF ReadBeyondLimit, ReadEndSession, ReadFails, Received, At
  <2> QED
    BY <1>3, <2>1, <2>2, <2>3 DEF ReadMessage
<1>4. ASSUME NEW c \in Conn, SubmitFrame(c) \/ SubmitAudioChunk(c)
      PROVE  LimitsInv'
  <2>1. /\ handler[c] \in {"push", "drop", "retry"}
        /\ UNCHANGED <<count, forwarder>>
    BY <1>4 DEF SubmitFrame, SubmitAudioChunk, Accepted, Overloaded, Push, Refuse,
                DropOldest, submitUnchanged, At
  <2>2. /\ GoTo(c, "read") \/ GoTo(c, "drop") \/ GoTo(c, "retry")
        /\ arriving' = [arriving EXCEPT ![c] = NoItem] \/ UNCHANGED arriving
    BY <1>4 DEF SubmitFrame, SubmitAudioChunk, Accepted, Overloaded
  <2>3. \A d \in Conn \ {c} : arriving'[d] = arriving[d]
    BY <2>2 DEF LiveTypeInv, LiveTypeOK
  <2> QED
    BY <1>0, <2>1, <2>2, <2>3, LimitsOtherStep
<1>5. ASSUME NEW c \in Conn, EndReturns(c) \/ CloseSend(c)
      PROVE  LimitsInv'
  BY <1>0, <1>5, LimitsOtherStep DEF EndReturns, CloseSend, At
<1>6. ASSUME NEW c \in Conn, EndCancels(c) \/ EndCloses(c)
      PROVE  LimitsInv'
  BY <1>6, LimitsOtherStep DEF EndCancels, EndCloses, Cancel, CloseOut
<1>7. ASSUME NEW c \in Conn, FinalResult(c) \/ Complete(c) \/ Create(c) \/ Delete(c)
      PROVE  LimitsInv'
  BY <1>0, <1>7, LimitsOtherStep DEF FinalResult, Complete, Create, Delete, At
<1>8. ASSUME NEW c \in Conn, ForwarderStep(c) \/ Write(c) \/ WriteFails(c)
      PROVE  LimitsInv'
  BY <1>8, LimitsOtherStep DEF ForwarderStep, Receive, Forward, Write, WriteFails
<1>9. ASSUME NEW c \in Conn, HandlerStep(c)
      PROVE  LimitsInv'
  BY <1>2, <1>3, <1>4, <1>5, <1>6, <1>7, <1>9, LimitsUpgrade, LimitsSubmitCounts
  DEF HandlerStep
<1>10. CASE UNCHANGED liveVars
  BY <1>10 DEF liveVars, LimitsInv, Counting, Opened
<1> QED
  BY <1>1, <1>2, <1>3, <1>8, <1>9, <1>10 DEF LiveNext

\* However many sockets a session has, each takes it past a lifetime limit by one
\* frame or chunk at most (session.go, countLimitExceeded; client.go, ReadPump).
THEOREM LimitsAreKept == LiveSpec => []LimitsHold
<1>1. LiveTypeInv /\ LimitsInv => LimitsHold
  <2> SUFFICES ASSUME LiveTypeInv, LimitsInv, NEW m \in Media
               PROVE  count[m] <= MaxCount[m] + Cardinality(Opened)
    BY DEF LimitsHold
  <2> QED
    BY SocketSets, SessionAssumption DEF LimitsInv, LiveTypeInv, LiveTypeOK, SessionTypeOK
<1> QED
  BY LiveTypeInvariant, LimitsInit, LimitsStep, <1>1, PTL DEF LiveSpec

----------------------------------------------------------------------------
(* Every frame and chunk is accounted for, once.                           *)

\* How n arrivals are spread over a queue q, the sockets S that are submitting one
\* each (a), the dropped ones D and the taken ones T: nothing missing, nothing twice.
Ledger(q, S, a, D, T, n) ==
    LET H == {a[c] : c \in S}
    IN  /\ 1 .. n = ToSet(q) \union H \union D \union T
        /\ \A i, j \in 1 .. Len(q) : q[i] = q[j] => i = j
        /\ \A c, d \in S : a[c] = a[d] => c = d
        /\ ToSet(q) \intersect (H \union D \union T) = {}
        /\ H \intersect (D \union T) = {}
        /\ D \intersect T = {}
        /\ n = Len(q) + Cardinality(S) + Cardinality(D) + Cardinality(T)

\* The sets of a ledger are finite, and so counted by numbers.
LEMMA LedgerFinite ==
    ASSUME NEW q, NEW S, NEW a, NEW D, NEW T, NEW n \in Nat, Ledger(q, S, a, D, T, n)
    PROVE  /\ IsFiniteSet(D) /\ Cardinality(D) \in Nat
           /\ IsFiniteSet(T) /\ Cardinality(T) \in Nat
<1>1. D \in SUBSET (1 .. n) /\ T \in SUBSET (1 .. n)
  BY DEF Ledger
<1>2. IsFiniteSet(1 .. n)
  BY FS_Interval
<1>3. IsFiniteSet(D) /\ IsFiniteSet(T)
  BY <1>1, <1>2, FS_Subset
<1> QED
  BY <1>3, FS_CardinalityType

\* An arrival is numbered by the new count and in its socket's hands.
LEMMA LedgerCounts ==
    ASSUME NEW q \in Seq(Nat), NEW S, IsFiniteSet(S), NEW a, NEW b, NEW D, NEW T,
           NEW n \in Nat, Ledger(q, S, a, D, T, n),
           NEW c, c \notin S, b[c] = n + 1, \A d \in S : b[d] = a[d]
    PROVE  Ledger(q, S \union {c}, b, D, T, n + 1)
<1> DEFINE H == {a[d] : d \in S}
           K == {b[d] : d \in S \union {c}}
<1>1. K = H \union {n + 1}
  OBVIOUS
<1>2. n + 1 \notin 1 .. n /\ 1 .. n + 1 = (1 .. n) \union {n + 1}
  OBVIOUS
<1>3. n + 1 \notin ToSet(q) \union H \union D \union T
  BY <1>2 DEF Ledger
<1>4. \A e, d \in S \union {c} : b[e] = b[d] => e = d
  <2>1. \A d \in S : a[d] # n + 1
    BY <1>3
  <2> QED
    BY <2>1 DEF Ledger
<1>5. Cardinality(S \union {c}) = Cardinality(S) + 1 /\ Cardinality(S) \in Nat
  BY FS_AddElement, FS_CardinalityType
<1>6. Len(q) \in Nat /\ Cardinality(D) \in Nat /\ Cardinality(T) \in Nat
  BY LenProperties, LedgerFinite
<1>7. n + 1 = Len(q) + Cardinality(S \union {c}) + Cardinality(D) + Cardinality(T)
  BY <1>5, <1>6 DEF Ledger
<1>8. /\ 1 .. n = ToSet(q) \union H \union D \union T
      /\ ToSet(q) \intersect (H \union D \union T) = {}
      /\ H \intersect (D \union T) = {}
      /\ D \intersect T = {}
      /\ \A i, j \in 1 .. Len(q) : q[i] = q[j] => i = j
  BY DEF Ledger
<1> HIDE DEF H, K
<1>9. /\ 1 .. n + 1 = ToSet(q) \union K \union D \union T
      /\ ToSet(q) \intersect (K \union D \union T) = {}
      /\ K \intersect (D \union T) = {}
  BY <1>1, <1>2, <1>3, <1>8
<1> QED
  BY <1>4, <1>7, <1>8, <1>9 DEF Ledger, K

\* What a socket submits goes from its hands into the queue.
LEMMA LedgerPushes ==
    ASSUME NEW q \in Seq(Nat), NEW S, IsFiniteSet(S), NEW a, NEW b, NEW D, NEW T,
           NEW n \in Nat, Ledger(q, S, a, D, T, n),
           NEW c \in S, a[c] \in Nat, \A d \in S \ {c} : b[d] = a[d]
    PROVE  Ledger(Append(q, a[c]), S \ {c}, b, D, T, n)
<1> DEFINE H == {a[d] : d \in S}
           K == {b[d] : d \in S \ {c}}
           x == a[c]
           p == Append(q, x)
<1>1. K = H \ {x} /\ x \in H
  BY DEF Ledger
<1>2. /\ ToSet(p) = ToSet(q) \union {x}
      /\ Len(p) = Len(q) + 1
      /\ \A i \in 1 .. Len(q) : p[i] = q[i]
      /\ p[Len(q) + 1] = x
  BY AppendToSet, AppendProperties
<1>3. Len(q) \in Nat /\ DOMAIN q = 1 .. Len(q)
  BY LenProperties
<1>4. /\ 1 .. n = ToSet(q) \union H \union D \union T
      /\ ToSet(q) \intersect (H \union D \union T) = {}
      /\ H \intersect (D \union T) = {}
      /\ D \intersect T = {}
      /\ \A i, j \in 1 .. Len(q) : q[i] = q[j] => i = j
      /\ n = Len(q) + Cardinality(S) + Cardinality(D) + Cardinality(T)
  BY DEF Ledger
<1>5. \A e, d \in S \ {c} : b[e] = b[d] => e = d
  BY DEF Ledger
<1>6. Cardinality(S \ {c}) = Cardinality(S) - 1 /\ Cardinality(S) \in Nat
  BY FS_RemoveElement, FS_CardinalityType
<1>7. Cardinality(D) \in Nat /\ Cardinality(T) \in Nat
  BY LedgerFinite
<1> HIDE DEF H, K, x, p
<1>8. n = Len(p) + Cardinality(S \ {c}) + Cardinality(D) + Cardinality(T)
  BY <1>2, <1>3, <1>4, <1>6, <1>7
<1>9. /\ 1 .. n = ToSet(p) \union K \union D \union T
      /\ ToSet(p) \intersect (K \union D \union T) = {}
      /\ K \intersect (D \union T) = {}
  BY <1>1, <1>2, <1>4
<1>10. \A i, j \in 1 .. Len(p) : p[i] = p[j] => i = j
  <2>1. \A i \in 1 .. Len(q) : q[i] # x
    BY <1>1, <1>3, <1>4 DEF ToSet
  <2>2. 1 .. Len(p) = (1 .. Len(q)) \union {Len(q) + 1}
    BY <1>2, <1>3
  <2> QED
    BY <2>1, <2>2, <1>2, <1>4
<1> QED
  BY <1>4, <1>5, <1>8, <1>9, <1>10 DEF Ledger, K, p, x

\* What a socket submits is refused.
LEMMA LedgerRefuses ==
    ASSUME NEW q \in Seq(Nat), NEW S, IsFiniteSet(S), NEW a, NEW b, NEW D, NEW T,
           NEW n \in Nat, Ledger(q, S, a, D, T, n),
           NEW c \in S, \A d \in S \ {c} : b[d] = a[d]
    PROVE  Ledger(q, S \ {c}, b, D \union {a[c]}, T, n)
<1> DEFINE H == {a[d] : d \in S}
           K == {b[d] : d \in S \ {c}}
           x == a[c]
<1>1. K = H \ {x} /\ x \in H
  BY DEF Ledger
<1>2. /\ 1 .. n = ToSet(q) \union H \union D \union T
      /\ ToSet(q) \intersect (H \union D \union T) = {}
      /\ H \intersect (D \union T) = {}
      /\ D \intersect T = {}
      /\ \A i, j \in 1 .. Len(q) : q[i] = q[j] => i = j
      /\ n = Len(q) + Cardinality(S) + Cardinality(D) + Cardinality(T)
  BY DEF Ledger
<1>3. \A e, d \in S \ {c} : b[e] = b[d] => e = d
  BY DEF Ledger
<1>4. Cardinality(S \ {c}) = Cardinality(S) - 1 /\ Cardinality(S) \in Nat
  BY FS_RemoveElement, FS_CardinalityType
<1>5. Len(q) \in Nat /\ IsFiniteSet(D) /\ Cardinality(D) \in Nat /\ Cardinality(T) \in Nat
  BY LenProperties, LedgerFinite
<1> HIDE DEF H, K, x
<1>6. Cardinality(D \union {x}) = Cardinality(D) + 1
  <2>1. x \notin D
    BY <1>1, <1>2
  <2> QED
    BY <2>1, <1>5, FS_AddElement
<1>7. n = Len(q) + Cardinality(S \ {c}) + Cardinality(D \union {x}) + Cardinality(T)
  BY <1>2, <1>4, <1>5, <1>6
<1>8. /\ 1 .. n = ToSet(q) \union K \union (D \union {x}) \union T
      /\ ToSet(q) \intersect (K \union (D \union {x}) \union T) = {}
      /\ K \intersect ((D \union {x}) \union T) = {}
      /\ (D \union {x}) \intersect T = {}
  BY <1>1, <1>2
<1> QED
  BY <1>2, <1>3, <1>7, <1>8 DEF Ledger, K, x

\* The oldest item waiting is dropped.
LEMMA LedgerDrops ==
    ASSUME NEW q \in Seq(Nat), q # <<>>, NEW S, IsFiniteSet(S), NEW a, NEW D, NEW T,
           NEW n \in Nat, Ledger(q, S, a, D, T, n)
    PROVE  Ledger(Tail(q), S, a, D \union {Head(q)}, T, n)
<1> DEFINE H == {a[d] : d \in S}
           x == Head(q)
           p == Tail(q)
<1>1. /\ p \in Seq(Nat)
      /\ Len(p) = Len(q) - 1
      /\ \A i \in 1 .. Len(q) - 1 : p[i] = q[i + 1]
      /\ x = q[1]
      /\ ToSet(q) = {x} \union ToSet(p)
  BY HeadTailProperties, HeadTailToSet
<1>2. Len(q) \in Nat \ {0} /\ DOMAIN p = 1 .. Len(q) - 1
  BY <1>1, LenProperties, EmptySeq
<1>3. /\ 1 .. n = ToSet(q) \union H \union D \union T
      /\ ToSet(q) \intersect (H \union D \union T) = {}
      /\ H \intersect (D \union T) = {}
      /\ D \intersect T = {}
      /\ \A i, j \in 1 .. Len(q) : q[i] = q[j] => i = j
      /\ \A e, d \in S : a[e] = a[d] => e = d
      /\ n = Len(q) + Cardinality(S) + Cardinality(D) + Cardinality(T)
  BY DEF Ledger
<1>4. /\ Cardinality(S) \in Nat
      /\ IsFiniteSet(D) /\ Cardinality(D) \in Nat /\ Cardinality(T) \in Nat
  BY LedgerFinite, FS_CardinalityType
<1> HIDE DEF H, x, p
<1>5. x \notin ToSet(p)
  <2>1. ASSUME NEW i \in 1 .. Len(q) - 1
        PROVE  p[i] # x
    <3>1. i + 1 \in 1 .. Len(q) /\ 1 \in 1 .. Len(q) /\ i + 1 # 1
      BY <1>2
    <3> QED
      BY <3>1, <1>1, <1>3
  <2> QED
    BY <2>1, <1>2 DEF ToSet
<1>6. \A i, j \in 1 .. Len(p) : p[i] = p[j] => i = j
  <2> SUFFICES ASSUME NEW i \in 1 .. Len(p), NEW j \in 1 .. Len(p), p[i] = p[j]
               PROVE  i = j
    OBVIOUS
  <2>1. i \in 1 .. Len(q) - 1 /\ j \in 1 .. Len(q) - 1
    BY <1>1, <1>2
  <2>2. q[i + 1] = q[j + 1]
    BY <2>1, <1>1
  <2>3. i + 1 \in 1 .. Len(q) /\ j + 1 \in 1 .. Len(q)
    BY <2>1, <1>2
  <2>4. i + 1 = j + 1
    BY <2>2, <2>3, <1>3
  <2> QED
    BY <2>4
<1>7. Cardinality(D \union {x}) = Cardinality(D) + 1
  <2>1. x \notin D
    BY <1>1, <1>3
  <2> QED
    BY <2>1, <1>4, FS_AddElement
<1>8. n = Len(p) + Cardinality(S) + Cardinality(D \union {x}) + Cardinality(T)
  BY <1>1, <1>2, <1>3, <1>4, <1>7
<1>9. /\ 1 .. n = ToSet(p) \union H \union (D \union {x}) \union T
      /\ ToSet(p) \intersect (H \union (D \union {x}) \union T) = {}
      /\ H \intersect ((D \union {x}) \union T) = {}
      /\ (D \union {x}) \intersect T = {}
  BY <1>1, <1>3, <1>5
<1> QED
  BY <1>3, <1>6, <1>8, <1>9 DEF Ledger, H, p, x

\* The oldest item waiting is taken by a worker: dropped and taken play the same part.
LEMMA LedgerTakes ==
    ASSUME NEW q \in Seq(Nat), q # <<>>, NEW S, IsFiniteSet(S), NEW a, NEW D, NEW T,
           NEW n \in Nat, Ledger(q, S, a, D, T, n)
    PROVE  Ledger(Tail(q), S, a, D, T \union {Head(q)}, n)
<1> DEFINE H == {a[d] : d \in S}
           x == Head(q)
           p == Tail(q)
<1>0. /\ Len(q) \in Nat /\ Cardinality(S) \in Nat
      /\ Cardinality(D) \in Nat /\ Cardinality(T) \in Nat
  BY LenProperties, LedgerFinite, FS_CardinalityType
<1>1. Ledger(q, S, a, T, D, n)
  BY <1>0 DEF Ledger
<1>2. Ledger(p, S, a, T \union {x}, D, n)
  BY <1>1, LedgerDrops
<1>3. /\ Len(p) \in Nat
      /\ Cardinality(T \union {x}) \in Nat
  <2>1. p \in Seq(Nat)
    BY HeadTailProperties
  <2> QED
    BY <2>1, <1>2, LenProperties, LedgerFinite
<1> HIDE DEF p, x
<1>4. n = Len(p) + Cardinality(S) + Cardinality(D) + Cardinality(T \union {x})
  BY <1>0, <1>2, <1>3 DEF Ledger
<1>5. /\ 1 .. n = ToSet(p) \union H \union D \union (T \union {x})
      /\ ToSet(p) \intersect (H \union D \union (T \union {x})) = {}
      /\ H \intersect (D \union (T \union {x})) = {}
      /\ D \intersect (T \union {x}) = {}
  BY <1>2 DEF Ledger
<1>6. Ledger(p, S, a, D, T \union {x}, n)
  BY <1>2, <1>4, <1>5 DEF Ledger
<1> QED
  BY <1>6 DEF p, x

\* What each socket has in hand.
InHand == [c \in Conn |-> arriving[c][2]]

LedgerInv ==
    \A m \in Media :
        Ledger(queue[m], Submitting(m), InHand, dropped[m], taken[m], count[m])

\* A new session has an empty ledger.
LEMMA LedgerInit == LiveInit => LedgerInv
<1> SUFFICES ASSUME LiveInit, NEW m \in Media
             PROVE  Ledger(queue[m], Submitting(m), InHand, dropped[m], taken[m], count[m])
  BY DEF LedgerInv
<1>1. /\ queue[m] = <<>> /\ dropped[m] = {} /\ taken[m] = {} /\ count[m] = 0
      /\ Submitting(m) = {}
  BY DEF LiveInit, SessionInit, Submitting
<1>2. ToSet(<<>>) = {} /\ Len(<<>>) = 0 /\ 1 .. 0 = {} /\ Cardinality({}) = 0
  BY FS_EmptySet DEF ToSet
<1> QED
  BY <1>1, <1>2 DEF Ledger

\* A ledger does not depend on what sockets hold that are not submitting.
LEMMA LedgerSame ==
    ASSUME NEW q, NEW S, NEW a, NEW b, NEW D, NEW T, NEW n, Ledger(q, S, a, D, T, n),
           \A c \in S : b[c] = a[c]
    PROVE  Ledger(q, S, b, D, T, n)
<1>1. {b[c] : c \in S} = {a[c] : c \in S}
  OBVIOUS
<1> QED
  BY <1>1 DEF Ledger

\* The ledger after a step.
NextLedger(m) ==
    Ledger(queue'[m], Submitting(m)', InHand', dropped'[m], taken'[m], count'[m])

LEMMA LedgerPrimed ==
    ASSUME \A m \in Media : NextLedger(m)
    PROVE  LedgerInv'
BY DEF NextLedger, LedgerInv, Ledger

\* The ledger of a stream that a step leaves alone.
LEMMA LedgerFrame ==
    ASSUME LedgerInv, NEW m \in Media,
           queue'[m] = queue[m], count'[m] = count[m],
           dropped'[m] = dropped[m], taken'[m] = taken[m],
           Submitting(m)' = Submitting(m),
           \A c \in Submitting(m) : arriving'[c] = arriving[c]
    PROVE  NextLedger(m)
<1>1. \A c \in Submitting(m) : InHand'[c] = InHand[c]
  BY DEF InHand, Submitting
<1>2. Ledger(queue[m], Submitting(m), InHand', dropped[m], taken[m], count[m])
  BY <1>1, LedgerSame DEF LedgerInv
<1> QED
  BY <1>2 DEF NextLedger

\* What the ledger lemmas need of the state.
LEMMA LedgerTypes ==
    ASSUME LiveTypeInv, LedgerInv, NEW m \in Media
    PROVE  /\ queue[m] \in Seq(Nat) /\ count[m] \in Nat
           /\ IsFiniteSet(Submitting(m))
           /\ \A c \in Conn : InHand[c] \in Nat /\ InHand[c] = arriving[c][2]
           /\ Ledger(queue[m], Submitting(m), InHand, dropped[m], taken[m], count[m])
<1>1. IsFiniteSet(Submitting(m))
  <2>1. Submitting(m) \in SUBSET Conn
    BY DEF Submitting
  <2> QED
    BY <2>1, FS_Subset, ClientAssumption
<1>2. \A c \in Conn : InHand[c] \in Nat /\ InHand[c] = arriving[c][2]
  <2>1. arriving \in [Conn -> Media \X Nat]
    BY DEF LiveTypeInv, LiveTypeOK
  <2> QED
    BY <2>1 DEF InHand
<1> QED
  BY <1>1, <1>2 DEF LiveTypeInv, LiveTypeOK, SessionTypeOK, LedgerInv

\* A socket's submission is counted, queued or refused.
LEMMA LedgerSubmit ==
    ASSUME LiveTypeInv, LedgerInv, NEW c \in Conn,
           \/ SubmitCounts(c)
           \/ handler[c] \in {"push", "retry"} /\ (Accepted(c) \/ Overloaded(c))
    PROVE  LedgerInv'
<1>t. /\ arriving \in [Conn -> Media \X Nat]
      /\ handler \in [Conn -> HandlerLabel]
      /\ queue \in [Media -> Seq(Nat)] /\ count \in [Media -> Nat]
      /\ dropped \in [Media -> SUBSET Nat] /\ taken \in [Media -> SUBSET Nat]
  BY DEF LiveTypeInv, LiveTypeOK, SessionTypeOK
<1>0. PICK s \in Media, x \in Nat : arriving[c] = <<s, x>>
  <2>1. arriving[c] \in Media \X Nat
    BY <1>t
  <2> QED
    BY <2>1
<1>s. /\ queue[s] \in Seq(Nat) /\ count[s] \in Nat
      /\ IsFiniteSet(Submitting(s))
      /\ InHand[c] \in Nat /\ InHand[c] = x
      /\ Ledger(queue[s], Submitting(s), InHand, dropped[s], taken[s], count[s])
  BY <1>0, LedgerTypes
<1>d. \A d \in Conn \ {c} : arriving'[d] = arriving[d] /\ handler'[d] = handler[d]
  BY <1>t DEF SubmitCounts, Accepted, Overloaded, GoTo
<1>i. \A d \in Conn \ {c} : InHand'[d] = InHand[d]
  BY <1>d DEF InHand
<1>o. ASSUME NEW m \in Media, m # s,
             queue'[m] = queue[m], count'[m] = count[m],
             dropped'[m] = dropped[m], taken'[m] = taken[m],
             handler'[c] = "read" \/ arriving'[c][1] = s
      PROVE  NextLedger(m)
  <2>1. c \notin Submitting(m)
    BY <1>0, <1>o DEF Submitting
  <2>2. Submitting(m)' = Submitting(m)
    BY <2>1, <1>o, <1>d DEF Submitting
  <2>3. \A d \in Submitting(m) : arriving'[d] = arriving[d]
    BY <2>1, <1>d DEF Submitting
  <2> QED
    BY <1>o, <2>2, <2>3, LedgerFrame
<1>1. CASE SubmitCounts(c)
  <2>1. /\ count' = [count EXCEPT ![s] = count[s] + 1]
        /\ UNCHANGED <<queue, dropped, taken>>
        /\ arriving'[c] = <<s, count[s] + 1>>
        /\ handler[c] = "count" /\ handler'[c] = "push"
    BY <1>0, <1>1, <1>t DEF SubmitCounts, CountArrival, GoTo, At
  <2>2. Submitting(s)' = Submitting(s) \union {c} /\ c \notin Submitting(s)
    BY <2>1, <1>d DEF Submitting
  <2>3. InHand'[c] = count[s] + 1 /\ \A d \in Submitting(s) : InHand'[d] = InHand[d]
    BY <2>1, <2>2, <1>i DEF InHand, Submitting
  <2>4. Ledger(queue[s], Submitting(s) \union {c}, InHand', dropped[s], taken[s], count[s] + 1)
    BY <2>2, <2>3, <1>s, LedgerCounts
  <2>5. NextLedger(s)
    <3>1. count'[s] = count[s] + 1
      BY <2>1, <1>t
    <3> QED
      BY <2>1, <2>2, <2>4, <3>1 DEF NextLedger
  <2>6. \A m \in Media : m # s => NextLedger(m)
    BY <2>1, <1>t, <1>o
  <2> QED
    BY <2>5, <2>6, LedgerPrimed
<1>2. ASSUME handler[c] \in {"push", "retry"}, handler'[c] = "read"
      PROVE  /\ c \in Submitting(s)
             /\ Submitting(s)' = Submitting(s) \ {c}
             /\ \A d \in Submitting(s) \ {c} : InHand'[d] = InHand[d]
  <2>1. c \in Submitting(s) /\ Submitting(s)' = Submitting(s) \ {c}
    BY <1>0, <1>2, <1>d DEF Submitting
  <2> QED
    BY <2>1, <1>i DEF Submitting
<1>3. CASE handler[c] \in {"push", "retry"} /\ Accepted(c)
  <2>1. /\ queue' = [queue EXCEPT ![s] = Append(queue[s], x)]
        /\ UNCHANGED <<count, dropped, taken>>
        /\ handler'[c] = "read"
    BY <1>0, <1>3, <1>t DEF Accepted, Push, GoTo
  <2>2. Ledger(Append(queue[s], InHand[c]), Submitting(s) \ {c}, InHand', dropped[s], taken[s],
               count[s])
    BY <2>1, <1>2, <1>3, <1>s, LedgerPushes
  <2>3. NextLedger(s)
    <3>1. queue'[s] = Append(queue[s], InHand[c])
      BY <2>1, <1>t, <1>s
    <3> QED
      BY <2>1, <2>2, <3>1, <1>2, <1>3 DEF NextLedger
  <2>4. \A m \in Media : m # s => NextLedger(m)
    BY <2>1, <1>t, <1>o
  <2> QED
    BY <2>3, <2>4, LedgerPrimed
<1>4. CASE handler[c] \in {"push", "retry"} /\ Overloaded(c)
  <2>1. /\ dropped' = [dropped EXCEPT ![s] = dropped[s] \union {x}]
        /\ UNCHANGED <<queue, count, taken>>
        /\ handler'[c] = "read"
    BY <1>0, <1>4, <1>t DEF Overloaded, Refuse, GoTo
  <2>2. Ledger(queue[s], Submitting(s) \ {c}, InHand', dropped[s] \union {InHand[c]}, taken[s],
               count[s])
    BY <2>1, <1>2, <1>4, <1>s, LedgerRefuses
  <2>3. NextLedger(s)
    <3>1. dropped'[s] = dropped[s] \union {InHand[c]}
      BY <2>1, <1>t, <1>s
    <3> QED
      BY <2>1, <2>2, <3>1, <1>2, <1>4 DEF NextLedger
  <2>4. \A m \in Media : m # s => NextLedger(m)
    BY <2>1, <1>t, <1>o
  <2> QED
    BY <2>3, <2>4, LedgerPrimed
<1> QED
  BY <1>1, <1>3, <1>4

\* A step that moves a socket among the labels of its submission, or among the others,
\* leaves it with what it has in hand.
LEMMA LedgerHandler ==
    ASSUME LiveTypeInv, LedgerInv, NEW c \in Conn, UNCHANGED feedVars,
           \/ UNCHANGED <<handler, arriving>>
           \/ /\ \E label \in HandlerLabel :
                    /\ GoTo(c, label)
                    /\ label \in {"push", "drop", "retry"}
                         <=> handler[c] \in {"push", "drop", "retry"}
              /\ \A d \in Conn : handler[d] \in {"push", "drop", "retry"} =>
                                    arriving'[d] = arriving[d]
              /\ arriving'[c][1] = arriving[c][1] \/ handler[c] \notin {"push", "drop", "retry"}
              /\ \A d \in Conn \ {c} : arriving'[d] = arriving[d]
    PROVE  LedgerInv'
<1> SUFFICES ASSUME NEW m \in Media PROVE NextLedger(m)
  BY LedgerPrimed
<1>t. handler \in [Conn -> HandlerLabel]
  BY DEF LiveTypeInv, LiveTypeOK
<1>1. Submitting(m)' = Submitting(m)
  <2>1. CASE UNCHANGED <<handler, arriving>>
    BY <2>1 DEF Submitting
  <2>2. CASE ~ UNCHANGED <<handler, arriving>>
    BY <2>2, <1>t DEF Submitting, GoTo
  <2> QED
    BY <2>1, <2>2
<1>2. \A d \in Submitting(m) : arriving'[d] = arriving[d]
  BY DEF Submitting
<1> QED
  BY <1>1, <1>2, LedgerFrame DEF feedVars

\* DropOldest makes room, and the dropped frame is in the ledger.
LEMMA LedgerDropOldest ==
    ASSUME LiveTypeInv, LedgerInv, NEW c \in Conn, At(c, "drop"), DropOldest,
           GoTo(c, "retry"), UNCHANGED arriving
    PROVE  LedgerInv'
<1> SUFFICES ASSUME NEW m \in Media PROVE NextLedger(m)
  BY LedgerPrimed
<1>t. /\ handler \in [Conn -> HandlerLabel]
      /\ queue \in [Media -> Seq(Nat)] /\ dropped \in [Media -> SUBSET Nat]
      /\ "video" \in Media
  BY DEF LiveTypeInv, LiveTypeOK, SessionTypeOK, Media
<1>1. \A k \in Media : Submitting(k)' = Submitting(k)
  BY <1>t DEF Submitting, GoTo, At
<1>2. CASE m = "video" /\ queue["video"] # <<>>
  <2>1. /\ dropped' = [dropped EXCEPT !["video"] = dropped["video"] \union {Head(queue["video"])}]
        /\ queue' = [queue EXCEPT !["video"] = Tail(queue["video"])]
        /\ UNCHANGED <<count, taken>>
    BY <1>2 DEF DropOldest
  <2>2. /\ dropped'[m] = dropped[m] \union {Head(queue[m])}
        /\ queue'[m] = Tail(queue[m])
    BY <1>2, <1>t, <2>1
  <2>3. Ledger(Tail(queue[m]), Submitting(m), InHand, dropped[m] \union {Head(queue[m])},
               taken[m], count[m])
    BY <1>2, LedgerTypes, LedgerDrops
  <2>4. InHand' = InHand
    BY DEF InHand
  <2> QED
    BY <2>1, <2>2, <2>3, <2>4, <1>1 DEF NextLedger
<1>3. CASE m # "video" \/ queue["video"] = <<>>
  <2>1. /\ queue'[m] = queue[m] /\ dropped'[m] = dropped[m]
        /\ count'[m] = count[m] /\ taken'[m] = taken[m]
    BY <1>3, <1>t DEF DropOldest, feedVars
  <2> QED
    BY <2>1, <1>1, LedgerFrame
<1> QED
  BY <1>2, <1>3

\* A worker's step leaves the ledger, or has the worker take the oldest item.
LEMMA LedgerWorker ==
    ASSUME LiveTypeInv, LedgerInv, NEW w \in LiveWorker, LiveWorkerStep(w),
           UNCHANGED <<clientVars, recordVars>>
    PROVE  LedgerInv'
<1> SUFFICES ASSUME NEW m \in Media PROVE NextLedger(m)
  BY LedgerPrimed
<1>t. /\ queue \in [Media -> Seq(Nat)] /\ taken \in [Media -> SUBSET Nat]
      /\ Feeds[w] \in Media
  BY SessionAssumption DEF LiveTypeInv, LiveTypeOK, SessionTypeOK
<1>1. UNCHANGED <<handler, arriving>>
  BY DEF clientVars
<1>2. Submitting(m)' = Submitting(m) /\ InHand' = InHand
  BY <1>1 DEF Submitting, InHand
<1>3. CASE Take(w) /\ m = Feeds[w]
  <2>1. /\ queue[m] # <<>>
        /\ queue'[m] = Tail(queue[m])
        /\ taken'[m] = taken[m] \union {Head(queue[m])}
        /\ UNCHANGED <<count, dropped>>
    BY <1>3, <1>t DEF Take
  <2>2. Ledger(Tail(queue[m]), Submitting(m), InHand, dropped[m],
               taken[m] \union {Head(queue[m])}, count[m])
    BY <2>1, LedgerTypes, LedgerTakes
  <2> QED
    BY <2>1, <2>2, <1>2 DEF NextLedger
<1>4. CASE ~ (Take(w) /\ m = Feeds[w])
  <2>1. /\ queue'[m] = queue[m] /\ dropped'[m] = dropped[m]
        /\ count'[m] = count[m] /\ taken'[m] = taken[m]
    BY <1>4, <1>t DEF LiveWorkerStep, Take, Leave, Fold, Fails, Emit, NextMessage, feedVars
  <2> QED
    BY <2>1, <1>1, <1>2, LedgerFrame
<1> QED
  BY <1>3, <1>4

\* Every step keeps the ledger.
LEMMA LedgerStep == LiveTypeInv /\ LedgerInv /\ [LiveNext]_liveVars => LedgerInv'
<1> SUFFICES ASSUME LiveTypeInv, LedgerInv, [LiveNext]_liveVars PROVE LedgerInv'
  OBVIOUS
<1> USE DEF sessionVars, clientVars, recordVars
<1>0. {"upgrade", "greet", "read", "count", "drop", "ending", "deferred", "join", "final",
       "complete", "create", "delete", "gone"} \subseteq HandlerLabel
  BY DEF HandlerLabel
<1>1. ASSUME NEW c \in Conn, Lookup(c) \/ Upgrade(c) \/ Greet(c)
      PROVE  LedgerInv'
  BY <1>0, <1>1, LedgerHandler DEF Lookup, Upgrade, Greet, At
<1>2. ASSUME NEW c \in Conn, ReadMessage(c) \/ ReadFails(c)
      PROVE  LedgerInv'
  <2>1. CASE ReadItem(c)
    <3>1. /\ UNCHANGED feedVars
          /\ handler[c] = "read" /\ GoTo(c, "count")
          /\ \A d \in Conn \ {c} : arriving'[d] = arriving[d]
      BY <2>1 DEF ReadItem, Received, At, LiveTypeInv, LiveTypeOK
    <3> QED
      BY <1>0, <3>1, LedgerHandler
  <2>2. CASE ReadInvalid(c)
    BY <2>2, LedgerHandler DEF ReadInvalid
  <2>3. CASE ReadBeyondLimit(c) \/ ReadEndSession(c) \/ ReadFails(c)
    BY <1>0, <2>3, LedgerHandler
    DEF ReadBeyondLimit, ReadEndSession, ReadFails, Received, At
  <2> QED
    BY <1>2, <2>1, <2>2, <2>3 DEF ReadMessage
<1>3. ASSUME NEW c \in Conn, SubmitFrame(c) \/ SubmitAudioChunk(c)
      PROVE  LedgerInv'
  <2>1. CASE handler[c] \in {"push", "retry"} /\ (Accepted(c) \/ Overloaded(c))
    BY <2>1, LedgerSubmit
  <2>2. CASE At(c, "push") /\ GoTo(c, "drop") /\ UNCHANGED <<feedVars, arriving>>
    BY <1>0, <2>2, LedgerHandler DEF At
  <2>3. CASE At(c, "drop") /\ DropOldest /\ GoTo(c, "retry") /\ UNCHANGED arriving
    BY <2>3, LedgerDropOldest
  <2> QED
    BY <1>3, <2>1, <2>2, <2>3 DEF SubmitFrame, SubmitAudioChunk, At
<1>4. ASSUME NEW c \in Conn, EndReturns(c) \/ CloseSend(c)
      PROVE  LedgerInv'
  BY <1>0, <1>4, LedgerHandler DEF EndReturns, CloseSend, At
<1>5. ASSUME NEW c \in Conn, EndCancels(c) \/ EndCloses(c)
      PROVE  LedgerInv'
  BY <1>5, LedgerHandler DEF EndCancels, EndCloses, Cancel, CloseOut
<1>6. ASSUME NEW c \in Conn, FinalResult(c) \/ Complete(c) \/ Create(c) \/ Delete(c)
      PROVE  LedgerInv'
  BY <1>0, <1>6, LedgerHandler DEF FinalResult, Complete, Create, Delete, At
<1>7. ASSUME NEW c \in Conn, ForwarderStep(c) \/ Write(c) \/ WriteFails(c)
      PROVE  LedgerInv'
  BY <1>7, LedgerHandler DEF ForwarderStep, Receive, Forward, Write, WriteFails
<1>8. ASSUME NEW c \in Conn, HandlerStep(c)
      PROVE  LedgerInv'
  BY <1>1, <1>2, <1>3, <1>4, <1>5, <1>6, <1>8, LedgerSubmit DEF HandlerStep
<1>9. CASE UNCHANGED liveVars
  <2>1. \A m \in Media : Submitting(m)' = Submitting(m)
    BY <1>9 DEF liveVars, Submitting
  <2>2. \A m \in Media : NextLedger(m)
    BY <1>9, <2>1, LedgerFrame DEF liveVars, feedVars
  <2> QED
    BY <2>2, LedgerPrimed
<1> QED
  BY <1>1, <1>2, <1>7, <1>8, <1>9, LedgerWorker DEF LiveNext

\* Every frame and chunk received is waiting, in a socket's hands, dropped or taken,
\* and exactly one of these (AccountedFor), whatever sockets and workers do to the
\* queue between the three selects of SubmitFrame.
THEOREM EveryItemIsAccountedFor == LiveSpec => []AccountedFor
<1>1. LedgerInv => AccountedFor
  <2> SUFFICES ASSUME LedgerInv, NEW m \in Media
               PROVE  LET inHand == {arriving[c][2] : c \in Submitting(m)}
                      IN  /\ 1 .. count[m]
                               = ToSet(queue[m]) \union inHand \union dropped[m] \union taken[m]
                          /\ count[m] = Len(queue[m]) + Cardinality(Submitting(m))
                                         + Cardinality(dropped[m]) + Cardinality(taken[m])
    BY DEF AccountedFor
  <2>1. {InHand[c] : c \in Submitting(m)} = {arriving[c][2] : c \in Submitting(m)}
    BY DEF InHand, Submitting
  <2> QED
    BY <2>1 DEF LedgerInv, Ledger
<1> QED
  BY LiveTypeInvariant, LedgerInit, LedgerStep, <1>1, PTL DEF LiveSpec

----------------------------------------------------------------------------
(* With one socket, freshness.                                             *)

\* The order of what is waiting (q), in hand (H) and dropped (D).
Ordered(q, H, D) ==
    /\ \A i, j \in 1 .. Len(q) : i < j => q[i] < q[j]
    /\ \A h \in H : \A x \in ToSet(q) \union D : x < h
    /\ \A d \in D : \A x \in ToSet(q) : d < x

\* What is in hand joins the queue behind everything else.
LEMMA OrderedPush ==
    ASSUME NEW q \in Seq(Nat), NEW H, NEW D, Ordered(q, H, D), NEW x \in H, x \in Nat
    PROVE  Ordered(Append(q, x), {}, D)
<1> DEFINE p == Append(q, x)
<1>1. /\ ToSet(p) = ToSet(q) \union {x}
      /\ Len(p) = Len(q) + 1
      /\ \A i \in 1 .. Len(q) : p[i] = q[i]
      /\ p[Len(q) + 1] = x
  BY AppendToSet, AppendProperties
<1>2. Len(q) \in Nat /\ DOMAIN q = 1 .. Len(q)
  BY LenProperties
<1>3. \A y \in ToSet(q) \union D : y < x
  BY DEF Ordered
<1> HIDE DEF p
<1>4. ASSUME NEW i \in 1 .. Len(p), NEW j \in 1 .. Len(p), i < j
      PROVE  p[i] < p[j]
  <2>1. i \in 1 .. Len(q) /\ (j \in 1 .. Len(q) \/ j = Len(q) + 1)
    BY <1>1, <1>2, <1>4
  <2>2. CASE j \in 1 .. Len(q)
    BY <1>1, <1>4, <2>1, <2>2 DEF Ordered
  <2>3. CASE j = Len(q) + 1
    <3>1. q[i] \in ToSet(q)
      BY <1>2, <2>1 DEF ToSet
    <3> QED
      BY <1>1, <1>3, <2>1, <2>3, <3>1
  <2> QED
    BY <2>1, <2>2, <2>3
<1>5. \A d \in D : \A y \in ToSet(p) : d < y
  BY <1>1, <1>3 DEF Ordered
<1> QED
  BY <1>4, <1>5 DEF Ordered, p

\* Taking the oldest away keeps the order, whether or not it counts as dropped.
LEMMA OrderedTail ==
    ASSUME NEW q \in Seq(Nat), q # <<>>, NEW H \in SUBSET Nat, NEW D \in SUBSET Nat,
           Ordered(q, H, D)
    PROVE  Ordered(Tail(q), H, D) /\ Ordered(Tail(q), H, D \union {Head(q)})
<1> DEFINE p == Tail(q)
           x == Head(q)
<1>1. /\ p \in Seq(Nat)
      /\ Len(p) = Len(q) - 1
      /\ \A i \in 1 .. Len(q) - 1 : p[i] = q[i + 1]
      /\ x = q[1]
      /\ ToSet(q) = {x} \union ToSet(p)
  BY HeadTailProperties, HeadTailToSet
<1>2. Len(q) \in Nat \ {0} /\ DOMAIN p = 1 .. Len(q) - 1
  BY <1>1, LenProperties, EmptySeq
<1> HIDE DEF p, x
<1>3. ASSUME NEW i \in 1 .. Len(p), NEW j \in 1 .. Len(p), i < j
      PROVE  p[i] < p[j]
  <2>1. i + 1 \in 1 .. Len(q) /\ j + 1 \in 1 .. Len(q) /\ i + 1 < j + 1
    BY <1>1, <1>2, <1>3
  <2>2. q[i + 1] < q[j + 1]
    BY <2>1 DEF Ordered
  <2>3. i \in 1 .. Len(q) - 1 /\ j \in 1 .. Len(q) - 1
    BY <1>1, <1>2, <1>3
  <2>4. p[i] = q[i + 1] /\ p[j] = q[j + 1]
    BY <1>1, <2>3
  <2> QED
    BY <2>2, <2>4
<1>4. ASSUME NEW i \in 1 .. Len(q) - 1
      PROVE  x < p[i]
  <2>1. i + 1 \in 1 .. Len(q) /\ 1 \in 1 .. Len(q) /\ 1 < i + 1
    BY <1>2
  <2>2. q[1] < q[i + 1]
    BY <2>1 DEF Ordered
  <2> QED
    BY <2>2, <1>1
<1>5. \A y \in ToSet(p) : x < y
  BY <1>2, <1>4 DEF ToSet
<1>6. /\ \A h \in H : \A y \in ToSet(p) \union D \union {x} : y < h
      /\ \A d \in D \union {x} : \A y \in ToSet(p) : d < y
  BY <1>1, <1>5 DEF Ordered
<1> QED
  BY <1>3, <1>6 DEF Ordered, p, x

\* The video frames in hand.
Hands == {arriving[c][2] : c \in Submitting("video")}

\* No two sockets were opened.
Alone == \A c, d \in Opened : c = d

Fresh ==
    /\ Ordered(queue["video"], Hands, dropped["video"])
    /\ \A c \in Conn : handler[c] = "retry" => HasRoom("video")

\* The invariant: only the one socket can stand between two of SubmitFrame's selects,
\* and what it has in hand is newer than everything else.
FreshInv == Alone => Fresh

\* A new session has nothing to order.
LEMMA FreshInit == LiveInit => FreshInv
<1> SUFFICES ASSUME LiveInit PROVE Fresh
  BY DEF FreshInv
<1>1. /\ queue["video"] = <<>> /\ dropped["video"] = {} /\ Hands = {}
      /\ \A c \in Conn : handler[c] = "away"
  BY DEF LiveInit, SessionInit, Submitting, Hands, Media
<1>2. ToSet(<<>>) = {} /\ 1 .. Len(<<>>) = {}
  BY DEF ToSet
<1> QED
  BY <1>1, <1>2 DEF Fresh, Ordered

\* A step that brings no frame and no socket to its last select keeps the order.
LEMMA FreshFrame ==
    ASSUME Fresh, queue'["video"] = queue["video"], dropped'["video"] = dropped["video"],
           Submitting("video")' \subseteq Submitting("video"),
           \A c \in Submitting("video")' : arriving'[c] = arriving[c],
           \A c \in Conn : handler'[c] = "retry" => handler[c] = "retry"
    PROVE  Fresh'
<1>1. Hands' \subseteq Hands
  BY DEF Hands
<1> QED
  BY <1>1 DEF Fresh, Ordered, HasRoom

\* What the steps need to know of the state.
LEMMA FreshTypes ==
    ASSUME LiveTypeInv, LedgerInv
    PROVE  /\ handler \in [Conn -> HandlerLabel]
           /\ arriving \in [Conn -> Media \X Nat]
           /\ queue \in [Media -> Seq(Nat)] /\ count \in [Media -> Nat]
           /\ dropped \in [Media -> SUBSET Nat]
           /\ "video" \in Media
           /\ Hands \in SUBSET Nat
           /\ ToSet(queue["video"]) \union dropped["video"] \subseteq 1 .. count["video"]
           /\ MaxQueue["video"] \in Nat \ {0}
           /\ Len(queue["video"]) \in Nat
<1>1. "video" \in Media
  BY DEF Media
<1>2. arriving \in [Conn -> Media \X Nat]
  BY DEF LiveTypeInv, LiveTypeOK
<1>3. \A c \in Conn : arriving[c][2] \in Nat
  BY <1>2
<1>4. Hands \in SUBSET Nat
  BY <1>3 DEF Hands, Submitting
<1>5. ToSet(queue["video"]) \union dropped["video"] \subseteq 1 .. count["video"]
  BY <1>1 DEF LedgerInv, Ledger
<1>6. MaxQueue["video"] \in Nat \ {0}
  BY <1>1, SessionAssumption
<1>7. queue \in [Media -> Seq(Nat)]
  BY DEF LiveTypeInv, LiveTypeOK, SessionTypeOK
<1>8. Len(queue["video"]) \in Nat
  BY <1>1, <1>7, LenProperties
<1> QED
  BY <1>1, <1>2, <1>4, <1>5, <1>6, <1>7, <1>8 DEF LiveTypeInv, LiveTypeOK, SessionTypeOK

\* Sockets that were opened stay counted as such.
LEMMA OpenedGrows ==
    ASSUME LiveTypeInv, [LiveNext]_liveVars
    PROVE  Opened \subseteq Opened'
<1>t. forwarder \in [Conn -> {"off", "range", "send", "done"}]
  BY DEF LiveTypeInv, LiveTypeOK
<1> USE DEF Opened, clientVars, recordVars, submitUnchanged
<1>0. UNCHANGED forwarder => Opened \subseteq Opened'
  OBVIOUS
<1>1. ASSUME NEW c \in Conn, NEW label \in {"range", "send", "done"},
             forwarder' = [forwarder EXCEPT ![c] = label]
      PROVE  Opened \subseteq Opened'
  BY <1>1, <1>t
<1>2. ASSUME NEW c \in Conn, Upgrade(c) \/ ForwarderStep(c)
      PROVE  Opened \subseteq Opened'
  <2>1. UNCHANGED forwarder \/ \E label \in {"range", "send", "done"} :
                                  forwarder' = [forwarder EXCEPT ![c] = label]
    BY <1>2 DEF Upgrade, ForwarderStep, Receive, Forward
  <2> QED
    BY <2>1, <1>0, <1>1
<1>3. ASSUME NEW c \in Conn, SubmitCounts(c) \/ SubmitFrame(c) \/ SubmitAudioChunk(c)
      PROVE  Opened \subseteq Opened'
  BY <1>3, <1>0 DEF SubmitCounts, SubmitFrame, SubmitAudioChunk, Accepted, Overloaded
<1>4. ASSUME NEW c \in Conn,
             \/ Lookup(c) \/ ReadMessage(c) \/ Greet(c) \/ ReadFails(c)
             \/ EndCancels(c) \/ EndCloses(c) \/ EndReturns(c) \/ CloseSend(c)
             \/ FinalResult(c) \/ Complete(c) \/ Create(c) \/ Delete(c)
             \/ Write(c) \/ WriteFails(c)
      PROVE  Opened \subseteq Opened'
  BY <1>4, <1>0
  DEF Lookup, ReadMessage, ReadBeyondLimit, ReadEndSession, ReadInvalid, ReadItem, Greet,
      ReadFails, EndCancels, EndCloses, EndReturns, CloseSend, FinalResult, Complete,
      Create, Delete, Write, WriteFails
<1> QED
  BY <1>0, <1>2, <1>3, <1>4 DEF LiveNext, HandlerStep, liveVars

\* The one socket's submission: its frame is the newest, and found its place.
LEMMA FreshSubmit ==
    ASSUME LiveTypeInv, LimitsInv, LedgerInv, Alone, Fresh, NEW c \in Conn,
           SubmitCounts(c) \/ SubmitFrame(c) \/ SubmitAudioChunk(c)
    PROVE  Fresh'
<1> DEFINE q == queue["video"]
           D == dropped["video"]
<1>t. /\ handler \in [Conn -> HandlerLabel]
      /\ arriving \in [Conn -> Media \X Nat]
      /\ queue \in [Media -> Seq(Nat)] /\ count \in [Media -> Nat]
      /\ dropped \in [Media -> SUBSET Nat]
      /\ "video" \in Media
      /\ Hands \in SUBSET Nat
      /\ ToSet(q) \union D \subseteq 1 .. count["video"]
      /\ MaxQueue["video"] \in Nat \ {0}
      /\ Len(q) \in Nat
  BY FreshTypes
<1>a. \A d \in Conn \ {c} : handler[d] \notin {"count", "push", "drop", "retry"}
  <2>1. handler[c] \in {"count", "push", "drop", "retry"}
    BY DEF SubmitCounts, SubmitFrame, SubmitAudioChunk, At
  <2> QED
    BY <2>1 DEF Alone, LimitsInv
<1>d. \A d \in Conn \ {c} : handler'[d] \notin {"push", "drop", "retry"}
  <2>1. \A label : GoTo(c, label) => \A d \in Conn \ {c} : handler'[d] = handler[d]
    BY <1>t DEF GoTo
  <2>2. \E label : GoTo(c, label)
    BY DEF SubmitCounts, SubmitFrame, SubmitAudioChunk, Accepted, Overloaded
  <2> QED
    BY <2>1, <2>2, <1>a
<1>g. \A label : GoTo(c, label) => handler'[c] = label
  BY <1>t DEF GoTo
<1>s. Submitting("video")' \subseteq {c} /\ Submitting("video") \subseteq {c}
  BY <1>a, <1>d DEF Submitting
<1>r. handler'[c] # "retry" => \A d \in Conn : handler'[d] # "retry"
  BY <1>d
<1>h. arriving[c][1] = "video" /\ handler[c] \in {"push", "drop", "retry"} =>
        arriving[c][2] \in Hands /\ arriving[c][2] \in Nat
  BY <1>t DEF Hands, Submitting
<1>1. CASE SubmitCounts(c)
  <2>1. /\ handler'[c] = "push"
        /\ UNCHANGED <<queue, dropped>>
        /\ arriving'[c][2] = count[arriving[c][1]] + 1
        /\ arriving'[c][1] = arriving[c][1]
    BY <1>1, <1>t, <1>g DEF SubmitCounts, CountArrival
  <2>2. \A h \in Hands' : h = count["video"] + 1
    BY <2>1, <1>s DEF Hands, Submitting
  <2>3. \A x \in ToSet(q) \union D : x < count["video"] + 1
    BY <1>t
  <2>4. Ordered(q, Hands', D)
    BY <2>2, <2>3 DEF Fresh, Ordered
  <2> QED
    BY <2>1, <2>4, <1>r DEF Fresh, Ordered
<1>2. ASSUME handler'[c] = "read", UNCHANGED dropped, arriving[c][1] = "video",
             handler[c] \in {"push", "drop", "retry"}, Push("video", arriving[c][2])
      PROVE  Fresh'
  <2>1. queue'["video"] = Append(q, arriving[c][2])
    BY <1>2, <1>t DEF Push
  <2>2. Ordered(Append(q, arriving[c][2]), {}, D)
    BY <1>2, <1>h, <1>t, OrderedPush DEF Fresh
  <2>3. Hands' = {}
    BY <1>2, <1>s DEF Hands, Submitting
  <2> HIDE DEF q, D
  <2>4. Ordered(queue'["video"], Hands', dropped'["video"])
    BY <1>2, <2>1, <2>2, <2>3 DEF D
  <2> QED
    BY <2>4, <1>2, <1>r DEF Fresh, Ordered
<1>3. ASSUME arriving[c][1] = "audio", handler'[c] = "read",
             queue'["video"] = q, dropped'["video"] = D
      PROVE  Fresh'
  <2>1. Submitting("video")' = {}
    BY <1>3, <1>s DEF Submitting
  <2> QED
    BY <1>3, <1>r, <2>1, FreshFrame
<1>4. CASE SubmitAudioChunk(c)
  <2>1. arriving[c][1] = "audio" /\ handler'[c] = "read"
    BY <1>4, <1>g DEF SubmitAudioChunk, Accepted, Overloaded
  <2>2. queue'["video"] = q /\ dropped'["video"] = D
    BY <1>4, <2>1, <1>t DEF SubmitAudioChunk, Accepted, Overloaded, Push, Refuse
  <2> QED
    BY <2>1, <2>2, <1>3
<1>5. CASE SubmitFrame(c)
  <2>1. CASE Accepted(c)
    <3>1. /\ handler'[c] = "read" /\ arriving[c][1] = "video"
          /\ Push("video", arriving[c][2])
          /\ handler[c] \in {"push", "drop", "retry"}
      BY <1>5, <2>1, <1>g DEF Accepted, SubmitFrame, At
    <3>2. UNCHANGED dropped
      BY <3>1 DEF Push
    <3> QED
      BY <3>1, <3>2, <1>2
  <2>2. CASE GoTo(c, "drop") /\ UNCHANGED <<feedVars, arriving>>
    <3>1. handler'[c] = "drop" /\ handler[c] \in {"push", "drop", "retry"}
      BY <1>5, <2>2, <1>g DEF SubmitFrame, At
    <3>2. Submitting("video")' \subseteq Submitting("video")
      BY <3>1, <2>2, <1>s DEF Submitting
    <3> QED
      BY <2>2, <3>1, <3>2, <1>r, FreshFrame DEF feedVars
  <2>3. CASE DropOldest /\ GoTo(c, "retry") /\ UNCHANGED arriving /\ handler[c] = "drop"
    <3>1. Hands' = Hands
      <4>1. handler'[c] = "retry"
        BY <2>3, <1>g
      <4>2. Submitting("video")' = Submitting("video")
        BY <4>1, <2>3, <1>s DEF Submitting
      <4> QED
        BY <4>2, <2>3 DEF Hands
    <3>2. CASE q = <<>> /\ UNCHANGED feedVars
      <4>1. Len(q) = 0
        BY <3>2
      <4>2. Len(queue'["video"]) < MaxQueue["video"]
        BY <4>1, <3>2, <1>t DEF feedVars
      <4> QED
        BY <3>1, <3>2, <4>2 DEF Fresh, Ordered, HasRoom, feedVars
    <3>3. CASE q # <<>>
      <4>1. queue'["video"] = Tail(q) /\ dropped'["video"] = D \union {Head(q)}
        BY <2>3, <3>3, <1>t DEF DropOldest
      <4>2. Ordered(Tail(q), Hands, D \union {Head(q)})
        BY <3>3, <1>t, OrderedTail DEF Fresh
      <4>3. Len(queue'["video"]) < MaxQueue["video"]
        <5>1. Len(Tail(q)) = Len(q) - 1 /\ Len(q) <= MaxQueue["video"]
          BY <3>3, <1>t, HeadTailProperties DEF LiveTypeInv, LiveTypeOK, SessionTypeOK
        <5> QED
          BY <4>1, <5>1, <1>t
      <4> HIDE DEF q, D
      <4>4. Ordered(queue'["video"], Hands', dropped'["video"])
        BY <3>1, <4>1, <4>2
      <4> QED
        BY <4>3, <4>4 DEF Fresh, Ordered, HasRoom
    <3> QED
      BY <2>3, <3>2, <3>3 DEF DropOldest
  <2>4. ~ (At(c, "retry") /\ ~HasRoom("video"))
    BY DEF Fresh, At
  <2> QED
    BY <1>5, <2>1, <2>2, <2>3, <2>4 DEF SubmitFrame, At
<1> QED
  BY <1>1, <1>4, <1>5

\* The handler's other steps.
LEMMA FreshHandler ==
    ASSUME LiveTypeInv, Fresh, NEW c \in Conn, UNCHANGED feedVars,
           \/ UNCHANGED <<handler, arriving>>
           \/ /\ \E label \in HandlerLabel \ {"push", "drop", "retry"} : GoTo(c, label)
              /\ \A d \in Conn \ {c} : arriving'[d] = arriving[d]
    PROVE  Fresh'
<1>t. handler \in [Conn -> HandlerLabel]
  BY DEF LiveTypeInv, LiveTypeOK
<1>1. CASE UNCHANGED <<handler, arriving>>
  BY <1>1, FreshFrame DEF Submitting, feedVars
<1>2. CASE /\ \E label \in HandlerLabel \ {"push", "drop", "retry"} : GoTo(c, label)
           /\ \A d \in Conn \ {c} : arriving'[d] = arriving[d]
  <2>1. /\ handler'[c] \notin {"push", "drop", "retry"}
        /\ \A d \in Conn \ {c} : handler'[d] = handler[d]
    BY <1>2, <1>t DEF GoTo
  <2>2. /\ Submitting("video")' \subseteq Submitting("video")
        /\ \A d \in Submitting("video")' : arriving'[d] = arriving[d]
    BY <1>2, <2>1 DEF Submitting
  <2> QED
    BY <2>1, <2>2, FreshFrame DEF feedVars
<1> QED
  BY <1>1, <1>2

\* A worker that takes the oldest frame keeps the order and makes room.
LEMMA FreshWorker ==
    ASSUME LiveTypeInv, LedgerInv, Fresh, NEW w \in LiveWorker, LiveWorkerStep(w),
           UNCHANGED <<clientVars, recordVars>>
    PROVE  Fresh'
<1>t. /\ queue \in [Media -> Seq(Nat)]
      /\ dropped \in [Media -> SUBSET Nat]
      /\ "video" \in Media
      /\ Hands \in SUBSET Nat
      /\ MaxQueue["video"] \in Nat \ {0}
      /\ Len(queue["video"]) \in Nat
  BY FreshTypes
<1>1. UNCHANGED <<handler, arriving>>
  BY DEF clientVars
<1>2. Submitting("video")' = Submitting("video")
  BY <1>1 DEF Submitting
<1>3. CASE Take(w) /\ Feeds[w] = "video"
  <2>1. /\ queue["video"] # <<>>
        /\ queue'["video"] = Tail(queue["video"])
        /\ dropped' = dropped
    BY <1>3, <1>t DEF Take
  <2>2. Ordered(Tail(queue["video"]), Hands, dropped["video"])
    BY <2>1, <1>t, OrderedTail DEF Fresh
  <2>3. Len(Tail(queue["video"])) = Len(queue["video"]) - 1
    BY <2>1, <1>t, HeadTailProperties
  <2>4. Hands' = Hands
    BY <1>1, <1>2 DEF Hands
  <2>5. Ordered(queue'["video"], Hands', dropped'["video"])
    BY <2>1, <2>2, <2>4
  <2>6. \A c \in Conn : handler'[c] = "retry" => Len(queue'["video"]) < MaxQueue["video"]
    BY <2>1, <2>3, <1>1, <1>t DEF Fresh, HasRoom
  <2> QED
    BY <2>5, <2>6 DEF Fresh, Ordered, HasRoom
<1>4. CASE ~ (Take(w) /\ Feeds[w] = "video")
  <2>1. queue'["video"] = queue["video"] /\ dropped'["video"] = dropped["video"]
    BY <1>4, <1>t, SessionAssumption
    DEF LiveWorkerStep, Take, Leave, Fold, Fails, Emit, NextMessage, feedVars
  <2> QED
    BY <2>1, <1>1, <1>2, FreshFrame
<1> QED
  BY <1>3, <1>4

\* Every step keeps the invariant.
LEMMA FreshStep ==
    LiveTypeInv /\ LimitsInv /\ LedgerInv /\ FreshInv /\ [LiveNext]_liveVars => FreshInv'
<1> SUFFICES ASSUME LiveTypeInv, LimitsInv, LedgerInv, FreshInv, [LiveNext]_liveVars, Alone'
             PROVE  Fresh'
  BY DEF FreshInv
<1>a. Alone /\ Fresh
  <2>1. Alone
    BY OpenedGrows DEF Alone
  <2> QED
    BY <2>1 DEF FreshInv
<1> USE DEF sessionVars, clientVars, recordVars
<1>0. {"upgrade", "greet", "read", "count", "ending", "deferred", "join", "final",
       "complete", "create", "delete", "gone"} \subseteq HandlerLabel \ {"push", "drop", "retry"}
  BY DEF HandlerLabel
<1>1. ASSUME NEW c \in Conn, Lookup(c) \/ Upgrade(c) \/ Greet(c)
      PROVE  Fresh'
  BY <1>0, <1>a, <1>1, FreshHandler DEF Lookup, Upgrade, Greet, At
<1>2. ASSUME NEW c \in Conn, ReadMessage(c) \/ ReadFails(c)
      PROVE  Fresh'
  <2>1. CASE ReadItem(c)
    <3>1. /\ UNCHANGED feedVars
          /\ GoTo(c, "count")
          /\ \A d \in Conn \ {c} : arriving'[d] = arriving[d]
      BY <2>1 DEF ReadItem, LiveTypeInv, LiveTypeOK
    <3> QED
      BY <1>0, <1>a, <3>1, FreshHandler
  <2>2. CASE ReadInvalid(c)
    BY <1>a, <2>2, FreshHandler DEF ReadInvalid
  <2>3. CASE ReadBeyondLimit(c) \/ ReadEndSession(c) \/ ReadFails(c)
    BY <1>0, <1>a, <2>3, FreshHandler DEF ReadBeyondLimit, ReadEndSession, ReadFails
  <2> QED
    BY <1>2, <2>1, <2>2, <2>3 DEF ReadMessage
<1>4. ASSUME NEW c \in Conn, EndReturns(c) \/ CloseSend(c)
      PROVE  Fresh'
  BY <1>0, <1>a, <1>4, FreshHandler DEF EndReturns, CloseSend
<1>5. ASSUME NEW c \in Conn, EndCancels(c) \/ EndCloses(c)
      PROVE  Fresh'
  BY <1>5, <1>a, FreshHandler DEF EndCancels, EndCloses, Cancel, CloseOut
<1>6. ASSUME NEW c \in Conn, FinalResult(c) \/ Complete(c) \/ Create(c) \/ Delete(c)
      PROVE  Fresh'
  BY <1>0, <1>a, <1>6, FreshHandler DEF FinalResult, Complete, Create, Delete
<1>7. ASSUME NEW c \in Conn, ForwarderStep(c) \/ Write(c) \/ WriteFails(c)
      PROVE  Fresh'
  BY <1>7, <1>a, FreshHandler DEF ForwarderStep, Receive, Forward, Write, WriteFails
<1>8. ASSUME NEW c \in Conn, HandlerStep(c)
      PROVE  Fresh'
  BY <1>1, <1>2, <1>4, <1>5, <1>6, <1>8, <1>a, FreshSubmit DEF HandlerStep
<1>9. CASE UNCHANGED liveVars
  BY <1>9, <1>a, FreshFrame DEF liveVars, feedVars, Submitting
<1> QED
  BY <1>1, <1>2, <1>7, <1>8, <1>9, <1>a, FreshWorker DEF LiveNext

\* With one socket, only frames older than all that are still waiting or arriving are
\* dropped, and SubmitFrame's last select always finds room (OneSocketStaysFresh),
\* however its workers come in between.
THEOREM FramesStayFresh == LiveSpec => []OneSocketStaysFresh
<1>1. LiveTypeInv /\ FreshInv => OneSocketStaysFresh
  <2> SUFFICES ASSUME LiveTypeInv, FreshInv, Cardinality(Opened) <= 1
               PROVE  /\ \A n \in ToSet(queue["video"]) \union Hands :
                            \A d \in dropped["video"] : d < n
                      /\ \A c \in Conn : handler[c] = "retry" => HasRoom("video")
    BY DEF OneSocketStaysFresh, Hands
  <2>1. Alone
    <3> SUFFICES ASSUME NEW c \in Opened, NEW d \in Opened, c # d
                 PROVE  FALSE
      BY DEF Alone
    <3>1. IsFiniteSet(Opened) /\ Cardinality(Opened) \in Nat
      BY SocketSets DEF Media
    <3>2. IsFiniteSet(Opened \ {c}) /\ Cardinality(Opened \ {c}) = Cardinality(Opened) - 1
      BY <3>1, FS_RemoveElement
    <3>3. Cardinality(Opened \ {c}) # 0
      <4>1. d \in Opened \ {c}
        OBVIOUS
      <4> QED
        BY <3>2, <4>1, FS_EmptySet
    <3>4. Cardinality(Opened \ {c}) \in Nat
      BY <3>2, FS_CardinalityType
    <3> QED
      BY <3>1, <3>2, <3>3, <3>4
  <2> QED
    BY <2>1 DEF FreshInv, Fresh, Ordered
<1> QED
  BY LiveTypeInvariant, LimitsInit, LimitsStep, LedgerInit, LedgerStep, FreshInit, FreshStep,
     <1>1, PTL DEF LiveSpec
=============================================================================
