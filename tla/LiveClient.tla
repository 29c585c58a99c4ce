----------------------------- MODULE LiveClient -----------------------------
(***************************************************************************)
(* gateway/internal/realtime/client.go and handlers/sessionswebsocket.go:  *)
(* the sockets of one live session.  Every socket has three goroutines:    *)
(* the handler, which runs ReadPump and then persists the session's final  *)
(* result, ForwardSessionMessages, and WritePump.                          *)
(*                                                                         *)
(* handler:  away -> upgrade -> greet -> read                              *)
(*           read -> count -> push -> drop -> retry -> read                *)
(*           read -> ending -> deferred -> join -> final -> complete       *)
(*                -> create -> delete -> gone                              *)
(***************************************************************************)
EXTENDS LiveSession

CONSTANTS SendBuffer,   \* sendBuffer
          Streams,      \* what the browsers send: frames, chunks or both
          NoResult      \* nothing on record

ASSUME ClientAssumption ==
    /\ IsFiniteSet(Conn)
    /\ SendBuffer \in Nat \ {0}
    /\ Streams \subseteq Media
    /\ NoResult \notin Nat

VARIABLES stored,      \* the session is in the Store
          handler,     \* where each socket's handler stands
          arriving,    \* the frame or chunk it is submitting
          forwarder,   \* "off", "range" over Out, "send", or "done" (forwardDone)
          writer,      \* WritePump: "off", "run" or "closed", the connection too
          send,        \* how many messages are in the socket's send channel
          sendClosed,
          final,       \* the FinalResult the handler is persisting
          row,         \* sessions: the result the session was completed with
          result,      \* analysis_results: the result on record
          creates      \* history: the sockets that called analysisRepo.Create

clientVars == <<stored, handler, arriving, forwarder, writer, send, sendClosed>>
recordVars == <<final, row, result, creates>>
liveVars == <<sessionVars, clientVars, recordVars>>

HandlerLabel == {"away", "upgrade", "greet", "read", "count", "push", "drop",
                 "retry", "ending", "deferred", "join", "final", "complete", "create",
                 "delete", "gone"}

\* A result is the number of updates it reflects.
Result == Nat \union {NoResult}

NoItem == <<"video", 0>>

LiveTypeOK ==
    /\ SessionTypeOK
    /\ stored \in BOOLEAN
    /\ handler \in [Conn -> HandlerLabel]
    /\ arriving \in [Conn -> Media \X Nat]
    /\ forwarder \in [Conn -> {"off", "range", "send", "done"}]
    /\ writer \in [Conn -> {"off", "run", "closed"}]
    /\ send \in [Conn -> 0 .. SendBuffer]
    /\ sendClosed \in [Conn -> BOOLEAN]
    /\ final \in [Conn -> Nat]
    /\ row \in Result
    /\ result \in Result
    /\ creates \subseteq Conn

\* POST /api/v1/sessions has created the session and its row.
LiveInit ==
    /\ SessionInit
    /\ stored = TRUE
    /\ handler = [c \in Conn |-> "away"]
    /\ arriving = [c \in Conn |-> NoItem]
    /\ forwarder = [c \in Conn |-> "off"]
    /\ writer = [c \in Conn |-> "off"]
    /\ send = [c \in Conn |-> 0]
    /\ sendClosed = [c \in Conn |-> FALSE]
    /\ final = [c \in Conn |-> 0]
    /\ row = NoResult
    /\ result = NoResult
    /\ creates = {}

At(c, label) == handler[c] = label

GoTo(c, label) == handler' = [handler EXCEPT ![c] = label]

\* Mutant: Send waits for room.
QueuedWhenRoom(c) ==
    /\ send[c] < SendBuffer
    /\ send' = [send EXCEPT ![c] = @ + 1]

\* Client.Send: a message is queued, or dropped when the buffer is full.
Queued(c) == send' = [send EXCEPT ![c] = IF @ < SendBuffer THEN @ + 1 ELSE @]

----------------------------------------------------------------------------
(* NewSessionWebSocket: look up, upgrade, start the pumps, greet.          *)

Lookup(c) ==
    /\ At(c, "away")
    /\ GoTo(c, IF stored THEN "upgrade" ELSE "gone")
    /\ UNCHANGED <<sessionVars, stored, arriving, forwarder, writer, send, sendClosed,
                   recordVars>>

Upgrade(c) ==
    /\ At(c, "upgrade")
    /\ \/ /\ GoTo(c, "greet")
          /\ forwarder' = [forwarder EXCEPT ![c] = "range"]
          /\ writer' = [writer EXCEPT ![c] = "run"]
       \/ GoTo(c, "gone") /\ UNCHANGED <<forwarder, writer>>
    /\ UNCHANGED <<sessionVars, stored, arriving, send, sendClosed, recordVars>>

Greet(c) ==
    /\ At(c, "greet")
    /\ Queued(c)
    /\ GoTo(c, "read")
    /\ UNCHANGED <<sessionVars, stored, arriving, forwarder, writer, sendClosed,
                   recordVars>>

----------------------------------------------------------------------------
(* ReadPump.                                                               *)

\* ReadJSON fails: the browser or the writer closed the connection, or the read
\* deadline, which never exceeds the session's own, has passed.
ReadFails(c) ==
    /\ At(c, "read")
    /\ GoTo(c, "deferred")
    /\ UNCHANGED <<sessionVars, stored, arriving, forwarder, writer, send, sendClosed,
                   recordVars>>

\* A message is read; the reader may still have one in its buffer when the
\* connection is closed.
Received(c) == At(c, "read")

\* Any message that finds a count beyond its limit.
ReadBeyondLimit(c) ==
    /\ Received(c)
    /\ LimitExceeded
    /\ Queued(c)
    /\ GoTo(c, "ending")
    /\ UNCHANGED <<sessionVars, stored, arriving, forwarder, writer, sendClosed,
                   recordVars>>

ReadEndSession(c) ==
    /\ Received(c)
    /\ ~LimitExceeded
    /\ GoTo(c, "ending")
    /\ UNCHANGED <<sessionVars, stored, arriving, forwarder, writer, send, sendClosed,
                   recordVars>>

\* An unknown type, or data that is not base64.
ReadInvalid(c) ==
    /\ Received(c)
    /\ ~LimitExceeded
    /\ Queued(c)
    /\ UNCHANGED <<sessionVars, stored, handler, arriving, forwarder, writer, sendClosed,
                   recordVars>>

\* Mutant: the limit is not looked at.
ReadItemUnlimited(c) ==
    /\ Received(c)
    /\ \E m \in Streams : arriving' = [arriving EXCEPT ![c] = <<m, 0>>]
    /\ GoTo(c, "count")
    /\ UNCHANGED <<sessionVars, stored, forwarder, writer, send, sendClosed, recordVars>>

\* A frame or an audio chunk that is within the limits, as far as this check saw.
ReadItem(c) ==
    /\ Received(c)
    /\ ~LimitExceeded
    /\ \E m \in Streams : arriving' = [arriving EXCEPT ![c] = <<m, 0>>]
    /\ GoTo(c, "count")
    /\ UNCHANGED <<sessionVars, stored, forwarder, writer, send, sendClosed, recordVars>>

\* What no step of a submission touches.
submitUnchanged == <<out, endVars, liveWorkerVars, scoreVars, stored, forwarder, writer,
                     sendClosed, recordVars>>

SubmitCounts(c) ==
    LET m == arriving[c][1]
    IN  /\ At(c, "count")
        /\ CountArrival(m)
        /\ arriving' = [arriving EXCEPT ![c] = <<m, count[m] + 1>>]
        /\ GoTo(c, "push")
        /\ UNCHANGED <<submitUnchanged, send>>

\* The submission returns true, or false and the browser is told so.
Accepted(c) ==
    /\ Push(arriving[c][1], arriving[c][2])
    /\ arriving' = [arriving EXCEPT ![c] = NoItem]
    /\ GoTo(c, "read")
    /\ UNCHANGED <<submitUnchanged, send>>

Overloaded(c) ==
    /\ Refuse(arriving[c][1], arriving[c][2])
    /\ arriving' = [arriving EXCEPT ![c] = NoItem]
    /\ GoTo(c, "read")
    /\ Queued(c)
    /\ UNCHANGED submitUnchanged

\* Mutant: a full video queue refuses the new frame, as the audio queue does.
SubmitFrameRefusing(c) ==
    /\ arriving[c][1] = "video"
    /\ At(c, "push")
    /\ IF HasRoom("video") THEN Accepted(c) ELSE Overloaded(c)

\* Mutant: the third select is a plain append.
SubmitFrameOverfull(c) ==
    /\ arriving[c][1] = "video"
    /\ \/ At(c, "push") /\ HasRoom("video") /\ Accepted(c)
       \/ /\ At(c, "push")
          /\ ~HasRoom("video")
          /\ GoTo(c, "drop")
          /\ UNCHANGED <<feedVars, arriving, send, submitUnchanged>>
       \/ At(c, "drop") /\ DropOldest /\ GoTo(c, "retry")
          /\ UNCHANGED <<arriving, send, submitUnchanged>>
       \/ At(c, "retry") /\ Accepted(c)

\* SubmitFrame: send; if full, receive the oldest; send or refuse.
SubmitFrame(c) ==
    /\ arriving[c][1] = "video"
    /\ \/ At(c, "push") /\ HasRoom("video") /\ Accepted(c)
       \/ /\ At(c, "push")
          /\ ~HasRoom("video")
          /\ GoTo(c, "drop")
          /\ UNCHANGED <<feedVars, arriving, send, submitUnchanged>>
       \/ /\ At(c, "drop")
          /\ DropOldest
          /\ GoTo(c, "retry")
          /\ UNCHANGED <<arriving, send, submitUnchanged>>
       \/ At(c, "retry") /\ HasRoom("video") /\ Accepted(c)
       \/ At(c, "retry") /\ ~HasRoom("video") /\ Overloaded(c)

SubmitAudioChunk(c) ==
    /\ arriving[c][1] = "audio"
    /\ At(c, "push")
    /\ \/ HasRoom("audio") /\ Accepted(c)
       \/ ~HasRoom("audio") /\ Overloaded(c)

----------------------------------------------------------------------------
(* The end of ReadPump: End, called from the loop ("ending") or from the   *)
(* deferred function, then forwardDone, then close(send).                  *)

EndCancels(c) ==
    /\ At(c, "ending") \/ At(c, "deferred")
    /\ Cancel(c)
    /\ UNCHANGED <<clientVars, recordVars>>

EndCloses(c) ==
    /\ CloseOut(c)
    /\ UNCHANGED <<clientVars, recordVars>>

\* End returns once whoever runs it is through; the loop then sends its
\* session_ended message.
EndReturns(c) ==
    /\ outClosed
    /\ \/ At(c, "ending") /\ Queued(c) /\ GoTo(c, "deferred")
       \/ At(c, "deferred") /\ GoTo(c, "join") /\ UNCHANGED send
    /\ UNCHANGED <<sessionVars, stored, arriving, forwarder, writer, sendClosed,
                   recordVars>>

\* Mutant: send is closed without waiting for the forwarder.
CloseSendAtOnce(c) ==
    /\ At(c, "join")
    /\ sendClosed' = [sendClosed EXCEPT ![c] = TRUE]
    /\ GoTo(c, "final")
    /\ UNCHANGED <<sessionVars, stored, arriving, forwarder, writer, send, recordVars>>

CloseSend(c) ==
    /\ At(c, "join")
    /\ forwarder[c] = "done"
    /\ sendClosed' = [sendClosed EXCEPT ![c] = TRUE]
    /\ GoTo(c, "final")
    /\ UNCHANGED <<sessionVars, stored, arriving, forwarder, writer, send, recordVars>>

----------------------------------------------------------------------------
(* The handler persists the result and lets the session go.  A failed      *)
(* write is logged.                                                        *)

FinalResult(c) ==
    /\ At(c, "final")
    /\ final' = [final EXCEPT ![c] = updates]
    /\ GoTo(c, "complete")
    /\ UNCHANGED <<sessionVars, stored, arriving, forwarder, writer, send, sendClosed,
                   row, result, creates>>

Complete(c) ==
    /\ At(c, "complete")
    /\ row' \in {final[c], row}
    /\ GoTo(c, "create")
    /\ UNCHANGED <<sessionVars, stored, arriving, forwarder, writer, send, sendClosed,
                   final, result, creates>>

\* session_id is the primary key: a second insert fails.
Create(c) ==
    /\ At(c, "create")
    /\ result' \in (IF result = NoResult THEN {final[c], NoResult} ELSE {result})
    /\ creates' = creates \union {c}
    /\ final' = [final EXCEPT ![c] = 0]
    /\ GoTo(c, "delete")
    /\ UNCHANGED <<sessionVars, stored, arriving, forwarder, writer, send, sendClosed,
                   row>>

Delete(c) ==
    /\ At(c, "delete")
    /\ stored' = FALSE
    /\ GoTo(c, "gone")
    /\ UNCHANGED <<sessionVars, arriving, forwarder, writer, send, sendClosed, recordVars>>

----------------------------------------------------------------------------
(* ForwardSessionMessages and WritePump.                                   *)

Receive(c) ==
    /\ forwarder[c] = "range"
    /\ \/ /\ out > 0
          /\ out' = out - 1
          /\ forwarder' = [forwarder EXCEPT ![c] = "send"]
       \/ /\ out = 0 /\ outClosed
          /\ forwarder' = [forwarder EXCEPT ![c] = "done"]
          /\ UNCHANGED out
    /\ UNCHANGED <<feedVars, endVars, liveWorkerVars, scoreVars, stored, handler,
                   arriving, writer, send, sendClosed, recordVars>>

Forward(c) ==
    /\ forwarder[c] = "send"
    /\ Queued(c)
    /\ forwarder' = [forwarder EXCEPT ![c] = "range"]
    /\ UNCHANGED <<sessionVars, stored, handler, arriving, writer, sendClosed, recordVars>>

\* A message is written, or the channel is closed and empty.
Write(c) ==
    /\ writer[c] = "run"
    /\ \/ /\ send[c] > 0
          /\ send' = [send EXCEPT ![c] = @ - 1]
          /\ UNCHANGED writer
       \/ /\ send[c] = 0 /\ sendClosed[c]
          /\ writer' = [writer EXCEPT ![c] = "closed"]
          /\ UNCHANGED send
    /\ UNCHANGED <<sessionVars, stored, handler, arriving, forwarder, sendClosed,
                   recordVars>>

\* A write or a ping fails: WritePump closes the connection.
WriteFails(c) ==
    /\ writer[c] = "run"
    /\ writer' = [writer EXCEPT ![c] = "closed"]
    /\ UNCHANGED <<sessionVars, stored, handler, arriving, forwarder, send, sendClosed,
                   recordVars>>

----------------------------------------------------------------------------
ReadMessage(c) ==
    ReadBeyondLimit(c) \/ ReadEndSession(c) \/ ReadInvalid(c) \/ ReadItem(c)

\* What the handler does of its own accord, whether messages come or not.
HandlerStep(c) ==
    \/ Upgrade(c) \/ Greet(c) \/ ReadFails(c)
    \/ SubmitCounts(c) \/ SubmitFrame(c) \/ SubmitAudioChunk(c)
    \/ EndCancels(c) \/ EndCloses(c) \/ EndReturns(c) \/ CloseSend(c)
    \/ FinalResult(c) \/ Complete(c) \/ Create(c) \/ Delete(c)

ForwarderStep(c) == Receive(c) \/ Forward(c)

LiveNext ==
    \/ \E w \in LiveWorker : LiveWorkerStep(w) /\ UNCHANGED <<clientVars, recordVars>>
    \/ \E c \in Conn : \/ Lookup(c) \/ ReadMessage(c) \/ HandlerStep(c)
                       \/ ForwarderStep(c) \/ Write(c) \/ WriteFails(c)

LiveSpec == LiveInit /\ [][LiveNext]_liveVars

\* Goroutines are scheduled, detector calls and reads end by their timeouts.
\* Nothing is assumed of the browser, nor of the writer it may block.
LiveFairness ==
    /\ \A w \in LiveWorker : WF_liveVars(LiveWorkerStep(w) /\ UNCHANGED <<clientVars, recordVars>>)
    /\ \A c \in Conn : WF_liveVars(HandlerStep(c)) /\ WF_liveVars(ForwarderStep(c))

FairLiveSpec == LiveSpec /\ LiveFairness

----------------------------------------------------------------------------
(* Properties.                                                             *)

Opened == {c \in Conn : forwarder[c] # "off"}

\* The sockets that are submitting a numbered frame or chunk.
Submitting(m) == {c \in Conn : /\ handler[c] \in {"push", "drop", "retry"}
                               /\ arriving[c][1] = m}

\* Every frame and chunk received is waiting, taken by one worker or counted as
\* dropped, "never both or neither" (session_test.go,
\* TestSession_HundredFramesRapid_BoundedAndAccountedFor), whatever the sockets
\* and workers do to the queue between SubmitFrame's selects.
AccountedFor ==
    \A m \in Media :
        LET inHand == {arriving[c][2] : c \in Submitting(m)}
        IN  /\ 1 .. count[m]
                 = ToSet(queue[m]) \union inHand \union dropped[m] \union taken[m]
            /\ count[m] = Len(queue[m]) + Cardinality(Submitting(m))
                           + Cardinality(dropped[m]) + Cardinality(taken[m])

\* With one socket, what was dropped is older than every frame still waiting or
\* arriving, and a frame is never refused (SubmitFrame: "freshness matters more",
\* and its last select is "vanishingly unlikely" to fail).
OneSocketStaysFresh ==
    Cardinality(Opened) <= 1 =>
        /\ \A n \in ToSet(queue["video"]) \union {arriving[c][2] : c \in Submitting("video")} :
              \A d \in dropped["video"] : d < n
        /\ \A c \in Conn : handler[c] = "retry" => HasRoom("video")

\* The check of the lifetime limits and the count it checks are separate, so every
\* socket can exceed a limit by one, but by no more (countLimitExceeded).
LimitsHold ==
    \A m \in Media : count[m] <= MaxCount[m] + Cardinality(Opened)

PastClose == {"final", "complete", "create", "delete", "gone"}

\* Nobody can send on a closed channel, which would panic: Out is closed after its
\* last sender, and a socket's send channel after its forwarder, is gone
\* (Session.End and Client.forwardDone).
ClosedAfterLastSend ==
    /\ outClosed => \A w \in LiveWorker : pc[w] = "gone"
    /\ \A c \in Conn :
          sendClosed[c] => forwarder[c] = "done" /\ handler[c] \in PastClose

\* The results on record are those of the session's last state: no worker folds in
\* another answer after a handler read FinalResult.
RecordedIsFinal ==
    /\ row # NoResult => row = updates
    /\ result # NoResult => result = updates

\* A socket that was opened is given up again, and the session with all its
\* workers, even if its browser stops reading: nobody that End or the deferred
\* close waits for waits for the browser (session.go, emit and End; client.go, Send
\* "never blocks").
SessionIsReleased ==
    \A c \in Conn :
        handler[c] = "greet" ~> /\ handler[c] = "gone" /\ ~stored
                                /\ \A w \in LiveWorker : pc[w] = "gone"

\* A risk update that is about to be sent reflects every signal that those sent
\* before it did (message.go, TypeRiskUpdate).
RiskUpdatesNeverGoBack ==
    \A w \in LiveWorker :
        (pc[w] = "emit" /\ Head(batch[w]) = "risk_update") => built[w] >= emitted

\* The result of a session is created once (analysis/repository.go, Create).
CreatedOnce == Cardinality(creates) <= 1
=============================================================================
