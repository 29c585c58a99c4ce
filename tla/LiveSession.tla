---------------------------- MODULE LiveSession ----------------------------
(***************************************************************************)
(* gateway/internal/realtime/session.go: one live analysis session.  The   *)
(* sockets' readers submit video frames and audio chunks to two bounded    *)
(* queues, workers take them to the detectors, fold the answers into the   *)
(* session's scores under its lock, and then, without the lock, emit what  *)
(* came of it on the channel Out.  End stops the workers and closes Out.   *)
(*                                                                         *)
(* Frames and chunks are the numbers of their arrival.  What Out's         *)
(* messages say matters only when they are emitted, so the channel itself  *)
(* is its length.                                                          *)
(***************************************************************************)
EXTENDS Naturals, FiniteSets, SequencesExt

CONSTANTS Conn,        \* the sockets that may be opened for the session
          LiveWorker,  \* its worker goroutines
          Feeds,       \* [LiveWorker -> Media], the queue a worker drains
          MaxQueue,    \* [Media -> Nat], MaxVideoQueue and MaxAudioQueue
          MaxCount,    \* [Media -> Nat], MaxFrames and MaxAudioChunks; 0 is no limit in
                       \* the code, but none that the configuration sets
          OutBuffer,   \* outBuffer
          Nobody       \* no socket

Media == {"video", "audio"}

ASSUME SessionAssumption ==
    /\ Feeds \in [LiveWorker -> Media]
    /\ MaxQueue \in [Media -> Nat \ {0}]
    /\ MaxCount \in [Media -> Nat \ {0}]
    /\ OutBuffer \in Nat \ {0}
    /\ Nobody \notin Conn

VARIABLES queue,      \* [Media -> Seq(Nat)], videoQueue and audioQueue
          count,      \* frameCount and audioChunkCount
          dropped,    \* the frames and chunks counted as dropped
          taken,      \* history: those a worker took
          out,        \* how many messages are in Out
          outClosed,  \* Out is closed
          ender,      \* stopOnce: the socket whose End runs, or has run, it
          cancelled,  \* the session's context; status is then StatusEnded
          pc,         \* where each worker stands
          batch,      \* the messages it still has to emit
          built,      \* the number of results its risk_update reflects
          updates,    \* how many results the session's scores reflect
          emitted     \* history: the greatest `built` of an emitted risk_update

feedVars == <<queue, count, dropped, taken>>
endVars == <<outClosed, ender, cancelled>>
liveWorkerVars == <<pc, batch, built>>
scoreVars == <<updates, emitted>>
sessionVars == <<feedVars, out, endVars, liveWorkerVars, scoreVars>>

MessageType == {"video_result", "audio_result", "temporal_result", "risk_update", "error"}

SessionTypeOK ==
    /\ queue \in [Media -> Seq(Nat)]
    /\ \A m \in Media : Len(queue[m]) <= MaxQueue[m]
    /\ count \in [Media -> Nat]
    /\ dropped \in [Media -> SUBSET Nat]
    /\ taken \in [Media -> SUBSET Nat]
    /\ out \in 0 .. OutBuffer
    /\ outClosed \in BOOLEAN
    /\ ender \in Conn \union {Nobody}
    /\ cancelled \in BOOLEAN
    /\ pc \in [LiveWorker -> {"select", "analyze", "emit", "gone"}]
    /\ batch \in [LiveWorker -> Seq(MessageType)]
    /\ built \in [LiveWorker -> Nat]
    /\ updates \in Nat
    /\ emitted \in Nat

\* newSession starts the workers.
SessionInit ==
    /\ queue = [m \in Media |-> <<>>]
    /\ count = [m \in Media |-> 0]
    /\ dropped = [m \in Media |-> {}]
    /\ taken = [m \in Media |-> {}]
    /\ out = 0
    /\ outClosed = FALSE
    /\ ender = Nobody
    /\ cancelled = FALSE
    /\ pc = [w \in LiveWorker |-> "select"]
    /\ batch = [w \in LiveWorker |-> <<>>]
    /\ built = [w \in LiveWorker |-> 0]
    /\ updates = 0
    /\ emitted = 0

----------------------------------------------------------------------------
(* SubmitFrame and SubmitAudioChunk.  Each of SubmitFrame's three selects  *)
(* is a step of its own for the reader that calls it.                      *)

HasRoom(m) == Len(queue[m]) < MaxQueue[m]

\* frameCount.Add or audioChunkCount.Add.
CountArrival(m) ==
    /\ count' = [count EXCEPT ![m] = @ + 1]
    /\ UNCHANGED <<queue, dropped, taken>>

Push(m, n) ==
    /\ queue' = [queue EXCEPT ![m] = Append(@, n)]
    /\ UNCHANGED <<count, dropped, taken>>

\* The submitted item itself is counted as dropped.
Refuse(m, n) ==
    /\ dropped' = [dropped EXCEPT ![m] = @ \union {n}]
    /\ UNCHANGED <<queue, count, taken>>

\* Mutant: the frame that makes room is not counted.
DropUncounted ==
    \/ /\ queue["video"] # <<>>
       /\ queue' = [queue EXCEPT !["video"] = Tail(@)]
       /\ UNCHANGED <<count, dropped, taken>>
    \/ queue["video"] = <<>> /\ UNCHANGED feedVars

\* The second select: a worker may have emptied the queue meanwhile.
DropOldest ==
    \/ /\ queue["video"] # <<>>
       /\ dropped' = [dropped EXCEPT !["video"] = @ \union {Head(queue["video"])}]
       /\ queue' = [queue EXCEPT !["video"] = Tail(@)]
       /\ UNCHANGED <<count, taken>>
    \/ queue["video"] = <<>> /\ UNCHANGED feedVars

\* countLimitExceeded.
LimitExceeded == \E m \in Media : count[m] > MaxCount[m]

----------------------------------------------------------------------------
(* videoWorker and audioWorker.                                            *)

\* The select prefers neither of its cases: even a cancelled worker may take
\* another item.
Take(w) ==
    LET m == Feeds[w]
    IN  /\ pc[w] = "select"
        /\ queue[m] # <<>>
        /\ queue' = [queue EXCEPT ![m] = Tail(@)]
        /\ taken' = [taken EXCEPT ![m] = @ \union {Head(queue[m])}]
        /\ pc' = [pc EXCEPT ![w] = "analyze"]
        /\ UNCHANGED <<count, dropped, out, endVars, batch, built, scoreVars>>

Leave(w) ==
    /\ pc[w] = "select"
    /\ cancelled
    /\ pc' = [pc EXCEPT ![w] = "gone"]
    /\ UNCHANGED <<feedVars, out, endVars, batch, built, scoreVars>>

ResultMessages(m) ==
    IF m = "video" THEN <<"video_result", "temporal_result", "risk_update">>
                   ELSE <<"audio_result", "risk_update">>

\* The detector answers: its result is folded in under the lock, and the messages
\* are built there too.
Fold(w) ==
    /\ pc[w] = "analyze"
    /\ updates' = updates + 1
    /\ built' = [built EXCEPT ![w] = updates + 1]
    /\ batch' = [batch EXCEPT ![w] = ResultMessages(Feeds[w])]
    /\ pc' = [pc EXCEPT ![w] = "emit"]
    /\ UNCHANGED <<feedVars, out, endVars, emitted>>

\* The detector fails: an error message, or nothing when the session has ended.
Fails(w) ==
    /\ pc[w] = "analyze"
    /\ IF cancelled
         THEN /\ pc' = [pc EXCEPT ![w] = "select"]
              /\ UNCHANGED batch
         ELSE /\ pc' = [pc EXCEPT ![w] = "emit"]
              /\ batch' = [batch EXCEPT ![w] = <<"error">>]
    /\ UNCHANGED <<feedVars, out, endVars, built, scoreVars>>

Greater(a, b) == IF a > b THEN a ELSE b

\* The first message of w's batch is sent or given up; w goes on to the next, or
\* back to its loop.
NextMessage(w) ==
    /\ batch' = [batch EXCEPT ![w] = Tail(@)]
    /\ IF Tail(batch[w]) = <<>>
         THEN /\ pc' = [pc EXCEPT ![w] = "select"]
              /\ built' = [built EXCEPT ![w] = 0]
         ELSE UNCHANGED <<pc, built>>
    /\ UNCHANGED <<feedVars, endVars, updates>>

\* emit: the message goes out as soon as there is room, unless the session ends.
Emit(w) ==
    /\ pc[w] = "emit"
    /\ \/ /\ out < OutBuffer
          /\ out' = out + 1
          /\ emitted' = IF Head(batch[w]) = "risk_update" THEN Greater(emitted, built[w])
                                                          ELSE emitted
       \/ cancelled /\ UNCHANGED <<out, emitted>>
    /\ NextMessage(w)

LiveWorkerStep(w) == Take(w) \/ Leave(w) \/ Fold(w) \/ Fails(w) \/ Emit(w)

----------------------------------------------------------------------------
(* End, called by socket c's reader: stopOnce lets one caller in, and keeps *)
(* the others waiting until it is through.                                 *)

Cancel(c) ==
    /\ ender = Nobody
    /\ ender' = c
    /\ cancelled' = TRUE
    /\ UNCHANGED <<feedVars, out, outClosed, liveWorkerVars, scoreVars>>

\* Mutant: Out is closed without waiting for the workers.
CloseOutAtOnce(c) ==
    /\ ender = c
    /\ ~outClosed
    /\ outClosed' = TRUE
    /\ UNCHANGED <<feedVars, out, ender, cancelled, liveWorkerVars, scoreVars>>

CloseOut(c) ==
    /\ ender = c
    /\ ~outClosed
    /\ \A w \in LiveWorker : pc[w] = "gone"
    /\ outClosed' = TRUE
    /\ UNCHANGED <<feedVars, out, ender, cancelled, liveWorkerVars, scoreVars>>
=============================================================================
