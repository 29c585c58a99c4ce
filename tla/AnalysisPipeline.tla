-------------------------- MODULE AnalysisPipeline --------------------------
(***************************************************************************)
(* The asynchronous analysis pipeline of the gateway: the POST             *)
(* /api/v1/analysis handler that creates and enqueues jobs, the worker     *)
(* pools that drain the queues, and the life of the process around them:   *)
(* graceful stop, crash, and the recovery at the next start.               *)
(***************************************************************************)
EXTENDS AnalysisWorker

CONSTANTS Impatient,   \* the requests whose client may hang up
          MaxCrashes,  \* bounds the crashes of a behaviour
          MaxStops     \* bounds its graceful stops

ASSUME LifeAssumption == MaxCrashes \in Nat /\ MaxStops \in Nat

ASSUME ImpatientAssumption == Impatient \subseteq Request

VARIABLES api,        \* where the handler of each request stands
          making,     \* the modality it is creating a job for
          hungUp,     \* requests whose client closed the connection, which
                      \* cancels the context their handler makes its calls with
          accepted,   \* history: jobs whose Enqueue succeeded
          crashes, stops

apiVars == <<api, making, hungUp, accepted>>
lifeVars == <<crashes, stops>>
vars == <<queueVars, storeVars, outages, gateway, workerVars, historyVars,
          apiVars, lifeVars>>

ApiLabel == {"ready", "create", "check", "push", "undo", "done"}

TypeOK ==
    /\ QueueTypeOK
    /\ StoreTypeOK
    /\ WorkerTypeOK
    /\ outages \in 0 .. MaxOutages
    /\ api \in [Request -> ApiLabel]
    /\ making \in [Request -> Modality]
    /\ hungUp \subseteq Impatient
    /\ accepted \subseteq Job
    /\ crashes \in 0 .. MaxCrashes
    /\ stops \in 0 .. MaxStops

FirstWanted(r) == IF "video" \in Wants[r] THEN "video" ELSE "audio"

Init ==
    /\ QueueInit
    /\ StoreInit
    /\ WorkerInit
    /\ outages = 0
    /\ api = [r \in Request |-> "ready"]
    /\ making = [r \in Request |-> FirstWanted(r)]
    /\ hungUp = {}
    /\ accepted = {}
    /\ crashes = 0
    /\ stops = 0

----------------------------------------------------------------------------
(* The handler of request r: createAndEnqueue, for video and then audio.   *)

Making(r) == [req |-> r, mod |-> making[r]]

ApiGoTo(r, label) == api' = [api EXCEPT ![r] = label]

\* A call of r's handler fails: the store did not answer, or the client is gone
\* and the request's context with it.  Either can happen after the call took
\* effect on the server.
CallFails(r) == \/ r \in hungUp /\ Answered
                \/ r \notin hungUp /\ Outage

CallSucceeds(r) == r \notin hungUp /\ Answered

\* The request passed validation; newJob stamps its first job's created_at.
StartRequest(r) ==
    /\ gateway = "up"
    /\ api[r] = "ready"
    /\ ApiGoTo(r, "create")
    /\ made' = Append(made, Making(r))
    /\ UNCHANGED <<queueVars, rows, scores, risk, outages, gateway, workerVars,
                   historyVars, making, hungUp, accepted, lifeVars>>

\* Mutant: the handler goes on when the row could not be written.
CreateRowUnchecked(r) ==
    /\ api[r] = "create"
    /\ \/ CallSucceeds(r) /\ InsertRow(Making(r))
       \/ CallFails(r) /\ UNCHANGED rows
    /\ ApiGoTo(r, "check")
    /\ UNCHANGED <<queueVars, made, scores, risk, gateway, workerVars,
                   historyVars, making, hungUp, accepted, lifeVars>>

CreateRow(r) ==
    /\ api[r] = "create"
    /\ \/ CallSucceeds(r) /\ InsertRow(Making(r)) /\ ApiGoTo(r, "check")
       \/ /\ CallFails(r)
          /\ InsertRow(Making(r)) \/ UNCHANGED rows
          /\ ApiGoTo(r, "done")
    /\ UNCHANGED <<queueVars, made, scores, risk, gateway, workerVars,
                   historyVars, making, hungUp, accepted, lifeVars>>

\* Mutant: a full queue is answered without giving up the row.
EnqueueCheckOnly(r) ==
    /\ api[r] = "check"
    /\ \/ CallSucceeds(r) /\ ApiGoTo(r, IF Full(making[r]) THEN "done" ELSE "push")
       \/ CallFails(r) /\ ApiGoTo(r, "undo")
    /\ UNCHANGED <<queueVars, storeVars, gateway, workerVars, historyVars,
                   making, hungUp, accepted, lifeVars>>

EnqueueCheck(r) ==
    /\ api[r] = "check"
    /\ \/ CallSucceeds(r) /\ ApiGoTo(r, IF Full(making[r]) THEN "undo" ELSE "push")
       \/ CallFails(r) /\ ApiGoTo(r, "undo")
    /\ UNCHANGED <<queueVars, storeVars, gateway, workerVars, historyVars,
                   making, hungUp, accepted, lifeVars>>

\* The job is in the queue.  A request for both modalities goes on to its audio
\* job; any other is answered 202.
NextJobOrReply(r) ==
    IF making[r] = "video" /\ "audio" \in Wants[r]
      THEN /\ ApiGoTo(r, "create")
           /\ making' = [making EXCEPT ![r] = "audio"]
           /\ made' = Append(made, [req |-> r, mod |-> "audio"])
      ELSE /\ ApiGoTo(r, "done")
           /\ UNCHANGED <<making, made>>

EnqueuePush(r) ==
    /\ api[r] = "push"
    /\ \/ /\ CallSucceeds(r)
          /\ RPush(making[r], FirstDelivery(Making(r)))
          /\ accepted' = accepted \union {Making(r)}
          /\ NextJobOrReply(r)
       \/ /\ CallFails(r)
          /\ RPush(making[r], FirstDelivery(Making(r))) \/ UNCHANGED queueVars
          /\ ApiGoTo(r, "undo")
          /\ UNCHANGED <<accepted, making, made>>
    /\ UNCHANGED <<rows, scores, risk, gateway, workerVars, historyVars, hungUp,
                   lifeVars>>

\* markDeadLetterBestEffort, and a 500.  Nobody consults the coordinator.
UndoCreate(r) ==
    /\ api[r] = "undo"
    /\ \/ CallSucceeds(r) /\ MarkDeadLetter(Making(r))
       \/ CallFails(r) /\ UNCHANGED rows
    /\ unchecked' = unchecked \union {SessionOf[r]}
    /\ ApiGoTo(r, "done")
    /\ UNCHANGED <<queueVars, made, scores, risk, gateway, workerVars, handled,
                   removed, making, hungUp, accepted, lifeVars>>

\* The client closes the connection while its request is being handled.
HangUp(r) ==
    /\ r \in Impatient \ hungUp
    /\ api[r] \notin {"ready", "done"}
    /\ hungUp' = hungUp \union {r}
    /\ UNCHANGED <<queueVars, storeVars, outages, gateway, workerVars, historyVars,
                   api, making, accepted, lifeVars>>

ApiStep(r) == CreateRow(r) \/ EnqueueCheck(r) \/ EnqueuePush(r) \/ UndoCreate(r)

----------------------------------------------------------------------------
(* The process: cmd/gateway's run and httpserver.New.                      *)

\* SIGTERM.  HTTP.Shutdown has drained the handlers before StopWorkers.
Stop ==
    /\ gateway = "up"
    /\ stops < MaxStops
    /\ \A r \in Request : api[r] \in {"ready", "done"}
    /\ gateway' = "stopping"
    /\ stops' = stops + 1
    /\ UNCHANGED <<queueVars, storeVars, outages, workerVars, historyVars,
                   apiVars, crashes>>

\* StopWorkers has joined every worker; Redis and the database are closed.
Exit ==
    /\ gateway = "stopping"
    /\ \A w \in Worker : pc[w] \in {"stopped", "gone"}
    /\ gateway' = "down"
    /\ pc' = [w \in Worker |-> "gone"]
    /\ UNCHANGED <<queueVars, storeVars, outages, held, compute, historyVars,
                   apiVars, lifeVars>>

\* The process dies: whatever it held in memory is gone, handlers included.
Crash ==
    /\ gateway \in {"up", "stopping"}
    /\ crashes < MaxCrashes
    /\ gateway' = "down"
    /\ crashes' = crashes + 1
    /\ pc' = [w \in Worker |-> "gone"]
    /\ held' = [w \in Worker |-> NoDelivery]
    /\ compute' = [w \in Worker |-> FALSE]
    /\ api' = [r \in Request |-> IF api[r] = "ready" THEN "ready" ELSE "done"]
    /\ UNCHANGED <<queueVars, storeVars, outages, historyVars, making, hungUp,
                   accepted, stops>>

\* The next process recovers the processing lists, then starts its workers.  A
\* failed LMOVE leaves the rest of its list where it is.
Restart ==
    /\ gateway = "down"
    /\ \/ /\ Answered
          /\ RecoverStale([q \in Modality |-> Len(processing[q])])
       \/ /\ Outage
          /\ \E v \in 0 .. Len(processing["video"]), a \in 0 .. Len(processing["audio"]) :
                RecoverStale([q \in Modality |-> IF q = "video" THEN v ELSE a])
    /\ gateway' = "up"
    /\ pc' = [w \in Worker |-> "idle"]
    /\ UNCHANGED <<storeVars, held, compute, historyVars, apiVars, lifeVars>>

----------------------------------------------------------------------------
WorkerSteps == /\ \E w \in Worker : WorkerStep(w)
               /\ UNCHANGED <<apiVars, lifeVars>>

Next ==
    \/ \E r \in Request : StartRequest(r) \/ ApiStep(r) \/ HangUp(r)
    \/ WorkerSteps
    \/ Stop \/ Exit \/ Crash \/ Restart

Spec == Init /\ [][Next]_vars

\* Goroutines are scheduled, BLMOVE returns when there is a job, an HTTP handler
\* runs to its end, and a gateway that has stopped is started again.  Clients
\* and crashes are under no obligation, and neither is the last, stray BLMOVE.
Fairness ==
    /\ \A w \in Worker :
          WF_vars((Dequeue(w) \/ LeaveLoop(w) \/ Process(w)) /\ UNCHANGED <<apiVars, lifeVars>>)
    /\ \A r \in Request : WF_vars(ApiStep(r))
    /\ WF_vars(Exit)
    /\ WF_vars(Restart)

FairSpec == Spec /\ Fairness

----------------------------------------------------------------------------
(* Properties.                                                             *)

\* Labels at which a worker answers for a delivery it has not yet removed.
Holding == PC \ {"idle", "complete", "record", "stopped", "gone"}

Holders(q, d) == {w \in Worker : Serves[w] = q /\ held[w] = d /\ pc[w] \in Holding}

Copies(s, d) == Cardinality({i \in 1 .. Len(s) : s[i] = d})

\* Whatever a worker is working on is still in its queue's processing list, once
\* per worker working on it: a crash at any point of process leaves every
\* delivery in flight where RecoverStale finds it (queue.go, Dequeue).
HeldIsInFlight ==
    \A w \in Worker :
        pc[w] \in Holding =>
            Cardinality(Holders(Serves[w], held[w]))
                <= Copies(processing[Serves[w]], held[w])

JobsIn(lists) == {d.job : d \in UNION {ToSet(lists[q]) : q \in Modality}}

InSomeList(j) == j \in JobsIn(pending) \union JobsIn(processing) \union JobsIn(failed)

\* A job that was enqueued is in its queue, waiting or in flight, until some
\* Handle of it returned nil or Fail took it off: crashes, retries, deliveries to
\* two workers at once, lost replies and recovery never lose it (queue.go: a crash
\* "leaves the job recoverable rather than silently gone").
AcceptedIsNeverLost ==
    \A j \in accepted :
        j \in handled \union removed \union JobsIn(pending) \union JobsIn(processing)

\* Every delivery has its durable row: a client never gets a 404 for a job the
\* workers can see (NewCreateAnalysisJob writes the row before it enqueues).
DeliveryHasRow ==
    \A j \in Job : InSomeList(j) => rows[j].status # "none"

\* A job a client reads as completed has its modality's score on record,
\* whatever crashed, was redelivered or failed to be written in between.
CompletedHasScore ==
    \A j \in Job :
        rows[j].status = "completed" =>
            j \in handled /\ scores[SessionOfJob(j)][j.mod] # NoJob

\* The risk on record is computed from scores that are on record, and a later
\* computation never leaves out a modality an earlier one used, however the
\* two pools' transactions and redeliveries interleave.
RiskOnlyGains ==
    [][\A s \in Session, m \in Modality :
          /\ risk[s][m] # NoJob => risk'[s][m] # NoJob
          /\ risk'[s][m] # NoJob => scores'[s][m] # NoJob]_vars

SessionJobs(s) == {j \in Job : SessionOfJob(j) = s /\ rows[j].status # "none"}

\* Nothing is left to happen for session s: its jobs are terminal, no delivery of
\* them can still be run, and no worker or handler is at one.
Settled(s) ==
    /\ \A j \in SessionJobs(s) : /\ IsTerminal(rows[j].status)
                                 /\ j \notin JobsIn(pending) \union JobsIn(processing)
    /\ \A w \in Worker : held[w] # NoDelivery => HeldSession(w) # s
    /\ \A r \in Request : SessionOf[r] = s => api[r] \in {"ready", "done"}

RiskIsFinal(s) == Settled(s) => risk[s] = scores[s]

\* Once all jobs of a session are terminal its risk covers every score on record,
\* except where a job was given up without the coordinator's answer or without storing
\* the risk it called for, or where one modality's worker asked while the other's was
\* past its own look, as RiskFinal's violation does (analysisworker/coordinator.go).
RiskFinalUnlessUnchecked == \A s \in Session : s \in unchecked \/ RiskIsFinal(s)

\* Once all jobs of a session are terminal its risk covers every score on record
\* (coordinator.go: "This makes the final result order-independent").
RiskFinal == \A s \in Session : RiskIsFinal(s)

\* A job that reached a terminal status never transitions again
\* (jobs/repository.go, IsTerminal).
TerminalIsForever ==
    [][\A j \in Job : IsTerminal(rows[j].status) => rows'[j].status = rows[j].status]_vars

\* Nothing is left to happen for job j.
Quiet(j) ==
    /\ j \notin JobsIn(pending) \union JobsIn(processing)
    /\ \A w \in Worker : held[w] # NoDelivery => HeldJob(w) # j
    /\ api[j.req] \in {"ready", "done"}

\* As long as the stores answer, a row that a client polls stays open for good only
\* if its handler was cut off before it had enqueued the job, by a crash or by the
\* client that hung up, if its worker was cut off between Ack and markCompleted, with
\* the score on record, or if the queue had no place for its retry
\* (handlers/analysisjobs.go, createAndEnqueue; worker.go, process and retry).
StrandedRowsAreKnown ==
    outages = 0 =>
        \A j \in Job :
            Quiet(j) =>
                CASE rows[j].status = "queued" ->
                        /\ j \notin accepted
                        /\ crashes > 0 \/ j.req \in hungUp
                  [] rows[j].status = "processing" -> j \in handled
                  [] rows[j].status = "failed" -> j \in removed
                  [] OTHER -> TRUE

\* Every job the handler enqueued becomes terminal, and leaves no delivery behind,
\* across graceful restarts, as long as the stores answer and no queue is full.
AcceptedJobsSettle ==
    \A j \in Job :
        j \in accepted ~> /\ IsTerminal(rows[j].status)
                          /\ j \notin JobsIn(pending) \union JobsIn(processing)

\* The rows a client polls go through the life cycle the API documents.
Lifecycle == INSTANCE JobLifecycle WITH
                 status <- [j \in Job |-> rows[j].status],
                 attempt <- [j \in Job |-> rows[j].attempt]

RowsFollowLifecycle == Lifecycle!Spec
=============================================================================
