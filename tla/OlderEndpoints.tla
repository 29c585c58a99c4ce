--------------------------- MODULE OlderEndpoints ---------------------------
(***************************************************************************)
(* One gateway process with the two endpoints that predate the analysis    *)
(* pipeline, POST /analyze and POST /analyze-session, behind the rate      *)
(* limiter and sharing the fetcher: one client's requests from Middleware  *)
(* to the response, the pool's workers, and the life of the process, which *)
(* may stop, time out on the way, crash, and be started again.             *)
(***************************************************************************)
EXTENDS AnalyzePool, SessionService

CONSTANTS MaxCrashes,  \* bounds the crashes of a behaviour
          MaxStops     \* bounds its graceful stops

ASSUME LifeAssumption == MaxCrashes \in Nat /\ MaxStops \in Nat

VARIABLES gateway,     \* up, draining its handlers, closing its pool, or down
          crashes, stops

lifeVars == <<gateway, crashes, stops>>
vars == <<outages, limitVars, fetchVars, poolVars, poolHistory, sessionVars, lifeVars>>

OlderTypeOK ==
    /\ outages \in 0 .. MaxOutages
    /\ LimitTypeOK
    /\ FetchTypeOK
    /\ PoolTypeOK
    /\ SessionTypeOK
    /\ gateway \in {"up", "draining", "closing", "down"}
    /\ crashes \in 0 .. MaxCrashes
    /\ stops \in 0 .. MaxStops

Init ==
    /\ outages = 0
    /\ LimitInit
    /\ FetchInit
    /\ PoolInit
    /\ SessionInit
    /\ gateway = "up"
    /\ crashes = 0
    /\ stops = 0

----------------------------------------------------------------------------
(* The two handlers.                                                       *)

\* Middleware has let r through to its handler, which has yet to start.
LetThrough(r) ==
    /\ gate[r] \in {"admitted", "unlimited"}
    /\ submit[r] = "idle"
    /\ r \in Session => wanted[r] = {}

\* r's goroutines have been started and it has no response yet.
Underway(r) == r \in Session /\ ~Replied(r) /\ \E m \in Input : branch[r][m] # "none"

\* Middleware has r, or a handler that has not answered it.
Handling(r) ==
    \/ gate[r] = "stamped"
    \/ LetThrough(r)
    \/ submit[r] \notin {"idle", "accepted", "rejected"}
    \/ Underway(r)

Arrive(r) ==
    /\ gateway = "up"
    /\ ReadClock(r)
    /\ UNCHANGED <<outages, fetchVars, poolVars, poolHistory, sessionVars, lifeVars>>

Gate(r) ==
    /\ CountRequest(r)
    /\ UNCHANGED <<fetchVars, poolVars, poolHistory, sessionVars, lifeVars>>

\* NewAnalyze.
Analyze_(r) ==
    /\ (LetThrough(r) /\ Enter(r)) \/ SubmitStep(r)
    /\ UNCHANGED <<limitVars, fetchVars, sessionVars, lifeVars>>

\* NewAnalyzeSession.
AnalyzeSession(r) ==
    /\ r \in Session
    /\ (LetThrough(r) /\ Begin(r)) \/ SessionStep(r)
    /\ UNCHANGED <<outages, limitVars, poolVars, poolHistory, lifeVars>>

\* A record's time to live runs out.
RecordExpires(r) ==
    /\ Expire(r)
    /\ UNCHANGED <<limitVars, fetchVars, sessionVars, lifeVars>>

----------------------------------------------------------------------------
(* The pool's workers, and the fetches of workers and sessions.            *)

Work(w) ==
    /\ Pop(w) \/ Leave(w) \/ RunJob(w)
    /\ UNCHANGED <<limitVars, sessionVars, lifeVars>>

Stray(w) ==
    /\ StrayPop(w)
    /\ UNCHANGED <<limitVars, sessionVars, lifeVars>>

Fetching(f) ==
    /\ FetchStep(f)
    /\ UNCHANGED <<outages, limitVars, poolVars, poolHistory, sessionVars, lifeVars>>

MinutePasses ==
    /\ Tick
    /\ UNCHANGED <<outages, fetchVars, poolVars, poolHistory, sessionVars, lifeVars>>

----------------------------------------------------------------------------
(* The process: cmd/gateway's run.                                         *)

\* SIGTERM: HTTP.Shutdown accepts no more requests and waits for the handlers.
Stop ==
    /\ gateway = "up"
    /\ stops < MaxStops
    /\ gateway' = "draining"
    /\ stops' = stops + 1
    /\ UNCHANGED <<outages, limitVars, fetchVars, poolVars, poolHistory, sessionVars, crashes>>

\* Pool.Shutdown, once they have all returned.
ClosePool ==
    /\ gateway = "draining"
    /\ \A r \in Request : ~ Handling(r)
    /\ gateway' = "closing"
    /\ closed' = TRUE
    /\ UNCHANGED <<outages, limitVars, fetchVars, queue, record, mutex, submit, wpc, job, tries,
                   verdict, poolHistory, sessionVars, crashes, stops>>

HeldJobs == {job[w] : w \in Worker} \ {NoRequest}

\* What the process held in memory is gone: its workers, and its handlers with the
\* requests they were at.
ProcessEnds ==
    /\ gateway' = "down"
    /\ wpc' = [w \in Worker |-> "gone"]
    /\ job' = [w \in Worker |-> NoRequest]
    /\ tries' = [w \in Worker |-> 0]
    /\ verdict' = [w \in Worker |-> "none"]
    /\ fetch' = [f \in Fetcher |-> NoFetch]
    /\ closed' = FALSE
    /\ mutex' = NoRequest
    /\ gate' = [r \in Request |-> IF gate[r] = "stamped" THEN "refused" ELSE gate[r]]
    /\ submit' = [r \in Request |-> IF Handling(r) /\ ~Underway(r) THEN "rejected" ELSE submit[r]]
    /\ branch' = [r \in Session |-> [m \in Input |-> "none"]]
    /\ reply' = [r \in Session |-> IF Replied(r) THEN reply[r] ELSE NoReply]
    /\ UNCHANGED <<dialed, queue, record, doubled, clock, counter, stamp, wanted, outcome>>

\* Mutant: Shutdown does not wait for its workers.
ExitAtOnce ==
    /\ gateway = "closing"
    /\ ProcessEnds
    /\ UNCHANGED <<outages, lost, crashes, stops>>

\* Pool.Shutdown's workers have all returned, each with the job it had at its end.
Exit ==
    /\ gateway = "closing"
    /\ \A w \in Worker : wpc[w] \in {"stray", "gone"}
    /\ ProcessEnds
    /\ UNCHANGED <<outages, lost, crashes, stops>>

\* The process dies, or it ends without waiting any longer: its handlers did not
\* return within ShutdownTimeout, or its workers within WorkerShutdownTimeout.  The
\* jobs its workers had are lost.
Crash ==
    /\ gateway # "down"
    /\ crashes < MaxCrashes
    /\ crashes' = crashes + 1
    /\ lost' = lost \union HeldJobs
    /\ ProcessEnds
    /\ UNCHANGED <<outages, stops>>

\* The next process starts the workers.
Restart ==
    /\ gateway = "down"
    /\ gateway' = "up"
    /\ wpc' = [w \in Worker |-> "loop"]
    /\ UNCHANGED <<outages, limitVars, fetchVars, queue, record, closed, mutex, submit, job, tries,
                   verdict, poolHistory, sessionVars, crashes, stops>>

----------------------------------------------------------------------------
RequestStep(r) == Gate(r) \/ Analyze_(r) \/ AnalyzeSession(r)

Next ==
    \/ \E r \in Request : Arrive(r) \/ RequestStep(r) \/ RecordExpires(r)
    \/ \E w \in Worker : Work(w) \/ Stray(w)
    \/ \E f \in Fetcher : Fetching(f)
    \/ MinutePasses
    \/ Stop \/ ClosePool \/ Exit \/ Crash \/ Restart

Spec == Init /\ [][Next]_vars

\* Goroutines are scheduled, BLPOP returns when there is an id, every call a fetch
\* or a detector makes has a timeout, and a gateway that has stopped is started
\* again.  Clients, clocks, crashes and the stray BLPOP are under no obligation.
Fairness ==
    /\ \A r \in Request : WF_vars(RequestStep(r))
    /\ \A w \in Worker : WF_vars(Work(w))
    /\ \A f \in Fetcher : WF_vars(Fetching(f))
    /\ WF_vars(Exit)
    /\ WF_vars(Restart)

FairSpec == Spec /\ Fairness

----------------------------------------------------------------------------
(* Properties.                                                             *)

Ended == {"completed", "failed"}

\* A queued id always has its record, except where the record expired: a worker
\* never pops a job that it then cannot load (pool.go, Submit).
QueuedHasRecord ==
    \A r \in ToSet(queue) : record[r] # "none" \/ r \in lost

Held(r) == \E w \in Worker : job[w] = r

\* A job whose client was told 202 is in the queue, with a worker, or ended, and so
\* it stays while pools stop, restart and retry; what gets it lost is a call to Redis
\* that fails, its time to live, a process that ends with the job in a worker because
\* it crashed or waited for its timeout in vain, and the BLPOP a stopped worker leaves
\* behind (pool.go, Shutdown; queue.go, Dequeue).
AcceptedIsAccountedFor ==
    \A r \in Request :
        submit[r] = "accepted" =>
            r \in ToSet(queue) \/ Held(r) \/ record[r] \in Ended \/ r \in lost

Stage(status) == CASE status = "none" -> 0 [] status = "queued" -> 1
                   [] status = "processing" -> 2 [] status \in Ended -> 3

\* What a client polls only moves forward, and its end is final, unless the job was
\* queued twice or lost (jobstatus.go; worker/job.go, Status).
RecordOnlyAdvances ==
    [][\A r \in Request \ (lost' \union doubled') :
          record'[r] # record[r] => Stage(record'[r]) > Stage(record[r])]_vars

\* A session is reported as failed exactly if there is nothing to assess its risk
\* from: an empty assessment is never passed off as a partial or a completed
\* analysis (session/service.go, buildSession; risk/verdict.go, classify).
FailedIffUnknown ==
    \A r \in Answers : reply[r].status = "failed" <=> reply[r].risk.verdict = "UNKNOWN"

Returned(r) == {m \in Input : outcome[r][m].is = "result"}

\* A result that one goroutine came back with is in the response whatever becomes of
\* the other, and any other input asked for is there as an error (session/service.go,
\* Analyze: "a successful audio result isn't discarded just because video failed").
ReplyKeepsWhatSucceeded ==
    [][\A r \in Session :
          /\ Returned(r) \subseteq Returned(r)'
          /\ reply'[r] # NoReply =>
                /\ reply'[r].results = Returned(r)'
                /\ reply'[r].errors = wanted[r] \ Returned(r)']_vars

\* A risk score lies between the least and the greatest of the scores it combines,
\* whichever of the signals are missing (risk/score.go, weightedScore).
RiskWithinReported ==
    \A r \in Answers :
        LET risk == reply[r].risk
            sig == SignalsOf(r)
            Bounds(low, high) == \A s \in DOMAIN sig : sig[low] <= sig[s] /\ sig[s] <= sig[high]
        IN  \A low, high \in DOMAIN sig :
               Bounds(low, high) => /\ sig[low] * risk.weight <= risk.sum
                                    /\ risk.sum <= sig[high] * risk.weight

\* The components of a temporal score are scores before they are clamped: clamp01
\* never hides a normalization that is off (temporal/features.go, analyzer.go).
ClampsNeverBite ==
    \A r \in Answers :
        LET frames == outcome[r]["video"].frames
        IN  Len(frames) >= 2 => \A c \in 1 .. 3 : Components(frames)[c] \in Score

\* A job whose client was told 202 ends or is lost, however often the detector or
\* the video's server fails and the pool tries again (worker/pool.go, process).
AcceptedSettles ==
    \A r \in Request : submit[r] = "accepted" ~> record[r] \in Ended \/ r \in lost

\* A session is answered, or cut off with the process: neither goroutine ever keeps
\* the other's result waiting for good (session/service.go, Analyze).
SessionsAreAnswered == \A r \in Session : Underway(r) ~> ~Underway(r)
=============================================================================
