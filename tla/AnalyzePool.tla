----------------------------- MODULE AnalyzePool -----------------------------
(***************************************************************************)
(* gateway/internal/worker: the older POST /api/v1/analyze.  Submit writes *)
(* a job's record, which expires, and appends its id to a Redis list; a    *)
(* pool of workers pops ids and runs the jobs, retries included.  Unlike   *)
(* the asynchronous pipeline's, its pop is destructive.                    *)
(*                                                                         *)
(*  Submit:  idle -> put -> check -> push -> accepted                      *)
(*                     |       |       |---> undo -> rejected              *)
(*  worker:  loop -> load -> mark -> fetch <-> detect -> store -> loop     *)
(*                                                                         *)
(* A job is named by the request that submits it.                          *)
(***************************************************************************)
EXTENDS RateLimiter, SafeFetch, DetectorClient, SequencesExt

CONSTANTS Worker,         \* the pool's goroutines
          MaxTries,       \* maxAttempts
          QueueCapacity,  \* WorkerQueueSize
          NoRequest       \* no job, or no holder of the pool's mutex

ASSUME PoolAssumption ==
    /\ Worker \subseteq Fetcher
    /\ MaxTries \in Nat \ {0}
    /\ QueueCapacity \in Nat
    /\ NoRequest \notin Request

VARIABLES queue,      \* Redis: the list of job ids
          record,     \* Redis: the status in each job's record, "none" without one
          closed,     \* Shutdown was called, and the workers' context cancelled
          mutex,      \* the request inside Submit
          submit,     \* where Submit stands for each request
          wpc, job, tries,   \* per worker: where it stands, its job, the attempt
          verdict,    \* the terminal status a worker is about to store
          lost,       \* history: jobs dropped after they were queued, by a popped id
                      \* or a record that went missing, a crash, or a failed write
          doubled     \* history: jobs whose RPUSH went unanswered

poolVars == <<queue, record, closed, mutex, submit, wpc, job, tries, verdict>>
poolHistory == <<lost, doubled>>

SubmitLabel == {"idle", "put", "check", "push", "undo", "accepted", "rejected"}
WorkerLabel == {"loop", "load", "mark", "fetch", "detect", "store", "stray", "gone"}
RecordStatus == {"none", "queued", "processing", "completed", "failed"}

PoolTypeOK ==
    /\ queue \in Seq(Request)
    /\ record \in [Request -> RecordStatus]
    /\ closed \in BOOLEAN
    /\ mutex \in Request \union {NoRequest}
    /\ submit \in [Request -> SubmitLabel]
    /\ wpc \in [Worker -> WorkerLabel]
    /\ job \in [Worker -> Request \union {NoRequest}]
    /\ tries \in [Worker -> 0 .. MaxTries]
    /\ verdict \in [Worker -> {"none", "completed", "failed"}]
    /\ lost \subseteq Request
    /\ doubled \subseteq Request

PoolInit ==
    /\ queue = <<>>
    /\ record = [r \in Request |-> "none"]
    /\ closed = FALSE
    /\ mutex = NoRequest
    /\ submit = [r \in Request |-> "idle"]
    /\ wpc = [w \in Worker |-> "loop"]
    /\ job = [w \in Worker |-> NoRequest]
    /\ tries = [w \in Worker |-> 0]
    /\ verdict = [w \in Worker |-> "none"]
    /\ lost = {}
    /\ doubled = {}

----------------------------------------------------------------------------
(* Store and Submit.                                                       *)

\* Put: SET with the TTL.  When its reply is lost it may have been made.
Write(r, status) == record' = [record EXCEPT ![r] = status]

PutBestEffort(r, status) ==
    \/ Answered /\ Write(r, status)
    \/ Outage /\ (Write(r, status) \/ UNCHANGED record)

SubmitGoTo(r, label) == submit' = [submit EXCEPT ![r] = label]

\* Submit returns, and its deferred Unlock runs.
Return(r, label) == SubmitGoTo(r, label) /\ mutex' = NoRequest

\* What Submit leaves alone, beside what the workers fetch.
workerPart == <<closed, wpc, job, tries, verdict, lost>>

\* Mutant: the id is queued before the record is written.
EnterAndPush(r) ==
    /\ submit[r] = "idle"
    /\ mutex = NoRequest
    /\ ~closed
    /\ queue' = Append(queue, r)
    /\ mutex' = r
    /\ SubmitGoTo(r, "put")
    /\ UNCHANGED <<record, outages, doubled, workerPart>>

\* Lock, and the check for a pool that was shut down.
Enter(r) ==
    /\ submit[r] = "idle"
    /\ mutex = NoRequest
    /\ IF closed
         THEN Return(r, "rejected")
         ELSE SubmitGoTo(r, "put") /\ mutex' = r
    /\ UNCHANGED <<queue, record, outages, doubled, workerPart>>

PutQueued(r) ==
    /\ submit[r] = "put"
    /\ \/ Answered /\ Write(r, "queued") /\ SubmitGoTo(r, "check") /\ UNCHANGED mutex
       \/ /\ Outage
          /\ Write(r, "queued") \/ UNCHANGED record
          /\ Return(r, "rejected")
    /\ UNCHANGED <<queue, doubled, workerPart>>

\* Enqueue: LLEN.
CheckLength(r) ==
    /\ submit[r] = "check"
    /\ \/ Answered /\ SubmitGoTo(r, IF Len(queue) >= QueueCapacity THEN "undo" ELSE "push")
       \/ Outage /\ SubmitGoTo(r, "undo")
    /\ UNCHANGED <<queue, record, mutex, doubled, workerPart>>

\* Enqueue: RPUSH.  Without an answer the id may be in the list; the client library
\* sends the command again, and it may then be there twice.
Push(r) ==
    /\ submit[r] = "push"
    /\ \/ /\ Answered
          /\ queue' = Append(queue, r)
          /\ Return(r, "accepted")
          /\ UNCHANGED doubled
       \/ /\ Outage
          /\ \/ queue' = queue \o <<r, r>> /\ Return(r, "accepted")
             \/ /\ queue' = Append(queue, r) \/ UNCHANGED queue
                /\ SubmitGoTo(r, "undo")
                /\ UNCHANGED mutex
          /\ doubled' = doubled \union {r}
    /\ UNCHANGED <<record, workerPart>>

\* The record of a job that could not be queued.
MarkRejected(r) ==
    /\ submit[r] = "undo"
    /\ PutBestEffort(r, "failed")
    /\ Return(r, "rejected")
    /\ UNCHANGED <<queue, doubled, workerPart>>

SubmitStep(r) == PutQueued(r) \/ CheckLength(r) \/ Push(r) \/ MarkRejected(r)

\* The record's TTL runs out, whatever the job was waiting for.
Expire(r) ==
    /\ record[r] # "none"
    /\ Outage
    /\ Write(r, "none")
    /\ lost' = lost \union {r}
    /\ UNCHANGED <<queue, closed, mutex, submit, wpc, job, tries, verdict, doubled>>

----------------------------------------------------------------------------
(* runWorker.                                                              *)

\* What the workers leave alone.
submitPart == <<closed, mutex, submit, doubled>>

WorkerGoTo(w, label) == wpc' = [wpc EXCEPT ![w] = label]

\* Back to the top of the loop.
LetGo(w) ==
    /\ WorkerGoTo(w, "loop")
    /\ job' = [job EXCEPT ![w] = NoRequest]
    /\ tries' = [tries EXCEPT ![w] = 0]
    /\ verdict' = [verdict EXCEPT ![w] = "none"]

Drop(r) == lost' = lost \union {r}

\* Mutant: an id that is read and left in the list until its job is done.
PopKeeping(w) ==
    /\ wpc[w] = "loop"
    /\ queue # <<>>
    /\ Answered
    /\ WorkerGoTo(w, "load")
    /\ job' = [job EXCEPT ![w] = Head(queue)]
    /\ UNCHANGED <<queue, record, tries, verdict, lost, submitPart, fetchVars>>

\* Dequeue: BLPOP, of which the reply may be lost.  It may still answer after
\* Shutdown, if the worker was in it and the select prefers its result.
Pop(w) ==
    /\ wpc[w] = "loop"
    /\ queue # <<>>
    /\ queue' = Tail(queue)
    /\ \/ /\ Answered
          /\ WorkerGoTo(w, "load")
          /\ job' = [job EXCEPT ![w] = Head(queue)]
          /\ UNCHANGED lost
       \/ Outage /\ Drop(Head(queue)) /\ UNCHANGED <<wpc, job>>
    /\ UNCHANGED <<record, tries, verdict, submitPart, fetchVars>>

\* The cancelled context ends the loop; a BLPOP may be left behind.
Leave(w) ==
    /\ wpc[w] = "loop"
    /\ closed
    /\ \E label \in {"stray", "gone"} : WorkerGoTo(w, label)
    /\ UNCHANGED <<queue, record, outages, job, tries, verdict, submitPart, lost, fetchVars>>

\* It pops an id that nobody is left to receive.
StrayPop(w) ==
    /\ wpc[w] = "stray"
    /\ queue # <<>>
    /\ queue' = Tail(queue)
    /\ Drop(Head(queue))
    /\ WorkerGoTo(w, "gone")
    /\ UNCHANGED <<record, outages, job, tries, verdict, submitPart, fetchVars>>

\* store.Get: a record that is gone, or cannot be read, ends the job here.
Load(w) ==
    /\ wpc[w] = "load"
    /\ IF record[job[w]] = "none"
         THEN Answered /\ LetGo(w) /\ Drop(job[w])
         ELSE \/ /\ Answered
                 /\ WorkerGoTo(w, "mark")
                 /\ UNCHANGED <<job, tries, verdict, lost>>
              \/ Outage /\ LetGo(w) /\ Drop(job[w])
    /\ UNCHANGED <<queue, record, submitPart, fetchVars>>

\* process: record the job as processing, and start the first attempt.
Mark(w) ==
    /\ wpc[w] = "mark"
    /\ PutBestEffort(job[w], "processing")
    /\ WorkerGoTo(w, "fetch")
    /\ tries' = [tries EXCEPT ![w] = 1]
    /\ StartFetch(w)
    /\ UNCHANGED <<queue, job, verdict, lost, submitPart, dialed>>

Settle(w, status) ==
    /\ WorkerGoTo(w, "store")
    /\ verdict' = [verdict EXCEPT ![w] = status]
    /\ UNCHANGED tries

\* Mutant: one attempt after another, whatever their number.
TryAgainAlways(w) ==
    /\ WorkerGoTo(w, "fetch")
    /\ StartFetch(w)
    /\ UNCHANGED <<tries, verdict>>

\* Mutant: one attempt too many.
TryAgainOnceMore(w) ==
    \/ /\ tries[w] <= MaxTries
       /\ WorkerGoTo(w, "fetch")
       /\ StartFetch(w)
       /\ tries' = [tries EXCEPT ![w] = @ + 1]
       /\ UNCHANGED verdict
    \/ /\ tries[w] > MaxTries
       /\ Settle(w, "failed")
       /\ EndFetch(w)

\* The next attempt, after a pause that nothing interrupts, or no more of them.
TryAgain(w) ==
    \/ /\ tries[w] < MaxTries
       /\ WorkerGoTo(w, "fetch")
       /\ StartFetch(w)
       /\ tries' = [tries EXCEPT ![w] = @ + 1]
       /\ UNCHANGED verdict
    \/ /\ tries[w] = MaxTries
       /\ Settle(w, "failed")
       /\ EndFetch(w)

\* fetchAndAnalyze: what Fetch returned.
Fetched(w) ==
    /\ wpc[w] = "fetch"
    /\ \/ FetchAt(w, "fetched") /\ WorkerGoTo(w, "detect") /\ UNCHANGED <<tries, verdict, fetch>>
       \/ FetchAt(w, "permanent") /\ Settle(w, "failed") /\ EndFetch(w)
       \/ FetchAt(w, "transient") /\ TryAgain(w)
    /\ UNCHANGED <<queue, record, outages, job, lost, submitPart, dialed>>

\* fetchAndAnalyze: what the detector answered; a panic is recovered and recorded
\* like an error that is not retried.
Detected(w) ==
    /\ wpc[w] = "detect"
    /\ \E ending \in Ending \union {"panic"} :
          CASE ending = "2xx" -> Settle(w, "completed") /\ EndFetch(w)
            [] ending = "panic" -> Settle(w, "failed") /\ EndFetch(w)
            [] ending \in Ending \ {"2xx"} /\ DetectorRetryable(KindOf(ending)) -> TryAgain(w)
            [] OTHER -> Settle(w, "failed") /\ EndFetch(w)
    /\ UNCHANGED <<queue, record, outages, job, lost, submitPart, dialed>>

\* The final Put; an error is only logged.
StoreVerdict(w) ==
    /\ wpc[w] = "store"
    /\ \/ Answered /\ Write(job[w], verdict[w]) /\ UNCHANGED lost
       \/ Outage /\ (Write(job[w], verdict[w]) \/ UNCHANGED record) /\ Drop(job[w])
    /\ LetGo(w)
    /\ UNCHANGED <<queue, submitPart, fetchVars>>

\* What a worker does with a job, whichever way it goes.
RunJob(w) == Load(w) \/ Mark(w) \/ Fetched(w) \/ Detected(w) \/ StoreVerdict(w)
=============================================================================
