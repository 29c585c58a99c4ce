# A verification development for MithyaX

MithyaX scores live calls and uploaded recordings for deepfakes. Its core is a
Go gateway (`src/services/gateway`) between clients, two Python detector
services, Redis and PostgreSQL. This directory holds TLA+ modules translated
from the gateway's source, TLC configurations that check them on small
instances, and TLAPS proofs of the most important theorems. Paths below are
relative to `src/services/gateway/internal/` unless they start with `src/`.

## 1. Inventory

| component | state it keeps | operations | talks to | what is hard |
|---|---|---|---|---|
| **Async analysis API** `handlers/analysisjobs.go` | none beyond the request | create a row, enqueue, compensate | queue, job rows | two stores written in turn; client hangs up half way |
| **Analysis queue** `queue/redis.go`, `analysisjob/job.go` | per modality: pending, processing and failed list in Redis | Enqueue, Dequeue, Ack, Fail, RecoverStale | API, workers | at-least-once delivery, lost replies, two-command operations, duplicates |
| **Async workers** `analysisworker/` | label and held delivery per goroutine | decode, mark, handle, ack, retry, dead-letter, stop | queue, rows, results, detectors | crash between any two calls, backoff and stop, two pools on one session |
| **Job rows and results** `repository/jobs`, `repository/analysis`, `analysisworker/coordinator.go` | `analysis_jobs`, `analysis_results` | status updates, upsert by modality, finalize risk, "is the other one outstanding?" | workers, API, live session | check-then-act across two tables, terminal states |
| **Process life** `cmd/gateway/main.go`, `httpserver/server.go` | running, stopping, down | start (recover, then workers), graceful stop | all | order of recovery, stop and crash |
| **Older analyze pool** `worker/`, `handlers/analyze.go` | Redis list of ids, TTL'd record per id, a mutex | Submit, run with in-process retries, Shutdown | `/analyze` handlers, fetcher, detector | destructive pop, crash while running, lost replies, submit racing shutdown |
| **Realtime session** `realtime/`, `handlers/sessionswebsocket.go` | bounded queues, latest scores, temporal window, state, store of sessions | submit frame or chunk, workers, tick, End | socket pumps, detectors, repositories | drop-oldest, emission after unlock, closing of channels, double connect |
| **Combined analysis** `session/`, `handlers/analyzesession.go` | two goroutines and their channels | fork two detector calls, join, status | fetcher, detectors, both engines | one side failing or slow |
| **Risk engine, temporal analyzer** `risk/`, `temporal/` | none | scores to verdict, frames to score | sessions, both kinds; workers | boundaries, missing signals, normalization |
| **Signaling hub** `websocket/`, `handlers/websocket.go`, `src/web/call.js` | rooms of at most six peers, a bounded channel each; a call per pair in the browsers | join, relay, leave; offer, answer | browsers | send racing the closing of a peer's channel, dropped messages, crossing offers |
| **Rate limiter** `ratelimit/` | one Redis counter per key and window | Allow | handlers | window boundary, two clocks, fail open |
| **Safe fetcher** `security/` | where each fetch stands | redirect loop, pinned connection, bounded read | pool workers, sessions | off-by-one, names that change between check and use |
| **Detector clients** `detector/`, `audio/` | none | classify how a call ended | pool, sessions, workers | what is worth a retry |
| Sessions, credentials, auth `auth/`, `sessioncred/`, `repository/sessions` | one row or key each | create, verify | handlers | little |
| Extension `src/integrations/google-meet/extension` | reconnect generation, participants | start, stop, reconnect | gateway | stale continuations |
| Detector services, web console, deployment, configuration, migration | – | – | – | not protocol code |

Components in bold are modelled.

What makes each correct, in one line:

- **Queue and workers:** an accepted job is never lost; nobody's Ack removes
  somebody else's delivery; every accepted job settles if nothing fails.
- **Rows:** a client that reads `completed` finds a score; attempts stay in
  budget; a terminal row stays terminal.
- **Results:** the risk never forgets a modality, and once a session's jobs are
  done it covers all recorded scores.
- **API:** a job the workers can see has a row.
- **Analyze pool:** an accepted id is queued, run or ended; its record is there
  before the id is, and only moves forward.
- **Realtime:** every frame and chunk is counted once; no send on a closed
  channel; the record is the session's last state and is written once; nothing
  outlives the session; risk updates in order.
- **Combined analysis:** no result is lost at the join; the status agrees with
  the risk; it is always answered.
- **Engines:** missing signals do not dilute the risk; every component is a score
  before it is clamped.
- **Hub:** no send to a closed channel; whoever stays is connected to everybody
  who stays; no offers that cross, no calls to nobody.
- **Limiter:** no more than the limit in a window.
- **Fetcher:** it connects only to what it validated at that hop, and hands on
  only whole bodies.

`PROJECT.json` lists the hazards at their lines, with the property that would
catch each, or the reason why none does yet.

## 2. What is modelled

Four systems. The asynchronous pipeline, whole: from `POST /api/v1/analysis` to a
combined risk on record, through crashes, lost calls and restarts. The live
session: the sockets of one session, its queues and workers, and what is recorded
when it ends. The two older endpoints, `POST /analyze` and `POST /analyze-session`,
composed with the limiter in front of them, the fetcher they share, the engines
behind them, and the life of the process. And a signaling room with the browsers
in it.

| module | models | extends |
|---|---|---|
| `AnalysisJobs` | jobs, attempts, deliveries (`analysisjob`) | |
| `RedisQueue` | the three lists of each queue, one operator per Redis command | `AnalysisJobs` |
| `JobStore` | both tables and the coordinator's read | `AnalysisJobs` |
| `Outages` | how many calls to a store may fail | |
| `AnalysisWorker` | `run`, `process`, `retry`, `failPermanently`, the two handlers | the three above |
| `AnalysisPipeline` | adds the request handler, stop, exit, crash, restart; the properties | `AnalysisWorker` |
| `JobLifecycle` | abstract specification: what a polling client may observe of a row | |
| `MCAnalysisPipeline` | constants for TLC | `AnalysisPipeline` |
| `SequenceLemmas` | facts about `Append`, `Tail`, `RemoveFirst`, `Reverse`, `SubSeq`, lists without repetition, and sums over sets | |
| `RedisQueueProofs` | what each queue command keeps and removes, and when it makes a delivery twice | |
| `AnalysisPipelineProofs` | the theorems about it: types, deliveries, rows, scores | `AnalysisPipeline`, `RedisQueueProofs` |
| `AnalysisOutcomeProofs` | the theorems about how it ends: open rows, the final risk, the life cycle of the rows | `AnalysisPipelineProofs` |
| `LiveSession` | `realtime/session.go`: queues, workers, `End` | |
| `LiveClient` | `realtime/client.go` and `handlers/sessionswebsocket.go`: the three goroutines of each socket, the records; the properties | `LiveSession` |
| `MCLiveClient` | constants for TLC | `LiveClient` |
| `LiveClientProofs` | the theorems about it | `LiveClient` |
| `Scores` | scores as integers, `clamp01` | |
| `RiskEngine` | `risk/`: weighted score, verdict, reasons | `Scores` |
| `TemporalAnalyzer` | `temporal/`: the three components and their average | `Scores` |
| `DetectorClient` | `detector/client.go`: how a call ends, and whether that is worth a retry | |
| `SafeFetch` | `security/`: hops, validation, pinning, the bounded read | |
| `RateLimiter` | `ratelimit/`: the window, the script, the middleware | `Outages` |
| `AnalyzePool` | `worker/`: Submit, the workers, the record | `RateLimiter`, `SafeFetch`, `DetectorClient` |
| `SessionService` | `session/` and its handler: the branches, the join, the risk | `RateLimiter`, `SafeFetch`, both engines |
| `OlderEndpoints` | composes the two behind the limiter, in a process that stops, crashes and starts; the properties | the two above |
| `MCOlderEndpoints` | constants for TLC | `OlderEndpoints` |
| `SignalingHub` | one room of `websocket/`, and `call.js` in each browser; the properties | |
| `MCSignalingHub` | constants for TLC | `SignalingHub` |
| `RiskEngineProofs` | the theorems about both engines | `RiskEngine`, `TemporalAnalyzer` |
| `OlderEndpointsProofs`, `SignalingHubProofs` | the theorems about them | the module in the name |

### State and code

| variable | in the code |
|---|---|
| `pending`, `processing`, `failed` | the lists `key`, `key:processing`, `key:failed` of `queue.Redis` |
| `rows`, `made` | `analysis_jobs`, and the order of its `created_at` |
| `scores`, `risk` | `analysis_results`: which job each score is from, and from which scores the risk was computed |
| `pc`, `held`, `compute` | where a worker goroutine is in `process`, its `Delivery`, and whether `shouldComputeRisk` returned a function |
| `api`, `making`, `hungUp` | where a request's handler is, and whether its client has hung up, which cancels its context (only clients in `Impatient` do) |
| `gateway` | the process: up, stopping (worker contexts cancelled), down |
| `outages`, `crashes`, `stops` | bounds only |
| `handled`, `removed`, `unchecked`, `accepted` | history variables that only properties read |

The live session:

| variable | in the code |
|---|---|
| `queue`, `count` | `videoQueue` and `audioQueue`; `frameCount` and `audioChunkCount` |
| `out`, `outClosed`, `send`, `sendClosed` | the channels `Session.out` and each `Client.send`: how many messages, and whether closed |
| `ender`, `cancelled` | who is in `stopOnce`, and the session's context |
| `pc`, `batch`, `built` | where a worker is, the messages it built and has yet to emit, and how many results its `risk_update` reflects |
| `updates` | the scores under `mu`, as the number of results folded into them |
| `handler`, `arriving` | where a socket's handler is, from `store.Get` through `ReadPump` to `store.Delete`, and the item it submits |
| `forwarder`, `writer` | `ForwardSessionMessages` and `WritePump` |
| `stored`, `final`, `row`, `result` | the store's entry, `FinalResult`, and the columns of `sessions` and `analysis_results` it is written to |
| `dropped`, `taken` | what `framesDropped` and `audioChunksDropped` have counted, by name; what workers took |
| `emitted`, `creates` | history variables that only the violation runs read |

The older endpoints:

| variable | in the code |
|---|---|
| `clock`, `stamp` | the window by the gateway's clock, and the one each request read in `Allow` |
| `counter` | Redis' key of each window: its count and when it expires |
| `gate` | where `Middleware` stands with a request |
| `fetch`, `dialed` | per caller of `Fetch`: the loop's place, hop, pinned address and body; the addresses connected to (history) |
| `queue`, `record` | the Redis list of ids and the status in each id's record |
| `mutex`, `closed` | `Pool.mu` and `Pool.closed` with the workers' context |
| `submit` | where `Pool.Submit` stands for a request |
| `wpc`, `job`, `tries`, `verdict` | where a worker is, its job, the attempt of `process`, the status it is about to store |
| `lost`, `doubled` | history: the jobs the code is known to lose, or to queue twice |
| `wanted`, `branch`, `outcome` | a session's inputs, its goroutines, and what each sent on its channel |
| `reply` | the response, first without and then with its risk |
| `gateway` | up, draining (`HTTP.Shutdown`), closing (`Pool.Shutdown`), down |

The signaling room:

| variable | in the code |
|---|---|
| `room` | `Hub.rooms[room]` |
| `conn` | the handler that joins a client, then its `ReadPump` up to the closing of `send` |
| `send` | `Client.send`, a bounded channel |
| `browser` | whether the page is in the call, hung up, or lost its socket |
| `calls` | `peers` in `call.js`: one `RTCPeerConnection` per peer, by how far `createOffer` or `handleOffer` has come |
| `missed` | history: whom a dropped message was for and about |

In the pipeline an action is the code between two calls that leave the process,
together with the call that ends it: anything may come between two actions, a crash
included, and nothing between the lines of one. Every call may fail (`Outage`): a
read or a status write has no effect then, a BLMOVE, RPUSH, LREM or a transaction
may or may not have taken effect. What the code does after the failure – log and
continue, fail the attempt, dead-letter – is the disjunct that follows.

### Abstractions

- A payload, URL, error text and time is not represented. Two deliveries of the
  same job and attempt are equal values, as they are in Redis if they carry the
  same `last_error`; when they differ LREM can only be more exact.
- A detector run (`Handle`) is a score, an error worth a retry, or a permanent
  error; which error is which is the detectors' affair.
- A score is named by the job that produced it. The risk is the record of scores
  it was computed from, so that a stale or partial risk can be told apart from a
  complete one; the arithmetic is `RiskEngine`'s.
- Backoff takes any time, or none when stopping.
- `Crash`, here and in the older endpoints, also stands for the early returns of
  `run` in `main.go` when a shutdown step times out. The next process recovers both
  processing lists and then starts its workers (`server.go:162-194`).
- An envelope that does not unmarshal (`redis.go`, end of `Dequeue`) counts as a call
  to Dequeue that failed: the delivery stays in the processing list until the next
  recovery. That it would fail again then is within the bound on failed calls.
- One gateway process at a time. `RecoverStale` takes over every delivery in
  flight, so that a second replica's start would take those of the first; the code
  documents no such deployment.
- An unknown session (foreign key) is one way in which `Create` fails.
- The live session writes `analysis_results` too (`Create`). The two systems share
  nothing else, and are not composed yet: what happens when both write the same
  session is among the hazards without a property.
- In the live session an action is one operation on a channel, an atomic or the
  lock: each of `SubmitFrame`'s three selects is a step, so that workers and the
  other sockets come in between. A select takes either ready case; a cancelled
  worker may still take an item. What a message says matters when it is emitted,
  so a channel of messages is its length. `metrics` counters are updated with the
  channel operation next to them; the depth gauges are left out.
- The model starts with a session in the store: `POST /sessions` and
  `MaxSessions` are not modelled. A detector call is an answer or an error. Each
  answer updates the scores, since even a frame without a face enters the temporal
  window. A read may return a message that was buffered when the connection closed.
- In the older endpoints too an action ends at a call that leaves the process, and
  calls to Redis may fail, with or without effect. The client library repeats a
  command that was not answered, so that an RPUSH may come twice.
- URLs are left out. Which addresses are public is a constant, and a name may
  resolve to any set of addresses each time. A lookup that fails and an address
  that is refused are the same error in the code, and the same choice here.
- Every timeout cancels a context, and what a cancelled context does to a call, the
  call may do anyway; so timeouts are not steps of their own.
- A request that waits for the limiter's answer is counted at most one window
  late: the Redis client gives up on a call long before a minute is over
  (`Tick`'s guard). Time passes by whole windows.
- Scores are integers over `Full`, a multiple of all denominators that occur, so
  that the divisions are exact; a risk is kept as a fraction. Rounding of
  `float64` is not represented.
- In the room a message that a browser sends is routed in the step that sends it,
  and one that `WritePump` writes is handled in that step. ICE candidates take the
  same way as an offer, carry no obligation and are left out.
- A limit of 0 means none in the code; the configuration only admits positive
  ones (`config.go`, `positiveIntEnv`), and so does `SessionAssumption`.

## 3. What the runs check

The pipeline's runs use `MCAnalysisPipeline`; one session, because sessions share
nothing but the queues, and sharing those is what the second request is for. The
live session's use `MCLiveClient`; one session, because live sessions share only
their store. `older_*` use `MCOlderEndpoints` and `signaling` `MCSignalingHub`; one
room, because rooms share nothing. `CHECK_DEADLOCK FALSE` everywhere: when all
requests are done and the bounds on crashes and stops are used up, or all sockets
are gone, the system rightly has nothing left to do.

| run | instance | shows |
|---|---|---|
| `faults` | 1 request for both modalities, 1 worker per pool, 2 attempts, capacity 1; any 1 failed call, 1 crash, 1 stop, and a client that may hang up | `TypeOK`, `DeliveryHasRow`, `CompletedHasScore`, `AcceptedIsNeverLost`, `RiskFinalUnlessUnchecked`, `RiskOnlyGains` |
| `pool` | 2 requests, 2 workers on the video queue (symmetric), 1 crash; the client of the request for both may hang up | `HeldIsInFlight`, `AcceptedIsNeverLost`, `StrandedRowsAreKnown` |
| `fair` | 2 requests for one session, 3 attempts, capacity 2, 1 stop, fairness; the audio payload does not decode | `AcceptedJobsSettle`, and that the rows implement `JobLifecycle`, where jobs are retried, given up and refused by full queues |
| `live_sockets` | 2 sockets (symmetric) sending frames, 1 worker per queue, queues and channels of 1, limits of 1 | `LiveTypeOK`, `AccountedFor`, `LimitsHold`, `ClosedAfterLastSend`, `RecordedIsFinal` |
| `live_browser` | 1 socket sending frames and chunks, limits of 2 frames and 1 chunk, fairness | `OneSocketStaysFresh`, `SessionIsReleased` |
| `older_pool` | 2 requests (symmetric) with a limit of 1 over 2 windows, 2 workers (symmetric), a queue of 1, 2 attempts, 1 redirect; any 1 failed call or expiry, 1 crash, 1 stop | `OlderTypeOK`, `DialedIsValidated`, `FetchedIsWhole`, `AdmittedWithinLimit`, `QueuedHasRecord`, `AcceptedIsAccountedFor`, `RecordOnlyAdvances` |
| `older_session` | a request for a session or a job, one for a job, 1 worker, clips of 1 and 3 frames, 1 stop, fairness | `FailedIffUnknown`, `RiskWithinReported`, `ClampsNeverBite`, `ReplyKeepsWhatSucceeded`, `AcceptedSettles`, `SessionsAreAnswered` |
| `signaling` | 4 clients (symmetric) of a room for 3, buffers of 3, 1 of them hanging up or cut off | `HubTypeOK`, `MembersAreOpen`, `NoGhostCalls`, `QuietRoomIsConnected`, `NoGlare` |
| `risk_race` | no fault at all | violates `RiskFinal` |
| `terminal_rewrite` | 1 crash | violates `TerminalIsForever` |
| `live_risk_order` | 1 socket, a frame and a chunk | violates `RiskUpdatesNeverGoBack` |
| `live_double_create` | 2 sockets | violates `CreatedOnce` |

### Properties

- `HeldIsInFlight`: for each worker in `process` there is a copy of its delivery
  in the processing list, counted with multiplicity. Duplicates do arise (a crash
  between the retry's Enqueue and its Ack), and LREM removes by value.
- `AcceptedIsNeverLost`: an enqueued job is waiting or in flight until some run
  of it succeeded or `Fail` took it off. `faults` checks it with calls that fail with
  and without effect, stops and a crash, `pool` with duplicates in the hands of
  two workers.
- `DeliveryHasRow`: row before delivery, always.
- `CompletedHasScore`: `completed` implies handled, with a score on record.
- `RiskOnlyGains`: a step never removes a modality from the risk, and never adds
  one without a score.
- `RiskFinalUnlessUnchecked`: when a session has settled its risk covers all its
  scores, unless the session is in `unchecked`: a job was given up on a path that
  does not ask the coordinator (an undecodable delivery, a retry that could not be
  enqueued, a failed coordinator read, a failed FinalizeRisk, a failed Enqueue in
  the handler), or a worker asked while the other modality was past its own look,
  which is the race of `risk_race`. It says that this list of exceptions is
  complete. `faults` has one job of each modality; that it holds too when a session
  has several, of which the coordinator reads the latest, is what the theorem adds.
- `StrandedRowsAreKnown`: while the stores answer, a row stays open for good in
  three ways only: a crash, or its client by hanging up, cut its handler off before
  the job was queued; its worker was cut off between Ack and `markCompleted`; or the
  queue had no place for its retry. A hang-up is no failure of a store, so that the
  property does say what becomes of the row of a client that leaves: without a crash
  a row is left queued for those clients only.
- `AcceptedJobsSettle`, `RowsFollowLifecycle`: liveness and refinement.
- `AccountedFor`: every frame and chunk that was counted is in exactly one place –
  waiting, in a reader's hand, taken, or dropped – while sockets and workers work
  on the queue between the selects of `SubmitFrame`.
- `OneSocketStaysFresh`: with one socket only the oldest frames are dropped, and
  the last select never fails. (With two it does: each can drop a frame before
  either sends.)
- `LimitsHold`: the check of a lifetime limit and the count are separate, so each
  socket can exceed it by one, and by no more.
- `ClosedAfterLastSend`: no channel is closed while one of its senders is left.
- `RecordedIsFinal`: whichever socket writes the records, and however they
  overlap, no answer is folded in after `FinalResult` was read.
- `SessionIsReleased`: an opened socket comes to its end, the session leaves the
  store and its workers are gone, whatever the browser does.
- `AcceptedIsAccountedFor`: a job whose client was told 202 is in the queue, with a
  worker, or ended, or on the list of losses (`lost`): a reply of BLPOP that does
  not come, a process that crashes or runs out of time to stop with the job in a
  worker, a record that expires or
  cannot be read or written, the BLPOP that a stopped worker leaves behind. It
  says that this list is complete, through stops, restarts and retries: a graceful
  stop waits for its workers, and loses nothing they have.
- `QueuedHasRecord`: no worker pops an id before its record is there.
- `RecordOnlyAdvances`: what a client polls goes from queued to processing to its
  end, unless the job was queued twice (an RPUSH without an answer) or lost.
- `AdmittedWithinLimit`: a window is named by the gateway's clock, and its counter
  counted later and dropped by Redis' clock; still no window admits more than the
  limit, except requests that Redis did not answer.
- `DialedIsValidated`, `FetchedIsWhole`: at no hop is a connection opened to an
  address that this hop did not find public; a body handed on is not cut short.
- `ReplyKeepsWhatSucceeded`: what one goroutine returned is in the response whatever
  becomes of the other, and every other input that was asked for is an error in it.
- `FailedIffUnknown`: the status and the verdict come from different packages; they
  agree on when nothing is known.
- `RiskWithinReported`: a risk lies between the least and the greatest of the scores
  it combines, for every set of missing signals.
- `ClampsNeverBite`: `clamp01` never hides a component that is normalized wrongly.
- `AcceptedSettles`, `SessionsAreAnswered`: jobs and sessions come to their end.
- `MembersAreOpen`: the hub never routes to a client whose channel is closed, which
  would panic.
- `NoGhostCalls`, `QuietRoomIsConnected`, `NoGlare`: a call to somebody who left is
  about to be torn down; a room at rest is fully connected; offers never cross.
  The first two allow for a message that was dropped, and for nothing else.

### Why the bounds are enough

One failed call and one crash together give every two-fault interaction the code can
meet within one job's life (a lost reply, then a crash, then recovery). Two attempts
are the least that have a retry and an exhausted budget; `fair` uses three, as
`defaultMaxAttempts` does. Hang-ups are bounded by `Impatient`, the requests whose
clients do it: one is enough, since a client can only cut off its own handler.
Capacity 1 makes a retry meet a full queue as soon as a second job waits. Two
workers on one queue are needed for one to ack the other's copy. Two sockets are the
least that share a session, three frames (a limit of one, plus one for each) the
least that make `SubmitFrame`'s last select fail, and with channels of one every
sender meets a full one. `Streams` names what the browsers send: in `live_sockets`
frames only, since the submission of a chunk is a single select, and `live_browser`
has chunks.

In `older_pool` two requests and a queue and a limit of one are the least that make
each of them refuse; two workers the least of which one can be stopped while the
other works; two attempts have a retry and a last one; one redirect has a hop
that is allowed and one that is not; a body may be shorter than, equal to and
longer than a limit of one byte (`MaxBytes`, and `Length` up to two more); two
windows (`MaxClock` 1) let a request be counted after its own. `MaxOutages` bounds
failed calls and expiries together, `MaxCrashes` and `MaxStops` the ends of a
process. `older_session` has a clip of one frame, which is the analyzer's special
case, and one with a spike and without faces, which makes each component
non-zero. In `signaling` a room for three has two peers negotiating while a third
joins or leaves, the fourth client is refused or takes the place of the one that
left (`MaxDepartures`), and buffers of three overflow.

The theorems of section 5 remove these bounds for the properties they cover.

### Fairness

`FairSpec` assumes that a worker goroutine that can take a step of its loop
eventually does (the Go scheduler; calls to the stores and detectors carry
timeouts), that a started HTTP handler runs to its end, that `StopWorkers` returns
when the workers have (`pool.go:41-57`), and that a stopped gateway is started
again, which `restart: unless-stopped` in docker-compose.yml does. Requests,
hang-ups, stops and crashes are not fair; nor is the last BLMOVE of a stopping
worker, which may or may not catch a job.

`FairLiveSpec` assumes that the session's workers, the handlers and the forwarders
are scheduled: detector calls end by their client's timeout, and a read ends at
the latest at the session's deadline (`client.go`, `resetReadDeadline`), so that a
handler that waits for a message eventually stops. Nothing is assumed of
the browser, nor of `WritePump`, which a slow browser may block.

`OlderEndpoints`' `FairSpec` assumes that a request inside the gateway goes on, that
the pool's workers and the fetches do (BLPOP returns when there is an id;
`fetchAndAnalyze`, the session's branches and the clients' calls are each under a
timeout), that a process that closes its pool ends when its workers have returned
(one that runs out of `WorkerShutdownTimeout` before is a `Crash`), and that a
gateway that is down is started again. Arrivals, the clock, crashes, stops, expiries
and the BLPOP left behind by a stopped worker are not fair. The signaling room has
no liveness property: nothing makes a browser read.

### The disagreements

- **`risk_race`** (`analysisworker/handler.go:231`). The coordinator answers
  from the rows, and a job's own row becomes `completed` only after `Handle` and
  `Ack` (`worker.go:189-196`). Video and audio that are both past the coordinator
  before either row is completed each find the other outstanding; both scores are
  recorded, no risk is ever computed. `coordinator.go:22-23` promises that the
  result is order-independent.
- **`terminal_rewrite`** (`repository/jobs/postgres.go:70`). A redelivered job's row
  goes from its terminal status back to `processing`: from `dead_letter` after a
  crash between `markDeadLetter` and the LREM of `Fail`, which is the run's trace,
  and from `completed` after an Ack that did not take effect. The update does not
  look at the row's status; `repository.go:33-34` says a terminal job never
  transitions again, and the coordinator relies on it.
- **`live_risk_order`** (`realtime/session.go:443`). The messages of a result are
  built under the lock and emitted after it. A worker can build its `risk_update`
  first and emit it last; the browser then shows a risk without the other's signal.
  `message.go:32-34` says each reflects every signal gathered so far.
- **`live_double_create`** (`handlers/sessionswebsocket.go:97`). Two sockets may
  join one session (nothing after `store.Get` prevents it); both handlers call
  `analysisRepo.Create`, whose comment calls that "a bug in the caller". The second
  insert fails and is logged; `RecordedIsFinal` shows that the record that stays is
  right all the same.

Seen while modelling, and stated in the models without a run of their own:

- **A clip of one frame counts as authentic.** `temporal/analyzer.go:78-93` answers a
  placeholder with a score of 0, and `risk/engine.go:43` takes any temporal result
  for a signal, so that the risk of a session with a single frame is pulled to 0.
  `realtime/session.go:427-437` guards against just that ("would make a session's
  very first risk_update falsely report LIKELY_AUTHENTIC"), and `score.go` says a
  signal without data is excluded entirely. `SignalsOf` follows the code.
- **A stopped pool loses a job.** `pool.go:293-298` says that jobs still queued are
  left to the next process; the BLPOP outstanding at Shutdown may still take one
  (`StrayPop`), which is in `lost`.
- **A failed lookup is permanent.** `safefetcher.go:200-203` turns every error of the
  validator into `Blocked`, which the pool does not try again, a name server that
  did not answer included (`Resolve`).
- **A browser that is cut off keeps its calls** (`call.js`, `onclose`), while the
  others tear theirs down. `NoGhostCalls` is about those still in the room.

## 4. Mutants

Each property has at least one mutant: an operator next to the definition it alters,
marked `Mutant:`, with the bug a maintainer might introduce (LREM 0 for LREM 1, Ack
before the retry's Enqueue, a start without recovery, a recovery that drops what it
could not move; Out closed without waiting for the workers; a name resolved again
for the connection; a counter that expires with its window; a pool that does not
wait for its workers; a newcomer that offers calls as well). `PROJECT.json` pairs
them with the property that must then fail.

## 5. What is proved

For all values of the constants that satisfy the named assumptions
(`JobsAssumption`, `QueueAssumption`, `WorkerAssumption`, `OutagesAssumption`,
`LifeAssumption`, `ImpatientAssumption`): any requests, clients that hang up,
sessions, workers, capacity, attempts and numbers of faults.

- **`TypeInvariant`, `TypeCorrect`**: `TypeOK`, with `HeldOK` (a worker inside
  `process` holds a delivery, one with attempts to spare when it is about to retry)
  and `MakingOK` (a handler is at a job its request asked for). `TypeOK` alone is not
  inductive: `WithFailure` would leave the type without the second part of `HeldOK`.
- **`NeverLost`**: `AcceptedIsNeverLost`. By itself it is not inductive: at
  `AckRetried` the old delivery goes, and what keeps the job is that the retry
  was enqueued; but that retry may itself have been dequeued, retried and acked
  by then. `NeverLostInv` therefore states, for every accepted job and every
  attempt number a worker may still remove, that the job is done with or that a
  delivery of a later attempt is outstanding. As attempts only grow, no
  worker's removal takes the last one. The queue lemmas (`RedisQueueProofs`)
  say that LREM removes at most one delivery, and only of the value named, and
  that RecoverStale keeps all.
- **`DeliveriesHaveRows`**: `DeliveryHasRow`, from `RowInv`, which follows a job's row
  from the handler that is about to enqueue it (`CreateRow` comes first) through the
  lists into the workers' hands and, by retries and `Fail`, back into the lists. A
  row, once there, stays (`RowStays`).
- **`InFlightIsKept`**: `HeldIsInFlight`, from `InFlightInv`, which counts for every
  delivery and not only for those somebody holds: a worker becomes a holder with
  the BLMOVE that adds a copy, and stops being one before, or with, the LREM that
  takes one away. `RemoveFirstPositions` says that LREM takes no more than one.
- **`CompletedIsScored`**: `CompletedHasScore`, from `ScoresInv`: a job that was
  handled has a score of its modality, a score is never erased, a worker at
  `ack` or `complete` holds a handled job.
- **`RiskGrows`**: `RiskOnlyGains`, an action property, from `ScoresInv`'s
  conjunct that the risk covers only modalities with a score.
- **`OnlyKnownRowsAreStranded`**: `StrandedRowsAreKnown`, from `SettlingInv`, `OpenInv`
  and `CreatedInv`. `Open` says of an open row that one of its deliveries is waiting, or
  with a worker that has yet to pass the labels at which it writes the next
  status. A crash takes the worker and leaves the delivery, since `HeldIsInFlight`
  counts its copy in the processing list; so that crashes need no exception here.
  `CreatedInv` says that without a crash a queued row that was not accepted is one its
  handler still is at, unless the client hung up.
- **`RiskIsFinalUnlessUnchecked`**: `RiskFinalUnlessUnchecked`, from `RiskInv`: a
  session's risk covers its scores, or a worker is on its way to compute it, or some
  job has yet to come to the coordinator's read (`ToLook`), and will find the other
  score there. The first conjunct, that a worker was told not to compute only if the
  other job has yet to look, is what survives the interleavings of the two pools;
  where it fails, the session is in `unchecked`, as in the run `risk_race`. The other
  exceptions are those listed under the property; the theorem promises nothing
  about a session that any of them befell.
  `DownInv` says that a gateway that is down has no workers, so that recovery
  takes over nobody's delivery.
- **`JobsRunOnceAtATime`, `RowsMoveAsPromised`, `LifecycleIsImplemented`,
  `TerminalUntilFault`**: that the pipeline implements `JobLifecycle`, up to its
  fairness, until the first fault (`Calm'`: no call failed, no client hung up, no
  crash; graceful stops and restarts are no faults). The statements on
  `analysis_jobs` are unconditional, so nothing in the store enforces the life
  cycle: what does is that a job's next step is in one place only. `LifeInv` says
  where. A job is with its handler, waiting once in a queue (`Single`: no list, and
  no two lists, hold a delivery twice) or with one worker (`Working`), and each of
  these fixes the row (`Ready`, `RowAtStage`). The deliveries that others have yet
  to ack are of attempts the row is past (`Passed`), and a row never comes back to
  one (`PassedStays`). The circle closes in `FirstIsNew` and `NextIsNew`: since a
  handler or worker about to push has the job to itself, what it pushes is not
  outstanding, and the queues stay without repetition. `Writers` then says that who
  writes a row is who has the job, at the label that makes the step one of
  `JobLifecycle`'s, and `OneRow` that no other row moves. With a fault all of it
  fails: `terminal_rewrite` shows how one crash rewrites a terminal row.

About the live session (`LiveClientProofs`), from `SessionAssumption` and
`ClientAssumption`, for any finite number of sockets, any workers and any sizes:

- **`LiveTypeInvariant`, `LiveTypeCorrect`**: `LiveTypeOK`, the capacities of the
  queues and channels included, with `EmitOK` (a worker that emits has a message
  left), without which `Tail` would leave the type.
- **`ChannelsCloseAfterLastSend`, `RecordedResultsAreFinal`**: both from `EndInv`.
  A handler past `End` has seen Out closed; then no worker is left, so `updates`
  stands still; so what a handler read in `FinalResult` is still the session's
  state when it is written, by any socket. The property alone is not inductive,
  since it says nothing of a result that has been read and not yet written.
- **`LimitsAreKept`**: `LimitsHold`, by counting the sockets that passed the check
  and have yet to count (`Counting`) against the opened ones.
- **`EveryItemIsAccountedFor`**: `AccountedFor`, from `LedgerInv`: the numbers given
  out are spread over the queue, the handlers' hands, the dropped and the taken,
  which have nothing in common and among them as many elements as were counted.
  Without the disjointness the sum would not survive a drop or a take.
- **`FramesStayFresh`**: `OneSocketStaysFresh`, from `FreshInv`: if no two sockets were
  opened, the queue is in order, what is dropped is older than all of it and what
  is in hand is newer (`Ordered`), and at `retry` there is room, since none but the
  workers can have touched the queue since the oldest was taken out of it.

About the older endpoints (`OlderEndpointsProofs`), from `PoolAssumption`,
`SessionAssumption`, `FetchAssumption`, `LimitAssumption`, `OutagesAssumption` and
`LifeAssumption`, for any requests, workers, addresses, limits and numbers of
faults. Each component's steps are singled out first (`LimitMoves`, `FetchMoves`,
`PoolMoves`, `SessionMoves`: every step of the whole is one of the component's own,
or leaves it alone), and each has an invariant of its own:

- **`LimitIsKept`**: `AdmittedWithinLimit`, from `LimitInv`. `Timely`: a request is
  counted at most one window late, and a counter lives until then. `Counted`: as
  long as a window can still be counted in, those it admitted are no more than
  its counter.
- **`OnlyValidatedAddressesAreDialed`, `BodiesAreWhole`**: `DialedIsValidated` and
  `FetchedIsWhole`, from `FetchInv`: a fetch that is about to connect has a public
  address pinned.
- **`QueuedJobsHaveRecords`, `NoJobGoesMissing`**: `QueuedHasRecord` and
  `AcceptedIsAccountedFor`, from `PoolInv`: a worker has a job exactly at the labels
  of `RunJob` (`Jobs`), so that a process that waits for its workers has none in hand
  when it ends; a record is there from the check of the queue's length on
  (`Known`); what is submitted has passed the limiter (`Passed`), without which a
  crash would reject a request that was accepted.
- **`RecordsAdvance`**: `RecordOnlyAdvances`, from `Tokens`: a job that was neither
  lost nor queued twice is in one place only – its handler, once in the queue,
  one worker, or nowhere any more – and that place says what its record may be.
- **`NothingKnownIsFailed`, `NoResultIsDiscarded`**: `FailedIffUnknown` and
  `ReplyKeepsWhatSucceeded`, from `SessionInv`: a goroutine at work has sent
  nothing; one that has sent, sent a result or an error exactly if its input was
  asked for; a response says what was sent (`Told`).
- **`RiskIsWithinReported`, `NoClampBites`**: `RiskWithinReported` and
  `ClampsNeverBite`, from `Told` and the theorems about the engines: the temporal
  score of a response is the analyzer's of the clip that was fetched.
- **`OlderTypeCorrect`**: `OlderTypeOK`, from all of these.

About the engines (`RiskEngineProofs`), for every scale of scores and every
combination of signals: **`RiskIsWithin`** (the bounds that `RiskWithinReported`
checks), **`OnlySilenceIsUnknown`**, **`VerdictIsMonotone`** (a score that rises never
makes the verdict milder) and **`UnanimousSignalsDecide`** (missing signals do not
dilute what all present ones agree on); and for clips of every length
**`ComponentsAreScores`**: variance, inconsistency and spike magnitude are scores before
they are clamped. For the variance that is Popoviciu's inequality, a variance
of at most a quarter of the squared range, which makes the division by 0.25 in
`features.go` come out at no more than 1.

About a signaling room (`SignalingHubProofs`), from `HubAssumption`, for any number
of clients, any capacity and any size of the buffers, all that its run checks:

- **`HubTypeCorrect`**: `HubTypeOK`, the capacities of room and buffers included.
- **`MembersStayOpen`**: `MembersAreOpen`, from `Standing`, which ties the room's
  members to where their connections stand.
- **`NoCallOutlivesItsPeer`**: `NoGhostCalls`. By itself it is not inductive: a late
  offer from somebody who left would start a call to nobody. `Departed` says that a
  "leave" is the last message there is of a client, and `NoGhosts` extends the
  property to those of whom a message is still waiting.
- **`NoTwoOffersMeet`**: `NoGlare`, from `OneIsAhead`: of two clients only one, the
  one that was there first, is ever told of the other by the hub.
- **`NobodyIsLeftOut`**: `QuietRoomIsConnected`, from `Negotiated`: the two channels
  and the two calls of any pair in the room are together in one of six stages,
  from the waiting "join" to both being connected, unless a message was missed.

`SequenceLemmas` proves the facts about the community modules' `RemoveFirst`,
`Reverse` and `ToSet`, and about the positions of an element, that these rest on.

**Induction over data.** The library's induction theorems take a predicate as a
parameter, which the installed provers cannot instantiate. What the engines' proofs
need is derived without one. `SetOfAllNats` states induction over the naturals for a
set in place of the predicate: a set that contains 0 and with every number its
successor contains all of them. From that `SumUnfolds` and `SumSteps` get the
recurrence that the community modules' `MapThenFoldSet` satisfies, `SubsetInduction`
induction over the subsets of an interval, and `SumOfNats` and `SumOfSquares` the
two facts about sums that the temporal analyzer rests on.

Model-checked only: `AcceptedJobsSettle`, `SessionIsReleased`, `AcceptedSettles` and
`SessionsAreAnswered`, which are liveness under fairness, and of the refinement
`RowsFollowLifecycle` the fairness part, which needs ENABLED. The prover deals with
neither. `LifecycleIsImplemented` has as hypotheses that the faults' bounds are 0
and that no client hangs up (`Impatient = {}`), which is how the run `fair` checks
the refinement; `RowsMoveAsPromised` does without them. The violations are TLC's as
well: they are counterexamples.

## 6. Plan

In this order.

1. **The records both pipelines write** – a composition of the live session's end
   with `JobStore`: its insert fails when an asynchronous job was first.
2. **The live session's store** – `POST /sessions` and `MaxSessions`, with sessions
   that are created and never connected to.
3. **`ReconnectPort`** – the reconnect generations of the extension's
   `background.js`.
4. **Further runs of the pipeline** – `Fail` between its two commands; a retry whose
   RPUSH was made although its reply was lost.

## 7. Not modelled, and why

Authentication, session credentials, configuration, migrations, logging, CORS,
body limits and the read-only handlers are straight-line code whose every path a
unit test reaches. Of the detector clients only the classification of errors is
modelled; the rest is request plumbing. The Python services are numerical. Which
addresses the URL validator takes for public is a table of prefixes, and how it
reads a URL is parsing. In the room, media, ICE candidates and what `call.js` does
to its page are left out. The web console and the extension's capture and
drawing are I/O.
