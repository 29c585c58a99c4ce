--------------------------- MODULE SessionService ---------------------------
(***************************************************************************)
(* gateway/internal/session: POST /api/v1/analyze-session.  The video and  *)
(* the audio of a request are analyzed by two goroutines, each under a     *)
(* timeout of its own; the request's own goroutine receives from both,     *)
(* analyzes the video's frames, and has the risk of it all assessed.       *)
(*                                                                         *)
(*  video:  start -> fetch -> detect -> sent        audio: start -> sent   *)
(*                                                                         *)
(* A timeout and a client that hangs up both cancel a context: whatever    *)
(* call it is in then fails, which every call here may do anyway.          *)
(***************************************************************************)
EXTENDS RateLimiter, SafeFetch, RiskEngine, TemporalAnalyzer

CONSTANTS Session,     \* the requests that may be for a session
          Clips,       \* what the video detector can find: a score and its frames
          AudioScores  \* what the audio detector can find

ASSUME SessionAssumption ==
    /\ Session \subseteq Request /\ Session \subseteq Fetcher
    /\ Clips \subseteq [score : Score, frames : Seq(Frame)]
    /\ AudioScores \subseteq Score

VARIABLES wanted,    \* the inputs of each request, none before it is served
          branch,    \* where the goroutine of each input stands
          outcome,   \* what each goroutine has sent
          reply      \* the response

sessionVars == <<wanted, branch, outcome, reply>>

Input == {"video", "audio"}

\* videoOutcome and audioOutcome: a result, an error, or neither when not wanted.
Neither == [is |-> "neither", score |-> 0, frames |-> <<>>]
Failure == [Neither EXCEPT !.is = "error"]
Result(score, frames) == [is |-> "result", score |-> score, frames |-> frames]
Outcome == {Neither, Failure} \union {Result(c.score, c.frames) : c \in Clips}
           \union {Result(score, <<>>) : score \in AudioScores}

\* Join and Assess below give the shape of a response.
NoReply == [status |-> "none"]
NoRisk == [verdict |-> "none"]

SessionTypeOK ==
    /\ wanted \in [Session -> SUBSET Input]
    /\ branch \in [Session -> [Input -> {"none", "start", "fetch", "detect", "sent"}]]
    /\ outcome \in [Session -> [Input -> Outcome]]
    /\ \A r \in Session : reply[r].status \in {"none", "completed", "partial", "failed"}

SessionInit ==
    /\ wanted = [r \in Session |-> {}]
    /\ branch = [r \in Session |-> [m \in Input |-> "none"]]
    /\ outcome = [r \in Session |-> [m \in Input |-> Neither]]
    /\ reply = [r \in Session |-> NoReply]

----------------------------------------------------------------------------
(* The branches.                                                           *)

\* NewAnalyzeSession refuses a request with neither input; Analyze starts both
\* goroutines whatever is wanted.
Begin(r) ==
    /\ \E inputs \in (SUBSET Input) \ {{}} : wanted' = [wanted EXCEPT ![r] = inputs]
    /\ branch' = [branch EXCEPT ![r] = [m \in Input |-> "start"]]
    /\ UNCHANGED <<outcome, reply, fetchVars>>

BranchAt(r, m, label) == branch[r][m] = label
BranchGoTo(r, m, label) == branch' = [branch EXCEPT ![r][m] = label]

\* Mutant: a failure cancels the other branch, as errgroup.WithContext would.
SendCancelling(r, m, result) ==
    /\ BranchGoTo(r, m, "sent")
    /\ outcome' = [outcome EXCEPT ![r] = [i \in Input |->
                      IF i = m \/ (result = Failure /\ i \in wanted[r]) THEN result ELSE @[i]]]

\* The channels hold one outcome: sending never blocks.
Send(r, m, result) ==
    /\ BranchGoTo(r, m, "sent")
    /\ outcome' = [outcome EXCEPT ![r][m] = result]

\* Mutant: a goroutine with nothing to do returns without sending.
SkipSilently(r, m) ==
    /\ BranchAt(r, m, "start")
    /\ m \notin wanted[r]
    /\ BranchGoTo(r, m, "none")
    /\ UNCHANGED <<wanted, outcome, reply, fetchVars>>

Skip(r, m) ==
    /\ BranchAt(r, m, "start")
    /\ m \notin wanted[r]
    /\ Send(r, m, Neither)
    /\ UNCHANGED <<wanted, reply, fetchVars>>

\* runVideo.
FetchVideo(r) ==
    /\ BranchAt(r, "video", "start")
    /\ "video" \in wanted[r]
    /\ StartFetch(r)
    /\ BranchGoTo(r, "video", "fetch")
    /\ UNCHANGED <<wanted, outcome, reply, dialed>>

VideoFetched(r) ==
    /\ BranchAt(r, "video", "fetch")
    /\ \/ FetchAt(r, "fetched") /\ BranchGoTo(r, "video", "detect") /\ UNCHANGED outcome
       \/ (FetchAt(r, "permanent") \/ FetchAt(r, "transient")) /\ Send(r, "video", Failure)
    /\ EndFetch(r)
    /\ UNCHANGED <<wanted, reply, dialed>>

VideoDetected(r) ==
    /\ BranchAt(r, "video", "detect")
    /\ \/ \E clip \in Clips : Send(r, "video", Result(clip.score, clip.frames))
       \/ Send(r, "video", Failure)
    /\ UNCHANGED <<wanted, reply, fetchVars>>

\* runAudio.
AudioDetected(r) ==
    /\ BranchAt(r, "audio", "start")
    /\ "audio" \in wanted[r]
    /\ \/ \E score \in AudioScores : Send(r, "audio", Result(score, <<>>))
       \/ Send(r, "audio", Failure)
    /\ UNCHANGED <<wanted, reply, fetchVars>>

----------------------------------------------------------------------------
(* The response.                                                           *)

Failed(r) == {m \in Input : outcome[r][m].is = "error"}
Succeeded(r) == {m \in Input : outcome[r][m].is = "result"}

\* Mutant: whatever has no result is not counted, failed or not wanted.
StatusIgnoringErrors(r, temporal) ==
    IF Failed(r) # {} /\ Succeeded(r) # {} THEN "partial" ELSE "completed"

\* buildSession's status; a temporal result counts as a success.
Status(r, temporal) ==
    IF Failed(r) = {} THEN "completed"
    ELSE IF Succeeded(r) = {} /\ temporal = NoTemporal THEN "failed" ELSE "partial"

\* Analyze receives from both channels, runs framesForTemporal and runTemporal, and
\* builds the session.
Join(r) ==
    /\ reply[r] = NoReply
    /\ \A m \in Input : BranchAt(r, m, "sent")
    /\ \E temporal \in {Analyze(outcome[r]["video"].frames)} :
          reply' = [reply EXCEPT ![r] =
                       [status |-> Status(r, temporal), results |-> Succeeded(r),
                        errors |-> Failed(r), temporal |-> temporal, risk |-> NoRisk]]
    /\ UNCHANGED <<wanted, branch, outcome, fetchVars>>

\* FromSession: the scores that are signals.
SignalsOf(r) ==
    [s \in reply[r].results \union (IF reply[r].temporal # NoTemporal THEN {"temporal"} ELSE {}) |->
        IF s = "temporal" THEN reply[r].temporal.score ELSE outcome[r][s].score]

\* The handler has the risk assessed, and answers.
Assess(r) ==
    /\ reply[r] # NoReply
    /\ reply[r].risk = NoRisk
    /\ reply' = [reply EXCEPT ![r].risk = AssessSignals(SignalsOf(r), reply[r].errors)]
    /\ UNCHANGED <<wanted, branch, outcome, fetchVars>>

SessionStep(r) ==
    \/ \E m \in Input : Skip(r, m)
    \/ FetchVideo(r) \/ VideoFetched(r) \/ VideoDetected(r)
    \/ AudioDetected(r)
    \/ Join(r) \/ Assess(r)

Replied(r) == reply[r] # NoReply /\ reply[r].risk # NoRisk

\* The sessions that have a response.
Answers == {r \in Session : Replied(r)}
=============================================================================
