------------------------- MODULE OlderEndpointsProofs -------------------------
(***************************************************************************)
(* Theorems about a gateway's older endpoints, for any requests, workers,  *)
(* addresses and limits, any number of outages, and crashes and stops at   *)
(* any point.                                                              *)
(***************************************************************************)
EXTENDS OlderEndpoints, RiskEngineProofs, SequenceLemmas, FiniteSetTheorems

----------------------------------------------------------------------------
(* Which steps are about which component.                                  *)

LimitMove ==
    \/ \E r \in Request : ReadClock(r) \/ CountRequest(r)
    \/ Tick
    \/ /\ gate' = [r \in Request |-> IF gate[r] = "stamped" THEN "refused" ELSE gate[r]]
       /\ UNCHANGED <<clock, counter, stamp>>
    \/ UNCHANGED limitVars

LEMMA LimitMoves == [Next]_vars => LimitMove
  <1>1. ASSUME NEW r \in Request, Arrive(r) \/ RequestStep(r) \/ RecordExpires(r) PROVE LimitMove
    BY <1>1 DEF LimitMove, Arrive, RequestStep, Gate, Analyze_, AnalyzeSession, RecordExpires,
                limitVars
  <1>2. ASSUME NEW w \in Worker, Work(w) \/ Stray(w) PROVE LimitMove
    BY <1>2 DEF LimitMove, Work, Stray
  <1>3. ASSUME NEW f \in Fetcher, Fetching(f) PROVE LimitMove
    BY <1>3 DEF LimitMove, Fetching
  <1>4. MinutePasses => LimitMove
    BY DEF LimitMove, MinutePasses
  <1>5. Stop \/ ClosePool \/ Restart => LimitMove
    BY DEF LimitMove, Stop, ClosePool, Restart
  <1>6. Exit \/ Crash => LimitMove
    BY DEF LimitMove, Exit, Crash, ProcessEnds
  <1>7. UNCHANGED vars => LimitMove
    BY DEF LimitMove, vars
  <1> QED
    BY <1>1, <1>2, <1>3, <1>4, <1>5, <1>6, <1>7 DEF Next

FetchMove ==
    \/ \E f \in Fetcher : FetchStep(f)
    \/ \E f \in Fetcher : (StartFetch(f) \/ EndFetch(f)) /\ UNCHANGED dialed
    \/ fetch' = [f \in Fetcher |-> NoFetch] /\ UNCHANGED dialed
    \/ UNCHANGED fetchVars

LEMMA FetchMoves == [Next]_vars => FetchMove
  <1>0. Worker \subseteq Fetcher /\ Session \subseteq Fetcher
    BY PoolAssumption, SessionAssumption
  <1>1. ASSUME NEW r \in Request, Arrive(r) \/ Gate(r) \/ RecordExpires(r) \/ Analyze_(r)
        PROVE  FetchMove
    BY <1>1 DEF FetchMove, Arrive, Gate, RecordExpires, Analyze_
  <1>2. ASSUME NEW r \in Request, AnalyzeSession(r) PROVE FetchMove
    <2>0. r \in Fetcher
      BY <1>0, <1>2 DEF AnalyzeSession
    <2>1. CASE Begin(r) \/ (\E m \in Input : Skip(r, m)) \/ VideoDetected(r) \/ AudioDetected(r)
               \/ Join(r) \/ Assess(r)
      BY <2>1 DEF FetchMove, Begin, Skip, VideoDetected, AudioDetected, Join, Assess
    <2>2. CASE FetchVideo(r) \/ VideoFetched(r)
      BY <2>0, <2>2 DEF FetchMove, FetchVideo, VideoFetched
    <2> QED
      BY <1>2, <2>1, <2>2 DEF AnalyzeSession, SessionStep
  <1>3. ASSUME NEW w \in Worker, Work(w) \/ Stray(w) PROVE FetchMove
    <2>0. w \in Fetcher
      BY <1>0
    <2>1. CASE Pop(w) \/ Leave(w) \/ Load(w) \/ StoreVerdict(w) \/ StrayPop(w)
      BY <2>1 DEF FetchMove, Pop, Leave, Load, StoreVerdict, StrayPop
    <2>2. CASE Mark(w)
      BY <2>0, <2>2 DEF FetchMove, Mark
    <2>3. CASE Fetched(w)
      BY <2>0, <2>3 DEF FetchMove, Fetched, TryAgain, fetchVars
    <2>4. CASE Detected(w)
      <3>1. StartFetch(w) \/ EndFetch(w)
        BY <2>4 DEF Detected, TryAgain
      <3> QED
        BY <2>0, <2>4, <3>1 DEF FetchMove, Detected
    <2> QED
      BY <1>3, <2>1, <2>2, <2>3, <2>4 DEF Work, Stray, RunJob
  <1>4. ASSUME NEW f \in Fetcher, Fetching(f) PROVE FetchMove
    BY <1>4 DEF FetchMove, Fetching
  <1>5. MinutePasses \/ Stop \/ ClosePool \/ Restart => FetchMove
    BY DEF FetchMove, MinutePasses, Stop, ClosePool, Restart
  <1>6. Exit \/ Crash => FetchMove
    BY DEF FetchMove, Exit, Crash, ProcessEnds
  <1>7. UNCHANGED vars => FetchMove
    BY DEF FetchMove, vars
  <1> QED
    BY <1>1, <1>2, <1>3, <1>4, <1>5, <1>6, <1>7 DEF Next, RequestStep

----------------------------------------------------------------------------
(* The rate limiter.                                                       *)

\* A request is counted at most one window after the one it read, and a counter
\* lives until then.
Timely ==
    /\ \A r \in Request : /\ stamp[r] <= clock
                          /\ gate[r] = "stamped" => clock <= stamp[r] + 1
    /\ \A w \in Window : counter[w].count > 0 => counter[w].expires >= w + 2

Counted ==
    \A w \in Window :
        /\ IsFiniteSet(Admitted(w))
        /\ Cardinality(Admitted(w)) <= Limit
        /\ clock <= w + 1 => Cardinality(Admitted(w)) <= counter[w].count

LimitInv == LimitTypeOK /\ Timely /\ Counted

LEMMA LimitInvInit == Init => LimitInv
  <1> SUFFICES ASSUME Init PROVE LimitInv
    OBVIOUS
  <1>1. LimitTypeOK
    BY LimitAssumption DEF Init, LimitInit, LimitTypeOK, Window, GateLabel, NoCount
  <1>2. Timely
    BY LimitAssumption DEF Init, LimitInit, Timely, Window, NoCount
  <1>3. Counted
    <2>1. \A w \in Window : Admitted(w) = {}
      BY DEF Init, LimitInit, Admitted
    <2>2. \A w \in Window : counter[w].count = 0 /\ clock = 0
      BY DEF Init, LimitInit, NoCount
    <2>3. IsFiniteSet({}) /\ Cardinality({}) = 0
      BY FS_EmptySet
    <2> QED
      BY <2>1, <2>2, <2>3, LimitAssumption DEF Counted
  <1> QED
    BY <1>1, <1>2, <1>3 DEF LimitInv

\* Nothing is admitted to any window, and no counter goes back.
LEMMA NoneAdmitted ==
    ASSUME Counted, clock' = clock, counter' = counter, NEW w \in Window, Admitted(w)' = Admitted(w)
    PROVE  /\ IsFiniteSet(Admitted(w)')
           /\ Cardinality(Admitted(w)') <= Limit
           /\ clock' <= w + 1 => Cardinality(Admitted(w)') <= counter'[w].count
  BY DEF Counted

LEMMA LimitInvStep == LimitInv /\ [Next]_vars => LimitInv'
  <1> SUFFICES ASSUME LimitInv, [Next]_vars PROVE LimitInv'
    OBVIOUS
  <1>0. LimitTypeOK /\ Timely /\ Counted /\ LimitMove
    BY LimitMoves DEF LimitInv
  <1>t. /\ clock \in Nat /\ MaxClock \in Nat /\ Window \subseteq Nat /\ Limit \in Nat
        /\ \A r \in Request : stamp[r] \in Window /\ stamp[r] \in Nat
        /\ \A w \in Window : counter[w].count \in Nat /\ counter[w].expires \in Nat
    BY <1>0, LimitAssumption DEF LimitTypeOK, Window
  <1>1. ASSUME NEW r \in Request, ReadClock(r) PROVE LimitInv'
    <2>1. /\ gate[r] = "outside" /\ gate' = [gate EXCEPT ![r] = "stamped"]
          /\ stamp' = [stamp EXCEPT ![r] = clock] /\ clock' = clock /\ counter' = counter
      BY <1>1 DEF ReadClock
    <2>2. LimitTypeOK'
      BY <1>0, <2>1 DEF LimitTypeOK, GateLabel
    <2>3. Timely'
      BY <1>0, <1>t, <2>1 DEF Timely, LimitTypeOK
    <2>4. \A w \in Window : Admitted(w)' = Admitted(w)
      BY <1>0, <2>1 DEF Admitted, LimitTypeOK
    <2> QED
      BY <1>0, <2>1, <2>2, <2>3, <2>4, NoneAdmitted DEF LimitInv, Counted
  <1>2. ASSUME NEW r \in Request, CountRequest(r) PROVE LimitInv'
    <2> DEFINE v == stamp[r]
    <2>1. /\ gate[r] = "stamped" /\ clock' = clock /\ stamp' = stamp
          /\ v \in Window /\ v <= clock /\ clock <= v + 1
      BY <1>0, <1>2 DEF CountRequest, Timely, LimitTypeOK
    <2>2. counter' = counter \/ Increment(v)
      BY <1>2 DEF CountRequest
    <2>3. /\ counter' \in [Window -> [count : Nat, expires : Nat]]
          /\ \A w \in Window : counter[w].count <= counter'[w].count
          /\ \A w \in Window : counter'[w].count > 0 => counter'[w].expires >= w + 2
          /\ Increment(v) => counter'[v].count = counter[v].count + 1
      <3>1. CASE counter' = counter /\ ~Increment(v)
        BY <1>0, <1>t, <3>1 DEF LimitTypeOK, Timely
      <3>2. CASE Increment(v)
        <4>1. counter' = [counter EXCEPT ![v] =
                 [count |-> counter[v].count + 1,
                  expires |-> IF counter[v].count = 0 THEN clock + 2 ELSE counter[v].expires]]
          BY <3>2 DEF Increment, Ttl
        <4>2. counter \in [Window -> [count : Nat, expires : Nat]]
          BY <1>0 DEF LimitTypeOK
        <4>3. [count |-> counter[v].count + 1,
               expires |-> IF counter[v].count = 0 THEN clock + 2 ELSE counter[v].expires]
                  \in [count : Nat, expires : Nat]
          BY <1>t, <2>1
        <4>4. /\ counter'[v].count = counter[v].count + 1
              /\ counter'[v].expires = IF counter[v].count = 0 THEN clock + 2
                                                               ELSE counter[v].expires
          BY <2>1, <4>1, <4>2
        <4>5. \A w \in Window : w # v => counter'[w] = counter[w]
          BY <4>1, <4>2
        <4>6. counter' \in [Window -> [count : Nat, expires : Nat]]
          BY <4>1, <4>2, <4>3
        <4>7. counter'[v].expires >= v + 2
          <5>1. counter[v].count > 0 => counter[v].expires >= v + 2
            BY <1>0, <2>1 DEF Timely
          <5> QED
            BY <1>t, <2>1, <4>4, <5>1
        <4>8. \A w \in Window : counter[w].count > 0 => counter[w].expires >= w + 2
          BY <1>0 DEF Timely
        <4> QED
          BY <1>t, <2>1, <4>4, <4>5, <4>6, <4>7, <4>8
      <3> QED
        BY <2>2, <3>1, <3>2
    <2>4. gate' \in [Request -> GateLabel] /\ gate'[r] # "stamped"
          /\ \A q \in Request : q # r => gate'[q] = gate[q]
      BY <1>0, <1>2 DEF CountRequest, LimitTypeOK, GateLabel
    <2>5. LimitTypeOK'
      BY <1>0, <2>1, <2>3, <2>4 DEF LimitTypeOK
    <2>6. Timely'
      BY <1>0, <2>1, <2>3, <2>4 DEF Timely
    <2>7. ASSUME NEW w \in Window, w # v \/ gate'[r] # "admitted"
          PROVE  Admitted(w)' = Admitted(w)
      BY <2>1, <2>4, <2>7 DEF Admitted
    <2>8. Admitted(v)' \subseteq Admitted(v) \union {r}
      BY <2>1, <2>4 DEF Admitted
    <2>9. CASE gate'[r] = "admitted"
      <3>1. Increment(v) /\ counter[v].count + 1 <= Limit
        BY <1>0, <1>t, <1>2, <2>1, <2>9 DEF CountRequest, LimitTypeOK
      <3>2. /\ IsFiniteSet(Admitted(v)) /\ Cardinality(Admitted(v)) \in Nat
            /\ Cardinality(Admitted(v)) <= counter[v].count
        BY <1>0, <2>1, FS_CardinalityType DEF Counted
      <3>3. /\ IsFiniteSet(Admitted(v) \union {r})
            /\ Cardinality(Admitted(v) \union {r}) <= Cardinality(Admitted(v)) + 1
            /\ Cardinality(Admitted(v) \union {r}) \in Nat
        <4>1. /\ IsFiniteSet(Admitted(v) \union {r})
              /\ \/ Cardinality(Admitted(v) \union {r}) = Cardinality(Admitted(v))
                 \/ Cardinality(Admitted(v) \union {r}) = Cardinality(Admitted(v)) + 1
          BY <3>2, FS_AddElement
        <4> QED
          BY <3>2, <4>1
      <3>4. /\ IsFiniteSet(Admitted(v)') /\ Cardinality(Admitted(v)') \in Nat
            /\ Cardinality(Admitted(v)') <= Cardinality(Admitted(v) \union {r})
        BY <2>8, <3>3, FS_Subset, FS_CardinalityType
      <3>5. Cardinality(Admitted(v)') <= counter[v].count + 1
        BY <1>t, <2>1, <3>2, <3>3, <3>4
      <3>6. /\ Cardinality(Admitted(v)') <= Limit
            /\ Cardinality(Admitted(v)') <= counter'[v].count
        BY <1>t, <2>1, <2>3, <3>1, <3>4, <3>5
      <3>7. ASSUME NEW w \in Window, w # v
            PROVE  /\ IsFiniteSet(Admitted(w)') /\ Cardinality(Admitted(w)') <= Limit
                   /\ clock' <= w + 1 => Cardinality(Admitted(w)') <= counter'[w].count
        <4>1. /\ IsFiniteSet(Admitted(w)) /\ Cardinality(Admitted(w)) \in Nat
              /\ Cardinality(Admitted(w)) <= Limit
              /\ clock <= w + 1 => Cardinality(Admitted(w)) <= counter[w].count
          BY <1>0, FS_CardinalityType DEF Counted
        <4>2. counter[w].count <= counter'[w].count /\ counter'[w].count \in Nat
          BY <2>3
        <4> QED
          BY <1>t, <2>1, <2>7, <3>7, <4>1, <4>2
      <3> QED
        BY <2>1, <2>5, <2>6, <3>4, <3>6, <3>7 DEF LimitInv, Counted
    <2>10. CASE gate'[r] # "admitted"
      <3>1. ASSUME NEW w \in Window
            PROVE  /\ IsFiniteSet(Admitted(w)') /\ Cardinality(Admitted(w)') <= Limit
                   /\ clock' <= w + 1 => Cardinality(Admitted(w)') <= counter'[w].count
        <4>1. /\ IsFiniteSet(Admitted(w)) /\ Cardinality(Admitted(w)) \in Nat
              /\ Cardinality(Admitted(w)) <= Limit
              /\ clock <= w + 1 => Cardinality(Admitted(w)) <= counter[w].count
          BY <1>0, FS_CardinalityType DEF Counted
        <4>2. counter[w].count <= counter'[w].count /\ counter'[w].count \in Nat
          BY <2>3
        <4> QED
          BY <1>t, <2>1, <2>7, <2>10, <4>1, <4>2
      <3> QED
        BY <2>5, <2>6, <3>1 DEF LimitInv, Counted
    <2> QED
      BY <2>9, <2>10
  <1>3. CASE Tick
    <2>1. /\ clock < MaxClock /\ clock' = clock + 1 /\ gate' = gate /\ stamp' = stamp
          /\ \A r \in Request : gate[r] = "stamped" => stamp[r] = clock
          /\ counter' = [w \in Window |-> IF counter[w].expires <= clock + 1 THEN NoCount
                                                                            ELSE counter[w]]
      BY <1>3 DEF Tick
    <2>2. LimitTypeOK'
      BY <1>0, <1>t, <2>1 DEF LimitTypeOK, Window, NoCount
    <2>3. Timely'
      BY <1>0, <1>t, <2>1 DEF Timely, NoCount
    <2>4. ASSUME NEW w \in Window, clock' <= w + 1 PROVE counter'[w].count = counter[w].count
      <3>1. counter[w].count > 0 => counter[w].expires >= w + 2
        BY <1>0 DEF Timely
      <3>2. counter'[w] = IF counter[w].expires <= clock + 1 THEN NoCount ELSE counter[w]
        BY <2>1
      <3> QED
        BY <1>t, <2>1, <2>4, <3>1, <3>2 DEF NoCount
    <2>5. \A w \in Window : Admitted(w)' = Admitted(w)
      BY <2>1 DEF Admitted
    <2>6. \A w \in Window : clock' <= w + 1 => clock <= w + 1
      BY <1>t, <2>1
    <2> QED
      BY <1>0, <2>2, <2>3, <2>4, <2>5, <2>6 DEF LimitInv, Counted
  <1>4. CASE /\ gate' = [r \in Request |-> IF gate[r] = "stamped" THEN "refused" ELSE gate[r]]
             /\ UNCHANGED <<clock, counter, stamp>>
    <2>1. LimitTypeOK' /\ Timely'
      BY <1>0, <1>4 DEF LimitTypeOK, Timely, GateLabel
    <2>2. \A w \in Window : Admitted(w)' = Admitted(w)
      BY <1>4 DEF Admitted
    <2> QED
      BY <1>0, <1>4, <2>1, <2>2, NoneAdmitted DEF LimitInv, Counted
  <1>5. CASE UNCHANGED limitVars
    BY <1>0, <1>5 DEF LimitInv, LimitTypeOK, Timely, Counted, Admitted, limitVars
  <1> QED
    BY <1>0, <1>1, <1>2, <1>3, <1>4, <1>5 DEF LimitMove

\* No window admits more requests than the limit, but for those Redis did not answer,
\* although a request may be counted after its window is over and counters expire
\* (limiter.go, Allow).
THEOREM LimitIsKept == Spec => []AdmittedWithinLimit
  <1>1. LimitInv => AdmittedWithinLimit
    BY DEF LimitInv, Counted, AdmittedWithinLimit
  <1> QED
    BY <1>1, LimitInvInit, LimitInvStep, PTL DEF Spec

----------------------------------------------------------------------------
(* The fetcher.                                                            *)

FetchInv ==
    /\ FetchTypeOK
    /\ DialedIsValidated
    /\ FetchedIsWhole
    /\ \A f \in Fetcher : FetchAt(f, "get") =>
                             fetch[f].pinned \in Public /\ fetch[f].hop <= MaxRedirects

LEMMA NoFetchType == NoFetch \in FetchState
  BY FetchAssumption DEF NoFetch, FetchState, Length

LEMMA FetchInvInit == Init => FetchInv
  <1> SUFFICES ASSUME Init PROVE FetchInv
    OBVIOUS
  <1>1. FetchTypeOK
    BY NoFetchType DEF Init, FetchInit, FetchTypeOK
  <1>2. DialedIsValidated
    BY DEF Init, FetchInit, DialedIsValidated
  <1>3. \A f \in Fetcher : fetch[f].at = "idle"
    BY DEF Init, FetchInit, NoFetch
  <1> QED
    BY <1>1, <1>2, <1>3 DEF FetchInv, FetchedIsWhole, FetchAt

\* A body that is read without an error is all there is, and within the limit.
LEMMA ReadBounded ==
    ASSUME NEW outcome_ \in ReadOutcomes, outcome_.error = "none"
    PROVE  /\ outcome_.sent \in Length /\ outcome_.sent <= MaxBytes
           /\ Limited(outcome_.sent) = outcome_.sent
  <1>1. PICK r \in Terminal : outcome_ = [error |-> ReadError(r), sent |-> r.sent]
    BY DEF ReadOutcomes
  <1>2. ReadError(r) = "none" /\ outcome_.sent = r.sent /\ r.sent \in Length
    BY <1>1 DEF Terminal
  <1>3. Limited(r.sent) <= MaxBytes
    <2>1. ~(Limited(r.sent) > MaxBytes)
      BY <1>2 DEF ReadError
    <2>2. Limited(r.sent) \in Int /\ MaxBytes \in Int
      BY <1>2, FetchAssumption DEF Limited, Length
    <2> QED
      BY <2>1, <2>2
  <1> QED
    BY <1>2, <1>3, FetchAssumption DEF Limited, Length

\* A fetcher's state is replaced by one that is as it should be.
LEMMA FetchReplaced ==
    ASSUME FetchInv, NEW f \in Fetcher, NEW state \in FetchState,
           fetch' = [fetch EXCEPT ![f] = state], dialed' = dialed,
           state.at = "get" => state.pinned \in Public /\ state.hop <= MaxRedirects,
           state.at = "fetched" => state.kept = state.sent /\ state.sent <= MaxBytes
    PROVE  FetchInv'
  <1>1. FetchTypeOK'
    BY DEF FetchInv, FetchTypeOK
  <1>2. \A g \in Fetcher : fetch'[g] = IF g = f THEN state ELSE fetch[g]
    BY DEF FetchInv, FetchTypeOK
  <1> QED
    BY <1>1, <1>2 DEF FetchInv, DialedIsValidated, FetchedIsWhole, FetchAt

LEMMA FailedFetch ==
    ASSUME FetchInv, NEW f \in Fetcher, NEW kind, FetchFails(f, kind), dialed' = dialed
    PROVE  FetchInv'
  <1> DEFINE state == [NoFetch EXCEPT !.at = IF IsPermanent(kind) THEN "permanent" ELSE "transient"]
  <1>1. state \in FetchState /\ state.at \in {"permanent", "transient"}
    BY NoFetchType DEF NoFetch, FetchState, Finished
  <1>2. fetch' = [fetch EXCEPT ![f] = state]
    BY DEF FetchFails
  <1> HIDE DEF state
  <1> QED
    BY <1>1, <1>2, FetchReplaced

LEMMA StartedOrEnded ==
    ASSUME FetchInv, NEW f \in Fetcher, StartFetch(f) \/ EndFetch(f), dialed' = dialed
    PROVE  FetchInv'
  <1>0. fetch[f] \in FetchState /\ fetch \in [Fetcher -> FetchState]
    BY DEF FetchInv, FetchTypeOK
  <1>1. CASE EndFetch(f)
    BY <1>1, NoFetchType, FetchReplaced DEF EndFetch, NoFetch
  <1>2. CASE StartFetch(f)
    <2> DEFINE state == [fetch[f] EXCEPT !.at = "resolve"]
    <2>1. state \in FetchState /\ state.at = "resolve"
      BY <1>0 DEF FetchState
    <2>2. fetch' = [fetch EXCEPT ![f] = state]
      BY <1>0, <1>2 DEF StartFetch
    <2> HIDE DEF state
    <2> QED
      BY <2>1, <2>2, FetchReplaced
  <1> QED
    BY <1>1, <1>2

LEMMA FetchInvStep == FetchInv /\ [Next]_vars => FetchInv'
  <1> SUFFICES ASSUME FetchInv, [Next]_vars PROVE FetchInv'
    OBVIOUS
  <1>0. FetchMove /\ fetch \in [Fetcher -> FetchState] /\ dialed \subseteq Address
    BY FetchMoves DEF FetchInv, FetchTypeOK
  <1>1. ASSUME NEW f \in Fetcher, Resolve(f) PROVE FetchInv'
    <2>1. dialed' = dialed /\ fetch[f] \in FetchState
      BY <1>0, <1>1 DEF Resolve
    <2>2. ASSUME NEW kind, FetchFails(f, kind) PROVE FetchInv'
      BY <2>1, <2>2, FailedFetch
    <2>3. ASSUME NEW answer \in SUBSET Address, answer \subseteq Public, NEW first \in answer,
                 ~(fetch[f].hop > MaxRedirects),
                 fetch' = [fetch EXCEPT ![f].at = "get", ![f].pinned = first]
          PROVE  FetchInv'
      <3> DEFINE state == [fetch[f] EXCEPT !.at = "get", !.pinned = first]
      <3>1. state \in FetchState /\ state.at = "get" /\ state.pinned = first
            /\ state.hop = fetch[f].hop
        BY <2>1 DEF FetchState
      <3>2. fetch' = [fetch EXCEPT ![f] = state]
        BY <1>0, <2>3
      <3>3. state.hop <= MaxRedirects
        BY <2>1, <2>3, <3>1, FetchAssumption DEF FetchState
      <3> HIDE DEF state
      <3> QED
        BY <2>1, <2>3, <3>1, <3>2, <3>3, FetchReplaced
    <2> QED
      BY <1>1, <2>2, <2>3 DEF Resolve
  <1>2. ASSUME NEW f \in Fetcher, Get(f) PROVE FetchInv'
    <2>1. /\ fetch[f] \in FetchState /\ fetch[f].pinned \in Public /\ fetch[f].hop <= MaxRedirects
          /\ fetch[f].hop \in Nat
      BY <1>0, <1>2, FetchAssumption DEF Get, FetchInv, FetchState
    <2>2. dialed' = dialed \union {fetch[f].pinned}
      BY <1>2 DEF Get
    <2>3. dialed' \subseteq Public /\ dialed' \subseteq Address
      BY <1>0, <2>1, <2>2, FetchAssumption DEF FetchInv, DialedIsValidated
    <2>4. ASSUME NEW state \in FetchState, fetch' = [fetch EXCEPT ![f] = state],
                 state.at \notin {"get", "fetched"}
          PROVE  FetchInv'
      <3>1. \A g \in Fetcher : fetch'[g] = IF g = f THEN state ELSE fetch[g]
        BY <1>0, <2>4
      <3>2. fetch' \in [Fetcher -> FetchState]
        BY <1>0, <2>4
      <3> QED
        BY <2>3, <2>4, <3>1, <3>2 DEF FetchInv, FetchTypeOK, DialedIsValidated, FetchedIsWhole,
                                      FetchAt
    <2>5. CASE fetch' = [fetch EXCEPT ![f].at = "read"]
      <3>1. [fetch[f] EXCEPT !.at = "read"] \in FetchState
        BY <2>1 DEF FetchState
      <3>2. fetch' = [fetch EXCEPT ![f] = [fetch[f] EXCEPT !.at = "read"]]
        BY <1>0, <2>5
      <3>3. [fetch[f] EXCEPT !.at = "read"].at = "read"
        BY <2>1 DEF FetchState
      <3> QED
        BY <2>4, <3>1, <3>2, <3>3
    <2>6. CASE Redirected(f)
      <3> DEFINE hop == fetch[f].hop + 1
                 state == [fetch[f] EXCEPT !.at = "resolve", !.hop = hop, !.pinned = NoAddress]
      <3>0. hop \in 0 .. MaxRedirects + 1
        BY <2>1, FetchAssumption
      <3>1. state \in FetchState /\ state.at = "resolve"
        <4> HIDE DEF hop
        <4> QED
          BY <2>1, <3>0 DEF FetchState
      <3>2. fetch' = [fetch EXCEPT ![f] = state]
        BY <1>0, <2>6 DEF Redirected
      <3> HIDE DEF state
      <3> QED
        BY <2>4, <3>1, <3>2
    <2>7. ASSUME NEW kind, FetchFails(f, kind) PROVE FetchInv'
      <3> DEFINE state == [NoFetch EXCEPT !.at = IF IsPermanent(kind) THEN "permanent"
                                                                      ELSE "transient"]
      <3>1. state \in FetchState /\ state.at \in {"permanent", "transient"}
        BY NoFetchType DEF NoFetch, FetchState, Finished
      <3>2. fetch' = [fetch EXCEPT ![f] = state]
        BY <2>7 DEF FetchFails
      <3> HIDE DEF state
      <3> QED
        BY <2>4, <3>1, <3>2
    <2> QED
      BY <1>2, <2>5, <2>6, <2>7 DEF Get, Responds
  <1>3. ASSUME NEW f \in Fetcher, Read(f) PROVE FetchInv'
    <2>1. dialed' = dialed
      BY <1>3 DEF Read
    <2>2. PICK result \in ReadOutcomes :
             IF result.error # "none"
               THEN FetchFails(f, result.error)
               ELSE fetch' = [fetch EXCEPT ![f] = [NoFetch EXCEPT !.at = "fetched",
                                 !.sent = result.sent, !.kept = Limited(result.sent)]]
      BY <1>3 DEF Read
    <2>3. CASE result.error # "none"
      BY <2>1, <2>2, <2>3, FailedFetch
    <2>4. CASE result.error = "none"
      <3> DEFINE state == [NoFetch EXCEPT !.at = "fetched",
                              !.sent = result.sent, !.kept = Limited(result.sent)]
      <3>1. /\ result.sent \in Length /\ result.sent <= MaxBytes
            /\ Limited(result.sent) = result.sent
        BY <2>4, ReadBounded
      <3>2. /\ state \in FetchState /\ state.at = "fetched"
            /\ state.sent = result.sent /\ state.kept = result.sent
        BY <3>1, NoFetchType DEF NoFetch, FetchState, Finished
      <3>3. fetch' = [fetch EXCEPT ![f] = state]
        BY <2>2, <2>4
      <3> HIDE DEF state
      <3> QED
        BY <2>1, <3>1, <3>2, <3>3, FetchReplaced
    <2> QED
      BY <2>3, <2>4
  <1>4. ASSUME NEW f \in Fetcher, StartFetch(f) \/ EndFetch(f), UNCHANGED dialed PROVE FetchInv'
    BY <1>4, StartedOrEnded
  <1>5. CASE fetch' = [f \in Fetcher |-> NoFetch] /\ UNCHANGED dialed
    <2>1. FetchTypeOK'
      BY <1>0, <1>5, NoFetchType DEF FetchTypeOK
    <2>2. \A f \in Fetcher : fetch'[f].at = "idle"
      BY <1>5 DEF NoFetch
    <2> QED
      BY <1>5, <2>1, <2>2 DEF FetchInv, DialedIsValidated, FetchedIsWhole, FetchAt
  <1>6. CASE UNCHANGED fetchVars
    BY <1>6 DEF FetchInv, FetchTypeOK, DialedIsValidated, FetchedIsWhole, FetchAt, fetchVars
  <1> QED
    BY <1>0, <1>1, <1>2, <1>3, <1>4, <1>5, <1>6 DEF FetchMove, FetchStep

LEMMA FetchInvAlways == Spec => []FetchInv
  BY FetchInvInit, FetchInvStep, PTL DEF Spec

\* Whatever names resolve to from one moment to the next, and wherever servers
\* redirect, connections are opened to validated addresses only (safefetcher.go).
THEOREM OnlyValidatedAddressesAreDialed == Spec => []DialedIsValidated
  <1>1. FetchInv => DialedIsValidated
    BY DEF FetchInv
  <1> QED
    BY <1>1, FetchInvAlways, PTL

\* No body is cut short, whatever length a server announces or sends (readBounded).
THEOREM BodiesAreWhole == Spec => []FetchedIsWhole
  <1>1. FetchInv => FetchedIsWhole
    BY DEF FetchInv
  <1> QED
    BY <1>1, FetchInvAlways, PTL

----------------------------------------------------------------------------
(* The pool: its steps, and its type.                                      *)

PoolEnds ==
    /\ gate' = [r \in Request |-> IF gate[r] = "stamped" THEN "refused" ELSE gate[r]]
    /\ wpc' = [w \in Worker |-> "gone"]
    /\ job' = [w \in Worker |-> NoRequest]
    /\ tries' = [w \in Worker |-> 0]
    /\ verdict' = [w \in Worker |-> "none"]
    /\ lost' = lost \union HeldJobs
    /\ closed' = FALSE
    /\ mutex' = NoRequest
    /\ submit' = [r \in Request |-> IF Handling(r) /\ ~Underway(r) THEN "rejected" ELSE submit[r]]
    /\ UNCHANGED <<queue, record, doubled>>

PoolRestarts ==
    /\ gateway = "down"
    /\ wpc' = [w \in Worker |-> "loop"]
    /\ UNCHANGED <<queue, record, closed, mutex, submit, job, tries, verdict, lost, doubled>>

PoolCloses ==
    /\ closed' = TRUE
    /\ UNCHANGED <<queue, record, mutex, submit, wpc, job, tries, verdict, lost, doubled>>

PoolMove ==
    \/ PoolEnds
    \/ /\ gateway' # "down" \/ gateway' = gateway
       /\ \/ \E r \in Request : (LetThrough(r) /\ Enter(r)) \/ SubmitStep(r) \/ Expire(r)
          \/ \E w \in Worker : Pop(w) \/ Leave(w) \/ RunJob(w) \/ StrayPop(w)
          \/ PoolRestarts /\ gateway' # "down"
          \/ PoolCloses
          \/ UNCHANGED <<poolVars, poolHistory>>

\* Who has a job, and what is known of it.
Jobs ==
    /\ \A w \in Worker : /\ wpc[w] \in {"loop", "stray", "gone"} => job[w] = NoRequest
                         /\ wpc[w] \notin {"loop", "stray", "gone"} => job[w] \in Request
                         /\ wpc[w] = "store" => verdict[w] \in Ended
    /\ gateway = "down" => \A w \in Worker : wpc[w] = "gone"

LEMMA PoolMoves == Jobs /\ [Next]_vars => PoolMove
  <1>1. ASSUME NEW r \in Request, Arrive(r) \/ Gate(r) \/ AnalyzeSession(r) PROVE PoolMove
    BY <1>1 DEF PoolMove, Arrive, Gate, AnalyzeSession, lifeVars
  <1>2. ASSUME NEW r \in Request, Analyze_(r) \/ RecordExpires(r) PROVE PoolMove
    BY <1>2 DEF PoolMove, Analyze_, RecordExpires, lifeVars
  <1>3. ASSUME NEW w \in Worker, Work(w) \/ Stray(w) PROVE PoolMove
    BY <1>3 DEF PoolMove, Work, Stray, lifeVars
  <1>4. ASSUME NEW f \in Fetcher, Fetching(f) PROVE PoolMove
    BY <1>4 DEF PoolMove, Fetching, lifeVars
  <1>5. MinutePasses \/ Stop => PoolMove
    BY DEF PoolMove, MinutePasses, Stop, lifeVars
  <1>6. ClosePool => PoolMove
    BY DEF PoolMove, PoolCloses, ClosePool, poolHistory
  <1>7. Restart => PoolMove
    BY DEF PoolMove, PoolRestarts, Restart, poolHistory
  <1>8. Jobs /\ Exit => PoolMove
    <2> SUFFICES ASSUME Jobs, Exit PROVE PoolEnds
      BY DEF PoolMove
    <2>1. lost' = lost \union HeldJobs
      BY DEF Jobs, Exit, HeldJobs
    <2> QED
      BY <2>1 DEF PoolEnds, Exit, ProcessEnds
  <1>9. Crash => PoolMove
    BY DEF PoolMove, PoolEnds, Crash, ProcessEnds
  <1>10. UNCHANGED vars => PoolMove
    BY DEF PoolMove, vars, lifeVars
  <1> QED
    BY <1>1, <1>2, <1>3, <1>4, <1>5, <1>6, <1>7, <1>8, <1>9, <1>10 DEF Next, RequestStep

PoolOK == PoolTypeOK /\ Jobs

LEMMA PoolOKInit == Init => PoolOK
  <1> SUFFICES ASSUME Init PROVE PoolOK
    OBVIOUS
  <1>1. PoolTypeOK
    <2>1. queue \in Seq(Request)
      BY DEF Init, PoolInit
    <2>2. 0 \in 0 .. MaxTries
      BY PoolAssumption
    <2> QED
      BY <2>1, <2>2 DEF Init, PoolInit, PoolTypeOK, SubmitLabel, WorkerLabel, RecordStatus
  <1>2. Jobs
    BY DEF Init, PoolInit, Jobs
  <1> QED
    BY <1>1, <1>2 DEF PoolOK

LEMMA WriteType ==
    ASSUME PoolTypeOK, NEW r \in Request, NEW status \in RecordStatus,
           Write(r, status) \/ UNCHANGED record
    PROVE  record' \in [Request -> RecordStatus]
  BY DEF PoolTypeOK, Write

\* What TryAgain and Settle leave a worker at.
LEMMA AttemptEnds ==
    ASSUME PoolTypeOK, NEW w \in Worker,
           \/ WorkerGoTo(w, "detect") /\ UNCHANGED <<tries, verdict>>
           \/ TryAgain(w)
           \/ Settle(w, "completed")
           \/ Settle(w, "failed")
    PROVE  /\ wpc' \in [Worker -> WorkerLabel]
           /\ tries' \in [Worker -> 0 .. MaxTries]
           /\ verdict' \in [Worker -> {"none", "completed", "failed"}]
           /\ wpc'[w] \in {"fetch", "detect", "store"}
           /\ wpc'[w] = "store" => verdict'[w] \in Ended
           /\ \A v \in Worker : v # w => wpc'[v] = wpc[v] /\ verdict'[v] = verdict[v]
  <1>0. /\ wpc \in [Worker -> WorkerLabel] /\ tries \in [Worker -> 0 .. MaxTries]
        /\ verdict \in [Worker -> {"none", "completed", "failed"}]
    BY DEF PoolTypeOK
  <1>1. CASE WorkerGoTo(w, "detect") /\ UNCHANGED <<tries, verdict>>
    BY <1>0, <1>1 DEF WorkerGoTo, WorkerLabel, Ended
  <1>2. ASSUME NEW status \in Ended, Settle(w, status)
        PROVE  /\ wpc' \in [Worker -> WorkerLabel]
               /\ tries' \in [Worker -> 0 .. MaxTries]
               /\ verdict' \in [Worker -> {"none", "completed", "failed"}]
               /\ wpc'[w] = "store" /\ verdict'[w] = status
               /\ \A v \in Worker : v # w => wpc'[v] = wpc[v] /\ verdict'[v] = verdict[v]
    BY <1>0, <1>2 DEF Settle, WorkerGoTo, WorkerLabel, Ended
  <1>3. CASE TryAgain(w)
    <2>1. CASE Settle(w, "failed")
      BY <1>2, <2>1 DEF Ended
    <2>2. CASE /\ tries[w] < MaxTries /\ WorkerGoTo(w, "fetch")
               /\ tries' = [tries EXCEPT ![w] = @ + 1] /\ UNCHANGED verdict
      <3>1. tries[w] + 1 \in 0 .. MaxTries
        BY <1>0, <2>2, PoolAssumption
      <3>2. tries' \in [Worker -> 0 .. MaxTries]
        BY <1>0, <2>2, <3>1
      <3> QED
        BY <1>0, <2>2, <3>2 DEF WorkerGoTo, WorkerLabel, Ended
    <2> QED
      BY <1>3, <2>1, <2>2 DEF TryAgain
  <1> QED
    BY <1>1, <1>2, <1>3 DEF Ended

LEMMA PoolOKStep == PoolOK /\ [Next]_vars => PoolOK'
  <1> SUFFICES ASSUME PoolOK, [Next]_vars PROVE PoolOK'
    OBVIOUS
  <1>0. PoolTypeOK /\ Jobs /\ PoolMove
    BY PoolMoves DEF PoolOK
  <1>q. queue \in Seq(Request)
    BY <1>0 DEF PoolTypeOK
  <1>1. CASE PoolEnds
    <2>1. HeldJobs \subseteq Request
      BY <1>0 DEF HeldJobs, PoolTypeOK
    <2>2. PoolTypeOK'
      <3>1. 0 \in 0 .. MaxTries
        BY PoolAssumption
      <3>2. /\ wpc' \in [Worker -> WorkerLabel] /\ tries' \in [Worker -> 0 .. MaxTries]
            /\ job' \in [Worker -> Request \union {NoRequest}]
            /\ verdict' \in [Worker -> {"none", "completed", "failed"}]
        BY <1>1, <3>1 DEF PoolEnds, WorkerLabel
      <3>3. submit' \in [Request -> SubmitLabel]
        BY <1>0, <1>1 DEF PoolEnds, PoolTypeOK, SubmitLabel
      <3>4. lost' \subseteq Request
        BY <1>0, <1>1, <2>1 DEF PoolEnds, PoolTypeOK
      <3> QED
        BY <1>0, <1>1, <3>2, <3>3, <3>4 DEF PoolEnds, PoolTypeOK
    <2>3. Jobs'
      BY <1>1 DEF PoolEnds, Jobs
    <2> QED
      BY <2>2, <2>3 DEF PoolOK
  <1> DEFINE SameLife == gateway' # "down" \/ gateway' = gateway
  \* What is left of Jobs when no worker moves.
  <1>2. ASSUME SameLife, wpc' = wpc, job' = job, verdict' = verdict PROVE Jobs'
    BY <1>0, <1>2 DEF Jobs
  <1>3. ASSUME SameLife, NEW r \in Request, Enter(r) \/ SubmitStep(r) \/ Expire(r) PROVE PoolOK'
    <2>1. wpc' = wpc /\ job' = job /\ tries' = tries /\ verdict' = verdict /\ closed' = closed
      BY <1>3 DEF Enter, SubmitStep, PutQueued, CheckLength, Push, MarkRejected, Expire, workerPart
    <2>2. record' \in [Request -> RecordStatus]
      <3>1. \/ UNCHANGED record \/ Write(r, "queued") \/ Write(r, "failed") \/ Write(r, "none")
        BY <1>3 DEF Enter, SubmitStep, PutQueued, CheckLength, Push, MarkRejected, Expire,
                    PutBestEffort
      <3> QED
        BY <1>0, <3>1, WriteType DEF RecordStatus
    <2>3. submit' \in [Request -> SubmitLabel] /\ mutex' \in Request \union {NoRequest}
      BY <1>0, <1>3 DEF Enter, SubmitStep, PutQueued, CheckLength, Push, MarkRejected, Expire,
                        Return, SubmitGoTo, PoolTypeOK, SubmitLabel
    <2>4. lost' \subseteq Request /\ doubled' \subseteq Request
      BY <1>0, <1>3 DEF Enter, SubmitStep, PutQueued, CheckLength, Push, MarkRejected, Expire,
                        workerPart, PoolTypeOK
    <2>5. queue' \in Seq(Request)
      <3>1. <<r, r>> \in Seq(Request)
        OBVIOUS
      <3>2. queue \o <<r, r>> \in Seq(Request)
        BY <1>q, <3>1, ConcatToSet
      <3>3. Append(queue, r) \in Seq(Request)
        BY <1>q, AppendToSet
      <3> QED
        BY <1>q, <1>3, <3>2, <3>3 DEF Enter, SubmitStep, PutQueued, CheckLength, Push,
                                      MarkRejected, Expire
    <2> QED
      BY <1>0, <1>2, <1>3, <2>1, <2>2, <2>3, <2>4, <2>5 DEF PoolOK, PoolTypeOK
  \* What the workers' steps leave alone.
  <1>4. ASSUME NEW w \in Worker, Pop(w) \/ Leave(w) \/ RunJob(w) \/ StrayPop(w)
        PROVE  /\ closed' = closed /\ mutex' = mutex /\ submit' = submit /\ doubled' = doubled
               /\ queue' \in Seq(Request)
               /\ lost' \subseteq Request
    <2>1. closed' = closed /\ mutex' = mutex /\ submit' = submit /\ doubled' = doubled
      BY <1>4 DEF Pop, Leave, RunJob, StrayPop, Load, Mark, Fetched, Detected, StoreVerdict,
                  submitPart
    <2>2. queue # <<>> => Tail(queue) \in Seq(Request) /\ Head(queue) \in Request
      BY <1>q, HeadTailToSet
    <2>3. queue' \in Seq(Request)
      BY <1>q, <1>4, <2>2 DEF Pop, Leave, RunJob, StrayPop, Load, Mark, Fetched, Detected,
                              StoreVerdict
    <2>4. job[w] \in Request \/ wpc[w] \in {"loop", "stray", "gone"}
      BY <1>0 DEF Jobs
    <2>5. lost \subseteq Request
      BY <1>0 DEF PoolTypeOK
    <2>6. lost' \subseteq Request
      BY <1>4, <2>2, <2>4, <2>5 DEF Pop, Leave, RunJob, StrayPop, Load, Mark, Fetched, Detected,
                                    StoreVerdict, Drop
    <2> QED
      BY <2>1, <2>3, <2>6
  <1>t. /\ wpc \in [Worker -> WorkerLabel] /\ job \in [Worker -> Request \union {NoRequest}]
        /\ tries \in [Worker -> 0 .. MaxTries]
        /\ verdict \in [Worker -> {"none", "completed", "failed"}]
        /\ record \in [Request -> RecordStatus]
    BY <1>0 DEF PoolTypeOK
  \* A worker that lets go of its job.
  <1>5. ASSUME NEW w \in Worker, LetGo(w), SameLife, wpc[w] # "gone"
        PROVE  /\ wpc' \in [Worker -> WorkerLabel] /\ job' \in [Worker -> Request \union {NoRequest}]
               /\ tries' \in [Worker -> 0 .. MaxTries]
               /\ verdict' \in [Worker -> {"none", "completed", "failed"}]
               /\ Jobs'
    <2>1. /\ wpc' = [wpc EXCEPT ![w] = "loop"] /\ job' = [job EXCEPT ![w] = NoRequest]
          /\ tries' = [tries EXCEPT ![w] = 0] /\ verdict' = [verdict EXCEPT ![w] = "none"]
      BY <1>5 DEF LetGo, WorkerGoTo
    <2>2. gateway # "down" /\ gateway' # "down"
      BY <1>0, <1>5 DEF Jobs
    <2>3. \A v \in Worker : v # w => wpc'[v] = wpc[v] /\ job'[v] = job[v] /\ verdict'[v] = verdict[v]
      BY <1>t, <2>1
    <2>4. wpc'[w] = "loop" /\ job'[w] = NoRequest
      BY <1>t, <2>1
    <2>5. Jobs'
      BY <1>0, <2>2, <2>3, <2>4 DEF Jobs
    <2> QED
      BY <1>t, <2>1, <2>5, PoolAssumption DEF WorkerLabel
  <1>6. ASSUME SameLife, NEW w \in Worker, Pop(w) \/ Leave(w) \/ StrayPop(w) PROVE PoolOK'
    <2>0. record' = record /\ tries' = tries /\ verdict' = verdict /\ wpc[w] \in {"loop", "stray"}
      BY <1>6 DEF Pop, Leave, StrayPop
    <2>1. gateway # "down" /\ gateway' # "down"
      BY <1>0, <1>6, <2>0 DEF Jobs
    <2>2. queue # <<>> => Head(queue) \in Request
      BY <1>q, HeadTailToSet
    <2>3. CASE UNCHANGED <<wpc, job>>
      BY <1>0, <1>2, <1>4, <1>6, <2>0, <2>3 DEF PoolOK, PoolTypeOK
    <2>4. CASE /\ wpc' = [wpc EXCEPT ![w] = "load"] /\ job' = [job EXCEPT ![w] = Head(queue)]
               /\ queue # <<>>
      BY <1>0, <1>4, <1>6, <1>t, <2>0, <2>1, <2>2, <2>4 DEF PoolOK, PoolTypeOK, Jobs, WorkerLabel
    <2>5. CASE /\ \E label \in {"stray", "gone"} : wpc' = [wpc EXCEPT ![w] = label]
               /\ job' = job
      BY <1>0, <1>4, <1>6, <1>t, <2>0, <2>1, <2>5 DEF PoolOK, PoolTypeOK, Jobs, WorkerLabel
    <2> QED
      BY <1>6, <2>3, <2>4, <2>5 DEF Pop, Leave, StrayPop, WorkerGoTo
  <1>7. ASSUME SameLife, NEW w \in Worker, Load(w) PROVE PoolOK'
    <2>0. record' = record /\ wpc[w] = "load"
      BY <1>7 DEF Load
    <2>1. CASE LetGo(w)
      BY <1>0, <1>4, <1>5, <1>7, <2>0, <2>1 DEF PoolOK, PoolTypeOK, RunJob
    <2>2. CASE WorkerGoTo(w, "mark") /\ UNCHANGED <<job, tries, verdict>>
      BY <1>0, <1>4, <1>7, <1>t, <2>0, <2>2 DEF PoolOK, PoolTypeOK, RunJob, Jobs, WorkerLabel,
                                                WorkerGoTo
    <2> QED
      BY <1>7, <2>1, <2>2 DEF Load
  <1>8. ASSUME SameLife, NEW w \in Worker, Mark(w) PROVE PoolOK'
    <2>0. /\ wpc[w] = "mark" /\ wpc' = [wpc EXCEPT ![w] = "fetch"]
          /\ tries' = [tries EXCEPT ![w] = 1] /\ job' = job /\ verdict' = verdict
      BY <1>8 DEF Mark, WorkerGoTo
    <2>1. record' \in [Request -> RecordStatus]
      <3>1. job[w] \in Request
        BY <1>0, <2>0 DEF Jobs
      <3> QED
        BY <1>0, <1>8, <3>1, WriteType DEF Mark, PutBestEffort, RecordStatus
    <2>2. tries' \in [Worker -> 0 .. MaxTries] /\ wpc' \in [Worker -> WorkerLabel]
      BY <1>t, <2>0, PoolAssumption DEF WorkerLabel
    <2>3. Jobs'
      BY <1>0, <1>8, <1>t, <2>0 DEF Jobs
    <2> QED
      BY <1>0, <1>4, <1>8, <2>0, <2>1, <2>2, <2>3 DEF PoolOK, PoolTypeOK, RunJob
  <1>9. ASSUME SameLife, NEW w \in Worker, Fetched(w) \/ Detected(w) PROVE PoolOK'
    <2>0. /\ wpc[w] \in {"fetch", "detect"} /\ record' = record /\ job' = job
          /\ \/ WorkerGoTo(w, "detect") /\ UNCHANGED <<tries, verdict>>
             \/ TryAgain(w)
             \/ Settle(w, "completed")
             \/ Settle(w, "failed")
      <3>1. CASE Fetched(w)
        BY <3>1 DEF Fetched
      <3>2. CASE Detected(w)
        BY <3>2 DEF Detected
      <3> QED
        BY <1>9, <3>1, <3>2
    <2>1. /\ wpc' \in [Worker -> WorkerLabel]
          /\ tries' \in [Worker -> 0 .. MaxTries]
          /\ verdict' \in [Worker -> {"none", "completed", "failed"}]
          /\ wpc'[w] \in {"fetch", "detect", "store"}
          /\ wpc'[w] = "store" => verdict'[w] \in Ended
          /\ \A v \in Worker : v # w => wpc'[v] = wpc[v] /\ verdict'[v] = verdict[v]
      BY <1>0, <2>0, AttemptEnds
    <2>2. Jobs'
      BY <1>0, <1>9, <2>0, <2>1 DEF Jobs
    <2> QED
      BY <1>0, <1>4, <1>9, <2>0, <2>1, <2>2 DEF PoolOK, PoolTypeOK, RunJob
  <1>10. ASSUME SameLife, NEW w \in Worker, StoreVerdict(w) PROVE PoolOK'
    <2>1. LetGo(w) /\ wpc[w] = "store" /\ job[w] \in Request /\ verdict[w] \in Ended
      BY <1>0, <1>10 DEF StoreVerdict, Jobs
    <2>2. record' \in [Request -> RecordStatus]
      BY <1>0, <1>10, <2>1, WriteType DEF StoreVerdict, RecordStatus, Ended
    <2> QED
      BY <1>0, <1>4, <1>5, <1>10, <2>1, <2>2 DEF PoolOK, PoolTypeOK, RunJob
  <1>11. CASE PoolRestarts /\ gateway' # "down"
    BY <1>0, <1>11 DEF PoolRestarts, PoolOK, PoolTypeOK, Jobs, WorkerLabel
  <1>12. CASE PoolCloses /\ SameLife
    BY <1>0, <1>2, <1>12 DEF PoolCloses, PoolOK, PoolTypeOK
  <1>13. CASE UNCHANGED <<poolVars, poolHistory>> /\ SameLife
    BY <1>0, <1>2, <1>13 DEF poolVars, poolHistory, PoolOK, PoolTypeOK
  <1> QED
    BY <1>0, <1>1, <1>3, <1>6, <1>7, <1>8, <1>9, <1>10, <1>11, <1>12, <1>13 DEF PoolMove, RunJob

----------------------------------------------------------------------------
(* The pool: no job is queued without its record, and none that was        *)
(* accepted is dropped silently.                                           *)

Pending == {"check", "push", "undo"}

\* What a step may do to where a job is.
PoolFacts(r) ==
    /\ r \in lost => r \in lost'
    /\ r \in doubled => r \in doubled'
    /\ record'[r] = "none" => record[r] = "none" \/ r \in lost'
    /\ r \in ToSet(queue') => r \in ToSet(queue) \/ submit[r] = "push"
    /\ submit'[r] \in Pending => submit[r] \in Pending \/ record'[r] = "queued"
    /\ submit'[r] = "accepted" => submit[r] = "accepted" \/ r \in ToSet(queue')
    /\ r \in ToSet(queue) => r \in ToSet(queue') \/ Held(r)' \/ r \in lost'
    /\ Held(r) => Held(r)' \/ record'[r] \in Ended \/ r \in lost'
    /\ submit[r] = "accepted" /\ record[r] \in Ended =>
          record'[r] \in Ended \/ Held(r)' \/ r \in lost'

LEMMA QueueSets ==
    ASSUME PoolTypeOK
    PROVE  /\ queue # <<>> => /\ Head(queue) \in Request
                              /\ ToSet(queue) = {Head(queue)} \union ToSet(Tail(queue))
           /\ \A q \in Request : /\ ToSet(Append(queue, q)) = ToSet(queue) \union {q}
                                 /\ ToSet(queue \o <<q, q>>) = ToSet(queue) \union {q}
  <1>1. queue \in Seq(Request)
    BY DEF PoolTypeOK
  <1>2. ASSUME NEW q \in Request
        PROVE  /\ ToSet(Append(queue, q)) = ToSet(queue) \union {q}
               /\ ToSet(queue \o <<q, q>>) = ToSet(queue) \union {q}
    <2>1. <<q, q>> \in Seq(Request) /\ Len(<<q, q>>) = 2 /\ <<q, q>>[1] = q /\ <<q, q>>[2] = q
      OBVIOUS
    <2>2. ToSet(<<q, q>>) = {q}
      BY <2>1 DEF ToSet
    <2>3. ToSet(Append(queue, q)) = ToSet(queue) \union {q}
      BY <1>1, AppendToSet
    <2>4. ToSet(queue \o <<q, q>>) = ToSet(queue) \union ToSet(<<q, q>>)
      <3> DEFINE t == <<q, q>>
      <3>1. t \in Seq(Request)
        BY <2>1
      <3> HIDE DEF t
      <3>2. ToSet(queue \o t) = ToSet(queue) \union ToSet(t)
        BY <1>1, <3>1, ConcatToSet
      <3> QED
        BY <3>2 DEF t
    <2> QED
      BY <2>2, <2>3, <2>4
  <1>3. queue # <<>> => /\ Head(queue) \in Request
                        /\ ToSet(queue) = {Head(queue)} \union ToSet(Tail(queue))
    BY <1>1, HeadTailToSet
  <1> QED
    BY <1>2, <1>3

LEMMA PoolStepFacts ==
    ASSUME PoolOK, [Next]_vars, NEW r \in Request, submit[r] = "accepted" => ~Handling(r) \/ Underway(r)
    PROVE  PoolFacts(r)
  <1>0. PoolTypeOK /\ Jobs /\ PoolMove
    BY PoolMoves DEF PoolOK
  <1>t. /\ wpc \in [Worker -> WorkerLabel] /\ job \in [Worker -> Request \union {NoRequest}]
        /\ record \in [Request -> RecordStatus] /\ submit \in [Request -> SubmitLabel]
    BY <1>0 DEF PoolTypeOK
  <1>q. /\ queue # <<>> => /\ Head(queue) \in Request
                           /\ ToSet(queue) = {Head(queue)} \union ToSet(Tail(queue))
        /\ \A q \in Request : /\ ToSet(Append(queue, q)) = ToSet(queue) \union {q}
                              /\ ToSet(queue \o <<q, q>>) = ToSet(queue) \union {q}
    BY <1>0, QueueSets
  <1>n. r # NoRequest
    BY PoolAssumption
  <1>1. CASE PoolEnds
    <2>1. Held(r) => r \in HeldJobs
      BY <1>n DEF Held, HeldJobs
    <2>2. submit'[r] \in Pending \union {"accepted"} => submit'[r] = submit[r]
      BY <1>1 DEF PoolEnds, Pending
    <2> QED
      BY <1>1, <2>1, <2>2 DEF PoolEnds, PoolFacts
  <1>2. ASSUME NEW q \in Request, Enter(q) \/ SubmitStep(q) \/ Expire(q) PROVE PoolFacts(r)
    <2>1. job' = job
      BY <1>2 DEF Enter, SubmitStep, PutQueued, CheckLength, Push, MarkRejected, Expire, workerPart
    <2>2. Held(r)' <=> Held(r)
      BY <2>1 DEF Held
    <2>3. CASE Enter(q)
      BY <1>t, <2>2, <2>3 DEF Enter, Return, SubmitGoTo, workerPart, PoolFacts, Pending
    <2>4. CASE PutQueued(q)
      BY <1>t, <2>2, <2>4 DEF PutQueued, Write, Return, SubmitGoTo, workerPart, PoolFacts, Pending
    <2>5. CASE CheckLength(q)
      BY <1>t, <2>2, <2>5 DEF CheckLength, SubmitGoTo, workerPart, PoolFacts, Pending
    <2>6. CASE Push(q)
      <3>1. /\ submit[q] = "push" /\ record' = record /\ lost' = lost /\ doubled \subseteq doubled'
            /\ \/ queue' = Append(queue, q) \/ queue' = queue \o <<q, q>>
               \/ queue' = queue /\ submit'[q] = "undo"
            /\ \/ submit' = [submit EXCEPT ![q] = "accepted"]
               \/ submit' = [submit EXCEPT ![q] = "undo"]
        BY <1>t, <2>6 DEF Push, Return, SubmitGoTo, workerPart
      <3>2. /\ ToSet(queue) \subseteq ToSet(queue')
            /\ ToSet(queue') \subseteq ToSet(queue) \union {q}
            /\ submit'[q] = "undo" \/ q \in ToSet(queue')
        BY <1>q, <3>1
      <3> QED
        BY <1>t, <2>2, <3>1, <3>2 DEF PoolFacts, Pending
    <2>7. CASE MarkRejected(q)
      BY <1>t, <2>2, <2>7 DEF MarkRejected, PutBestEffort, Write, Return, SubmitGoTo, workerPart,
                              PoolFacts, Pending, Ended
    <2>8. CASE Expire(q)
      BY <1>t, <2>2, <2>8 DEF Expire, Write, PoolFacts, Pending
    <2> QED
      BY <1>2, <2>3, <2>4, <2>5, <2>6, <2>7, <2>8 DEF SubmitStep
  <1>3. ASSUME NEW w \in Worker, Pop(w) \/ StrayPop(w) PROVE PoolFacts(r)
    <2>1. /\ queue # <<>> /\ queue' = Tail(queue) /\ record' = record /\ submit' = submit
          /\ doubled' = doubled
          /\ \/ job' = [job EXCEPT ![w] = Head(queue)] /\ wpc[w] = "loop" /\ lost' = lost
             \/ job' = job /\ lost' = lost \union {Head(queue)}
      BY <1>3 DEF Pop, StrayPop, Drop, submitPart
    <2>2. CASE job' = job /\ lost' = lost \union {Head(queue)}
      BY <1>q, <2>1, <2>2 DEF PoolFacts, Held
    <2>3. CASE job' = [job EXCEPT ![w] = Head(queue)] /\ wpc[w] = "loop" /\ lost' = lost
      <3>1. job[w] = NoRequest
        BY <1>0, <2>3 DEF Jobs
      <3>2. \A v \in Worker : job'[v] = IF v = w THEN Head(queue) ELSE job[v]
        BY <1>t, <2>3
      <3>3. Held(r) \/ r = Head(queue) => Held(r)'
        BY <1>n, <3>1, <3>2 DEF Held
      <3> QED
        BY <1>q, <2>1, <2>3, <3>3 DEF PoolFacts
    <2> QED
      BY <2>1, <2>2, <2>3
  <1>4. ASSUME NEW w \in Worker, Leave(w) \/ Fetched(w) \/ Detected(w) PROVE PoolFacts(r)
    <2>1. UNCHANGED <<queue, record, submit, lost, doubled, job>>
      BY <1>4 DEF Leave, Fetched, Detected, submitPart
    <2> QED
      BY <2>1 DEF PoolFacts, Held
  <1>5. ASSUME NEW w \in Worker, Load(w) PROVE PoolFacts(r)
    <2>1. /\ UNCHANGED <<queue, record, submit, doubled>>
          /\ \/ LetGo(w) /\ lost' = lost \union {job[w]}
             \/ UNCHANGED <<job, lost>>
      BY <1>5 DEF Load, Drop, submitPart
    <2>2. CASE LetGo(w) /\ lost' = lost \union {job[w]}
      <3>1. \A v \in Worker : v # w => job'[v] = job[v]
        BY <1>t, <2>2 DEF LetGo
      <3>2. Held(r) => Held(r)' \/ r \in lost'
        BY <2>2, <3>1 DEF Held
      <3> QED
        BY <2>1, <2>2, <3>2 DEF PoolFacts
    <2>3. CASE UNCHANGED <<job, lost>>
      BY <2>1, <2>3 DEF PoolFacts, Held
    <2> QED
      BY <2>1, <2>2, <2>3
  <1>6. ASSUME NEW w \in Worker, Mark(w) PROVE PoolFacts(r)
    <2>1. /\ UNCHANGED <<queue, submit, doubled, lost, job>>
          /\ record' = record \/ record' = [record EXCEPT ![job[w]] = "processing"]
      BY <1>6 DEF Mark, PutBestEffort, Write, submitPart
    <2>2. record'[r] = record[r] \/ (record'[r] = "processing" /\ Held(r)')
      BY <1>t, <2>1 DEF Held
    <2> QED
      BY <2>1, <2>2 DEF PoolFacts, Held, Ended
  <1>7. ASSUME NEW w \in Worker, StoreVerdict(w) PROVE PoolFacts(r)
    <2>1. /\ UNCHANGED <<queue, submit, doubled>> /\ LetGo(w) /\ wpc[w] = "store"
          /\ \/ record' = [record EXCEPT ![job[w]] = verdict[w]] /\ lost' = lost
             \/ /\ record' = record \/ record' = [record EXCEPT ![job[w]] = verdict[w]]
                /\ lost' = lost \union {job[w]}
      BY <1>7 DEF StoreVerdict, Write, Drop, submitPart
    <2>2. verdict[w] \in Ended
      BY <1>0, <2>1 DEF Jobs
    <2>3. /\ record'[r] = record[r] \/ record'[r] \in Ended
          /\ job[w] = r => record'[r] \in Ended \/ r \in lost'
          /\ lost \subseteq lost'
      BY <1>t, <2>1, <2>2
    <2>4. \A v \in Worker : v # w => job'[v] = job[v]
      BY <1>t, <2>1 DEF LetGo
    <2>5. Held(r) => Held(r)' \/ record'[r] \in Ended \/ r \in lost'
      BY <2>3, <2>4 DEF Held
    <2> QED
      BY <2>1, <2>3, <2>5 DEF PoolFacts, Ended
  <1>8. CASE PoolRestarts \/ PoolCloses \/ UNCHANGED <<poolVars, poolHistory>>
    <2>1. UNCHANGED <<queue, record, submit, job, lost, doubled>>
      BY <1>8 DEF PoolRestarts, PoolCloses, poolVars, poolHistory
    <2> QED
      BY <2>1 DEF PoolFacts, Held
  <1> QED
    BY <1>0, <1>1, <1>2, <1>3, <1>4, <1>5, <1>6, <1>7, <1>8 DEF PoolMove, RunJob

\* The handler of a request has run only if Middleware let the request through.
Passed == \A r \in Request : submit[r] # "idle" => gate[r] \notin {"outside", "stamped"}

Known ==
    \A r \in Request :
        submit[r] \in Pending \/ r \in ToSet(queue) => record[r] # "none" \/ r \in lost

PoolInv == LimitTypeOK /\ PoolOK /\ Passed /\ Known /\ AcceptedIsAccountedFor

LEMMA PoolInvInit == Init => PoolInv
  <1> SUFFICES ASSUME Init PROVE PoolInv
    OBVIOUS
  <1>1. ToSet(<<>>) = {}
    BY DEF ToSet
  <1>2. Passed /\ Known /\ AcceptedIsAccountedFor
    BY <1>1 DEF Init, PoolInit, Passed, Known, Pending, AcceptedIsAccountedFor
  <1> QED
    BY <1>2, PoolOKInit, LimitInvInit DEF PoolInv, LimitInv

LEMMA PassedStep == PoolOK /\ LimitTypeOK /\ Passed /\ [Next]_vars => Passed'
  <1> SUFFICES ASSUME PoolOK, LimitTypeOK, Passed, [Next]_vars, NEW r \in Request,
                      submit'[r] # "idle"
               PROVE  gate'[r] \notin {"outside", "stamped"}
    BY DEF Passed
  <1>0. PoolMove /\ LimitMove /\ submit \in [Request -> SubmitLabel]
        /\ gate \in [Request -> GateLabel]
    BY PoolMoves, LimitMoves DEF PoolOK, PoolTypeOK, LimitTypeOK
  <1>1. gate[r] \notin {"outside", "stamped"} => gate'[r] \notin {"outside", "stamped"}
    BY <1>0 DEF LimitMove, ReadClock, CountRequest, Tick, limitVars
  <1>2. CASE submit[r] # "idle"
    BY <1>1, <1>2 DEF Passed
  <1>3. CASE submit[r] = "idle"
    <2>1. CASE PoolEnds
      <3>1. Handling(r)
        BY <1>3, <2>1 DEF PoolEnds
      <3>2. gate[r] = "stamped" \/ gate[r] \in {"admitted", "unlimited"}
        BY <1>3, <2>1, <3>1 DEF PoolEnds, Handling, LetThrough
      <3> QED
        BY <2>1, <3>2 DEF PoolEnds
    <2>2. ASSUME NEW q \in Request, (LetThrough(q) /\ Enter(q)) \/ SubmitStep(q) \/ Expire(q)
          PROVE  gate'[r] \notin {"outside", "stamped"}
      <3>1. LetThrough(r)
        BY <1>0, <1>3, <2>2 DEF Enter, SubmitStep, PutQueued, CheckLength, Push, MarkRejected,
                                Expire, Return, SubmitGoTo
      <3> QED
        BY <1>1, <3>1 DEF LetThrough
    <2>3. CASE \/ \E w \in Worker : Pop(w) \/ Leave(w) \/ RunJob(w) \/ StrayPop(w)
               \/ PoolRestarts \/ PoolCloses \/ UNCHANGED <<poolVars, poolHistory>>
      <3>1. submit' = submit
        BY <2>3 DEF Pop, Leave, RunJob, StrayPop, Load, Mark, Fetched, Detected, StoreVerdict,
                    submitPart, PoolRestarts, PoolCloses, poolVars
      <3> QED
        BY <1>3, <3>1
    <2> QED
      BY <1>0, <2>1, <2>2, <2>3 DEF PoolMove
  <1> QED
    BY <1>2, <1>3

\* The handler of a job that was accepted has answered.
LEMMA AcceptedIsHandled ==
    ASSUME Passed, NEW r \in Request, submit[r] = "accepted"
    PROVE  ~Handling(r) \/ Underway(r)
  BY DEF Passed, Handling, LetThrough

LEMMA PoolInvStep == PoolInv /\ LimitInv /\ [Next]_vars => PoolInv'
  <1> SUFFICES ASSUME PoolInv, LimitInv, [Next]_vars PROVE PoolInv'
    OBVIOUS
  <1>1. PoolOK' /\ Passed' /\ LimitTypeOK'
    BY PoolOKStep, PassedStep, LimitInvStep DEF PoolInv, LimitInv
  <1>2. \A r \in Request : PoolFacts(r)
    BY PoolStepFacts, AcceptedIsHandled DEF PoolInv
  <1>3. Known'
    BY <1>2 DEF PoolInv, PoolFacts, Known, Pending
  <1>4. AcceptedIsAccountedFor'
    BY <1>2 DEF PoolInv, PoolFacts, AcceptedIsAccountedFor
  <1> QED
    BY <1>1, <1>3, <1>4 DEF PoolInv

LEMMA PoolInvAlways == Spec => []PoolInv
  <1>1. Init => LimitInv
    BY LimitInvInit
  <1> QED
    BY <1>1, LimitInvStep, PoolInvInit, PoolInvStep, PTL DEF Spec

\* A job's record is written before its id is queued, and stays for as long as it
\* is queued, unless it expires (pool.go, Submit).
THEOREM QueuedJobsHaveRecords == Spec => []QueuedHasRecord
  <1>1. PoolInv => QueuedHasRecord
    <2> SUFFICES ASSUME PoolInv, NEW r \in ToSet(queue) PROVE record[r] # "none" \/ r \in lost
      BY DEF QueuedHasRecord
    <2>1. queue \in Seq(Request)
      BY DEF PoolInv, PoolOK, PoolTypeOK
    <2>2. r \in Request
      BY <2>1, ToSetSubset
    <2> QED
      BY <2>2 DEF PoolInv, Known
  <1> QED
    BY <1>1, PoolInvAlways, PTL

\* However often the process stops and starts, and the attempts fail, a job that was
\* accepted is queued, with a worker, or ended, or one of the named losses befell it
\* (pool.go, Shutdown; queue.go, Dequeue).
THEOREM NoJobGoesMissing == Spec => []AcceptedIsAccountedFor
  <1>1. PoolInv => AcceptedIsAccountedFor
    BY DEF PoolInv
  <1> QED
    BY <1>1, PoolInvAlways, PTL

----------------------------------------------------------------------------
(* The pool: what a client polls only moves forward.  A job that was       *)
(* neither lost nor queued twice is in one place at a time.                *)

Once(s, r) == \E i \in 1 .. Len(s) : s[i] = r /\ \A j \in 1 .. Len(s) : j # i => s[j] # r

Unheld(r) == \A w \in Worker : job[w] # r
Away(r) == r \notin ToSet(queue) /\ Unheld(r)

HeldBy(w, r) ==
    /\ job[w] = r
    /\ \A v \in Worker : v # w => job[v] # r
    /\ wpc[w] \in {"load", "mark"} => record[r] = "queued"
    /\ record[r] \in {"queued", "processing"}

Token(r) ==
    \/ submit[r] \in {"idle", "put"} /\ record[r] = "none" /\ Away(r)
    \/ submit[r] \in Pending /\ record[r] = "queued" /\ Away(r)
    \/ submit[r] = "rejected" /\ Away(r)
    \/ submit[r] = "accepted" /\ record[r] = "queued" /\ Once(queue, r) /\ Unheld(r)
    \/ submit[r] = "accepted" /\ r \notin ToSet(queue) /\ \E w \in Worker : HeldBy(w, r)
    \/ submit[r] = "accepted" /\ record[r] \in Ended /\ Away(r)

Tokens == \A r \in Request \ (lost \union doubled) : Token(r)

LEMMA OnceAppend ==
    ASSUME NEW S, NEW s \in Seq(S), NEW x \in S, NEW r
    PROVE  /\ x # r /\ Once(s, r) => Once(Append(s, x), r)
           /\ x = r /\ r \notin ToSet(s) => Once(Append(s, x), r)
           /\ Once(s, r) => r \in ToSet(s)
  <1> DEFINE t == Append(s, x)
  <1>1. /\ Len(s) \in Nat /\ Len(t) = Len(s) + 1 /\ t[Len(s) + 1] = x
        /\ \A i \in 1 .. Len(s) : t[i] = s[i] /\ i \in 1 .. Len(t) /\ i # Len(s) + 1
        /\ Len(s) + 1 \in 1 .. Len(t)
        /\ \A i \in 1 .. Len(t) : i \in 1 .. Len(s) \/ i = Len(s) + 1
    OBVIOUS
  <1> HIDE DEF t
  <1>2. x # r /\ Once(s, r) => Once(t, r)
    <2> SUFFICES ASSUME x # r, Once(s, r) PROVE Once(t, r)
      OBVIOUS
    <2>1. PICK i \in 1 .. Len(s) : s[i] = r /\ \A j \in 1 .. Len(s) : j # i => s[j] # r
      BY DEF Once
    <2>2. i \in 1 .. Len(t) /\ t[i] = r
      BY <1>1, <2>1
    <2>3. ASSUME NEW j \in 1 .. Len(t), j # i PROVE t[j] # r
      BY <1>1, <2>1, <2>3
    <2> QED
      BY <2>2, <2>3 DEF Once
  <1>3. x = r /\ r \notin ToSet(s) => Once(t, r)
    <2> SUFFICES ASSUME x = r, r \notin ToSet(s) PROVE Once(t, r)
      OBVIOUS
    <2>1. \A j \in 1 .. Len(s) : s[j] # r
      BY DEF ToSet
    <2>2. ASSUME NEW j \in 1 .. Len(t), j # Len(s) + 1 PROVE t[j] # r
      BY <1>1, <2>1, <2>2
    <2> QED
      BY <1>1, <2>2 DEF Once
  <1>4. Once(s, r) => r \in ToSet(s)
    BY DEF Once, ToSet
  <1> QED
    BY <1>2, <1>3, <1>4 DEF t

LEMMA OnceTail ==
    ASSUME NEW S, NEW s \in Seq(S), s # <<>>, NEW r
    PROVE  /\ Head(s) # r /\ Once(s, r) => Once(Tail(s), r)
           /\ Head(s) = r /\ Once(s, r) => r \notin ToSet(Tail(s))
  <1> DEFINE t == Tail(s)
  <1>1. /\ Len(s) \in Nat /\ Len(t) = Len(s) - 1 /\ Head(s) = s[1] /\ 1 \in 1 .. Len(s)
        /\ \A i \in 1 .. Len(t) : t[i] = s[i + 1] /\ i + 1 \in 1 .. Len(s) /\ i + 1 # 1
        /\ \A i \in 1 .. Len(s) : i # 1 => i - 1 \in 1 .. Len(t) /\ (i - 1) + 1 = i
        /\ \A i, j \in 1 .. Len(t) : i # j => i + 1 # j + 1
    OBVIOUS
  <1> HIDE DEF t
  <1>2. Head(s) # r /\ Once(s, r) => Once(t, r)
    <2> SUFFICES ASSUME Head(s) # r, Once(s, r) PROVE Once(t, r)
      OBVIOUS
    <2>1. PICK i \in 1 .. Len(s) : s[i] = r /\ \A j \in 1 .. Len(s) : j # i => s[j] # r
      BY DEF Once
    <2>2. i # 1
      BY <1>1, <2>1
    <2>3. i - 1 \in 1 .. Len(t) /\ t[i - 1] = r
      BY <1>1, <2>1, <2>2
    <2>4. ASSUME NEW j \in 1 .. Len(t), j # i - 1 PROVE t[j] # r
      <3>1. j + 1 \in 1 .. Len(s) /\ j + 1 # i /\ t[j] = s[j + 1]
        BY <1>1, <2>3, <2>4
      <3> QED
        BY <2>1, <3>1
    <2> QED
      BY <2>3, <2>4 DEF Once
  <1>3. Head(s) = r /\ Once(s, r) => r \notin ToSet(t)
    <2> SUFFICES ASSUME Head(s) = r, Once(s, r) PROVE r \notin ToSet(t)
      OBVIOUS
    <2>1. PICK i \in 1 .. Len(s) : s[i] = r /\ \A j \in 1 .. Len(s) : j # i => s[j] # r
      BY DEF Once
    <2>2. i = 1
      BY <1>1, <2>1
    <2>3. \A j \in 1 .. Len(t) : t[j] # r
      BY <1>1, <2>1, <2>2
    <2> QED
      BY <2>3 DEF ToSet
  <1> QED
    BY <1>2, <1>3 DEF t

\* A step that is about another job.
Untouched(r) ==
    /\ submit'[r] = submit[r] /\ record'[r] = record[r]
    /\ r \notin ToSet(queue) => r \notin ToSet(queue')
    /\ Once(queue, r) => Once(queue', r)
    /\ \A w \in Worker : /\ job'[w] = r <=> job[w] = r
                         /\ job[w] = r => wpc'[w] = wpc[w]

LEMMA UntouchedToken == ASSUME NEW r, Token(r), Untouched(r) PROVE Token(r)'
  BY DEF Token, Untouched, Away, Unheld, HeldBy

Advances(r) == record'[r] # record[r] => Stage(record'[r]) > Stage(record[r])

LEMMA Stages ==
    /\ Stage("none") = 0 /\ Stage("queued") = 1 /\ Stage("processing") = 2
    /\ \A status \in Ended : Stage(status) = 3
  BY DEF Stage, Ended

LEMMA TokensInit == Init => Tokens
  <1>1. ToSet(<<>>) = {}
    BY DEF ToSet
  <1> QED
    BY <1>1, PoolAssumption DEF Init, PoolInit, Tokens, Token, Away, Unheld

LEMMA TokenStep ==
    ASSUME PoolInv, Tokens, [Next]_vars, NEW r \in Request, r \notin lost', r \notin doubled'
    PROVE  Token(r)' /\ Advances(r)
  <1>0. PoolTypeOK /\ Jobs /\ PoolMove
    BY PoolMoves DEF PoolInv, PoolOK
  <1>t. /\ wpc \in [Worker -> WorkerLabel] /\ job \in [Worker -> Request \union {NoRequest}]
        /\ record \in [Request -> RecordStatus] /\ submit \in [Request -> SubmitLabel]
        /\ queue \in Seq(Request) /\ r # NoRequest
    BY <1>0, PoolAssumption DEF PoolTypeOK
  <1>q. /\ queue # <<>> => /\ Head(queue) \in Request
                           /\ ToSet(queue) = {Head(queue)} \union ToSet(Tail(queue))
        /\ \A q \in Request : /\ ToSet(Append(queue, q)) = ToSet(queue) \union {q}
                              /\ ToSet(queue \o <<q, q>>) = ToSet(queue) \union {q}
    BY <1>0, QueueSets
  <1>r. Token(r) /\ PoolFacts(r)
    <2>1. PoolFacts(r)
      BY PoolStepFacts, AcceptedIsHandled DEF PoolInv
    <2> QED
      BY <2>1 DEF Tokens, PoolFacts
  <1>u. ASSUME Untouched(r) PROVE Token(r)' /\ Advances(r)
    BY <1>r, <1>u, UntouchedToken DEF Untouched, Advances
  <1>1. CASE PoolEnds
    <2>1. Unheld(r)
      BY <1>1, <1>t DEF PoolEnds, HeldJobs, Unheld
    <2>2. Unheld(r)' /\ queue' = queue /\ record' = record
      BY <1>1, <1>t DEF PoolEnds, Unheld
    <2>3. \/ submit'[r] = submit[r]
          \/ submit'[r] = "rejected" /\ submit[r] # "accepted"
      BY <1>1, AcceptedIsHandled DEF PoolEnds, PoolInv
    <2> QED
      BY <1>r, <2>1, <2>2, <2>3 DEF Token, HeldBy, Away, Unheld, Advances
  <1>2. ASSUME NEW q \in Request, (LetThrough(q) /\ Enter(q)) \/ SubmitStep(q) \/ Expire(q)
        PROVE  Token(r)' /\ Advances(r)
    <2>1. job' = job /\ wpc' = wpc
      BY <1>2 DEF Enter, SubmitStep, PutQueued, CheckLength, Push, MarkRejected, Expire, workerPart
    <2>2. Unheld(r) => Unheld(r)'
      BY <2>1 DEF Unheld
    <2>3. CASE q # r
      <3>1. submit'[r] = submit[r] /\ record'[r] = record[r]
        BY <1>2, <1>t, <2>3 DEF Enter, SubmitStep, PutQueued, CheckLength, Push, MarkRejected,
                                Expire, Write, PutBestEffort, Return, SubmitGoTo
      <3>2. queue' = queue \/ queue' = Append(queue, q) \/ (queue' = queue \o <<q, q>> /\ Push(q))
        BY <1>2 DEF Enter, SubmitStep, PutQueued, CheckLength, Push, MarkRejected, Expire
      <3>3. r \notin ToSet(queue) => r \notin ToSet(queue')
        BY <1>q, <2>3, <3>2
      <3>4. Once(queue, r) => Once(queue', r)
        <4>1. Once(queue, r) => Once(Append(queue, q), r)
          BY <1>t, <2>3, OnceAppend
        <4>2. Append(queue, q) \in Seq(Request)
          BY <1>t
        <4>3. Once(Append(queue, q), r) => Once(Append(Append(queue, q), q), r)
          BY <2>3, <4>2, OnceAppend
        <4>4. queue \o <<q, q>> = Append(Append(queue, q), q)
          BY <1>t
        <4> QED
          BY <3>2, <4>1, <4>3, <4>4
      <3> QED
        BY <1>u, <2>1, <3>1, <3>3, <3>4 DEF Untouched
    <2>4. CASE q = r /\ Enter(r)
      <3>1. /\ submit[r] = "idle" /\ record' = record /\ queue' = queue
            /\ submit'[r] \in {"put", "rejected"}
        BY <1>t, <2>4 DEF Enter, Return, SubmitGoTo, workerPart
      <3> QED
        BY <1>r, <2>2, <3>1 DEF Token, Pending, Away, Advances
    <2>5. CASE q = r /\ PutQueued(r)
      <3>1. /\ submit[r] = "put" /\ queue' = queue
            /\ \/ record'[r] = "queued" /\ submit'[r] = "check"
               \/ record'[r] \in {record[r], "queued"} /\ submit'[r] = "rejected"
        BY <1>t, <2>5 DEF PutQueued, Write, Return, SubmitGoTo
      <3> QED
        BY <1>r, <2>2, <3>1, Stages DEF Token, Pending, Away, Advances
    <2>6. CASE q = r /\ CheckLength(r)
      <3>1. /\ submit[r] = "check" /\ record' = record /\ queue' = queue
            /\ submit'[r] \in {"push", "undo"}
        BY <1>t, <2>6 DEF CheckLength, SubmitGoTo
      <3> QED
        BY <1>r, <2>2, <3>1 DEF Token, Pending, Away, Advances
    <2>7. CASE q = r /\ Push(r)
      <3>1. /\ submit[r] = "push" /\ record' = record /\ queue' = Append(queue, r)
            /\ submit'[r] = "accepted"
        BY <1>t, <2>7 DEF Push, Return, SubmitGoTo, workerPart
      <3>2. r \notin ToSet(queue) /\ Unheld(r) /\ record[r] = "queued"
        BY <1>r, <3>1 DEF Token, Pending, Away
      <3>3. Once(queue', r)
        BY <1>t, <3>1, <3>2, OnceAppend
      <3> QED
        BY <2>2, <3>1, <3>2, <3>3 DEF Token, Advances
    <2>8. CASE q = r /\ MarkRejected(r)
      <3>1. /\ submit[r] = "undo" /\ queue' = queue /\ submit'[r] = "rejected"
            /\ record'[r] \in {record[r], "failed"}
        BY <1>t, <2>8 DEF MarkRejected, PutBestEffort, Write, Return, SubmitGoTo
      <3>2. record[r] = "queued" /\ Away(r)
        BY <1>r, <3>1 DEF Token, Pending
      <3> QED
        BY <2>2, <3>1, <3>2, Stages DEF Token, Away, Advances, Ended
    <2>9. ~(q = r /\ Expire(r))
      BY DEF Expire
    <2> QED
      BY <1>2, <2>3, <2>4, <2>5, <2>6, <2>7, <2>8, <2>9 DEF SubmitStep
  <1>3. ASSUME NEW w \in Worker, Pop(w) \/ StrayPop(w) PROVE Token(r)' /\ Advances(r)
    <2>1. /\ queue # <<>> /\ queue' = Tail(queue) /\ record' = record /\ submit' = submit
          /\ job[w] = NoRequest
      BY <1>0, <1>3 DEF Pop, StrayPop, submitPart, Jobs
    <2>2. CASE Head(queue) # r
      <3>1. \A v \in Worker : /\ job'[v] = r <=> job[v] = r
                              /\ job[v] = r => wpc'[v] = wpc[v]
        BY <1>3, <1>t, <2>1, <2>2 DEF Pop, StrayPop, WorkerGoTo
      <3>2. Once(queue, r) => Once(queue', r)
        BY <1>t, <2>1, <2>2, OnceTail
      <3> QED
        BY <1>q, <1>u, <2>1, <3>1, <3>2 DEF Untouched
    <2>3. CASE Head(queue) = r
      <3>1. submit[r] = "accepted" /\ record[r] = "queued" /\ Once(queue, r) /\ Unheld(r)
        BY <1>q, <1>r, <2>1, <2>3 DEF Token, Away
      <3>2. r \notin ToSet(queue')
        BY <1>t, <2>1, <2>3, <3>1, OnceTail
      <3>3. job' = [job EXCEPT ![w] = r] /\ wpc' = [wpc EXCEPT ![w] = "load"]
        BY <1>3, <2>3 DEF Pop, StrayPop, Drop, WorkerGoTo
      <3>4. HeldBy(w, r)'
        BY <1>t, <2>1, <3>1, <3>3 DEF HeldBy, Unheld
      <3> QED
        BY <2>1, <3>1, <3>2, <3>4 DEF Token, Advances
    <2> QED
      BY <2>2, <2>3
  <1>4. ASSUME NEW w \in Worker, Leave(w) PROVE Token(r)' /\ Advances(r)
    <2>1. job[w] # r
      BY <1>0, <1>4, <1>t DEF Leave, Jobs
    <2>2. /\ UNCHANGED <<queue, record, submit, job>>
          /\ \A v \in Worker : v # w => wpc'[v] = wpc[v]
      BY <1>4, <1>t DEF Leave, WorkerGoTo, submitPart
    <2> QED
      BY <1>u, <2>1, <2>2 DEF Untouched
  \* A worker at its own job, and at another.
  <1>5. ASSUME NEW w \in Worker, job[w] = r PROVE submit[r] = "accepted" /\ HeldBy(w, r)
                                                  /\ r \notin ToSet(queue)
    BY <1>5, <1>r DEF Token, Away, Unheld, HeldBy
  <1>6. ASSUME NEW w \in Worker, job[w] # r, UNCHANGED <<queue, submit>>, record'[r] = record[r],
               \A v \in Worker : v # w => job'[v] = job[v] /\ wpc'[v] = wpc[v],
               job'[w] # r
        PROVE  Token(r)' /\ Advances(r)
    BY <1>6, <1>u DEF Untouched
  <1>7. ASSUME NEW w \in Worker, Load(w) PROVE Token(r)' /\ Advances(r)
    <2>1. /\ UNCHANGED <<queue, record, submit>> /\ wpc[w] = "load"
          /\ \/ LetGo(w) /\ lost' = lost \union {job[w]}
             \/ job' = job /\ WorkerGoTo(w, "mark")
      BY <1>7 DEF Load, Drop, submitPart
    <2>2. CASE job[w] # r
      <3>1. /\ \A v \in Worker : v # w => job'[v] = job[v] /\ wpc'[v] = wpc[v]
            /\ job'[w] # r
        BY <1>t, <2>1, <2>2 DEF LetGo, WorkerGoTo
      <3> QED
        BY <1>6, <2>1, <2>2, <3>1
    <2>3. CASE job[w] = r
      <3>1. job' = job /\ wpc' = [wpc EXCEPT ![w] = "mark"]
        BY <2>1, <2>3 DEF WorkerGoTo
      <3>2. HeldBy(w, r)'
        BY <1>5, <1>t, <2>1, <2>3, <3>1 DEF HeldBy
      <3> QED
        BY <1>5, <2>1, <2>3, <3>2 DEF Token, Advances
    <2> QED
      BY <2>2, <2>3
  <1>8. ASSUME NEW w \in Worker, Mark(w) PROVE Token(r)' /\ Advances(r)
    <2>1. /\ UNCHANGED <<queue, submit, job>> /\ wpc[w] = "mark"
          /\ wpc' = [wpc EXCEPT ![w] = "fetch"]
          /\ record' = record \/ record' = [record EXCEPT ![job[w]] = "processing"]
      BY <1>8 DEF Mark, PutBestEffort, Write, WorkerGoTo, submitPart
    <2>2. CASE job[w] # r
      <3>1. record'[r] = record[r] /\ \A v \in Worker : v # w => wpc'[v] = wpc[v]
        BY <1>t, <2>1, <2>2
      <3> QED
        BY <1>6, <2>1, <2>2, <3>1
    <2>3. CASE job[w] = r
      <3>1. record[r] = "queued" /\ record'[r] \in {"queued", "processing"}
        BY <1>5, <1>t, <2>1, <2>3 DEF HeldBy
      <3>2. HeldBy(w, r)'
        BY <1>5, <1>t, <2>1, <2>3, <3>1 DEF HeldBy
      <3> QED
        BY <1>5, <2>1, <2>3, <3>1, <3>2, Stages DEF Token, Advances
    <2> QED
      BY <2>2, <2>3
  <1>9. ASSUME NEW w \in Worker, Fetched(w) \/ Detected(w) PROVE Token(r)' /\ Advances(r)
    <2>1. /\ UNCHANGED <<queue, record, submit, job>>
          /\ \/ WorkerGoTo(w, "detect") /\ UNCHANGED <<tries, verdict>>
             \/ TryAgain(w)
             \/ Settle(w, "completed")
             \/ Settle(w, "failed")
      <3>1. CASE Fetched(w)
        BY <3>1 DEF Fetched, submitPart
      <3>2. CASE Detected(w)
        BY <3>2 DEF Detected, submitPart
      <3> QED
        BY <1>9, <3>1, <3>2
    <2>2. /\ wpc'[w] \in {"fetch", "detect", "store"}
          /\ \A v \in Worker : v # w => wpc'[v] = wpc[v]
      BY <1>0, <2>1, AttemptEnds
    <2>3. CASE job[w] # r
      BY <1>6, <2>1, <2>2, <2>3
    <2>4. CASE job[w] = r
      <3>1. HeldBy(w, r)'
        BY <1>5, <2>1, <2>2, <2>4 DEF HeldBy
      <3> QED
        BY <1>5, <2>1, <2>4, <3>1 DEF Token, Advances
    <2> QED
      BY <2>3, <2>4
  <1>10. ASSUME NEW w \in Worker, StoreVerdict(w) PROVE Token(r)' /\ Advances(r)
    <2>1. /\ UNCHANGED <<queue, submit>> /\ LetGo(w)
          /\ record' = record \/ record' = [record EXCEPT ![job[w]] = verdict[w]]
          /\ job[w] = r => record' = [record EXCEPT ![job[w]] = verdict[w]]
          /\ verdict[w] \in Ended
      BY <1>0, <1>10 DEF StoreVerdict, Write, Drop, submitPart, Jobs
    <2>2. /\ \A v \in Worker : v # w => job'[v] = job[v] /\ wpc'[v] = wpc[v]
          /\ job'[w] # r
      BY <1>t, <2>1 DEF LetGo, WorkerGoTo
    <2>3. CASE job[w] # r
      <3>1. record'[r] = record[r]
        BY <1>t, <2>1, <2>3
      <3> QED
        BY <1>6, <2>1, <2>2, <2>3, <3>1
    <2>4. CASE job[w] = r
      <3>1. record'[r] \in Ended /\ record[r] \in {"queued", "processing"}
        BY <1>5, <1>t, <2>1, <2>4 DEF HeldBy
      <3>2. Away(r)'
        BY <1>5, <2>1, <2>2, <2>4 DEF Away, Unheld, HeldBy
      <3> QED
        BY <1>5, <2>1, <2>4, <3>1, <3>2, Stages DEF Token, Advances
    <2> QED
      BY <2>3, <2>4
  <1>11. CASE PoolRestarts
    <2>1. \A w \in Worker : job[w] # r
      BY <1>0, <1>11, <1>t DEF PoolRestarts, Jobs
    <2> QED
      BY <1>11, <1>u, <2>1 DEF PoolRestarts, Untouched
  <1>12. CASE PoolCloses \/ UNCHANGED <<poolVars, poolHistory>>
    <2>1. UNCHANGED <<queue, record, submit, job, wpc>>
      BY <1>12 DEF PoolCloses, poolVars
    <2> QED
      BY <1>u, <2>1 DEF Untouched
  <1> QED
    BY <1>0, <1>1, <1>2, <1>3, <1>4, <1>7, <1>8, <1>9, <1>10, <1>11, <1>12 DEF PoolMove, RunJob

LEMMA TokensStep == PoolInv /\ Tokens /\ [Next]_vars => Tokens'
  BY TokenStep DEF Tokens

\* A job's record goes from queued to processing to its end, and stays there, however
\* many workers, restarts and failed calls there are, unless the job was lost or
\* queued twice (jobstatus.go; worker/job.go).
THEOREM RecordsAdvance == Spec => RecordOnlyAdvances
  <1>1. PoolInv /\ Tokens /\ [Next]_vars =>
            [\A r \in Request \ (lost' \union doubled') :
                record'[r] # record[r] => Stage(record'[r]) > Stage(record[r])]_vars
    BY TokenStep DEF Advances
  <1> QED
    BY <1>1, PoolInvAlways, TokensInit, TokensStep, PTL DEF Spec, RecordOnlyAdvances

----------------------------------------------------------------------------
(* The sessions.                                                           *)

Working == {"start", "fetch", "detect"}

Silent(r, m) == outcome[r][m].is = "neither"

\* A goroutine that is about to fetch or to detect was asked to.
Asked == \A r \in Session, m \in Input : branch[r][m] \in {"fetch", "detect"} => m \in wanted[r]

SessionBegins(r) ==
    /\ wanted[r] = {}
    /\ \E inputs \in (SUBSET Input) \ {{}} : wanted' = [wanted EXCEPT ![r] = inputs]
    /\ branch' = [branch EXCEPT ![r] = [m \in Input |-> "start"]]
    /\ UNCHANGED <<outcome, reply>>

BranchMoves(r, m) ==
    /\ branch[r][m] \in Working
    /\ m \in wanted[r]
    /\ \E label \in {"fetch", "detect"} : BranchGoTo(r, m, label)
    /\ UNCHANGED <<wanted, outcome, reply>>

BranchSends(r, m) ==
    /\ branch[r][m] \in Working
    /\ \E result \in Outcome : /\ result.is = "neither" <=> m \notin wanted[r]
                               /\ Send(r, m, result)
    /\ UNCHANGED <<wanted, reply>>

SessionsEnd ==
    /\ branch' = [r \in Session |-> [m \in Input |-> "none"]]
    /\ reply' = [r \in Session |-> IF Replied(r) THEN reply[r] ELSE NoReply]
    /\ UNCHANGED <<wanted, outcome>>

SessionMove ==
    \/ \E r \in Session : SessionBegins(r) \/ Join(r) \/ Assess(r)
    \/ \E r \in Session, m \in Input : BranchMoves(r, m) \/ BranchSends(r, m)
    \/ SessionsEnd
    \/ UNCHANGED sessionVars

LEMMA OutcomeTypes ==
    /\ Neither \in Outcome /\ Neither.is = "neither"
    /\ Failure \in Outcome /\ Failure.is = "error"
    /\ \A clip \in Clips : /\ Result(clip.score, clip.frames) \in Outcome
                           /\ Result(clip.score, clip.frames).is = "result"
    /\ \A score \in AudioScores : /\ Result(score, <<>>) \in Outcome
                                  /\ Result(score, <<>>).is = "result"
  BY DEF Outcome, Neither, Failure, Result

LEMMA SessionMoves == Asked /\ [Next]_vars => SessionMove
  <1> SUFFICES ASSUME Asked, [Next]_vars PROVE SessionMove
    OBVIOUS
  <1>1. ASSUME NEW r \in Request, Arrive(r) \/ Gate(r) \/ RecordExpires(r) \/ Analyze_(r)
        PROVE  SessionMove
    BY <1>1 DEF SessionMove, Arrive, Gate, RecordExpires, Analyze_
  <1>2. ASSUME NEW r \in Request, AnalyzeSession(r) PROVE SessionMove
    <2>0. r \in Session /\ "video" \in Input /\ "audio" \in Input
      BY <1>2 DEF AnalyzeSession, Input
    <2>1. CASE LetThrough(r) /\ Begin(r)
      BY <2>0, <2>1 DEF SessionMove, SessionBegins, LetThrough, Begin
    <2>2. ASSUME NEW m \in Input, Skip(r, m) PROVE SessionMove
      <3>1. BranchSends(r, m)
        BY <2>2, OutcomeTypes DEF Skip, BranchSends, BranchAt, Working
      <3> QED
        BY <2>0, <3>1 DEF SessionMove
    <2>3. CASE FetchVideo(r)
      <3>1. BranchMoves(r, "video")
        BY <2>3 DEF FetchVideo, BranchMoves, BranchAt, Working
      <3> QED
        BY <2>0, <3>1 DEF SessionMove
    <2>4. CASE VideoFetched(r)
      <3>0. branch[r]["video"] = "fetch" /\ "video" \in wanted[r]
        BY <2>0, <2>4 DEF VideoFetched, BranchAt, Asked
      <3>1. BranchMoves(r, "video") \/ BranchSends(r, "video")
        BY <2>4, <3>0, OutcomeTypes DEF VideoFetched, BranchMoves, BranchSends, Working
      <3> QED
        BY <2>0, <3>1 DEF SessionMove
    <2>5. CASE VideoDetected(r)
      <3>0. branch[r]["video"] = "detect" /\ "video" \in wanted[r]
        BY <2>0, <2>5 DEF VideoDetected, BranchAt, Asked
      <3>1. BranchSends(r, "video")
        BY <2>5, <3>0, OutcomeTypes DEF VideoDetected, BranchSends, Working
      <3> QED
        BY <2>0, <3>1 DEF SessionMove
    <2>6. CASE AudioDetected(r)
      <3>1. BranchSends(r, "audio")
        BY <2>6, OutcomeTypes DEF AudioDetected, BranchSends, BranchAt, Working
      <3> QED
        BY <2>0, <3>1 DEF SessionMove
    <2>7. CASE Join(r) \/ Assess(r)
      BY <2>0, <2>7 DEF SessionMove
    <2> QED
      BY <1>2, <2>1, <2>2, <2>3, <2>4, <2>5, <2>6, <2>7 DEF AnalyzeSession, SessionStep
  <1>3. ASSUME NEW w \in Worker, Work(w) \/ Stray(w) PROVE SessionMove
    BY <1>3 DEF SessionMove, Work, Stray
  <1>4. ASSUME NEW f \in Fetcher, Fetching(f) PROVE SessionMove
    BY <1>4 DEF SessionMove, Fetching
  <1>5. MinutePasses \/ Stop \/ ClosePool \/ Restart => SessionMove
    BY DEF SessionMove, MinutePasses, Stop, ClosePool, Restart
  <1>6. Exit \/ Crash => SessionMove
    BY DEF SessionMove, SessionsEnd, Exit, Crash, ProcessEnds
  <1>7. UNCHANGED vars => SessionMove
    BY DEF SessionMove, vars
  <1> QED
    BY <1>1, <1>2, <1>3, <1>4, <1>5, <1>6, <1>7 DEF Next, RequestStep

\* What a response says is what the goroutines sent, and the inputs asked for are
\* those that sent a result or an error.
Told(r) ==
    /\ reply[r] = [status |-> Status(r, reply[r].temporal), results |-> Succeeded(r),
                   errors |-> Failed(r), temporal |-> reply[r].temporal,
                   risk |-> reply[r].risk]
    /\ reply[r].risk # NoRisk =>
          /\ reply[r].risk.verdict = Classify(SignalsOf(r))
          /\ reply[r].risk.sum = WeightedSum(SignalsOf(r))
          /\ reply[r].risk.weight = TotalWeight(SignalsOf(r))
    /\ reply[r].temporal = Analyze(outcome[r]["video"].frames)
    /\ \A m \in Input : Silent(r, m) <=> m \notin wanted[r]

Spoken(r, m) ==
    /\ branch[r][m] \in Working => Silent(r, m)
    /\ branch[r][m] = "sent" => (Silent(r, m) <=> m \notin wanted[r])
    /\ ~Silent(r, m) => m \in wanted[r]

ReplyFits(r) ==
    /\ wanted[r] = {} => reply[r] = NoReply /\ \A m \in Input : branch[r][m] = "none"
    /\ reply[r] # NoReply => Told(r) /\ \A m \in Input : branch[r][m] \in {"sent", "none"}

SessionInv ==
    /\ SessionTypeOK
    /\ reply = [r \in Session |-> reply[r]]
    /\ Asked
    /\ \A r \in Session, m \in Input : Spoken(r, m)
    /\ \A r \in Session : ReplyFits(r)

LEMMA SessionInvInit == Init => SessionInv
  <1> SUFFICES ASSUME Init PROVE SessionInv
    OBVIOUS
  <1>1. /\ wanted = [r \in Session |-> {}]
        /\ branch = [r \in Session |-> [m \in Input |-> "none"]]
        /\ outcome = [r \in Session |-> [m \in Input |-> Neither]]
        /\ reply = [r \in Session |-> NoReply]
    BY DEF Init, SessionInit
  <1>2. SessionTypeOK
    BY <1>1, OutcomeTypes DEF SessionTypeOK, NoReply
  <1>3. \A r \in Session, m \in Input : branch[r][m] = "none" /\ Silent(r, m)
    BY <1>1, OutcomeTypes DEF Silent
  <1> QED
    BY <1>1, <1>2, <1>3 DEF SessionInv, Asked, Spoken, ReplyFits, Working

\* What a session's response is about, for one that has not changed.
LEMMA ToldAsBefore ==
    ASSUME NEW r \in Session, Told(r), wanted'[r] = wanted[r], outcome'[r] = outcome[r],
           reply'[r] = reply[r]
    PROVE  Told(r)'
  BY DEF Told, Status, Succeeded, Failed, SignalsOf, Silent

\* A session that no step is about.
SameSession(r) == /\ wanted'[r] = wanted[r] /\ branch'[r] = branch[r]
                  /\ outcome'[r] = outcome[r] /\ reply'[r] = reply[r]

LEMMA SameSessionOK ==
    ASSUME NEW r \in Session, SameSession(r), ReplyFits(r), \A m \in Input : Spoken(r, m)
    PROVE  ReplyFits(r)' /\ \A m \in Input : Spoken(r, m)'
  BY ToldAsBefore DEF SameSession, ReplyFits, Spoken, Silent

\* The first response: what it says is what was sent.
LEMMA JoinTells ==
    ASSUME SessionInv, NEW r \in Session, Join(r)
    PROVE  /\ reply' = [q \in Session |-> reply'[q]]
           /\ \A q \in Session : q # r => reply'[q] = reply[q]
           /\ reply'[r].status \in {"completed", "partial", "failed"}
           /\ Told(r)'
  <1>1. PICK temporal \in {Analyze(outcome[r]["video"].frames)} :
           reply' = [reply EXCEPT ![r] =
                        [status |-> Status(r, temporal), results |-> Succeeded(r),
                         errors |-> Failed(r), temporal |-> temporal, risk |-> NoRisk]]
    BY DEF Join
  <1>2. wanted' = wanted /\ outcome' = outcome
    BY DEF Join
  <1>3. reply'[r] = [status |-> Status(r, temporal), results |-> Succeeded(r),
                     errors |-> Failed(r), temporal |-> temporal, risk |-> NoRisk]
    BY <1>1 DEF SessionInv
  <1>4. \A m \in Input : Silent(r, m) <=> m \notin wanted[r]
    BY DEF Join, SessionInv, Spoken, BranchAt
  <1>5. Status(r, temporal)' = Status(r, temporal) /\ Succeeded(r)' = Succeeded(r)
        /\ Failed(r)' = Failed(r)
    BY <1>2 DEF Status, Succeeded, Failed
  <1>6. reply'[r].temporal = temporal /\ reply'[r].risk = NoRisk
        /\ reply'[r].status = Status(r, temporal)
    BY <1>3
  <1>t. reply'[r].temporal = Analyze(outcome'[r]["video"].frames)
    BY <1>2, <1>6
  <1>7. Told(r)'
    BY <1>2, <1>3, <1>4, <1>5, <1>6, <1>t DEF Told, Silent, Status, Succeeded, Failed
  <1> QED
    BY <1>1, <1>6, <1>7 DEF SessionInv, Status

\* The response with its risk.
LEMMA AssessTells ==
    ASSUME SessionInv, NEW r \in Session, Assess(r)
    PROVE  /\ reply' = [q \in Session |-> reply'[q]]
           /\ \A q \in Session : q # r => reply'[q] = reply[q]
           /\ reply'[r].status = reply[r].status
           /\ Told(r)'
  <1> DEFINE risk == AssessSignals(SignalsOf(r), reply[r].errors)
  <1>1. reply' = [reply EXCEPT ![r].risk = risk] /\ wanted' = wanted /\ outcome' = outcome
    BY DEF Assess
  <1>2. Told(r)
    BY DEF Assess, SessionInv, ReplyFits
  <1>3. reply[r] = [status |-> Status(r, reply[r].temporal), results |-> Succeeded(r),
                    errors |-> Failed(r), temporal |-> reply[r].temporal,
                    risk |-> reply[r].risk]
    BY <1>2 DEF Told
  <1>4. reply'[r] = [reply[r] EXCEPT !.risk = risk]
    BY <1>1 DEF SessionInv
  <1>5. /\ risk.verdict = Classify(SignalsOf(r))
        /\ risk.sum = WeightedSum(SignalsOf(r))
        /\ risk.weight = TotalWeight(SignalsOf(r))
    BY DEF AssessSignals
  <1> HIDE DEF risk
  <1>6. /\ reply'[r] = [status |-> Status(r, reply[r].temporal), results |-> Succeeded(r),
                        errors |-> Failed(r), temporal |-> reply[r].temporal, risk |-> risk]
    BY <1>3, <1>4
  <1>7. reply'[r].temporal = reply[r].temporal /\ reply'[r].results = reply[r].results
        /\ reply'[r].risk = risk /\ reply'[r].status = reply[r].status
    BY <1>3, <1>6
  <1>8. SignalsOf(r)' = SignalsOf(r)
    BY <1>1, <1>7 DEF SignalsOf
  <1>9. Told(r)'
    BY <1>1, <1>2, <1>5, <1>6, <1>7, <1>8 DEF Told, Status, Succeeded, Failed, Silent
  <1> QED
    BY <1>1, <1>7, <1>9 DEF SessionInv

LEMMA SessionInvStep == SessionInv /\ [Next]_vars => SessionInv'
  <1> SUFFICES ASSUME SessionInv, [Next]_vars PROVE SessionInv'
    OBVIOUS
  <1>0. SessionMove
    BY SessionMoves DEF SessionInv
  <1>t. /\ wanted \in [Session -> SUBSET Input]
        /\ branch \in [Session -> [Input -> {"none", "start", "fetch", "detect", "sent"}]]
        /\ outcome \in [Session -> [Input -> Outcome]]
        /\ \A r \in Session : reply[r].status \in {"none", "completed", "partial", "failed"}
        /\ reply = [r \in Session |-> reply[r]]
        /\ Asked
        /\ \A r \in Session : ReplyFits(r) /\ \A m \in Input : Spoken(r, m)
    BY DEF SessionInv, SessionTypeOK
  <1>1. ASSUME NEW r \in Session, SessionBegins(r) PROVE SessionInv'
    <2>1. PICK inputs \in (SUBSET Input) \ {{}} : wanted' = [wanted EXCEPT ![r] = inputs]
      BY <1>1 DEF SessionBegins
    <2>2. /\ wanted[r] = {} /\ reply[r] = NoReply
          /\ branch' = [branch EXCEPT ![r] = [m \in Input |-> "start"]]
          /\ outcome' = outcome /\ reply' = reply
      BY <1>1, <1>t DEF SessionBegins, ReplyFits
    <2>3. \A q \in Session : q # r => SameSession(q)
      BY <1>t, <2>1, <2>2 DEF SameSession
    <2>4. \A m \in Input : Silent(r, m)
      BY <1>t, <2>2 DEF Spoken
    <2>5. wanted'[r] = inputs /\ \A m \in Input : branch'[r][m] = "start"
      BY <1>t, <2>1, <2>2
    <2>6. SessionTypeOK'
      BY <1>t, <2>1, <2>2 DEF SessionTypeOK
    <2>7. ReplyFits(r)' /\ \A m \in Input : Spoken(r, m)'
      <3>1. wanted'[r] # {} /\ reply'[r] = NoReply
        BY <2>1, <2>2, <2>5
      <3>2. \A m \in Input : branch'[r][m] # "sent" /\ outcome'[r][m].is = "neither"
        BY <2>2, <2>4, <2>5 DEF Silent
      <3> QED
        BY <3>1, <3>2 DEF ReplyFits, Spoken, Silent
    <2>8. Asked'
      BY <1>t, <2>3, <2>5 DEF Asked, SameSession
    <2> QED
      BY <1>t, <2>2, <2>3, <2>6, <2>7, <2>8, SameSessionOK DEF SessionInv
  <1>2. ASSUME NEW r \in Session, Join(r) \/ Assess(r) PROVE SessionInv'
    <2>1. /\ wanted' = wanted /\ branch' = branch /\ outcome' = outcome
      BY <1>2 DEF Join, Assess
    <2>2. /\ reply' = [q \in Session |-> reply'[q]]
          /\ \A q \in Session : q # r => reply'[q] = reply[q]
          /\ reply'[r].status \in {"none", "completed", "partial", "failed"}
          /\ Told(r)'
      BY <1>2, <1>t, JoinTells, AssessTells
    <2>3. \A q \in Session : q # r => SameSession(q)
      BY <2>1, <2>2 DEF SameSession
    <2>4. /\ wanted[r] # {} /\ \A m \in Input : branch[r][m] \in {"sent", "none"}
      <3>1. CASE Join(r)
        BY <1>t, <3>1 DEF Join, BranchAt, ReplyFits, Input
      <3>2. CASE Assess(r)
        BY <1>t, <3>2 DEF Assess, ReplyFits
      <3> QED
        BY <1>2, <3>1, <3>2
    <2>5. ReplyFits(r)' /\ \A m \in Input : Spoken(r, m)'
      BY <1>t, <2>1, <2>2, <2>4 DEF ReplyFits, Spoken, Silent
    <2>6. SessionTypeOK'
      BY <1>t, <2>1, <2>2 DEF SessionTypeOK
    <2>7. Asked'
      BY <1>t, <2>1 DEF Asked
    <2> QED
      BY <1>t, <2>2, <2>3, <2>5, <2>6, <2>7, SameSessionOK DEF SessionInv
  <1>3. ASSUME NEW r \in Session, NEW m \in Input, BranchMoves(r, m) \/ BranchSends(r, m)
        PROVE  SessionInv'
    <2>1. wanted' = wanted /\ reply' = reply /\ branch[r][m] \in Working
      BY <1>3 DEF BranchMoves, BranchSends
    <2>2. reply[r] = NoReply /\ wanted[r] # {}
      BY <1>t, <2>1 DEF ReplyFits, Working
    <2>3. Silent(r, m)
      BY <1>t, <2>1 DEF Spoken
    <2>4. CASE BranchMoves(r, m)
      <3>1. PICK label \in {"fetch", "detect"} : branch' = [branch EXCEPT ![r][m] = label]
        BY <2>4 DEF BranchMoves, BranchGoTo
      <3>2. outcome' = outcome /\ m \in wanted[r]
        BY <2>4 DEF BranchMoves
      <3>3. /\ branch'[r][m] = label
            /\ \A n \in Input : n # m => branch'[r][n] = branch[r][n]
            /\ \A q \in Session : q # r => branch'[q] = branch[q]
        BY <1>t, <3>1
      <3>4. \A q \in Session : q # r => SameSession(q)
        BY <2>1, <3>2, <3>3 DEF SameSession
      <3>5. ReplyFits(r)' /\ \A n \in Input : Spoken(r, n)'
        BY <1>t, <2>1, <2>2, <2>3, <3>2, <3>3 DEF ReplyFits, Spoken, Silent
      <3>6. SessionTypeOK'
        BY <1>t, <2>1, <3>1, <3>2 DEF SessionTypeOK
      <3>7. Asked'
        BY <1>t, <2>1, <3>2, <3>3 DEF Asked
      <3> QED
        BY <1>t, <2>1, <3>4, <3>5, <3>6, <3>7, SameSessionOK DEF SessionInv
    <2>5. CASE BranchSends(r, m)
      <3>1. PICK result \in Outcome : /\ result.is = "neither" <=> m \notin wanted[r]
                                      /\ Send(r, m, result)
        BY <2>5 DEF BranchSends
      <3>2. /\ branch' = [branch EXCEPT ![r][m] = "sent"]
            /\ outcome' = [outcome EXCEPT ![r][m] = result]
        BY <3>1 DEF Send, BranchGoTo
      <3>3. /\ branch'[r][m] = "sent" /\ outcome'[r][m] = result
            /\ \A n \in Input : n # m => branch'[r][n] = branch[r][n] /\ outcome'[r][n] = outcome[r][n]
            /\ \A q \in Session : q # r => branch'[q] = branch[q] /\ outcome'[q] = outcome[q]
        BY <1>t, <3>2
      <3>4. \A q \in Session : q # r => SameSession(q)
        BY <2>1, <3>3 DEF SameSession
      <3>5. ReplyFits(r)' /\ \A n \in Input : Spoken(r, n)'
        BY <1>t, <2>1, <2>2, <2>3, <3>1, <3>3 DEF ReplyFits, Spoken, Silent, Working
      <3>6. SessionTypeOK'
        BY <1>t, <2>1, <3>2 DEF SessionTypeOK
      <3>7. Asked'
        BY <1>t, <2>1, <3>3 DEF Asked
      <3> QED
        BY <1>t, <2>1, <3>4, <3>5, <3>6, <3>7, SameSessionOK DEF SessionInv
    <2> QED
      BY <1>3, <2>4, <2>5
  <1>4. CASE SessionsEnd
    <2>1. /\ branch' = [r \in Session |-> [m \in Input |-> "none"]]
          /\ reply' = [r \in Session |-> IF Replied(r) THEN reply[r] ELSE NoReply]
          /\ wanted' = wanted /\ outcome' = outcome
      BY <1>4 DEF SessionsEnd
    <2>2. SessionTypeOK'
      BY <1>t, <2>1 DEF SessionTypeOK, NoReply
    <2>3. Asked' /\ \A r \in Session, m \in Input : Spoken(r, m)'
      BY <1>t, <2>1 DEF Asked, Spoken, Silent, Working
    <2>4. ASSUME NEW r \in Session PROVE ReplyFits(r)'
      <3>1. CASE Replied(r)
        BY <1>t, <2>1, <3>1, ToldAsBefore DEF ReplyFits, Replied
      <3>2. CASE ~Replied(r)
        BY <2>1, <3>2 DEF ReplyFits
      <3> QED
        BY <3>1, <3>2
    <2> QED
      BY <2>1, <2>2, <2>3, <2>4 DEF SessionInv
  <1>5. CASE UNCHANGED sessionVars
    <2>1. wanted' = wanted /\ branch' = branch /\ outcome' = outcome /\ reply' = reply
      BY <1>5 DEF sessionVars
    <2>2. \A r \in Session : SameSession(r)
      BY <2>1 DEF SameSession
    <2>3. SessionTypeOK' /\ Asked'
      BY <1>t, <2>1 DEF SessionTypeOK, Asked
    <2> QED
      BY <1>t, <2>1, <2>2, <2>3, SameSessionOK DEF SessionInv
  <1> QED
    BY <1>0, <1>1, <1>2, <1>3, <1>4, <1>5 DEF SessionMove

LEMMA SessionInvAlways == Spec => []SessionInv
  BY SessionInvInit, SessionInvStep, PTL DEF Spec

\* A session is reported as failed exactly if nothing is left to assess its risk from,
\* wherever its goroutines failed and whatever clip the detector saw
\* (session/service.go, buildSession; risk/verdict.go, classify).
THEOREM NothingKnownIsFailed == Spec => []FailedIffUnknown
  <1>1. SessionInv => FailedIffUnknown
    <2> SUFFICES ASSUME SessionInv, NEW r \in Answers
                 PROVE  reply[r].status = "failed" <=> reply[r].risk.verdict = "UNKNOWN"
      BY DEF FailedIffUnknown
    <2>1. r \in Session /\ reply[r] # NoReply /\ reply[r].risk # NoRisk
      BY DEF Answers, Replied
    <2>2. Told(r) /\ wanted[r] # {} /\ wanted[r] \subseteq Input
      BY <2>1 DEF SessionInv, ReplyFits, SessionTypeOK
    <2>3. /\ reply[r].status = Status(r, reply[r].temporal) /\ reply[r].results = Succeeded(r)
          /\ reply[r].risk.verdict = Classify(SignalsOf(r))
      <3> DEFINE said == [status |-> Status(r, reply[r].temporal), results |-> Succeeded(r),
                          errors |-> Failed(r), temporal |-> reply[r].temporal,
                          risk |-> reply[r].risk]
      <3>1. reply[r] = said
        BY <2>2 DEF Told
      <3>2. said.status = Status(r, reply[r].temporal) /\ said.results = Succeeded(r)
        OBVIOUS
      <3> HIDE DEF said
      <3> QED
        BY <2>1, <2>2, <3>1, <3>2 DEF Told
    <2>4. DOMAIN SignalsOf(r) = Succeeded(r) \union
              (IF reply[r].temporal # NoTemporal THEN {"temporal"} ELSE {})
      BY <2>3 DEF SignalsOf
    <2>5. DOMAIN SignalsOf(r) \subseteq Signal
      BY <2>4 DEF Succeeded, Input, Signal
    <2>6. Classify(SignalsOf(r)) = "UNKNOWN" <=> DOMAIN SignalsOf(r) = {}
      BY <2>5, OnlySilenceIsUnknown
    <2>7. Succeeded(r) = {} => Failed(r) # {}
      <3>1. PICK m \in Input : m \in wanted[r]
        BY <2>2
      <3>2. outcome[r][m].is # "neither" /\ outcome[r][m] \in Outcome
        BY <2>1, <2>2, <3>1 DEF Told, Silent, SessionInv, SessionTypeOK
      <3>3. outcome[r][m].is \in {"neither", "error", "result"}
        BY <3>2 DEF Outcome, Neither, Failure, Result
      <3> QED
        BY <3>2, <3>3 DEF Succeeded, Failed
    <2> QED
      BY <2>3, <2>4, <2>6, <2>7 DEF Status
  <1> QED
    BY <1>1, SessionInvAlways, PTL

\* What a goroutine came back with is on the scale, and its clip is one of frames.
LEMMA OutcomeScores ==
    ASSUME NEW result \in Outcome
    PROVE  result.score \in Score /\ result.frames \in Seq(Frame)
  <1>1. 0 \in Score /\ <<>> \in Seq(Frame)
    BY ScoresAssumption DEF Score
  <1>2. \A clip \in Clips : clip.score \in Score /\ clip.frames \in Seq(Frame)
    BY SessionAssumption
  <1>3. AudioScores \subseteq Score
    BY SessionAssumption
  <1>4. /\ Neither.score = 0 /\ Neither.frames = <<>>
        /\ Failure.score = 0 /\ Failure.frames = <<>>
    BY DEF Neither, Failure
  <1>5. \A score, frames : /\ Result(score, frames).score = score
                          /\ Result(score, frames).frames = frames
    BY DEF Result
  <1>6. CASE result \in {Neither, Failure}
    BY <1>1, <1>4, <1>6
  <1>7. CASE \E clip \in Clips : result = Result(clip.score, clip.frames)
    <2>1. PICK clip \in Clips : result = Result(clip.score, clip.frames)
      BY <1>7
    <2>2. result.score = clip.score /\ result.frames = clip.frames
      BY <1>5, <2>1
    <2> QED
      BY <1>2, <2>2
  <1>8. CASE \E score \in AudioScores : result = Result(score, <<>>)
    <2>1. PICK score \in AudioScores : result = Result(score, <<>>)
      BY <1>8
    <2>2. result.score = score /\ result.frames = <<>>
      BY <1>5, <2>1
    <2> QED
      BY <1>1, <1>3, <2>2
  <1> QED
    BY <1>6, <1>7, <1>8 DEF Outcome

\* The signals of a session that has a response are those of the risk engine.
LEMMA SignalsOfAreSignals ==
    ASSUME SessionInv, NEW r \in Session, reply[r] # NoReply
    PROVE  SignalsOf(r) \in Signals
  <1>1. Told(r)
    BY DEF SessionInv, ReplyFits
  <1>2. reply[r].results = Succeeded(r)
    <2> DEFINE said == [status |-> Status(r, reply[r].temporal), results |-> Succeeded(r),
                        errors |-> Failed(r), temporal |-> reply[r].temporal,
                        risk |-> reply[r].risk]
    <2>1. reply[r] = said
      BY <1>1 DEF Told
    <2>2. said.results = Succeeded(r)
      OBVIOUS
    <2> HIDE DEF said
    <2> QED
      BY <2>1, <2>2
  <1>3. \A m \in Input : /\ outcome[r][m].score \in Score
                         /\ outcome[r][m].frames \in Seq(Frame)
    BY OutcomeScores DEF SessionInv, SessionTypeOK
  <1>4. reply[r].temporal.score \in Score
    BY <1>1, <1>3, TemporalScoreIsScore DEF Told, Input
  <1> DEFINE present == Succeeded(r) \union
                          (IF reply[r].temporal # NoTemporal THEN {"temporal"} ELSE {})
  <1>5. present \in SUBSET Signal
    BY DEF Succeeded, Input, Signal
  <1>6. \A s \in present : s # "temporal" => s \in Input
    BY DEF Succeeded
  <1> HIDE DEF present
  <1>7. SignalsOf(r) = [s \in present |->
                          IF s = "temporal" THEN reply[r].temporal.score ELSE outcome[r][s].score]
    BY <1>2 DEF SignalsOf, present
  <1>8. SignalsOf(r) \in [present -> Score]
    BY <1>3, <1>4, <1>6, <1>7
  <1> QED
    BY <1>5, <1>8 DEF Signals

\* The risk in every response lies between the least and the greatest of the scores
\* that were reported, for every clip and whichever signals are missing
\* (risk/score.go, weightedScore; session/service.go, buildSession).
THEOREM RiskIsWithinReported == Spec => []RiskWithinReported
  <1>1. SessionInv => RiskWithinReported
    <2> SUFFICES ASSUME SessionInv, NEW r \in Answers,
                        NEW low \in DOMAIN SignalsOf(r), NEW high \in DOMAIN SignalsOf(r),
                        \A s \in DOMAIN SignalsOf(r) :
                           SignalsOf(r)[low] <= SignalsOf(r)[s] /\ SignalsOf(r)[s] <= SignalsOf(r)[high]
                 PROVE  /\ SignalsOf(r)[low] * reply[r].risk.weight <= reply[r].risk.sum
                        /\ reply[r].risk.sum <= SignalsOf(r)[high] * reply[r].risk.weight
      BY DEF RiskWithinReported
    <2>1. r \in Session /\ reply[r] # NoReply /\ reply[r].risk # NoRisk
      BY DEF Answers, Replied
    <2>2. /\ reply[r].risk.sum = WeightedSum(SignalsOf(r))
          /\ reply[r].risk.weight = TotalWeight(SignalsOf(r))
      BY <2>1 DEF SessionInv, ReplyFits, Told
    <2>3. PICK sig \in Signals : sig = SignalsOf(r)
      BY <2>1, SignalsOfAreSignals
    <2>4. sig[low] \in Int /\ sig[high] \in Int
      BY <2>3, SignalType, ScoresAssumption DEF Score
    <2>5. \A s \in DOMAIN sig : sig[low] <= sig[s] /\ sig[s] <= sig[high]
      BY <2>3
    <2>6. /\ sig[low] * TotalWeight(sig) <= WeightedSum(sig)
          /\ WeightedSum(sig) <= sig[high] * TotalWeight(sig)
      BY <2>4, <2>5, RiskIsWithin
    <2> QED
      BY <2>2, <2>3, <2>6
  <1> QED
    BY <1>1, SessionInvAlways, PTL

\* No component of a temporal score in any response needed its clamp, for every clip
\* that a detector can see (temporal/features.go, analyzer.go, clamp01).
THEOREM NoClampBites == Spec => []ClampsNeverBite
  <1>1. SessionInv => ClampsNeverBite
    <2> SUFFICES ASSUME SessionInv, NEW r \in Answers, Len(outcome[r]["video"].frames) >= 2,
                        NEW c \in 1 .. 3
                 PROVE  Components(outcome[r]["video"].frames)[c] \in Score
      BY DEF ClampsNeverBite
    <2>1. outcome[r]["video"].frames \in Seq(Frame)
      BY OutcomeScores DEF SessionInv, SessionTypeOK, Answers, Input
    <2> QED
      BY <2>1, ComponentsAreScores
  <1> QED
    BY <1>1, SessionInvAlways, PTL

\* No result is ever taken back, and none is missing from the response, whatever
\* becomes of the other input: that is in the response as an error exactly if it was
\* asked for and has no result (session/service.go, Analyze).
THEOREM NoResultIsDiscarded == Spec => ReplyKeepsWhatSucceeded
  <1>1. SessionInv /\ SessionInv' /\ [Next]_vars =>
            [\A r \in Session :
                /\ Returned(r) \subseteq Returned(r)'
                /\ reply'[r] # NoReply =>
                      /\ reply'[r].results = Returned(r)'
                      /\ reply'[r].errors = wanted[r] \ Returned(r)']_vars
    <2> SUFFICES ASSUME SessionInv, SessionInv', [Next]_vars, NEW r \in Session
                 PROVE  /\ Returned(r) \subseteq Returned(r)'
                        /\ reply'[r] # NoReply =>
                              /\ reply'[r].results = Returned(r)'
                              /\ reply'[r].errors = wanted[r] \ Returned(r)'
      OBVIOUS
    <2>0. SessionMove
      BY SessionMoves DEF SessionInv
    <2>1. Returned(r) \subseteq Returned(r)'
      <3>1. ASSUME NEW q \in Session, NEW m \in Input, BranchSends(q, m)
            PROVE  Returned(r) \subseteq Returned(r)'
        <4>1. outcome[q][m].is = "neither"
          BY <3>1 DEF BranchSends, SessionInv, Spoken, Silent
        <4>2. PICK result \in Outcome : outcome' = [outcome EXCEPT ![q][m] = result]
          BY <3>1 DEF BranchSends, Send
        <4>3. \A n \in Input : (q # r \/ n # m) => outcome'[r][n] = outcome[r][n]
          BY <4>2 DEF SessionInv, SessionTypeOK
        <4> QED
          BY <4>1, <4>3 DEF Returned
      <3>2. UNCHANGED outcome => Returned(r) \subseteq Returned(r)'
        BY DEF Returned
      <3> QED
        BY <2>0, <3>1, <3>2 DEF SessionMove, SessionBegins, BranchMoves, Join, Assess, SessionsEnd,
                                sessionVars
    <2>2. ASSUME reply'[r] # NoReply PROVE wanted'[r] = wanted[r]
      <3>1. ASSUME NEW q \in Session, SessionBegins(q) PROVE wanted'[r] = wanted[r]
        <4>1. q # r
          BY <2>2, <3>1 DEF SessionBegins, SessionInv, ReplyFits
        <4> QED
          BY <3>1, <4>1 DEF SessionBegins, SessionInv, SessionTypeOK
      <3> QED
        BY <2>0, <3>1 DEF SessionMove, BranchMoves, BranchSends, Join, Assess, SessionsEnd,
                          sessionVars
    <2>3. ASSUME reply'[r] # NoReply
          PROVE  /\ reply'[r].results = Returned(r)' /\ reply'[r].errors = wanted[r] \ Returned(r)'
      <3>1. Told(r)' /\ outcome' \in [Session -> [Input -> Outcome]] /\ wanted'[r] \subseteq Input
        BY <2>3 DEF SessionInv, ReplyFits, SessionTypeOK
      <3>2. reply'[r].results = Succeeded(r)' /\ reply'[r].errors = Failed(r)'
        <4> DEFINE said == [status |-> Status(r, reply[r].temporal)', results |-> Succeeded(r)',
                            errors |-> Failed(r)', temporal |-> reply'[r].temporal,
                            risk |-> reply'[r].risk]
        <4>1. reply'[r] = said
          BY <3>1 DEF Told
        <4>2. said.results = Succeeded(r)' /\ said.errors = Failed(r)'
          OBVIOUS
        <4> HIDE DEF said
        <4> QED
          BY <4>1, <4>2
      <3>3. Succeeded(r)' = Returned(r)'
        BY DEF Succeeded, Returned
      <3>4. \A m \in Input : outcome'[r][m].is \in {"neither", "error", "result"}
        BY <3>1 DEF Outcome, Neither, Failure, Result
      <3>5. Failed(r)' = wanted'[r] \ Returned(r)'
        BY <3>1, <3>4 DEF Told, Silent, Failed, Returned
      <3> QED
        BY <2>2, <2>3, <3>2, <3>3, <3>5
    <2> QED
      BY <2>1, <2>3
  <1> QED
    BY <1>1, SessionInvAlways, PTL DEF Spec, ReplyKeepsWhatSucceeded

----------------------------------------------------------------------------
(* Types.                                                                  *)

LifeTypeOK ==
    /\ outages \in 0 .. MaxOutages
    /\ gateway \in {"up", "draining", "closing", "down"}
    /\ crashes \in 0 .. MaxCrashes
    /\ stops \in 0 .. MaxStops

LEMMA OutageMoves == [Next]_vars => UNCHANGED outages \/ Outage
  <1>1. ASSUME NEW r \in Request, Arrive(r) \/ AnalyzeSession(r) \/ RecordExpires(r)
        PROVE  UNCHANGED outages \/ Outage
    BY <1>1 DEF Arrive, AnalyzeSession, RecordExpires, Expire
  <1>2. ASSUME NEW r \in Request, Gate(r) PROVE UNCHANGED outages \/ Outage
    BY <1>2 DEF Gate, CountRequest, Answered
  <1>3. ASSUME NEW r \in Request, Analyze_(r) PROVE UNCHANGED outages \/ Outage
    BY <1>3 DEF Analyze_, Enter, SubmitStep, PutQueued, CheckLength, Push, MarkRejected,
                PutBestEffort, Answered
  <1>4. ASSUME NEW w \in Worker, Work(w) \/ Stray(w) PROVE UNCHANGED outages \/ Outage
    BY <1>4 DEF Work, Stray, Pop, Leave, RunJob, StrayPop, Load, Mark, Fetched, Detected,
                StoreVerdict, PutBestEffort, Answered
  <1>5. ASSUME NEW f \in Fetcher, Fetching(f) PROVE UNCHANGED outages
    BY <1>5 DEF Fetching
  <1>6. MinutePasses \/ Stop \/ ClosePool \/ Exit \/ Crash \/ Restart => UNCHANGED outages
    BY DEF MinutePasses, Stop, ClosePool, Exit, Crash, Restart
  <1>7. UNCHANGED vars => UNCHANGED outages
    BY DEF vars
  <1> QED
    BY <1>1, <1>2, <1>3, <1>4, <1>5, <1>6, <1>7 DEF Next, RequestStep

LEMMA LifeTypeInit == Init => LifeTypeOK
  BY OutagesAssumption, LifeAssumption DEF Init, LifeTypeOK

LEMMA LifeTypeStep == LifeTypeOK /\ [Next]_vars => LifeTypeOK'
  <1> SUFFICES ASSUME LifeTypeOK, [Next]_vars PROVE LifeTypeOK'
    OBVIOUS
  <1>1. outages' \in 0 .. MaxOutages
    BY OutageMoves, OutagesAssumption DEF LifeTypeOK, Outage
  <1>2. (gateway' = gateway /\ crashes' = crashes /\ stops' = stops)
            \/ Stop \/ ClosePool \/ Exit \/ Crash \/ Restart
    BY DEF Next, RequestStep, Arrive, Gate, Analyze_, AnalyzeSession, RecordExpires, Work, Stray,
           Fetching, MinutePasses, lifeVars, vars
  <1>3. /\ gateway' \in {"up", "draining", "closing", "down"}
        /\ crashes' \in 0 .. MaxCrashes /\ stops' \in 0 .. MaxStops
    BY <1>2, LifeAssumption DEF LifeTypeOK, Stop, ClosePool, Exit, Crash, Restart, ProcessEnds
  <1> QED
    BY <1>1, <1>3 DEF LifeTypeOK

\* Every variable has its type, whichever of the two endpoints, the fetcher, the rate
\* limiter and the process moves.
THEOREM OlderTypeCorrect == Spec => []OlderTypeOK
  <1>1. LifeTypeOK /\ LimitInv /\ FetchInv /\ PoolInv /\ SessionInv => OlderTypeOK
    BY DEF LifeTypeOK, LimitInv, FetchInv, PoolInv, PoolOK, SessionInv, OlderTypeOK
  <1>2. Spec => []LifeTypeOK
    BY LifeTypeInit, LifeTypeStep, PTL DEF Spec
  <1>3. Spec => []LimitInv
    BY LimitInvInit, LimitInvStep, PTL DEF Spec
  <1> QED
    BY <1>1, <1>2, <1>3, FetchInvAlways, PoolInvAlways, SessionInvAlways, PTL
=============================================================================
