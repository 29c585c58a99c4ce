-------------------------- MODULE RiskEngineProofs --------------------------
(***************************************************************************)
(* What the risk engine computes, for every scale of scores and every      *)
(* combination of signals: the risk lies between the scores it combines,   *)
(* no verdict gets milder as a score rises, and only silence is UNKNOWN.   *)
(* And what the temporal analyzer that gives it one of its signals does,   *)
(* for every clip: no component leaves the scale that it is clamped to.    *)
(***************************************************************************)
EXTENDS RiskEngine, TemporalAnalyzer, SequenceLemmas, TLAPS

\* How severe a verdict is.
Severity(verdict) ==
    CASE verdict = "LIKELY_FAKE" -> 3
      [] verdict = "SUSPICIOUS" -> 2
      [] verdict = "LIKELY_AUTHENTIC" -> 1
      [] verdict = "UNKNOWN" -> 0

----------------------------------------------------------------------------
\* A signal's score is a score, as far as it is present.
LEMMA SignalType ==
    ASSUME NEW sig \in Signals
    PROVE  /\ DOMAIN sig \subseteq Signal
           /\ \A s \in DOMAIN sig : sig[s] \in Score
  BY DEF Signals

\* Both sums are naturals.
LEMMA SumTypes ==
    ASSUME NEW sig \in Signals
    PROVE  /\ TotalWeight(sig) \in Nat
           /\ WeightedSum(sig) \in Nat
           /\ \A s \in Signal : Term(sig, s) \in Nat /\ WeightOf(sig, s) \in Nat
  <1>1. \A s \in Signal : WeightOf(sig, s) \in Nat
    BY DEF WeightOf, Weight, Signal
  <1>2. \A s \in Signal : Term(sig, s) \in Nat
    <2> TAKE s \in Signal
    <2>1. CASE s \in DOMAIN sig
      <3>1. sig[s] \in Nat
        BY <2>1, SignalType, ScoresAssumption DEF Score
      <3>2. Weight[s] \in Nat
        BY DEF Weight, Signal
      <3> QED
        BY <3>1, <3>2, <2>1 DEF Term
    <2>2. CASE s \notin DOMAIN sig
      BY <2>2 DEF Term
    <2> QED
      BY <2>1, <2>2
  <1> QED
    BY <1>1, <1>2 DEF TotalWeight, WeightedSum, Signal

----------------------------------------------------------------------------
\* The risk is never below a score that none of the signals is below, nor above one
\* that none is above, whichever signals are missing: the weights of those present
\* are normalized by their own sum (score.go, weightedScore).
THEOREM RiskIsWithin ==
    ASSUME NEW sig \in Signals, NEW low \in Int, NEW high \in Int,
           \A s \in DOMAIN sig : low <= sig[s] /\ sig[s] <= high
    PROVE  /\ low * TotalWeight(sig) <= WeightedSum(sig)
           /\ WeightedSum(sig) <= high * TotalWeight(sig)
  <1>1. \A s \in Signal : /\ low * WeightOf(sig, s) <= Term(sig, s)
                          /\ Term(sig, s) <= high * WeightOf(sig, s)
    <2> TAKE s \in Signal
    <2>1. CASE s \in DOMAIN sig
      <3>1. sig[s] \in Int
        BY <2>1, SignalType, ScoresAssumption DEF Score
      <3>2. /\ Weight["video"] = 40
            /\ Weight["audio"] = 35
            /\ Weight["temporal"] = 25
        BY DEF Weight
      <3>3. Term(sig, s) = sig[s] * Weight[s] /\ WeightOf(sig, s) = Weight[s]
        BY <2>1 DEF Term, WeightOf
      <3>4. low <= sig[s] /\ sig[s] <= high
        BY <2>1
      <3> QED
        BY <3>1, <3>2, <3>3, <3>4 DEF Signal
    <2>2. CASE s \notin DOMAIN sig
      BY <2>2 DEF Term, WeightOf
    <2> QED
      BY <2>1, <2>2
  <1>2. \A s \in Signal : Term(sig, s) \in Int /\ WeightOf(sig, s) \in Int
    BY SumTypes
  <1>3. "video" \in Signal /\ "audio" \in Signal /\ "temporal" \in Signal
    BY DEF Signal
  <1>4. low * TotalWeight(sig) = low * WeightOf(sig, "video") + low * WeightOf(sig, "audio")
                                     + low * WeightOf(sig, "temporal")
    BY <1>2, <1>3 DEF TotalWeight
  <1>5. high * TotalWeight(sig) = high * WeightOf(sig, "video") + high * WeightOf(sig, "audio")
                                      + high * WeightOf(sig, "temporal")
    BY <1>2, <1>3 DEF TotalWeight
  <1> HIDE DEF Term, WeightOf
  <1> DEFINE lv == low * WeightOf(sig, "video")
             la == low * WeightOf(sig, "audio")
             lt == low * WeightOf(sig, "temporal")
             hv == high * WeightOf(sig, "video")
             ha == high * WeightOf(sig, "audio")
             ht == high * WeightOf(sig, "temporal")
  <1>6. lv \in Int /\ la \in Int /\ lt \in Int /\ hv \in Int /\ ha \in Int /\ ht \in Int
    BY <1>2, <1>3
  <1>7. /\ lv <= Term(sig, "video") /\ Term(sig, "video") <= hv
        /\ la <= Term(sig, "audio") /\ Term(sig, "audio") <= ha
        /\ lt <= Term(sig, "temporal") /\ Term(sig, "temporal") <= ht
    BY <1>1, <1>3
  <1> HIDE DEF lv, la, lt, hv, ha, ht
  <1>8. /\ lv + la + lt <= Term(sig, "video") + Term(sig, "audio") + Term(sig, "temporal")
        /\ Term(sig, "video") + Term(sig, "audio") + Term(sig, "temporal") <= hv + ha + ht
    BY <1>2, <1>3, <1>6, <1>7
  <1> QED
    BY <1>4, <1>5, <1>8 DEF WeightedSum, lv, la, lt, hv, ha, ht

\* Only when no signal reported anything is there no verdict (verdict.go, classify).
THEOREM OnlySilenceIsUnknown ==
    ASSUME NEW sig, DOMAIN sig \subseteq Signal
    PROVE  Classify(sig) = "UNKNOWN" <=> DOMAIN sig = {}
  <1>1. TotalWeight(sig) = 0 <=> DOMAIN sig = {}
    <2>1. \A s \in Signal : WeightOf(sig, s) \in Nat /\ (WeightOf(sig, s) = 0 <=> s \notin DOMAIN sig)
      BY DEF WeightOf, Weight, Signal
    <2>2. DOMAIN sig = {} <=> \A s \in Signal : s \notin DOMAIN sig
      OBVIOUS
    <2>3. DOMAIN sig = {} <=> \A s \in Signal : WeightOf(sig, s) = 0
      BY <2>1, <2>2
    <2>4. /\ WeightOf(sig, "video") \in Nat
          /\ WeightOf(sig, "audio") \in Nat
          /\ WeightOf(sig, "temporal") \in Nat
      BY <2>1 DEF Signal
    <2>5. (\A s \in Signal : WeightOf(sig, s) = 0)
              <=> /\ WeightOf(sig, "video") = 0
                  /\ WeightOf(sig, "audio") = 0
                  /\ WeightOf(sig, "temporal") = 0
      BY DEF Signal
    <2> QED
      BY <2>3, <2>4, <2>5 DEF TotalWeight
  <1> QED
    BY <1>1 DEF Classify

\* A signal's score that rises never makes the verdict milder, the same signals being
\* present (verdict.go, classify).
THEOREM VerdictIsMonotone ==
    ASSUME NEW sig \in Signals, NEW higher \in Signals, DOMAIN higher = DOMAIN sig,
           \A s \in DOMAIN sig : sig[s] <= higher[s]
    PROVE  Severity(Classify(sig)) <= Severity(Classify(higher))
  <1>1. TotalWeight(higher) = TotalWeight(sig)
    BY DEF TotalWeight, WeightOf
  <1>2. \A s \in Signal : Term(sig, s) <= Term(higher, s)
    <2> TAKE s \in Signal
    <2>1. CASE s \in DOMAIN sig
      <3>1. sig[s] \in Int /\ higher[s] \in Int /\ sig[s] <= higher[s]
        BY <2>1, SignalType, ScoresAssumption DEF Score
      <3>2. /\ Weight["video"] = 40
            /\ Weight["audio"] = 35
            /\ Weight["temporal"] = 25
        BY DEF Weight
      <3>3. Term(sig, s) = sig[s] * Weight[s] /\ Term(higher, s) = higher[s] * Weight[s]
        BY <2>1 DEF Term
      <3> QED
        BY <3>1, <3>2, <3>3 DEF Signal
    <2>2. CASE s \notin DOMAIN sig
      BY <2>2 DEF Term
    <2> QED
      BY <2>1, <2>2
  <1>3. WeightedSum(sig) <= WeightedSum(higher)
    <2>1. \A s \in Signal : Term(sig, s) \in Nat /\ Term(higher, s) \in Nat
      BY SumTypes
    <2> QED
      BY <1>2, <2>1 DEF WeightedSum, Signal
  <1>4. \A percent \in {SuspiciousPercent, LikelyFakePercent} :
           AtLeast(sig, percent) => AtLeast(higher, percent)
    <2> TAKE percent \in {SuspiciousPercent, LikelyFakePercent}
    <2> HAVE AtLeast(sig, percent)
    <2>1. WeightedSum(sig) \in Nat /\ WeightedSum(higher) \in Nat
      BY SumTypes
    <2>2. 100 * WeightedSum(sig) <= 100 * WeightedSum(higher)
      BY <1>3, <2>1
    <2>3. percent * (Full * TotalWeight(sig)) \in Int
      BY SumTypes, ScoresAssumption DEF SuspiciousPercent, LikelyFakePercent
    <2> QED
      BY <1>1, <2>1, <2>2, <2>3 DEF AtLeast
  <1>5. AtLeast(sig, LikelyFakePercent) => AtLeast(higher, LikelyFakePercent)
    BY <1>4
  <1>6. AtLeast(sig, SuspiciousPercent) => AtLeast(higher, SuspiciousPercent)
    BY <1>4
  <1> QED
    BY <1>1, <1>5, <1>6 DEF Classify, Severity

\* When every signal that is present is at or beyond the threshold of LIKELY_FAKE, so
\* is the verdict: the signals that are missing do not dilute it (verdict.go, classify;
\* score.go: a missing signal is "excluded entirely").
THEOREM UnanimousSignalsDecide ==
    ASSUME NEW sig \in Signals, DOMAIN sig # {},
           \A s \in DOMAIN sig : 100 * sig[s] >= LikelyFakePercent * Full
    PROVE  Classify(sig) = "LIKELY_FAKE"
  <1>1. \A s \in Signal : 100 * Term(sig, s) >= LikelyFakePercent * (Full * WeightOf(sig, s))
    <2> TAKE s \in Signal
    <2>1. CASE s \in DOMAIN sig
      <3>1. sig[s] \in Int /\ Full \in Int /\ 100 * sig[s] >= 70 * Full
        BY <2>1, SignalType, ScoresAssumption DEF Score, LikelyFakePercent
      <3>2. /\ Weight["video"] = 40
            /\ Weight["audio"] = 35
            /\ Weight["temporal"] = 25
        BY DEF Weight
      <3>3. Term(sig, s) = sig[s] * Weight[s] /\ WeightOf(sig, s) = Weight[s]
        BY <2>1 DEF Term, WeightOf
      <3> QED
        BY <3>1, <3>2, <3>3 DEF Signal, LikelyFakePercent
    <2>2. CASE s \notin DOMAIN sig
      BY <2>2, ScoresAssumption DEF Term, WeightOf, LikelyFakePercent
    <2> QED
      BY <2>1, <2>2
  <1>2. /\ Term(sig, "video") \in Int /\ Term(sig, "audio") \in Int /\ Term(sig, "temporal") \in Int
        /\ WeightOf(sig, "video") \in Int /\ WeightOf(sig, "audio") \in Int
        /\ WeightOf(sig, "temporal") \in Int
    BY SumTypes DEF Signal
  <1>3. /\ 100 * Term(sig, "video") >= 70 * (Full * WeightOf(sig, "video"))
        /\ 100 * Term(sig, "audio") >= 70 * (Full * WeightOf(sig, "audio"))
        /\ 100 * Term(sig, "temporal") >= 70 * (Full * WeightOf(sig, "temporal"))
    BY <1>1 DEF Signal, LikelyFakePercent
  <1>4. Full * TotalWeight(sig) = Full * WeightOf(sig, "video") + Full * WeightOf(sig, "audio")
                                      + Full * WeightOf(sig, "temporal")
    BY <1>2, ScoresAssumption DEF TotalWeight
  <1> DEFINE fv == Full * WeightOf(sig, "video")
             fa == Full * WeightOf(sig, "audio")
             ft == Full * WeightOf(sig, "temporal")
  <1>5. fv \in Int /\ fa \in Int /\ ft \in Int
    BY <1>2, ScoresAssumption
  <1>6. /\ 100 * Term(sig, "video") >= 70 * fv
        /\ 100 * Term(sig, "audio") >= 70 * fa
        /\ 100 * Term(sig, "temporal") >= 70 * ft
    BY <1>3
  <1>7. Full * TotalWeight(sig) = fv + fa + ft
    BY <1>4
  <1> HIDE DEF fv, fa, ft
  <1>8. 100 * (Term(sig, "video") + Term(sig, "audio") + Term(sig, "temporal"))
            >= 70 * (fv + fa + ft)
    BY <1>2, <1>5, <1>6
  <1>9. AtLeast(sig, LikelyFakePercent)
    BY <1>7, <1>8 DEF AtLeast, WeightedSum, LikelyFakePercent
  <1>10. TotalWeight(sig) # 0
    <2>1. DOMAIN sig \subseteq Signal
      BY SignalType
    <2> QED
      BY <2>1, OnlySilenceIsUnknown DEF Classify
  <1> QED
    BY <1>9, <1>10 DEF Classify

----------------------------------------------------------------------------
(* The temporal analyzer.                                                  *)

\* What the analyzer's sums are.
LEMMA TotalIs ==
    ASSUME NEW f
    PROVE  Total(f) = SumOver(f, DOMAIN f)[DOMAIN f]
  BY DEF Total, FoldSeq, FoldFunction, FoldFunctionOnSet, MapThenFoldSet, SumOver, Unfolded, Chosen

\* The sum of the scores of the frames around one.
LEMMA ScoresAddUp ==
    ASSUME NEW frames, NEW S \in SUBSET DOMAIN frames
    PROVE  MapThenSumSet(LAMBDA k : frames[k].score, S)
             = SumOver([i \in DOMAIN frames |-> frames[i].score], S)[S]
  <1> DEFINE h == [i \in DOMAIN frames |-> frames[i].score]
             U(g) == [s \in SUBSET S |->
                        IF s = {} THEN 0 ELSE frames[Chosen(s)].score + g[s \ {Chosen(s)}]]
  <1>1. MapThenSumSet(LAMBDA k : frames[k].score, S) = (CHOOSE g : g = U(g))[S]
    BY DEF MapThenSumSet, MapThenFoldSet, Chosen
  <1>2. \A g : U(g) = Unfolded(h, S, g)
    <2>1. \A s \in SUBSET S : s # {} => h[Chosen(s)] = frames[Chosen(s)].score
      BY DEF Chosen
    <2> QED
      BY <2>1 DEF Unfolded
  <1> HIDE DEF U, h
  <1>3. (CHOOSE g : g = U(g)) = (CHOOSE g : g = Unfolded(h, S, g))
    BY <1>2
  <1> QED
    BY <1>1, <1>3 DEF SumOver, h, U

\* A quotient is bounded as its dividend is.
LEMMA Quotient ==
    ASSUME NEW a \in Int, NEW d \in Nat \ {0}, NEW b \in Int, a <= b * d
    PROVE  /\ a \div d \in Int
           /\ a \div d <= b
           /\ a >= 0 => a \div d >= 0
  <1> DEFINE q == a \div d
  <1>1. q \in Int /\ q * d <= a
    OBVIOUS
  <1>2. a >= 0 => q >= 0
    OBVIOUS
  <1>3. q <= b
    <2> HIDE DEF q
    <2> QED
      BY <1>1
  <1> QED
    BY <1>1, <1>2, <1>3

\* What a clip consists of.
LEMMA ClipTypes ==
    ASSUME NEW frames \in Seq(Frame), Len(frames) >= 2
    PROVE  /\ Len(frames) \in Nat \ {0}
           /\ DOMAIN frames = 1 .. Len(frames)
           /\ IsFiniteSet(DOMAIN frames)
           /\ Cardinality(DOMAIN frames) = Len(frames)
           /\ \A i \in DOMAIN frames : frames[i].score \in 0 .. Grain
  <1>1. Len(frames) \in Nat /\ DOMAIN frames = 1 .. Len(frames)
    BY LenProperties
  <1>2. IsFiniteSet(1 .. Len(frames)) /\ Cardinality(1 .. Len(frames)) = Len(frames)
    BY <1>1, FS_Interval
  <1>3. \A i \in 1 .. Len(frames) : frames[i] \in Frame
    BY ElementOfSeq
  <1> QED
    BY <1>1, <1>2, <1>3 DEF Frame

\* n times the sum of n squares, less the square of the sum, is at most a quarter of
\* the square of n * g, if the numbers are at most g (Popoviciu).
LEMMA SpreadIsBounded ==
    ASSUME NEW n \in Nat, NEW g \in Nat, NEW u \in Nat, NEW v \in Nat,
           v <= g * u, u * u <= n * v
    PROVE  /\ n * v - u * u \in Nat
           /\ 4 * (n * v - u * u) <= n * n * g * g
  <1>1. n * v \in Nat /\ u * u \in Nat /\ n * g \in Nat /\ n * n * g * g = (n * g) * (n * g)
    OBVIOUS
  <1>2. n * v <= (n * g) * u
    <2>1. n * v <= n * (g * u)
      OBVIOUS
    <2> QED
      BY <2>1
  <1> PICK p \in Nat : p = n * g
    BY <1>1
  <1>3. 0 <= (p - 2 * u) * (p - 2 * u)
    OBVIOUS
  <1>4. (p - 2 * u) * (p - 2 * u) = p * p - 4 * (p * u) + 4 * (u * u)
    OBVIOUS
  <1>5. 4 * (p * u) - 4 * (u * u) <= p * p
    BY <1>3, <1>4
  <1> QED
    BY <1>1, <1>2, <1>5

\* The normalizer is the right one: scores from 0 to 1 have a variance of at most 1/4
\* (features.go, scoreVariance; analyzer.go, varianceNormalizer).
LEMMA VarianceIsScore ==
    ASSUME NEW frames \in Seq(Frame), Len(frames) >= 2
    PROVE  VarianceComponent(frames) \in Score
  <1> DEFINE D == DOMAIN frames
             f == [i \in D |-> frames[i].score]
             q == [i \in D |-> frames[i].score * frames[i].score]
  <1>1. Scored(frames) = SumOver(f, D)[D] /\ Squared(frames) = SumOver(q, D)[D]
    BY TotalIs DEF Scored, Squared
  <1>2. \A i \in D : f[i] \in 0 .. Grain /\ q[i] = f[i] * f[i]
    BY ClipTypes
  <1>d. IsFiniteSet(D) /\ Cardinality(D) = Len(frames) /\ Grain \in Nat
    BY ClipTypes, ScoresAssumption
  <1> HIDE DEF f, q, D
  <1>3. /\ Scored(frames) \in Nat
        /\ Squared(frames) \in Nat
        /\ Squared(frames) <= Grain * Scored(frames)
        /\ Scored(frames) * Scored(frames) <= Len(frames) * Squared(frames)
    BY <1>1, <1>2, <1>d, SumOfSquares
  <1> PICK n \in Nat \ {0}, u \in Nat, v \in Nat, g \in Nat \ {0}, full \in Nat :
         n = Len(frames) /\ u = Scored(frames) /\ v = Squared(frames) /\ g = Grain /\ full = Full
    BY <1>3, ClipTypes, ScoresAssumption
  <1>4. v <= g * u /\ u * u <= n * v
    BY <1>3
  <1> DEFINE x == n * v - u * u
             d == n * n * g * g
  <1>p. d \in Nat \ {0}
    <2>1. \A k, m \in Nat \ {0} : k * m \in Nat \ {0}
      OBVIOUS
    <2>2. n * n \in Nat \ {0}
      BY <2>1
    <2>3. n * n * g \in Nat \ {0}
      BY <2>1, <2>2
    <2> QED
      BY <2>1, <2>3
  <1>5. x \in Nat
    BY <1>4, SpreadIsBounded
  <1>6. 4 * x <= d
    BY <1>4, SpreadIsBounded
  <1> HIDE DEF x, d
  <1>7. 4 * full * x \in Nat /\ 4 * full * x <= full * d
    BY <1>5, <1>p, <1>6
  <1>8. (4 * full * x) \div d \in 0 .. full
    BY <1>5, <1>p, <1>7, Quotient
  <1> QED
    BY <1>8 DEF VarianceComponent, Count, Score, x, d

\* (features.go, faceConsistency).
LEMMA InconsistencyIsScore ==
    ASSUME NEW frames \in Seq(Frame), Len(frames) >= 2
    PROVE  InconsistencyComponent(frames) \in Score
  <1>1. Cardinality(WithFace(frames)) \in Nat /\ Cardinality(WithFace(frames)) <= Len(frames)
    BY ClipTypes, FS_Subset, FS_CardinalityType DEF WithFace
  <1> PICK n \in Nat \ {0}, k \in Nat, full \in Nat :
         n = Len(frames) /\ k = Cardinality(WithFace(frames)) /\ full = Full
    BY <1>1, ClipTypes, ScoresAssumption
  <1>2. full * (n - k) \in Nat /\ full * (n - k) <= full * n
    BY <1>1
  <1> PICK a \in Nat : a = full * (n - k) /\ a <= full * n
    BY <1>2
  <1>3. a \div n \in 0 .. full
    <2>1. a \in Int /\ full \in Int /\ a <= full * n /\ a >= 0
      OBVIOUS
    <2>2. a \div n \in Int /\ a \div n <= full /\ a \div n >= 0
      BY <2>1, Quotient, Zenon
    <2> QED
      BY <2>2
  <1> QED
    BY <1>3 DEF InconsistencyComponent, Count, Score

\* What Magnitude divides.
LEMMA ExcessIsBounded ==
    ASSUME NEW full \in Nat, NEW n \in Nat, NEW g \in Nat, NEW x \in Nat, x <= g, NEW u \in Nat
    PROVE  /\ full * (n * x - u) \in Int
           /\ full * (n * x - u) <= full * (n * g)
  <1>1. n * x <= n * g
    OBVIOUS
  <1>2. n * x \in Nat /\ n * g \in Nat
    OBVIOUS
  <1> PICK y \in Nat, z \in Nat : y = n * x /\ z = n * g
    BY <1>2
  <1>3. y - u \in Int /\ y - u <= z
    BY <1>1
  <1> PICK k \in Int : k = y - u
    BY <1>3
  <1>4. full * k <= full * z
    BY <1>3
  <1> QED
    BY <1>4

\* No frame exceeds its neighbours by more than the whole scale (spikes.go, detectSpikes).
LEMMA MagnitudeIsBounded ==
    ASSUME NEW frames \in Seq(Frame), Len(frames) >= 2, NEW i \in DOMAIN frames
    PROVE  Magnitude(frames, i) \in Int /\ Magnitude(frames, i) <= Full
  <1> DEFINE D == DOMAIN frames
             f == [j \in D |-> frames[j].score]
             around == Neighbours(frames, i)
             sum == MapThenSumSet(LAMBDA k : frames[k].score, around)
  <1>1. around \in SUBSET D /\ around # {}
    BY ClipTypes DEF Neighbours
  <1>2. IsFiniteSet(around) /\ Cardinality(around) \in Nat \ {0}
    BY <1>1, ClipTypes, FS_Subset, FS_CardinalityType, FS_EmptySet
  <1>3. \A j \in around : f[j] \in Nat
    BY <1>1, ClipTypes, ScoresAssumption
  <1>4. sum = SumOver(f, around)[around]
    BY <1>1, ScoresAddUp
  <1>5. sum \in Nat
    <2> HIDE DEF f, around, sum
    <2> QED
      BY <1>2, <1>3, <1>4, SumOfNats
  <1>6. frames[i].score \in Nat /\ frames[i].score <= Grain
    BY ClipTypes, ScoresAssumption
  <1> HIDE DEF sum
  <1> PICK n \in Nat \ {0}, u \in Nat, x \in Nat, g \in Nat \ {0}, full \in Nat :
         n = Cardinality(around) /\ u = sum /\ x = frames[i].score /\ g = Grain /\ full = Full
    BY <1>2, <1>5, <1>6, ScoresAssumption
  <1>7. n * g \in Nat \ {0}
    OBVIOUS
  <1>8. /\ full * (n * x - u) \in Int
        /\ full * (n * x - u) <= full * (n * g)
    BY <1>6, ExcessIsBounded
  <1> HIDE DEF around
  <1> PICK a \in Int, d \in Nat \ {0} : a = full * (n * x - u) /\ d = n * g
    BY <1>7, <1>8
  <1>9. a \div d \in Int /\ a \div d <= full
    <2>1. full \in Int /\ a <= full * d
      BY <1>8
    <2> QED
      BY <2>1, Quotient
  <1> QED
    BY <1>9 DEF Magnitude, sum, around

\* (analyzer.go, spikeMagnitudeComponent).
LEMMA SpikeIsScore ==
    ASSUME NEW frames \in Seq(Frame), Len(frames) >= 2
    PROVE  SpikeComponent(frames) \in Score
  <1> DEFINE worst == {0} \union {Magnitude(frames, i) : i \in Spikes(frames)}
  <1>1. \A i \in Spikes(frames) : Magnitude(frames, i) \in 0 .. Full
    <2> TAKE i \in Spikes(frames)
    <2>1. 100 * Magnitude(frames, i) > 35 * Full /\ i \in DOMAIN frames
      BY DEF Spikes
    <2>2. Magnitude(frames, i) \in Int /\ Magnitude(frames, i) <= Full
      BY <2>1, MagnitudeIsBounded
    <2> QED
      BY <2>1, <2>2, ScoresAssumption
  <1>2. worst \in SUBSET (0 .. Full) /\ worst # {}
    BY <1>1, ScoresAssumption
  <1> HIDE DEF worst
  <1>3. Max(worst) \in worst
    BY <1>2, GreatestElement, ScoresAssumption
  <1> QED
    BY <1>2, <1>3 DEF SpikeComponent, Score, worst

\* Every component of a temporal score is a score before it is clamped, for a clip of
\* any length with any scores in it: the clamps never hide a normalization that is off
\* (temporal/features.go, analyzer.go).
THEOREM ComponentsAreScores ==
    ASSUME NEW frames \in Seq(Frame), Len(frames) >= 2
    PROVE  \A c \in 1 .. 3 : Components(frames)[c] \in Score
  BY VarianceIsScore, InconsistencyIsScore, SpikeIsScore DEF Components

\* The sum of the three clamped components is a natural, and its third a score.
LEMMA TemporalScoreIsScore ==
    ASSUME NEW frames \in Seq(Frame)
    PROVE  Analyze(frames).score \in Score
  <1>1. 0 \in Score /\ \A x \in Nat : Clamp01(x) \in Score
    BY ScoresAssumption DEF Score, Clamp01
  <1>2. PICK n \in Nat : n = Len(frames) /\ n = Count(frames)
    BY LenProperties DEF Count
  <1>3. CASE n >= 2
    <2> DEFINE f == [c \in 1 .. 3 |-> Clamp01(Components(frames)[c])]
    <2>1. \A c \in 1 .. 3 : f[c] \in Nat
      <3>1. \A c \in 1 .. 3 : Components(frames)[c] \in Score
        BY <1>2, <1>3, ComponentsAreScores
      <3>2. Score \subseteq Nat
        BY ScoresAssumption DEF Score
      <3> QED
        BY <1>1, <3>1, <3>2
    <2>2. IsFiniteSet(1 .. 3) /\ DOMAIN f = 1 .. 3
      <3>1. 1 \in Int /\ 3 \in Int
        OBVIOUS
      <3>2. IsFiniteSet(1 .. 3)
        BY <3>1, FS_Interval, Zenon
      <3> QED
        BY <3>2
    <2>3. Total(f) = SumOver(f, 1 .. 3)[1 .. 3]
      BY <2>2, TotalIs
    <2> HIDE DEF f
    <2>4. Total(f) \in Nat
      BY <2>1, <2>2, <2>3, SumOfNats
    <2>5. Total(f) \div 3 \in Nat
      BY <2>4
    <2>6. Clamp01(Total(f) \div 3) \in Score
      BY <1>1, <2>5
    <2>7. Count(frames) # 0 /\ Count(frames) # 1
      BY <1>2, <1>3
    <2>8. Analyze(frames) = [analyzed |-> Count(frames), score |-> Clamp01(Total(f) \div 3),
                             reasons |-> TemporalReasons(frames)]
      BY <2>7 DEF Analyze, f
    <2> QED
      BY <2>6, <2>8
  <1>4. CASE Count(frames) = 0
    <2>1. Analyze(frames) = NoTemporal
      BY <1>4 DEF Analyze
    <2> QED
      BY <1>1, <2>1 DEF NoTemporal
  <1>5. CASE Count(frames) = 1
    <2>1. Analyze(frames) = [analyzed |-> 1, score |-> 0, reasons |-> {<<"insufficient", 0>>}]
      BY <1>5 DEF Analyze
    <2> QED
      BY <1>1, <2>1
  <1> QED
    BY <1>2, <1>3, <1>4, <1>5
=============================================================================
