----------------------------- MODULE RiskEngine -----------------------------
(***************************************************************************)
(* gateway/internal/risk: the weighted score of whichever signals reported *)
(* something, the verdict it falls in, and the reasons given for it.       *)
(*                                                                         *)
(* A risk score is kept as the fraction WeightedSum / TotalWeight and      *)
(* compared with the thresholds by cross-multiplication.  The code's       *)
(* thresholdEpsilon makes its float64 comparisons come out as these exact  *)
(* ones.                                                                   *)
(***************************************************************************)
EXTENDS Scores

Signal == {"video", "audio", "temporal"}

\* The scores of the signals that are present.
Signals == UNION {[present -> Score] : present \in SUBSET Signal}

\* DefaultWeights and DefaultThresholds, in percent.
Weight == [video |-> 40, audio |-> 35, temporal |-> 25]
SuspiciousPercent == 40
LikelyFakePercent == 70

----------------------------------------------------------------------------
WeightOf(sig, s) == IF s \in DOMAIN sig THEN Weight[s] ELSE 0

TotalWeight(sig) ==
    WeightOf(sig, "video") + WeightOf(sig, "audio") + WeightOf(sig, "temporal")

Term(sig, s) == IF s \in DOMAIN sig THEN sig[s] * Weight[s] ELSE 0

\* weightedScore: a missing signal takes no part, in the sum or in its weight.
WeightedSum(sig) == Term(sig, "video") + Term(sig, "audio") + Term(sig, "temporal")

AtLeast(sig, percent) == 100 * WeightedSum(sig) >= percent * (Full * TotalWeight(sig))

Classify(sig) ==
    IF TotalWeight(sig) = 0 THEN "UNKNOWN"
    ELSE IF AtLeast(sig, LikelyFakePercent) THEN "LIKELY_FAKE"
    ELSE IF AtLeast(sig, SuspiciousPercent) THEN "SUSPICIOUS"
    ELSE "LIKELY_AUTHENTIC"

Verdict == {"UNKNOWN", "LIKELY_AUTHENTIC", "SUSPICIOUS", "LIKELY_FAKE"}

\* DefaultSignalThreshold is 0.5.
Indicates(sig, s) == s \in DOMAIN sig /\ 2 * sig[s] >= Full

\* buildReasons, where `unavailable` are the signals whose analysis failed.
RiskReasons(sig, unavailable) ==
    {<<s, "indicates fake">> : s \in {t \in Signal : Indicates(sig, t)}}
    \union {<<s, "unavailable">> : s \in unavailable}
    \union IF DOMAIN sig = {} /\ unavailable = {} THEN {<<"no", "signals">>} ELSE {}

\* Mutant: the weights are not normalized by those in play, so that a missing
\* signal counts as a score of 0.
AssessUnnormalized(sig, unavailable) ==
    [sum |-> WeightedSum(sig), weight |-> 100, verdict |-> Classify(sig),
     reasons |-> RiskReasons(sig, unavailable)]

AssessSignals(sig, unavailable) ==
    [sum |-> WeightedSum(sig), weight |-> TotalWeight(sig), verdict |-> Classify(sig),
     reasons |-> RiskReasons(sig, unavailable)]
=============================================================================
