-------------------------- MODULE TemporalAnalyzer --------------------------
(***************************************************************************)
(* gateway/internal/temporal: how suspicious the frame-to-frame behaviour  *)
(* of a clip is, from three components: the variance of its frames' fake   *)
(* scores, the share of frames without a face, and its worst spike.        *)
(*                                                                         *)
(* Full has to be a multiple of every denominator in use for the divisions *)
(* below to be exact, as it is for the clips of the runs.                  *)
(***************************************************************************)
EXTENDS Scores, SequencesExt

Frame == [score : 0 .. Grain, face : BOOLEAN]

NoTemporal == [analyzed |-> 0, score |-> 0, reasons |-> {}]

Total(numbers) == FoldSeq(LAMBDA x, y : x + y, 0, numbers)

Count(frames) == Len(frames)

Scored(frames) == Total([i \in DOMAIN frames |-> frames[i].score])
Squared(frames) == Total([i \in DOMAIN frames |-> frames[i].score * frames[i].score])

\* Mutant: the sample variance, which divides by n - 1.
SampleVarianceComponent(frames) ==
    LET n == Count(frames)
    IN  (4 * Full * (n * Squared(frames) - Scored(frames) * Scored(frames)))
            \div (n * (n - 1) * Grain * Grain)

\* scoreVariance * varianceNormalizer.  The population variance of n scores is
\* (n * (sum of the squares) - (square of the sum)) / n^2.
VarianceComponent(frames) ==
    LET n == Count(frames)
    IN  (4 * Full * (n * Squared(frames) - Scored(frames) * Scored(frames)))
            \div (n * n * Grain * Grain)

WithFace(frames) == {i \in DOMAIN frames : frames[i].face}

\* 1 - faceConsistency.
InconsistencyComponent(frames) ==
    (Full * (Count(frames) - Cardinality(WithFace(frames)))) \div Count(frames)

Neighbours(frames, i) == {i - 1, i + 1} \cap DOMAIN frames

\* How far frame i's score exceeds its neighbours' average; the first and the
\* last frame have only one.
Magnitude(frames, i) ==
    LET around == Neighbours(frames, i)
        sum == MapThenSumSet(LAMBDA k : frames[k].score, around)
    IN  (Full * (Cardinality(around) * frames[i].score - sum))
            \div (Cardinality(around) * Grain)

\* detectSpikes: SpikeThreshold is 0.35.
Spikes(frames) == {i \in DOMAIN frames : 100 * Magnitude(frames, i) > 35 * Full}

\* spikeMagnitudeComponent: the worst spike.
SpikeComponent(frames) ==
    Max({0} \union {Magnitude(frames, i) : i \in Spikes(frames)})

\* The three components, before they are clamped and averaged.
Components(frames) ==
    <<VarianceComponent(frames), InconsistencyComponent(frames), SpikeComponent(frames)>>

\* buildReasons: VarianceReasonThreshold is 0.3, FaceConsistencyThreshold 0.8.
TemporalReasons(frames) ==
    (IF 10 * Clamp01(VarianceComponent(frames)) >= 3 * Full THEN {<<"fluctuates", 0>>} ELSE {})
    \union (IF 5 * InconsistencyComponent(frames) > Full THEN {<<"no face", 0>>} ELSE {})
    \union {<<"spike", i>> : i \in Spikes(frames)}

\* Analyze: nil without frames, and only a placeholder for a single one.
Analyze(frames) ==
    CASE Count(frames) = 0 -> NoTemporal
      [] Count(frames) = 1 -> [analyzed |-> 1, score |-> 0,
                               reasons |-> {<<"insufficient", 0>>}]
      [] OTHER ->
           [analyzed |-> Count(frames),
            score |-> Clamp01(Total([c \in 1 .. 3 |-> Clamp01(Components(frames)[c])]) \div 3),
            reasons |-> TemporalReasons(frames)]
=============================================================================
