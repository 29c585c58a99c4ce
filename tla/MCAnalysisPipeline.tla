------------------------- MODULE MCAnalysisPipeline -------------------------
(***************************************************************************)
(* Constants for TLC.  Request r1 asks for both modalities of session s1   *)
(* and r2, where a run has it, for another video analysis of the same one. *)
(* Each pool has one worker, w_v for video and w_a for audio, or two for   *)
(* video.                                                                  *)
(***************************************************************************)
EXTENDS AnalysisPipeline

CONSTANTS r1, r2, s1, w_v, w_v2, w_a

OneSession == [r \in Request |-> s1]

BothThenVideo == [r \in Request |-> IF r = r1 THEN {"video", "audio"} ELSE {"video"}]

PoolOf == [w \in Worker |-> IF w = w_a THEN "audio" ELSE "video"]

\* The audio job of r1 is the one whose payload no longer decodes.
CorruptAudio == {[req |-> r1, mod |-> "audio"]}
NoneCorrupt == {}

\* The two workers of a pool run the same loop on the same queue.
VideoWorkers == Permutations({w_v, w_v2})
=============================================================================
