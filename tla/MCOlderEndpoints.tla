-------------------------- MODULE MCOlderEndpoints --------------------------
(***************************************************************************)
(* Constants for TLC.  A frame's score is none, half or full, and 864 is a *)
(* multiple of every denominator that clips of up to three frames have.    *)
(***************************************************************************)
EXTENDS OlderEndpoints

CONSTANTS r1, r2, w1, w2, inside, outside

f(score, face) == [score |-> score, face |-> face]

\* One frame, and a spike between two frames without a face.
TwoClips ==
    {[score |-> 432, frames |-> <<f(2, TRUE)>>],
     [score |-> 864, frames |-> <<f(0, FALSE), f(2, TRUE), f(0, FALSE)>>]}

OneScore == {216}

\* Without a session, all requests are alike, and so are the pool's workers.
Alike == Permutations({r1, r2}) \union Permutations({w1, w2})
=============================================================================
