--------------------------- MODULE DetectorClient ---------------------------
(***************************************************************************)
(* gateway/internal/detector: how the client of the video-detector service *)
(* classifies the ways a call can end, and which of them the older analyze *)
(* pool tries again.                                                       *)
(***************************************************************************)

\* What a call to the service can come to: a deadline, a connection that could not
\* be made or was refused, a body that broke off, a status with a body that decodes,
\* or one that does not.
Ending == {"deadline", "unreachable", "broken", "2xx", "2xx malformed", "4xx", "5xx"}

\* post, and AnalyzeBytes' decoding of what it returned.
KindOf(ending) ==
    CASE ending = "deadline" -> "Timeout"
      [] ending = "unreachable" -> "Unavailable"
      [] ending \in {"broken", "2xx malformed", "5xx"} -> "DetectorError"
      [] ending = "4xx" -> "InvalidVideo"
      [] ending = "2xx" -> "none"

\* isRetryable, for a detector.Error.
DetectorRetryable(kind) == kind # "InvalidVideo"
=============================================================================
