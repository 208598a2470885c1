--------------------------- MODULE MCStreamSession ---------------------------
(* Model-checking instances of StreamSession: which strm s packets LMS may  *)
(* send.                                                                    *)
EXTENDS StreamSession

Request(a, f, fade) == [autostart |-> a, format |-> f, fade |-> fade]

\* A synchronised start; a start that waits for cont and codc and has a stop
\* fade; one the bridge refuses.
SafetyRequests ==
    { Request(0, "known", FALSE), Request(2, "unknown", TRUE),
      Request(1, "unsupported", FALSE) }

\* A synchronised start and a plain one with a stop fade.
LivenessRequests == { Request(0, "known", FALSE), Request(1, "known", TRUE) }

\* A plain start with a stop fade.
FadeRequests == { Request(1, "known", TRUE) }
=============================================================================
