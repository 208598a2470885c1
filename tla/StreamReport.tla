---------------------------- MODULE StreamReport ----------------------------
(***************************************************************************)
(* What the player promises LMS about one stream, with no threads, no      *)
(* receiver and no retries: a stream that was asked for is connected or    *)
(* fails; a connected stream begins playing at most once, however often    *)
(* its receiver is lost; it either completes (STMd) or fails (STMn), once; *)
(* its end (STMu) is reported at most once, and only after that.  The one  *)
(* exception: a stream LMS has already ended may be reported once more.    *)
(* StreamSession implements this under the mapping given there.            *)
(***************************************************************************)
EXTENDS Naturals

VARIABLES
    asked,   \* LMS has asked for a stream and has no answer yet
    phase,   \* the latest thing said about the current stream
    told,    \* how many of STMd, STMn and STMu were sent for it
    begun,   \* how many STMs were sent for it
    halted   \* LMS has stopped, flushed or superseded it, or powered off

rvars == <<asked, phase, told, begun, halted>>

Phase == {"none", "connected", "complete", "failed", "ended"}

RInit ==
    /\ asked = FALSE /\ halted = FALSE
    /\ phase = "none" /\ told = 0 /\ begun = 0

\* strm s: it also flushes the stream before.
Ask ==
    /\ ~asked
    /\ asked' = TRUE /\ halted' = TRUE
    /\ UNCHANGED <<phase, told, begun>>

\* strm q, strm f or aude 0.
Halt == halted' = TRUE /\ UNCHANGED <<asked, phase, told, begun>>

\* The answer to strm s: STMc, or STMn, or both.  A refused request leaves the
\* previous stream, which it ended, in place.
Answer ==
    /\ asked /\ asked' = FALSE
    /\ \/ phase' = "connected" /\ told' = 0 /\ halted' = FALSE
       \/ phase' = "failed" /\ told' = 1 /\ halted' \in {FALSE, halted}
    /\ begun' = 0

\* STMs.
Begin ==
    /\ phase = "connected" /\ begun = 0
    /\ begun' = 1
    /\ UNCHANGED <<asked, phase, told, halted>>

\* STMd: the decoder is complete, or the receiver was lost for good.
Complete ==
    /\ phase = "connected" \/ halted
    /\ phase' = "complete" /\ told' = told + 1
    /\ UNCHANGED <<asked, begun, halted>>

\* STMn: the source or the decoder failed.
Fail ==
    /\ phase = "connected" \/ halted
    /\ phase' = "failed" /\ told' = told + 1
    /\ UNCHANGED <<asked, begun, halted>>

\* STMu.
End ==
    /\ phase \in {"complete", "failed"}
    /\ phase' = "ended" /\ told' = told + 1
    /\ UNCHANGED <<asked, begun, halted>>

RNext == Ask \/ Halt \/ Answer \/ Begin \/ Complete \/ Fail \/ End

RSpec == RInit /\ [][RNext]_rvars
=============================================================================
