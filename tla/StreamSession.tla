---------------------------- MODULE StreamSession ----------------------------
(***************************************************************************)
(* One player of the bridge: the slimproto reader thread that runs every   *)
(* LMS command (StreamCoordinator's handlers), the stream thread that      *)
(* pumps one track into the AirPlay receiver (StreamCoordinator::          *)
(* streamLoop around PlaybackStream::run), the keep-alive thread that      *)
(* drives a parked session between tracks, and the receiver, which may     *)
(* close the session whenever somebody drives it.                          *)
(*                                                                         *)
(* Time is abstracted to "a deadline may pass"; audio to whether the       *)
(* sender ring is empty, low or prefilled; a fade to whether the chunk fed *)
(* was its last.  A blocking read, a 25 ms pause slice or a drain slice    *)
(* that changes none of this is a stuttering step.                         *)
(***************************************************************************)
EXTENDS Integers, Sequences, FiniteSets

CONSTANT Requests    \* the `strm s` packets LMS may send

\* "unknown" is format '?'; "unsupported" stands for every packet onStreamStart
\* refuses before it opens the source (no host, no request, no such codec).
Autostarts == 0..3
Formats    == {"known", "unknown", "unsupported"}

RequestRec == [autostart : Autostarts, format : Formats, fade : BOOLEAN]

ASSUME RequestsAssumption == Requests \subseteq RequestRec

\* What the player tells LMS about a stream (STAT events, and DSCO).
Event == {"STMc", "STMl", "STMs", "STMd", "STMu", "STMn", "DSCO"}

\* The sender ring: nothing queued, some audio, or prefillReached().
RingLevel == {"empty", "low", "full"}
Fuller(level)  == IF level = "empty" THEN "low" ELSE "full"
Emptier(level) == IF level = "full" THEN "low" ELSE "empty"

VARIABLES
    rd,     \* reader thread: what it is doing, and inside which command
    ses,    \* StreamCoordinator's flags for the current stream
    track,  \* the PlaybackStream behind track_ (meaningful while ses.track)
    th,     \* streamThread_: joinable state and stop token
    pump,   \* the stream thread's program counter and locals
    out,    \* AirplayOutput and the RaopPlayer it owns
    lms,    \* the cont / codc packets LMS still owes for a RESP, and whether
            \* it has ended the current stream
    sent    \* history: events sent for the current stream, in order

vars == <<rd, ses, track, th, pump, out, lms, sent>>

NoRequest == [autostart |-> 1, format |-> "known", fade |-> FALSE]

ReaderPc  == {"idle", "shutdown", "join"}
Op        == {"none", "start", "flush", "stop"}
GateState == {"open", "timed", "held"}
PauseState == {"none", "timed", "forever"}
Source    == {"open", "eof", "closed"}
Reason    == {"none", "ok", "remote", "timeout"}
PumpPc    == {"idle", "begin", "run", "top", "paused", "gate", "gatewait",
              "read", "feed", "pace", "ret", "exit", "decide", "retry", "drain",
              "final"}
InRun     == {"top", "paused", "gate", "gatewait", "read", "feed", "pace"}
Why       == {"none", "eof", "decode", "socket"}
EndCode   == {"none", "FadedOut", "Stopped", "Lost", "Eof", "DecodeError",
              "SocketError"}
Player    == {"none", "fresh", "live", "dead"}

ReaderRec  == [pc : ReaderPc, op : Op]
SessionRec == [track : BOOLEAN, autostart : Autostarts, awaitCodc : BOOLEAN,
               haveCodc : BOOLEAN, haveCont : BOOLEAN, stml : BOOLEAN,
               stms : BOOLEAN, flushed : BOOLEAN, retryUsed : BOOLEAN,
               active : BOOLEAN]
TrackRec   == [gate : GateState, pause : PauseState, canFade : BOOLEAN,
               fadeReq : BOOLEAN, fadeOut : BOOLEAN, fadeDone : BOOLEAN,
               src : Source, disco : Reason, ready : BOOLEAN, released : BOOLEAN,
               throttled : BOOLEAN]
ThreadRec  == [state : {"none", "running", "finished"}, stop : BOOLEAN]
PumpRec    == [pc : PumpPc, outReady : BOOLEAN, why : Why, end : EndCode,
               keep : BOOLEAN]
OutputRec  == [target : BOOLEAN, player : Player, lost : BOOLEAN,
               keepAlive : BOOLEAN, ring : RingLevel]
LmsRec     == [cont : BOOLEAN, codc : BOOLEAN, halted : BOOLEAN]

TypeOK ==
    /\ rd \in ReaderRec     /\ ses \in SessionRec    /\ track \in TrackRec
    /\ th \in ThreadRec     /\ pump \in PumpRec      /\ out \in OutputRec
    /\ lms \in LmsRec       /\ sent \in Seq(Event)

-----------------------------------------------------------------------------
(* Helpers shared by the handlers and the pump.                            *)

Said(e) == \E i \in DOMAIN sent : sent[i] = e

\* LMS has ended the current stream: strm q, f or the next s, all of which the
\* player answers with STMf, or aude 0, which it does not answer.
Halted == lms' = [lms EXCEPT !.halted = TRUE]

\* Mutant: an autostart 0 track is not held.
NewTrack_NotHeld(r) ==
    [gate |-> "open", pause |-> "none", canFade |-> r.fade, fadeReq |-> FALSE,
     fadeOut |-> FALSE, fadeDone |-> FALSE, src |-> "open", disco |-> "none",
     ready |-> FALSE, released |-> r.autostart # 0, throttled |-> FALSE]

\* A freshly opened PlaybackStream for request r (holdStart for autostart 0).
NewTrack(r) ==
    [gate |-> IF r.autostart = 0 THEN "held" ELSE "open",
     pause |-> "none", canFade |-> r.fade, fadeReq |-> FALSE, fadeOut |-> FALSE,
     fadeDone |-> FALSE, src |-> "open", disco |-> "none", ready |-> FALSE,
     released |-> r.autostart # 0, throttled |-> FALSE]

Idle == [pc |-> "idle", outReady |-> FALSE, why |-> "none", end |-> "none",
         keep |-> FALSE]

\* gateOpen(): the deadline of a timed gate passes in GateDue.
GateOpen == track.gate = "open"

\* AirplayOutput::stop: the session, its ring and its keep-alive driver go.
StoppedOutput == [out EXCEPT !.player = "none", !.ring = "empty", !.keepAlive = FALSE]

\* AirplayOutput::silence: drop what the ring holds, keep the session.
SilencedOutput == [out EXCEPT !.ring = "empty"]

\* Mutant: a new session inherits the loss flag of the one it replaces.
PreparedOutput_KeepsLoss(o) ==
    CASE ~o.target -> o
      [] o.player \in {"live", "fresh"} -> o
      [] OTHER -> [o EXCEPT !.player = "fresh", !.ring = "empty", !.keepAlive = FALSE]

\* AirplayOutput::prepare: reuse an active or never-launched session, replace
\* a dead one; a new session does not inherit the loss flag.
PreparedOutput(o) ==
    CASE ~o.target -> o
      [] o.player \in {"live", "fresh"} -> o
      [] OTHER -> [o EXCEPT !.player = "fresh", !.lost = FALSE, !.ring = "empty",
                            !.keepAlive = FALSE]

\* AirplayOutput::launch, reached through VolumeController::launch.
LaunchedOutput(o) == IF o.player = "none" THEN o ELSE [o EXCEPT !.player = "live"]

NoThread == [state |-> "none", stop |-> FALSE]

\* maybeStartPump() with flags f, while streamThread_ is t: a joinable thread
\* short-circuits, an awaited codc or cont holds the pump back.
MaybeStartPump(f, t) ==
    IF /\ t.state = "none"
       /\ f.track
       /\ ~(f.awaitCodc /\ ~f.haveCodc)
       /\ ~(f.autostart >= 2 /\ ~f.haveCont)
    THEN /\ th' = [state |-> "running", stop |-> FALSE]
         /\ pump' = [Idle EXCEPT !.pc = "begin"]
    ELSE /\ th' = t
         /\ UNCHANGED pump

-----------------------------------------------------------------------------
(* Reader thread.  A command that must not find a pump running first calls *)
(* shutdown(): Begin* puts the reader there, Shutdown asks the stream      *)
(* thread to stop, Finish* runs after the join.                            *)

\* strm s: the old pump is to be joined before the new track is made.
BeginStart ==
    /\ rd.pc = "idle"
    /\ rd' = [pc |-> "shutdown", op |-> "start"]
    /\ Halted
    /\ UNCHANGED <<ses, track, th, pump, out, sent>>

\* Mutant: the session is marked for keeping only after the pump was joined.
BeginFlush_MarksLate ==
    /\ rd.pc = "idle"
    /\ rd' = [pc |-> "shutdown", op |-> "flush"]
    /\ Halted
    /\ UNCHANGED <<ses, track, th, pump, out, sent>>

\* strm f: the session is to be kept.
BeginFlush ==
    /\ rd.pc = "idle"
    /\ rd' = [pc |-> "shutdown", op |-> "flush"]
    /\ ses' = [ses EXCEPT !.flushed = TRUE]
    /\ Halted
    /\ UNCHANGED <<track, th, pump, out, sent>>

\* strm q with a fade-out configured: leave the teardown to the pump.
StopByFade ==
    /\ rd.pc = "idle"
    /\ ses.active /\ ses.track /\ track.canFade
    /\ track' = [track EXCEPT !.fadeReq = TRUE]
    /\ Halted
    /\ UNCHANGED <<rd, ses, th, pump, out, sent>>

\* strm q without a fade.
BeginStop ==
    /\ rd.pc = "idle"
    /\ ~(ses.active /\ ses.track /\ track.canFade)
    /\ rd' = [pc |-> "shutdown", op |-> "stop"]
    /\ Halted
    /\ UNCHANGED <<ses, track, th, pump, out, sent>>

\* aude 0: the same teardown, never a fade, nothing sent.
BeginAudeOff ==
    /\ rd.pc = "idle"
    /\ rd' = [pc |-> "shutdown", op |-> "stop"]
    /\ Halted
    /\ UNCHANGED <<ses, track, th, pump, out, sent>>

\* PlaybackStream::unpause: clears the pause and moves the start gate.
Unpaused(t, gate) == [t EXCEPT !.pause = "none", !.gate = gate]

\* shutdown() up to the join: request_stop, then unpause the track, which also
\* opens a start gate still held.
Shutdown ==
    /\ rd.pc = "shutdown"
    /\ rd' = [rd EXCEPT !.pc = "join"]
    /\ IF th.state = "none"
       THEN UNCHANGED <<th, track>>
       ELSE /\ th' = [th EXCEPT !.stop = TRUE]
            /\ track' = IF ses.track THEN Unpaused(track, "open") ELSE track
    /\ UNCHANGED <<ses, pump, out, lms, sent>>

\* join() returns once the stream thread has finished.
Joined == rd.pc = "join" /\ th.state # "running"

AfterJoin == rd' = [pc |-> "idle", op |-> "none"]

\* The rest of flush(): silence the receiver.
FinishFlush ==
    /\ Joined /\ rd.op = "flush"
    /\ AfterJoin
    /\ th' = NoThread
    /\ track' = [track EXCEPT !.src = "closed"]
    /\ out' = SilencedOutput
    /\ UNCHANGED <<ses, pump, lms, sent>>

\* The rest of requestStopOrFade() and audeOff(): output_.stop(true).
FinishStop ==
    /\ Joined /\ rd.op = "stop"
    /\ AfterJoin
    /\ th' = NoThread
    /\ track' = [track EXCEPT !.src = "closed"]
    /\ out' = StoppedOutput
    /\ UNCHANGED <<ses, pump, lms, sent>>

\* Mutant: autostart is kept as the digit LMS sent.
FreshFlags_Digit(r) ==
    [ses EXCEPT !.flushed = FALSE, !.retryUsed = FALSE, !.autostart = r.autostart + 48,
                !.awaitCodc = FALSE, !.haveCodc = FALSE, !.haveCont = FALSE,
                !.stml = FALSE, !.stms = FALSE]

\* The flags onStreamStart resets for request r; track_ is still the old one.
FreshFlags(r) ==
    [ses EXCEPT !.flushed = FALSE, !.retryUsed = FALSE, !.autostart = r.autostart,
                !.awaitCodc = FALSE, !.haveCodc = FALSE, !.haveCont = FALSE,
                !.stml = FALSE, !.stms = FALSE]

Rejected(r) ==
    \/ r.format = "unsupported"
    \/ r.format = "unknown" /\ r.autostart < 2

\* onStreamStart refuses the request: STMn, the old (closed) track stays.
RefuseStart(r) ==
    /\ Rejected(r)
    /\ ses' = FreshFlags(r)
    /\ track' = [track EXCEPT !.src = "closed"]
    /\ th' = NoThread
    /\ sent' = <<"STMn">>
    /\ UNCHANGED <<pump, lms>>

\* openSource fails: DSCO with the mapped reason, STMn, no track.
FailOpen(r) ==
    /\ ~Rejected(r)
    /\ ses' = [FreshFlags(r) EXCEPT !.track = FALSE]
    /\ track' = [NewTrack(r) EXCEPT !.src = "closed"]
    /\ th' = NoThread
    /\ sent' = <<"DSCO", "STMn">>
    /\ lms' = [lms EXCEPT !.halted = FALSE]
    /\ UNCHANGED pump

\* The source answered: RESP, STMc; LMS owes a cont, and a codc if the codec
\* is unknown.  The decoder may still fail to attach (STMn, no track).
OpenStart(r, attached) ==
    /\ ~Rejected(r)
    /\ lms' = [cont |-> lms.cont \/ r.autostart >= 2,
               codc |-> lms.codc \/ r.format = "unknown",
               halted |-> FALSE]
    /\ track' = NewTrack(r)
    /\ LET f == [FreshFlags(r) EXCEPT !.track = TRUE]
       IN \/ /\ r.format = "unknown"
             /\ ses' = [f EXCEPT !.awaitCodc = TRUE]
             /\ sent' = <<"STMc">>
             /\ th' = NoThread
             /\ UNCHANGED pump
          \/ /\ r.format = "known" /\ attached
             /\ ses' = f
             /\ sent' = <<"STMc">>
             /\ MaybeStartPump(f, NoThread)
          \/ /\ r.format = "known" /\ ~attached
             /\ ses' = [f EXCEPT !.track = FALSE]
             /\ sent' = <<"STMc", "STMn">>
             /\ th' = NoThread
             /\ UNCHANGED pump

\* The rest of onStreamStart after shutdown() has joined the old pump.
FinishStart ==
    /\ Joined /\ rd.op = "start"
    /\ AfterJoin
    /\ \E r \in Requests :
          \/ RefuseStart(r)
          \/ FailOpen(r)
          \/ \E attached \in BOOLEAN : OpenStart(r, attached)
    /\ UNCHANGED out

\* cont: LMS answered our RESP.
OnCont ==
    /\ rd.pc = "idle"
    /\ lms.cont
    /\ lms' = [lms EXCEPT !.cont = FALSE]
    /\ ses' = [ses EXCEPT !.haveCont = TRUE]
    /\ MaybeStartPump(ses', th)
    /\ UNCHANGED <<rd, track, out, sent>>

\* Mutant: a codc nobody waits for attaches a decoder all the same.
OnCodc_Unchecked ==
    /\ rd.pc = "idle"
    /\ lms.codc
    /\ lms' = [lms EXCEPT !.codc = FALSE]
    /\ ses' = [ses EXCEPT !.haveCodc = TRUE, !.awaitCodc = FALSE, !.track = FALSE]
    /\ sent' = Append(sent, "STMn")
    /\ UNCHANGED <<rd, track, th, pump, out>>

\* codc: the codec of a stream started with format '?'.
OnCodc ==
    /\ rd.pc = "idle"
    /\ lms.codc
    /\ lms' = [lms EXCEPT !.codc = FALSE]
    /\ IF ~ses.awaitCodc \/ ~ses.track
       THEN UNCHANGED <<ses, th, pump, sent>>
       ELSE \/ /\ ses' = [ses EXCEPT !.haveCodc = TRUE, !.awaitCodc = FALSE]
               /\ MaybeStartPump(ses', th)
               /\ UNCHANGED sent
            \/ /\ ses' = [ses EXCEPT !.haveCodc = TRUE, !.awaitCodc = FALSE,
                                     !.track = FALSE]
               /\ sent' = Append(sent, "STMn")
               /\ UNCHANGED <<th, pump>>
    /\ UNCHANGED <<rd, track, out>>

\* strm p N (timed) and strm p 0 (forever, which also silences the receiver).
OnPause ==
    /\ rd.pc = "idle"
    /\ \E p \in {"timed", "forever"} :
          /\ track' = IF ses.track THEN [track EXCEPT !.pause = p] ELSE track
          /\ out' = IF p = "forever" THEN SilencedOutput ELSE out
    /\ UNCHANGED <<rd, ses, th, pump, lms, sent>>

\* strm u: at once, or scheduled on the jiffies clock.
OnUnpause ==
    /\ rd.pc = "idle"
    /\ \E g \in {"open", "timed"} :
          track' = IF ses.track
                   THEN [Unpaused(track, g) EXCEPT !.released = TRUE]
                   ELSE track
    /\ UNCHANGED <<rd, ses, th, pump, out, lms, sent>>

-----------------------------------------------------------------------------
(* Stream thread: streamLoop and PlaybackStream::run.                      *)

Running(pc) == th.state = "running" /\ pump.pc = pc
Goto(pc)    == pump' = [pump EXCEPT !.pc = pc]

\* Mutant: the stream thread starts without stopping the keep-alive driver.
PumpBegin_NoUnpark ==
    /\ Running("begin")
    /\ ses' = [ses EXCEPT !.active = TRUE]
    /\ out' = PreparedOutput(out)
    /\ Goto("run")
    /\ UNCHANGED <<rd, track, th, lms, sent>>

\* streamLoop's head: stop the keep-alive driver, prepare the session.  A
\* target is never withdrawn, so prepare() has no failing case here.
PumpBegin ==
    /\ Running("begin")
    /\ ses' = [ses EXCEPT !.active = TRUE]
    /\ out' = PreparedOutput([out EXCEPT !.keepAlive = FALSE])
    /\ Goto("run")
    /\ UNCHANGED <<rd, track, th, lms, sent>>

\* Mutant: the launch is not re-armed for a new pass.
PumpRun_NotRearmed ==
    /\ Running("run")
    /\ pump' = [pump EXCEPT !.pc = "top", !.outReady = ~out.target \/ @, !.why = "none"]
    /\ UNCHANGED <<rd, ses, track, th, out, lms, sent>>

\* run(): with no target there is nothing to launch.
PumpRun ==
    /\ Running("run")
    /\ pump' = [pump EXCEPT !.pc = "top", !.outReady = ~out.target, !.why = "none"]
    /\ UNCHANGED <<rd, ses, track, th, out, lms, sent>>

\* Mutant: the loop guard does not look at the stop token.
PumpTop_NoStop ==
    /\ Running("top")
    /\ IF out.lost
       THEN Goto("ret") /\ UNCHANGED track
       ELSE /\ track' = IF track.fadeReq
                        THEN [track EXCEPT !.fadeReq = FALSE, !.fadeOut = TRUE]
                        ELSE track
            /\ Goto(IF track'.fadeDone THEN "ret"
                    ELSE IF track.pause # "none" /\ ~track'.fadeOut THEN "paused"
                    ELSE "gate")
    /\ UNCHANGED <<rd, ses, th, out, lms, sent>>

\* The loop guard, then: adopt a fade request, leave when faded, wait while
\* paused (a fade in progress plays on), else go on to the start gate.
PumpTop ==
    /\ Running("top")
    /\ IF th.stop \/ out.lost
       THEN Goto("ret") /\ UNCHANGED track
       ELSE /\ track' = IF track.fadeReq
                        THEN [track EXCEPT !.fadeReq = FALSE, !.fadeOut = TRUE]
                        ELSE track
            /\ Goto(IF track'.fadeDone THEN "ret"
                    ELSE IF track.pause # "none" /\ ~track'.fadeOut THEN "paused"
                    ELSE "gate")
    /\ UNCHANGED <<rd, ses, th, out, lms, sent>>

\* The pause loop ends on an unpause, an elapsed timed pause, or a stop.
PumpPaused ==
    /\ Running("paused")
    /\ track.pause = "none" \/ th.stop
    /\ Goto("top")
    /\ UNCHANGED <<rd, ses, track, th, out, lms, sent>>

\* A launch before the read goes on to it unless the throttle holds it off; one
\* after the feed ends the iteration.
AfterLaunch == IF pump.pc = "gate" /\ ~track'.throttled THEN "read" ELSE "pace"

\* Mutant: every launch is announced, a relaunch after a receiver loss too.
OutputReady_Always(o, f, said) ==
    /\ out' = LaunchedOutput(o)
    /\ ses' = [f EXCEPT !.stms = TRUE]
    /\ sent' = Append(said, "STMs")
    /\ pump' = [pump EXCEPT !.pc = AfterLaunch, !.outReady = TRUE]

\* onOutputReady(): STMs once, then launch the receiver.
OutputReady(o, f, said) ==
    /\ out' = LaunchedOutput(o)
    /\ ses' = [f EXCEPT !.stms = TRUE]
    /\ sent' = IF f.stms THEN said ELSE Append(said, "STMs")
    /\ pump' = [pump EXCEPT !.pc = AfterLaunch, !.outReady = TRUE]

\* Mutant: the throttle is never released.
Throttled_Stuck(ready) ==
    {[track EXCEPT !.throttled = t] :
        t \in IF ~ready \/ out.player = "none" \/ track.throttled THEN {track.throttled}
              ELSE IF out.ring = "empty" THEN {FALSE} ELSE BOOLEAN}

\* The ring throttle of the track in a pass whose launch is (not) behind it: set
\* above buffer-ms, cleared below half of it.  While the output is not ready the
\* flag stays what it was, across a retry too: it is the track's, not the pass's.
Throttled(ready) ==
    {[track EXCEPT !.throttled = t] :
        t \in IF ~ready \/ out.player = "none" THEN {track.throttled}
              ELSE IF out.ring = "empty" THEN {FALSE} ELSE BOOLEAN}

\* A closed gate lets the ring fill to the prefill level and then waits; an
\* open one launches the receiver as soon as audio is queued.  While throttled
\* the pump services the sender instead of reading.
PumpGate ==
    /\ Running("gate")
    /\ IF ~GateOpen /\ out.ring = "full"
       THEN Goto("gatewait") /\ UNCHANGED <<ses, track, out, sent>>
       ELSE LET launch == ~pump.outReady /\ out.ring # "empty" /\ GateOpen
            IN /\ track' \in Throttled(pump.outReady \/ launch)
               /\ IF launch
                  THEN OutputReady(out, ses, sent)
                  ELSE /\ Goto(IF track'.throttled THEN "pace" ELSE "read")
                       /\ UNCHANGED <<ses, out, sent>>
    /\ UNCHANGED <<rd, th, lms>>

\* waitForGate(): nothing else is done while it waits.
PumpGateWait ==
    /\ Running("gatewait")
    /\ th.stop \/ GateOpen \/ out.lost
    /\ Goto("top")
    /\ UNCHANGED <<rd, ses, track, th, out, lms, sent>>

\* onDecoderReady() on the first decoded chunk: STMl for autostart 0, and STMs
\* when no target is known.
ReadyEvents ==
    (IF ses.autostart = 0 /\ ~ses.stml THEN <<"STMl">> ELSE <<>>)
    \o (IF ~out.target /\ ~ses.stms THEN <<"STMs">> ELSE <<>>)

\* feed() decoded a chunk: flags, history, track and ring after it.
ChunkFlags ==
    IF track.ready THEN ses
    ELSE [ses EXCEPT !.stml = ses.stml \/ ses.autostart = 0,
                     !.stms = ses.stms \/ ~out.target]
ChunkSent  == IF track.ready THEN sent ELSE sent \o ReadyEvents
\* A chunk fed during a fade-out may end it.
ChunkTracks == {[track EXCEPT !.ready = TRUE, !.fadeDone = done] :
                    done \in {track.fadeDone, track.fadeOut}}
ChunkOut   == IF out.player = "none"
              THEN out ELSE [out EXCEPT !.ring = Fuller(@)]

ChunkFed == /\ ses' = ChunkFlags /\ sent' = ChunkSent /\ out' = ChunkOut

\* read() returned audio.
ReadData ==
    /\ Running("read")
    /\ track.src = "open"
    /\ Goto("feed")
    /\ UNCHANGED <<rd, ses, track, th, out, lms, sent>>

\* read() reached the end of the HTTP body.
ReadEof ==
    /\ Running("read")
    /\ track.src \in {"open", "eof"}
    /\ track' = [track EXCEPT !.src = "eof"]
    /\ pump' = [pump EXCEPT !.pc = "feed", !.why = "eof"]
    /\ UNCHANGED <<rd, ses, th, out, lms, sent>>

\* read() timed out, with the source silent for less than source-timeout.
ReadNothing ==
    /\ Running("read")
    /\ track.src = "open"
    /\ Goto("pace")
    /\ UNCHANGED <<rd, ses, track, th, out, lms, sent>>

\* Mutant: a dead socket is read again.
ReadClosed_Spins ==
    /\ Running("read")
    /\ track.src \in {"open", "closed"}
    /\ track' = [track EXCEPT !.src = "closed"]
    /\ Goto("pace")
    /\ UNCHANGED <<rd, ses, th, out, lms, sent>>

\* The socket broke, or was closed by an earlier shutdown().
ReadClosed ==
    /\ Running("read")
    /\ track.src \in {"open", "closed"}
    /\ track' = [track EXCEPT !.disco = "remote", !.src = "closed"]
    /\ pump' = [pump EXCEPT !.pc = "ret", !.why = "socket"]
    /\ UNCHANGED <<rd, ses, th, out, lms, sent>>

\* The source has been silent for source-timeout.
ReadWatchdog ==
    /\ Running("read")
    /\ track.src = "open"
    /\ track' = [track EXCEPT !.disco = "timeout"]
    /\ pump' = [pump EXCEPT !.pc = "ret", !.why = "socket"]
    /\ UNCHANGED <<rd, ses, th, out, lms, sent>>

Feeding(why) == Running("feed") /\ pump.why = why

\* The audio decoded to a chunk: leave if that ended the fade, launch the
\* receiver if it is the first audio queued behind an open gate.
FeedChunk ==
    /\ Feeding("none")
    /\ track' \in ChunkTracks
    /\ IF ~track'.fadeDone /\ ~pump.outReady /\ ChunkOut.ring # "empty" /\ GateOpen
       THEN OutputReady(ChunkOut, ChunkFlags, ChunkSent)
       ELSE ChunkFed /\ Goto(IF track'.fadeDone THEN "ret" ELSE "pace")
    /\ UNCHANGED <<rd, th, lms>>

\* The audio was too little to decode.
FeedPartial ==
    /\ Feeding("none")
    /\ Goto("pace")
    /\ UNCHANGED <<rd, ses, track, th, out, lms, sent>>

\* The decoder reported an error, perhaps after a chunk.
FeedUndecodable ==
    /\ Feeding("none")
    /\ \/ track' \in ChunkTracks /\ ChunkFed
       \/ UNCHANGED <<track, ses, sent, out>>
    /\ pump' = [pump EXCEPT !.pc = "ret", !.why = "decode"]
    /\ UNCHANGED <<rd, th, lms>>

\* The decoder's tail, if it has one, is fed as a chunk.
FeedTail ==
    /\ Feeding("eof")
    /\ \/ \E fed \in ChunkTracks : track' = [fed EXCEPT !.disco = "ok"] /\ ChunkFed
       \/ track' = [track EXCEPT !.disco = "ok"] /\ UNCHANGED <<ses, sent, out>>
    /\ pump' = [pump EXCEPT !.pc = "ret"]
    /\ UNCHANGED <<rd, th, lms>>

\* The pacer or the ring throttle has serviced the sender for its slice.
PumpPace ==
    /\ Running("pace")
    /\ Goto("top")
    /\ UNCHANGED <<rd, ses, track, th, out, lms, sent>>

\* The order in which run() ranks the reasons it may end for.
PumpRet ==
    /\ Running("ret")
    /\ pump' = [pump EXCEPT !.pc = "exit",
                  !.end = IF track.fadeDone           THEN "FadedOut"
                          ELSE IF th.stop             THEN "Stopped"
                          ELSE IF out.lost            THEN "Lost"
                          ELSE IF pump.why = "eof"    THEN "Eof"
                          ELSE IF pump.why = "decode" THEN "DecodeError"
                          ELSE "SocketError"]
    /\ UNCHANGED <<rd, ses, track, th, out, lms, sent>>

\* streamLoop after run(): STMn for a decode error, take the flush mark.
PumpExit ==
    /\ Running("exit")
    /\ sent' = IF pump.end = "DecodeError" THEN Append(sent, "STMn") ELSE sent
    /\ pump' = [pump EXCEPT !.pc = "decide", !.keep = ses.flushed]
    /\ ses' = [ses EXCEPT !.flushed = FALSE]
    /\ UNCHANGED <<rd, track, th, out, lms>>

\* Mutant: a second loss ends the stream without a word.
DecideExit_SilentLoss(stopping, lost, retryUsed, reachedEof) ==
    IF stopping \/ (lost /\ retryUsed) THEN "SilentStop"
    ELSE IF lost THEN "Retry"
    ELSE IF reachedEof THEN "EndedEof"
    ELSE "EndedError"

\* decideExit() of exit_policy.h.
DecideExit(stopping, lost, retryUsed, reachedEof) ==
    IF stopping THEN "SilentStop"
    ELSE IF lost THEN IF retryUsed THEN "GaveUp" ELSE "Retry"
    ELSE IF reachedEof THEN "EndedEof"
    ELSE "EndedError"

\* What each exit tells LMS before the teardown (EndedEof's STMu comes later).
ExitEvents(action) ==
    CASE action = "GaveUp"     -> <<"STMd">>
      [] action = "EndedEof"   -> <<"DSCO", "STMd">>
      [] action = "EndedError" -> IF track.disco # "none" THEN <<"DSCO", "STMn">>
                                  ELSE <<"STMu">>
      [] OTHER                 -> <<>>

\* Consume the loss flag, look at the stop token, decide.
PumpDecide ==
    /\ Running("decide")
    /\ out' = [out EXCEPT !.lost = FALSE]
    /\ LET action == IF pump.end = "FadedOut" THEN "SilentStop"
                     ELSE DecideExit(th.stop, out.lost, ses.retryUsed, pump.end = "Eof")
       IN /\ sent' = sent \o ExitEvents(action)
          /\ ses' = IF action = "Retry" THEN [ses EXCEPT !.retryUsed = TRUE] ELSE ses
          /\ Goto(CASE action = "Retry"    -> "retry"
                    [] action = "EndedEof" -> "drain"
                    [] OTHER               -> "final")
    /\ UNCHANGED <<rd, track, th, lms>>

\* After the uninterruptible 2 s delay: a fresh session, and run() again.
PumpRetry ==
    /\ Running("retry")
    /\ out' = PreparedOutput(out)
    /\ Goto("run")
    /\ UNCHANGED <<rd, ses, track, th, lms, sent>>

\* waitForOutputDrain() returns when the ring is empty, the receiver is lost,
\* a stop was requested or the drain timeout passed; then STMu.
PumpDrain ==
    /\ Running("drain")
    /\ sent' = IF th.stop \/ out.lost THEN sent ELSE Append(sent, "STMu")
    /\ Goto("final")
    /\ UNCHANGED <<rd, ses, track, th, out, lms>>

\* Mutant: a flushed session is kept but not parked.
PumpFinal_NoPark ==
    /\ Running("final")
    /\ out' = IF pump.keep THEN out ELSE StoppedOutput
    /\ track' = [track EXCEPT !.src = "closed"]
    /\ ses' = [ses EXCEPT !.active = FALSE]
    /\ th' = [th EXCEPT !.state = "finished"]
    /\ pump' = Idle
    /\ UNCHANGED <<rd, lms, sent>>

\* Keep the session for the next track after a flush, else stop it.
PumpFinal ==
    /\ Running("final")
    /\ out' = IF pump.keep
              THEN [out EXCEPT !.keepAlive = out.player # "none"]
              ELSE StoppedOutput
    /\ track' = [track EXCEPT !.src = "closed"]
    /\ ses' = [ses EXCEPT !.active = FALSE]
    /\ th' = [th EXCEPT !.state = "finished"]
    /\ pump' = Idle
    /\ UNCHANGED <<rd, lms, sent>>

-----------------------------------------------------------------------------
(* Environment: time, the receiver, discovery.                             *)

\* The sender has no thread of its own: the keep-alive thread drives it, or the
\* stream thread does, paused, pacing or draining, or when a push finds the
\* ring full.
DrivingPc == {"paused", "pace", "drain"}
Driven ==
    \/ out.keepAlive
    \/ /\ th.state = "running"
       /\ \/ pump.pc \in DrivingPc
          \/ pump.pc = "feed" /\ out.ring = "full"

\* A driven sender takes audio off the ring.
SenderSends ==
    /\ out.player = "live" /\ Driven /\ out.ring # "empty"
    /\ out' = [out EXCEPT !.ring = Emptier(@)]
    /\ UNCHANGED <<rd, ses, track, th, pump, lms, sent>>

\* The receiver closes the session; the sender reports it while driven.
ReceiverCloses ==
    /\ out.player = "live" /\ Driven
    /\ out' = [out EXCEPT !.player = "dead", !.lost = TRUE]
    /\ UNCHANGED <<rd, ses, track, th, pump, lms, sent>>

\* The deadline of a timed pause, or of a scheduled start, passes.
PauseDue ==
    /\ track.pause = "timed"
    /\ track' = [track EXCEPT !.pause = "none"]
    /\ UNCHANGED <<rd, ses, th, pump, out, lms, sent>>

GateDue ==
    /\ track.gate = "timed"
    /\ track' = [track EXCEPT !.gate = "open"]
    /\ UNCHANGED <<rd, ses, th, pump, out, lms, sent>>

\* Discovery resolves the receiver (updateTarget; ignored while active).
TargetFound ==
    /\ ~out.target /\ out.player # "live"
    /\ out' = [out EXCEPT !.target = TRUE]
    /\ UNCHANGED <<rd, ses, track, th, pump, lms, sent>>

-----------------------------------------------------------------------------
Init ==
    /\ rd = [pc |-> "idle", op |-> "none"]
    /\ ses = [track |-> FALSE, autostart |-> 0, awaitCodc |-> FALSE,
              haveCodc |-> FALSE, haveCont |-> FALSE, stml |-> FALSE,
              stms |-> FALSE, flushed |-> FALSE, retryUsed |-> FALSE,
              active |-> FALSE]
    /\ track = [NewTrack(NoRequest) EXCEPT !.src = "closed"]
    /\ th = NoThread
    /\ pump = Idle
    /\ \E known \in BOOLEAN :
          out = [target |-> known, player |-> "none", lost |-> FALSE,
                 keepAlive |-> FALSE, ring |-> "empty"]
    /\ lms = [cont |-> FALSE, codc |-> FALSE, halted |-> FALSE]
    /\ sent = <<>>

\* What LMS may ask for, in any order.
Command ==
    \/ BeginStart \/ BeginFlush \/ StopByFade \/ BeginStop \/ BeginAudeOff
    \/ OnCont \/ OnCodc \/ OnPause \/ OnUnpause

\* The reader thread completing a command it has begun.
Reader == Shutdown \/ FinishFlush \/ FinishStop \/ FinishStart

\* A read() that tells the pump something: data, an end or an error.
ReadResult == ReadData \/ ReadClosed \/ ReadWatchdog \/ ReadEof

Feed == FeedChunk \/ FeedPartial \/ FeedUndecodable \/ FeedTail

StreamThread ==
    \/ PumpBegin \/ PumpRun \/ PumpTop \/ PumpPaused \/ PumpGate \/ PumpGateWait
    \/ ReadResult \/ ReadNothing \/ Feed \/ PumpPace
    \/ PumpRet \/ PumpExit \/ PumpDecide \/ PumpRetry \/ PumpDrain \/ PumpFinal

Clock == PauseDue \/ GateDue

Next == Command \/ Reader \/ StreamThread \/ Clock
        \/ SenderSends \/ ReceiverCloses \/ TargetFound

Spec == Init /\ [][Next]_vars

\* The scheduler runs both threads, and a deadline that is set passes.
Fairness ==
    /\ WF_vars(StreamThread)
    /\ WF_vars(Reader)
    /\ WF_vars(PauseDue)
    /\ WF_vars(GateDue)

FairSpec == Spec /\ Fairness

-----------------------------------------------------------------------------
(* Safety.                                                                 *)

\* streamLoop holds a raw pointer to *track_ for as long as it runs, and the
\* reader thread may destroy or replace track_: never while a pump runs.
TrackOutlivesPump == th.state = "running" => ses.track

\* Between tracks the coarse keep-alive thread drives a kept session; it is
\* joined before a stream thread takes the sender over, so that the two never
\* compete for it.
OneDriver ==
    out.keepAlive => th.state # "running" \/ pump.pc = "begin"

\* A receiver session that outlives its stream thread is always parked: no
\* order of commands leaves a session up that nobody feeds.
NoOrphanSession ==
    out.player # "none" /\ th.state # "running" => out.keepAlive

\* A loss reported by an earlier receiver session is never charged to the one
\* a stream thread has just prepared (prepare() clears it, or the exit path
\* consumed it).
NoInheritedLoss == Running("run") => ~out.lost

\* A pump that ends without having been asked to has told LMS so: STMd, STMn
\* or STMu; a completed stop fade ends a stream LMS itself has ended.
EndIsReported ==
    th.state = "finished" /\ ~th.stop =>
        Said("STMd") \/ Said("STMn") \/ Said("STMu") \/ lms.halted

\* A synchronised start (autostart 0) launches the receiver only after LMS
\* sent strm u, except by a pump that shutdown() has already asked to stop:
\* shutdown() opens the gate to wake it.
HeldUntilReleased ==
    [][out.player = "fresh" /\ out'.player = "live" =>
          track.released \/ th.stop]_vars

\* A pass of run() that believes the receiver launched has launched it: the
\* belief is dropped with the session on a receiver-loss retry.
LaunchedWhenReady ==
    th.state = "running" /\ pump.pc \in InRun /\ pump.outReady => out.player # "fresh"

\* strm f keeps the live session of a pump that is still streaming: whatever
\* ends its run() first, the exit path finds the flush mark.  (Once a stream
\* has used its retry this need not hold: the exit path before the retry takes
\* the mark if the reader has not asked the pump to stop yet.)
FlushKeepsStreaming ==
    [][PumpExit /\ rd.op = "flush" /\ out.player = "live" /\ ~ses.retryUsed =>
          pump'.keep]_vars

\* What LMS is told about a stream, as StreamReport's variables.
Verdict == {"STMd", "STMn", "STMu"}
Count(E) == Cardinality({i \in DOMAIN sent : sent[i] \in E})
Latest(E) == CHOOSE i \in DOMAIN sent :
                 sent[i] \in E /\ \A j \in DOMAIN sent : sent[j] \in E => j <= i
PhaseOf ==
    IF Count(Verdict \cup {"STMc"}) = 0 THEN "none"
    ELSE [STMc |-> "connected", STMd |-> "complete", STMn |-> "failed",
          STMu |-> "ended"][sent[Latest(Verdict \cup {"STMc"})]]

Report == INSTANCE StreamReport WITH
    asked <- rd.op = "start", phase <- PhaseOf, told <- Count(Verdict),
    begun <- Count({"STMs"}), halted <- lms.halted

\* Through every interleaving, loss and retry, LMS sees a StreamReport.
ImplementsReport == Report!RSpec

-----------------------------------------------------------------------------
(* Liveness, under FairSpec.                                               *)

\* shutdown() joins the stream thread from the reader thread, so a pump that
\* does not notice the stop would silence the player for good: it notices,
\* whatever the source and the receiver do.
HandlersReturn == rd.pc # "idle" ~> rd.pc = "idle"

\* Every source ends (LMS serves finite tracks, a broken one errors and the
\* watchdog ends a silent one), and a receiver that is driven takes audio, so
\* that the ring throttle lets go.
FiniteTracks == SF_vars(ReadEof) /\ SF_vars(SenderSends)

\* A pass that inherited the throttle from the one before a receiver loss: its
\* ring is new and empty, so its output never becomes ready, so the throttle is
\* never looked at again and nothing is ever read.
Wedged ==
    /\ th.state = "running" /\ pump.pc \in InRun
    /\ track.throttled /\ ~pump.outReady /\ out.ring = "empty"

\* With finite tracks a pump ends unless LMS has it paused or holds its start,
\* or a retry has inherited the throttle (ThrottleLetsGo).
PumpEnds ==
    FiniteTracks =>
        (th.state = "running" ~>
            th.state # "running" \/ pump.pc \in {"paused", "gatewait"} \/ Wedged)

\* The throttle services the sender "until it drains" and then lets the pump
\* read again, in the pass after a retry as in the first: "a retry creates a
\* fresh ring, so this re-arms per pass" (PlaybackStream::run).  Here once LMS has
\* said all it wants to say.
ThrottleLetsGo ==
    FiniteTracks /\ <>[][~Command]_vars =>
        (th.state = "running" /\ track.throttled ~>
            \/ th.state # "running" \/ ~track.throttled
            \/ pump.pc \in {"paused", "gatewait"})

\* A fade-out that requestStopOrFade() delegates to the pump ends the stream
\* thread ("streamLoop tears the session down when it returns FadedOut"), once
\* LMS has said all it wants to say.
FadeStopCompletes ==
    FiniteTracks /\ <>[][~Command]_vars =>
        (track.fadeReq /\ th.state = "running" ~> th.state # "running" \/ Wedged)

=============================================================================
