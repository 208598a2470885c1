------------------------ MODULE StreamSession_proofs ------------------------
(* What is proved about StreamSession, for every set of requests and every  *)
(* fade length: its invariants, from the inductive invariant IInv; its       *)
(* action properties, from OInv on top of it; and that it implements         *)
(* StreamReport, from RInv on top of both.                                   *)
EXTENDS StreamSession, SequenceTheorems, FiniteSetTheorems, TLAPS

-----------------------------------------------------------------------------
(* The invariants.                                                          *)

Alive == th.state = "running"

\* A pump has a program counter exactly while its thread runs.
PumpState == Alive <=> pump.pc # "idle"

\* A track waiting for its codec has no thread yet, so that a failing codc may
\* drop it.
CodecFirst == ses.awaitCodc => ~ses.haveCodc /\ th.state = "none"

\* There is no session without a target, and none is ever lost.
NeedsTarget == ~out.target => out.player = "none" /\ ~out.lost

\* The loss flag: raised only where the sender is driven, consumed by decide.
LossSeen ==
    /\ out.lost /\ out.player \in {"live", "fresh"} =>
          Alive /\ pump.pc \in InRun \cup {"ret", "exit", "decide"}
    /\ Alive /\ pump.pc \in {"retry", "run", "gate", "gatewait", "read"} => ~out.lost

\* Why run() was left: a decode error comes from an open source that has no
\* disconnect reason, and a source that has one is not read again.
ReasonFits ==
    /\ Alive /\ pump.pc \in InRun =>
          \/ pump.why = "none"
          \/ pump.pc = "feed" /\ pump.why = "eof"
    /\ Alive /\ pump.pc = "feed" =>
          \/ track.src = "open" /\ pump.why = "none"
          \/ track.src = "eof" /\ pump.why = "eof"
    /\ track.src = "open" /\ track.disco # "none" =>
          /\ Alive /\ pump.pc \in {"ret", "exit", "decide", "drain", "final"}
          /\ pump.pc \in {"drain", "final"} \/ ~out.lost
    /\ Alive /\ pump.pc = "ret" /\ pump.why = "decode" => track.disco = "none"
    /\ Alive /\ pump.pc \in {"exit", "decide"} /\ pump.end = "DecodeError" =>
          track.disco = "none"

Told == Said("STMd") \/ Said("STMn") \/ Said("STMu") \/ lms.halted

\* Only LMS asks for a fade, and a pump about to end has spoken.
EndTold ==
    /\ track.fadeReq \/ track.fadeOut \/ track.fadeDone => lms.halted
    /\ Alive /\ pump.pc \in {"exit", "decide"} /\ pump.end = "FadedOut" => lms.halted
    /\ Alive /\ pump.pc = "drain" => Said("STMd")
    /\ Alive /\ pump.pc = "final" /\ ~th.stop => Told

\* The four parts of the inductive invariant.
Structure == PumpState /\ TrackOutlivesPump /\ CodecFirst /\ OneDriver /\ NoOrphanSession
Losses    == NeedsTarget /\ LossSeen /\ LaunchedWhenReady
Endings   == EndTold /\ EndIsReported

IInv == TypeOK /\ Structure /\ Losses /\ ReasonFits /\ Endings

-----------------------------------------------------------------------------
(* What the helpers return.                                                *)

\* The initial records and those the handlers write as literals have the type.
LEMMA LiteralType ==
  /\ Idle \in PumpRec /\ [Idle EXCEPT !.pc = "begin"] \in PumpRec
  /\ NoThread \in ThreadRec /\ [state |-> "running", stop |-> FALSE] \in ThreadRec
BY DEF Idle, NoThread, PumpRec, PumpPc, Why, EndCode, ThreadRec

\* Moving the program counter keeps the pump's type.
LEMMA GotoType ==
  ASSUME NEW pc \in PumpPc, pump \in PumpRec, Goto(pc)
  PROVE  pump' \in PumpRec
BY DEF Goto, PumpRec

\* maybeStartPump() starts a thread at "begin" or leaves the given one.
LEMMA MaybeStartPumpType ==
  ASSUME NEW f, NEW t \in ThreadRec, pump \in PumpRec, MaybeStartPump(f, t)
  PROVE  th' \in ThreadRec /\ pump' \in PumpRec
BY LiteralType DEF MaybeStartPump

\* A new track, and an old one closed.
LEMMA NewTrackType ==
  ASSUME NEW r \in RequestRec
  PROVE  NewTrack(r) \in TrackRec
<1>1. (r.autostart # 0) \in BOOLEAN /\ r.fade \in BOOLEAN
  BY DEF RequestRec
<1> QED
  BY <1>1 DEF NewTrack, TrackRec, GateState, PauseState, Source, Reason

\* The track there is before the first stream.
LEMMA FirstTrackType == NewTrack(NoRequest) \in TrackRec
<1>1. NoRequest \in RequestRec
  BY DEF NoRequest, RequestRec, Autostarts, Formats
<1> QED
  BY <1>1, NewTrackType

\* A track whose source has been closed.
LEMMA ClosedType ==
  ASSUME NEW t \in TrackRec
  PROVE  [t EXCEPT !.src = "closed"] \in TrackRec
BY DEF TrackRec, Source

\* The flags of a new stream.
LEMMA FreshFlagsType ==
  ASSUME NEW r \in Requests, ses \in SessionRec
  PROVE  FreshFlags(r) \in SessionRec
BY RequestsAssumption DEF RequestRec, FreshFlags, SessionRec, Autostarts

\* AirplayOutput's operations keep its type.
LEMMA OutputType ==
  ASSUME NEW o \in OutputRec
  PROVE  /\ PreparedOutput(o) \in OutputRec
         /\ LaunchedOutput(o) \in OutputRec
         /\ [o EXCEPT !.ring = "empty"] \in OutputRec
         /\ [o EXCEPT !.player = "none", !.ring = "empty", !.keepAlive = FALSE] \in OutputRec
<1>1. [o EXCEPT !.player = "fresh", !.lost = FALSE, !.ring = "empty", !.keepAlive = FALSE]
         \in OutputRec
  BY DEF OutputRec, Player, RingLevel
<1>2. PreparedOutput(o) \in OutputRec
  BY <1>1 DEF PreparedOutput
<1>3. LaunchedOutput(o) \in OutputRec
  BY DEF LaunchedOutput, OutputRec, Player
<1> QED
  BY <1>2, <1>3 DEF OutputRec, Player, RingLevel

\* Histories of one and two events, and a longer history.
LEMMA SayType ==
  ASSUME NEW s \in Seq(Event), NEW e \in Event
  PROVE  Append(s, e) \in Seq(Event)
OBVIOUS

\* A history and the events of one step.
LEMMA SayAllType ==
  ASSUME NEW s \in Seq(Event), NEW t \in Seq(Event)
  PROVE  s \o t \in Seq(Event)
BY ConcatProperties

LEMMA ShortSayType ==
  ASSUME NEW d \in Event, NEW e \in Event
  PROVE  <<>> \in Seq(Event) /\ <<e>> \in Seq(Event) /\ <<d, e>> \in Seq(Event)
OBVIOUS

\* A decoded chunk.
LEMMA ChunkType ==
  ASSUME TypeOK
  PROVE  /\ ChunkFlags \in SessionRec /\ ChunkSent \in Seq(Event)
         /\ ChunkTracks \subseteq TrackRec /\ ChunkOut \in OutputRec
<1>1. ChunkFlags \in SessionRec
  BY ZenonT(120) DEF TypeOK, ChunkFlags, SessionRec, OutputRec
<1>2. ReadyEvents \in Seq(Event)
  <2>1. "STMl" \in Event /\ "STMs" \in Event
    BY DEF Event
  <2> QED
    BY <2>1, ShortSayType, SayAllType DEF ReadyEvents
<1>3. ChunkSent \in Seq(Event)
  BY <1>2, SayAllType DEF TypeOK, ChunkSent
<1>4. ChunkTracks \subseteq TrackRec
  BY DEF TypeOK, ChunkTracks, TrackRec
<1>5. ChunkOut \in OutputRec
  BY DEF TypeOK, ChunkOut, OutputRec, RingLevel, Fuller
<1> QED
  BY <1>1, <1>3, <1>4, <1>5

\* A chunk says nothing about the source and asks for no fade.
LEMMA ChunkKeeps ==
  ASSUME TypeOK
  PROVE  \A t \in ChunkTracks :
            /\ t \in TrackRec
            /\ t.src = track.src /\ t.disco = track.disco
            /\ t.fadeReq = track.fadeReq /\ t.fadeOut = track.fadeOut
            /\ t.fadeDone => track.fadeDone \/ track.fadeOut
<1> DEFINE Fed(d) == [track EXCEPT !.ready = TRUE, !.fadeDone = d]
<1>1. \A d \in BOOLEAN :
         /\ Fed(d).src = track.src /\ Fed(d).disco = track.disco
         /\ Fed(d).fadeReq = track.fadeReq /\ Fed(d).fadeOut = track.fadeOut
         /\ Fed(d).fadeDone = d
  BY DEF TypeOK, TrackRec
<1>2. track.fadeDone \in BOOLEAN /\ track.fadeOut \in BOOLEAN
  BY DEF TypeOK, TrackRec
<1> QED
  BY <1>1, <1>2, ChunkType DEF ChunkTracks

\* After a launch the pump reads, if the throttle lets it, or services the sender.
LEMMA LaunchGoesOn ==
  AfterLaunch \in {"read", "pace"} /\ (pump.pc # "gate" => AfterLaunch = "pace")
BY DEF AfterLaunch

\* Launching the receiver, with STMs if it was not said before.
LEMMA OutputReadyType ==
  ASSUME NEW o \in OutputRec, NEW f \in SessionRec, NEW said \in Seq(Event),
         pump \in PumpRec, OutputReady(o, f, said)
  PROVE  /\ out' \in OutputRec /\ ses' \in SessionRec /\ sent' \in Seq(Event)
         /\ pump' \in PumpRec
<1>1. out' \in OutputRec
  BY OutputType DEF OutputReady
<1>2. ses' \in SessionRec
  BY DEF OutputReady, SessionRec
<1>3. sent' \in Seq(Event)
  BY SayType DEF OutputReady, Event
<1>4. pump' \in PumpRec
  BY LaunchGoesOn DEF OutputReady, PumpRec, PumpPc
<1> QED
  BY <1>1, <1>2, <1>3, <1>4

\* The gate and the throttle move the pump and the throttle's own flag.
LEMMA GateKeeps ==
  ASSUME TypeOK, PumpGate
  PROVE  /\ track' \in TrackRec /\ UNCHANGED <<rd, th, lms>>
         /\ track'.gate = track.gate /\ track'.pause = track.pause
         /\ track'.canFade = track.canFade /\ track'.fadeReq = track.fadeReq
         /\ track'.fadeOut = track.fadeOut /\ track'.fadeDone = track.fadeDone
         /\ track'.src = track.src /\ track'.disco = track.disco
         /\ track'.ready = track.ready /\ track'.released = track.released
         /\ pump.pc = "gate" /\ th.state = "running"
         /\ pump'.pc \in {"gatewait", "read", "pace"}
         /\ pump'.why = pump.why /\ pump'.end = pump.end /\ pump'.keep = pump.keep
         /\ \/ UNCHANGED <<ses, out, sent>> /\ pump'.outReady = pump.outReady
            \/ /\ OutputReady(out, ses, sent) /\ pump'.outReady
               /\ GateOpen /\ out.ring # "empty"
<1>1. /\ UNCHANGED <<rd, th, lms>> /\ pump.pc = "gate" /\ th.state = "running"
      /\ \/ Goto("gatewait") /\ UNCHANGED <<ses, out, sent, track>>
         \/ Goto("read") /\ UNCHANGED <<ses, out, sent>>
         \/ Goto("pace") /\ UNCHANGED <<ses, out, sent>>
         \/ OutputReady(out, ses, sent) /\ GateOpen /\ out.ring # "empty"
  BY DEF PumpGate, Running
<1>2. \E t \in BOOLEAN : track' = [track EXCEPT !.throttled = t]
  <2>1. track.throttled \in BOOLEAN /\ track = [track EXCEPT !.throttled = @]
    BY DEF TypeOK, TrackRec
  <2>2. \A ready : \A t \in Throttled(ready) :
           \E b \in BOOLEAN : t = [track EXCEPT !.throttled = b]
    BY <2>1 DEF Throttled
  <2>3. track' = track \/ \E ready : track' \in Throttled(ready)
    BY DEF PumpGate
  <2> QED
    BY <2>1, <2>2, <2>3
<1>3. /\ pump'.pc \in {"gatewait", "read", "pace"}
      /\ pump'.why = pump.why /\ pump'.end = pump.end /\ pump'.keep = pump.keep
  BY <1>1, LaunchGoesOn DEF Goto, OutputReady, TypeOK, PumpRec
<1>4. \/ UNCHANGED <<ses, out, sent>> /\ pump'.outReady = pump.outReady
      \/ /\ OutputReady(out, ses, sent) /\ pump'.outReady
         /\ GateOpen /\ out.ring # "empty"
  BY <1>1 DEF Goto, OutputReady, TypeOK, PumpRec
<1>5. \A t \in BOOLEAN : LET c == [track EXCEPT !.throttled = t] IN
         /\ c \in TrackRec
         /\ c.gate = track.gate /\ c.pause = track.pause
         /\ c.canFade = track.canFade /\ c.fadeReq = track.fadeReq
         /\ c.fadeOut = track.fadeOut /\ c.fadeDone = track.fadeDone
         /\ c.src = track.src /\ c.disco = track.disco
         /\ c.ready = track.ready /\ c.released = track.released
  BY DEF TypeOK, TrackRec
<1> QED
  BY <1>1, <1>2, <1>3, <1>4, <1>5

-----------------------------------------------------------------------------
(* Type correctness.                                                       *)

\* The initial state is well typed.
LEMMA InitType == Init => TypeOK
<1> SUFFICES ASSUME Init PROVE TypeOK
  OBVIOUS
<1>1. rd \in ReaderRec /\ lms \in LmsRec /\ sent \in Seq(Event)
  BY DEF Init, ReaderRec, ReaderPc, Op, LmsRec
<1>2. ses \in SessionRec
  BY DEF Init, SessionRec, Autostarts
<1>3. track \in TrackRec
  BY FirstTrackType, ClosedType DEF Init
<1>4. out \in OutputRec
  BY DEF Init, OutputRec, Player, RingLevel
<1> QED
  BY <1>1, <1>2, <1>3, <1>4, LiteralType DEF Init, TypeOK

\* Whichever way onStreamStart goes, the state stays well typed.
LEMMA FinishStartType ==
  ASSUME TypeOK, FinishStart
  PROVE  TypeOK'
<1>1. rd' \in ReaderRec /\ UNCHANGED out
  BY DEF FinishStart, AfterJoin, ReaderRec, ReaderPc, Op
<1>2. PICK r \in Requests : \/ RefuseStart(r) \/ FailOpen(r)
                            \/ \E attached \in BOOLEAN : OpenStart(r, attached)
  BY DEF FinishStart
<1>3. "STMn" \in Event /\ "STMc" \in Event /\ "DSCO" \in Event
  BY DEF Event
<1>4. /\ <<"STMn">> \in Seq(Event) /\ <<"DSCO", "STMn">> \in Seq(Event)
      /\ <<"STMc">> \in Seq(Event) /\ <<"STMc", "STMn">> \in Seq(Event)
  BY <1>3, ShortSayType
<1>5. /\ FreshFlags(r) \in SessionRec
      /\ [FreshFlags(r) EXCEPT !.track = TRUE] \in SessionRec
      /\ [FreshFlags(r) EXCEPT !.track = FALSE] \in SessionRec
  BY FreshFlagsType DEF TypeOK, SessionRec
<1>6. CASE RefuseStart(r)
  BY <1>1, <1>4, <1>5, <1>6, LiteralType, ClosedType DEF TypeOK, RefuseStart
<1>7. CASE FailOpen(r)
  <2>1. lms' \in LmsRec
    BY <1>7 DEF TypeOK, FailOpen, LmsRec
  <2> QED
    BY <1>1, <1>4, <1>5, <1>7, <2>1, LiteralType, NewTrackType, ClosedType,
       RequestsAssumption DEF TypeOK, FailOpen
<1>8. ASSUME NEW attached \in BOOLEAN, OpenStart(r, attached) PROVE TypeOK'
  <2>1. lms' \in LmsRec
    BY <1>8 DEF TypeOK, OpenStart, LmsRec
  <2>2. track' \in TrackRec
    BY <1>8, NewTrackType, RequestsAssumption DEF OpenStart
  <2>3. ses' \in SessionRec
    BY <1>8, <1>5 DEF OpenStart, SessionRec
  <2>4. sent' \in Seq(Event)
    BY <1>8, <1>4 DEF OpenStart
  <2>5. th' \in ThreadRec /\ pump' \in PumpRec
    BY <1>8, LiteralType, MaybeStartPumpType DEF OpenStart, TypeOK
  <2> QED
    BY <1>1, <2>1, <2>2, <2>3, <2>4, <2>5 DEF TypeOK
<1> QED
  BY <1>2, <1>6, <1>7, <1>8

\* A step of the reader thread.
LEMMA ReaderTypeStep ==
  ASSUME TypeOK, Command \/ Reader
  PROVE  TypeOK'
<1>1. CASE BeginStart
  BY <1>1 DEF TypeOK, BeginStart, Halted, ReaderRec, ReaderPc, Op, LmsRec
<1>2. CASE BeginFlush
  BY <1>2 DEF TypeOK, BeginFlush, Halted, ReaderRec, ReaderPc, Op, LmsRec, SessionRec
<1>3. CASE StopByFade
  BY <1>3 DEF TypeOK, StopByFade, Halted, LmsRec, TrackRec
<1>4. CASE BeginStop
  BY <1>4 DEF TypeOK, BeginStop, Halted, ReaderRec, ReaderPc, Op, LmsRec
<1>5. CASE BeginAudeOff
  BY <1>5 DEF TypeOK, BeginAudeOff, Halted, ReaderRec, ReaderPc, Op, LmsRec
<1>6. CASE OnCont
  <2>1. lms' \in LmsRec /\ ses' \in SessionRec
    BY <1>6 DEF TypeOK, OnCont, LmsRec, SessionRec
  <2> QED
    BY <1>6, <2>1, MaybeStartPumpType DEF TypeOK, OnCont
<1>7. CASE OnCodc
  <2>1. lms' \in LmsRec /\ ses' \in SessionRec
    BY <1>7, ZenonT(120) DEF TypeOK, OnCodc, LmsRec, SessionRec
  <2>2. sent' \in Seq(Event)
    BY <1>7, SayType DEF TypeOK, OnCodc, Event
  <2>3. th' \in ThreadRec /\ pump' \in PumpRec
    BY <1>7, MaybeStartPumpType DEF TypeOK, OnCodc
  <2> QED
    BY <1>7, <2>1, <2>2, <2>3 DEF TypeOK, OnCodc
<1>8. CASE OnPause
  BY <1>8, OutputType DEF TypeOK, OnPause, SilencedOutput, TrackRec, PauseState
<1>9. CASE OnUnpause
  BY <1>9 DEF TypeOK, OnUnpause, Unpaused, TrackRec, PauseState, GateState
<1>10. CASE Shutdown
  <2>1. rd' \in ReaderRec
    BY <1>10 DEF TypeOK, Shutdown, ReaderRec, ReaderPc
  <2>2. th' \in ThreadRec
    BY <1>10 DEF TypeOK, Shutdown, ThreadRec
  <2>3. Unpaused(track, "open") \in TrackRec
    BY DEF TypeOK, Unpaused, TrackRec, PauseState, GateState
  <2>4. track' \in TrackRec
    BY <1>10, <2>3 DEF TypeOK, Shutdown
  <2> QED
    BY <1>10, <2>1, <2>2, <2>4 DEF TypeOK, Shutdown
<1>11. CASE FinishFlush
  BY <1>11, LiteralType, ClosedType, OutputType
     DEF TypeOK, FinishFlush, AfterJoin, ReaderRec, ReaderPc, Op, SilencedOutput
<1>12. CASE FinishStop
  BY <1>12, LiteralType, ClosedType, OutputType
     DEF TypeOK, FinishStop, AfterJoin, ReaderRec, ReaderPc, Op, StoppedOutput
<1>13. CASE FinishStart
  BY <1>13, FinishStartType
<1> QED
  BY <1>1, <1>2, <1>3, <1>4, <1>5, <1>6, <1>7, <1>8, <1>9, <1>10, <1>11, <1>12,
     <1>13 DEF Command, Reader

\* A step of the stream thread.
LEMMA PumpTypeStep ==
  ASSUME TypeOK, StreamThread
  PROVE  TypeOK'
<1> USE DEF PumpPc
<1>1. CASE PumpBegin
  <2>1. [out EXCEPT !.keepAlive = FALSE] \in OutputRec
    BY DEF TypeOK, OutputRec
  <2> QED
    BY <1>1, <2>1, GotoType, OutputType DEF TypeOK, PumpBegin, SessionRec
<1>2. CASE PumpRun
  BY <1>2 DEF TypeOK, PumpRun, PumpRec, Why, OutputRec
<1>3. CASE PumpTop
  <2>1. pump' \in PumpRec
    BY <1>3, GotoType DEF TypeOK, PumpTop
  <2>2. track' \in TrackRec
    BY <1>3 DEF TypeOK, PumpTop, TrackRec
  <2> QED
    BY <1>3, <2>1, <2>2 DEF TypeOK, PumpTop
<1>4. CASE PumpPaused \/ PumpGateWait \/ PumpPace
  BY <1>4, GotoType DEF TypeOK, PumpPaused, PumpGateWait, PumpPace
<1>5. CASE PumpGate
  <2>1. pump' \in PumpRec
    <3>1. CASE OutputReady(out, ses, sent)
      BY <3>1, OutputReadyType DEF TypeOK
    <3>2. CASE ~OutputReady(out, ses, sent)
      BY <1>5, <3>2, GotoType DEF TypeOK, PumpGate
    <3> QED
      BY <3>1, <3>2
  <2>2. CASE OutputReady(out, ses, sent)
    BY <1>5, <2>1, <2>2, GateKeeps, OutputReadyType DEF TypeOK
  <2>3. CASE UNCHANGED <<ses, out, sent>>
    BY <1>5, <2>1, <2>3, GateKeeps DEF TypeOK
  <2> QED
    BY <1>5, <2>2, <2>3, GateKeeps
<1>6. CASE ReadData \/ ReadNothing \/ FeedPartial
  BY <1>6, GotoType DEF TypeOK, ReadData, ReadNothing, FeedPartial
<1>7. CASE ReadEof
  BY <1>7 DEF TypeOK, ReadEof, TrackRec, Source, PumpRec, Why
<1>8. CASE ReadClosed
  BY <1>8 DEF TypeOK, ReadClosed, TrackRec, Source, Reason, PumpRec, Why
<1>9. CASE ReadWatchdog
  BY <1>9 DEF TypeOK, ReadWatchdog, TrackRec, Reason, PumpRec, Why
<1>10. CASE FeedChunk
  <2>1. track' \in TrackRec
    BY <1>10, ChunkType DEF FeedChunk
  <2>2. CASE OutputReady(ChunkOut, ChunkFlags, ChunkSent)
    BY <1>10, <2>1, <2>2, OutputReadyType, ChunkType DEF TypeOK, FeedChunk
  <2>3. CASE ChunkFed /\ Goto(IF track'.fadeDone THEN "ret" ELSE "pace")
    BY <1>10, <2>1, <2>3, ChunkType, GotoType DEF TypeOK, FeedChunk, ChunkFed
  <2> QED
    BY <1>10, <2>2, <2>3 DEF FeedChunk
<1>11. CASE FeedUndecodable
  BY <1>11, ChunkType DEF TypeOK, FeedUndecodable, ChunkFed, PumpRec, Why
<1>12. CASE FeedTail
  <2>1. track' \in TrackRec
    BY <1>12, ChunkType DEF TypeOK, FeedTail, TrackRec, Reason
  <2> QED
    BY <1>12, <2>1, ChunkType DEF TypeOK, FeedTail, ChunkFed, PumpRec
<1>13. CASE PumpRet
  BY <1>13 DEF TypeOK, PumpRet, PumpRec, EndCode
<1>14. CASE PumpExit
  <2>1. sent' \in Seq(Event)
    BY <1>14, SayType DEF TypeOK, PumpExit, Event
  <2> QED
    BY <1>14, <2>1 DEF TypeOK, PumpExit, PumpRec, SessionRec
<1>15. CASE PumpDecide
  <2>1. "DSCO" \in Event /\ "STMn" \in Event /\ "STMd" \in Event /\ "STMu" \in Event
    BY DEF Event
  <2>2. \A action : ExitEvents(action) \in Seq(Event)
    BY <2>1, ShortSayType DEF ExitEvents
  <2>3. sent' \in Seq(Event)
    BY <1>15, <2>2, SayAllType DEF TypeOK, PumpDecide
  <2>4. ses' \in SessionRec /\ out' \in OutputRec
    BY <1>15 DEF TypeOK, PumpDecide, SessionRec, OutputRec
  <2>5. pump' \in PumpRec
    BY <1>15, GotoType DEF TypeOK, PumpDecide
  <2> QED
    BY <1>15, <2>3, <2>4, <2>5 DEF TypeOK, PumpDecide
<1>16. CASE PumpRetry
  BY <1>16, GotoType, OutputType DEF TypeOK, PumpRetry
<1>17. CASE PumpDrain
  BY <1>17, GotoType, SayType DEF TypeOK, PumpDrain, Event
<1>18. CASE PumpFinal
  <2>1. out' \in OutputRec
    BY <1>18, OutputType DEF TypeOK, PumpFinal, StoppedOutput, OutputRec
  <2>2. ses' \in SessionRec /\ th' \in ThreadRec
    BY <1>18 DEF TypeOK, PumpFinal, SessionRec, ThreadRec
  <2> QED
    BY <1>18, <2>1, <2>2, LiteralType, ClosedType DEF TypeOK, PumpFinal
<1> QED
  BY <1>1, <1>2, <1>3, <1>4, <1>5, <1>6, <1>7, <1>8, <1>9, <1>10, <1>11, <1>12,
     <1>13, <1>14, <1>15, <1>16, <1>17, <1>18
     DEF StreamThread, ReadResult, Feed

\* A step of the environment.
LEMMA OutsideTypeStep ==
  ASSUME TypeOK, Clock \/ SenderSends \/ ReceiverCloses \/ TargetFound
  PROVE  TypeOK'
<1>1. CASE Clock
  BY <1>1 DEF TypeOK, Clock, PauseDue, GateDue, TrackRec, PauseState, GateState
<1>2. CASE SenderSends \/ ReceiverCloses \/ TargetFound
  BY <1>2 DEF TypeOK, SenderSends, ReceiverCloses, TargetFound, OutputRec, Player,
              RingLevel, Emptier
<1> QED
  BY <1>1, <1>2

\* Every step keeps the state well typed.
LEMMA TypeStep == TypeOK /\ [Next]_vars => TypeOK'
<1>1. CASE UNCHANGED vars
  BY <1>1 DEF TypeOK, vars
<1> QED
  BY <1>1, ReaderTypeStep, PumpTypeStep, OutsideTypeStep DEF Next

\* Every reachable state is well typed.
THEOREM TypeCorrect == Spec => []TypeOK
BY InitType, TypeStep, PTL DEF Spec

-----------------------------------------------------------------------------
(* Who owns what: the thread, the track, the session and its driver.       *)

\* Feeding a chunk changes neither the codec's flags nor who drives the session.
LEMMA FedKeepsFlags ==
  ASSUME TypeOK, ChunkFed \/ UNCHANGED <<ses, out>>
  PROVE  /\ ses'.track = ses.track /\ ses'.awaitCodc = ses.awaitCodc
         /\ out'.keepAlive = out.keepAlive
<1>1. ses \in SessionRec /\ out \in OutputRec
  BY DEF TypeOK
<1>2. ChunkFlags.track = ses.track /\ ChunkFlags.awaitCodc = ses.awaitCodc
  BY <1>1 DEF ChunkFlags, SessionRec
<1>3. ChunkOut.keepAlive = out.keepAlive
  BY <1>1 DEF ChunkOut, OutputRec
<1> QED
  BY <1>2, <1>3 DEF ChunkFed

\* Every step keeps who owns the thread, the track and the session.
LEMMA StructureStep ==
  ASSUME TypeOK, Structure, Next
  PROVE  Structure'
<1> USE DEF TypeOK, Structure, PumpState, TrackOutlivesPump, CodecFirst, OneDriver,
            NoOrphanSession, Alive, Running, Goto, SessionRec, ThreadRec, PumpRec,
            OutputRec
<1>1. CASE BeginStart \/ BeginFlush \/ StopByFade \/ BeginStop \/ BeginAudeOff
  BY <1>1 DEF BeginStart, BeginFlush, StopByFade, BeginStop, BeginAudeOff
<1>2. CASE OnCont
  BY <1>2 DEF OnCont, MaybeStartPump, Idle
<1>3. CASE OnCodc
  <2>1. CASE UNCHANGED <<ses, th, pump>>
    BY <1>3, <2>1 DEF OnCodc
  <2>2. ASSUME ses.awaitCodc, ses.track,
               ses' = [ses EXCEPT !.haveCodc = TRUE, !.awaitCodc = FALSE],
               MaybeStartPump(ses', th)
        PROVE  Structure'
    BY <1>3, <2>2 DEF OnCodc, MaybeStartPump, Idle
  <2>3. ASSUME ses.awaitCodc, UNCHANGED <<th, pump>>,
               ses' = [ses EXCEPT !.haveCodc = TRUE, !.awaitCodc = FALSE,
                                  !.track = FALSE]
        PROVE  Structure'
    BY <1>3, <2>3 DEF OnCodc
  <2> QED
    BY <1>3, <2>1, <2>2, <2>3 DEF OnCodc
<1>4. CASE OnPause \/ OnUnpause \/ Shutdown
  BY <1>4 DEF OnPause, OnUnpause, Shutdown, SilencedOutput
<1>5. CASE FinishFlush \/ FinishStop
  <2>1. CASE FinishFlush
    BY <2>1 DEF FinishFlush, Joined, NoThread, SilencedOutput
  <2>2. CASE FinishStop
    BY <2>2 DEF FinishStop, Joined, NoThread, StoppedOutput
  <2> QED
    BY <1>5, <2>1, <2>2
<1>6. CASE FinishStart
  <2> USE DEF FinishStart, Joined, NoThread
  <2>1. PICK r \in Requests : \/ RefuseStart(r) \/ FailOpen(r)
                              \/ \E attached \in BOOLEAN : OpenStart(r, attached)
    BY <1>6
  <2>2. /\ FreshFlags(r).awaitCodc = FALSE /\ FreshFlags(r).haveCodc = FALSE
        /\ FreshFlags(r) \in SessionRec
    BY FreshFlagsType DEF FreshFlags
  <2>3. CASE RefuseStart(r)
    BY <1>6, <2>2, <2>3 DEF RefuseStart
  <2>4. CASE FailOpen(r)
    BY <1>6, <2>2, <2>4 DEF FailOpen
  <2>5. ASSUME NEW attached \in BOOLEAN, OpenStart(r, attached) PROVE Structure'
    <3>1. CASE th' = NoThread /\ UNCHANGED pump
      BY <1>6, <2>2, <2>5, <3>1 DEF OpenStart
    <3>2. CASE /\ ses' = [FreshFlags(r) EXCEPT !.track = TRUE]
               /\ MaybeStartPump(ses', NoThread)
      BY <1>6, <2>2, <3>2 DEF MaybeStartPump, Idle
    <3> QED
      BY <2>5, <3>1, <3>2 DEF OpenStart
  <2> QED
    BY <2>1, <2>3, <2>4, <2>5
<1>7. CASE PumpBegin
  BY <1>7 DEF PumpBegin, PreparedOutput
<1>8. CASE PumpRun \/ PumpTop \/ PumpPaused \/ PumpGateWait \/ PumpPace
  BY <1>8 DEF PumpRun, PumpTop, PumpPaused, PumpGateWait, PumpPace
<1>9. CASE PumpGate
  <2>1. CASE UNCHANGED <<ses, out, sent>> /\ pump'.outReady = pump.outReady
    BY <1>9, <2>1, GateKeeps
  <2>2. CASE OutputReady(out, ses, sent) /\ pump'.outReady
    <3>1. /\ ses' = [ses EXCEPT !.stms = TRUE] /\ out' = LaunchedOutput(out)
      BY <2>2 DEF OutputReady
    <3> QED
      BY <1>9, <2>2, <3>1, GateKeeps DEF LaunchedOutput
  <2> QED
    BY <1>9, <2>1, <2>2, GateKeeps
<1>10. CASE ReadResult \/ ReadNothing
  BY <1>10 DEF ReadResult, ReadData, ReadEof, ReadClosed, ReadWatchdog, ReadNothing
<1>11. CASE FeedChunk
  <2> USE <1>11 DEF FeedChunk, Feeding, ChunkOut, ChunkFlags
  <2>1. CASE OutputReady(ChunkOut, ChunkFlags, ChunkSent)
    BY <2>1, LaunchGoesOn DEF OutputReady, LaunchedOutput
  <2>2. CASE ChunkFed /\ Goto(IF track'.fadeDone THEN "ret" ELSE "pace")
    BY <2>2 DEF ChunkFed
  <2> QED
    BY <2>1, <2>2
<1>12. CASE FeedPartial
  BY <1>12 DEF FeedPartial, Feeding
<1>13. CASE FeedUndecodable
  <2>1. /\ pump.pc = "feed" /\ pump'.pc = "ret" /\ th.state = "running" /\ th' = th
        /\ ChunkFed \/ UNCHANGED <<ses, out>>
    BY <1>13 DEF FeedUndecodable, Feeding
  <2> QED
    BY <2>1, FedKeepsFlags
<1>14. CASE FeedTail
  <2>1. /\ pump.pc = "feed" /\ pump'.pc = "ret" /\ th.state = "running" /\ th' = th
        /\ ChunkFed \/ UNCHANGED <<ses, out>>
    BY <1>14 DEF FeedTail, Feeding
  <2> QED
    BY <2>1, FedKeepsFlags
<1>15. CASE PumpRet \/ PumpExit \/ PumpDecide \/ PumpDrain
  BY <1>15, ZenonT(120) DEF PumpRet, PumpExit, PumpDecide, PumpDrain
<1>16. CASE PumpRetry
  BY <1>16 DEF PumpRetry, PreparedOutput
<1>17. CASE PumpFinal
  BY <1>17 DEF PumpFinal, Idle, StoppedOutput
<1>18. CASE Clock
  BY <1>18 DEF Clock, PauseDue, GateDue
<1>19. CASE SenderSends \/ ReceiverCloses \/ TargetFound
  BY <1>19 DEF SenderSends, ReceiverCloses, TargetFound
<1> QED
  BY <1>1, <1>2, <1>3, <1>4, <1>5, <1>6, <1>7, <1>8, <1>9, <1>10, <1>11, <1>12,
     <1>13, <1>14, <1>15, <1>16, <1>17, <1>18, <1>19
     DEF Next, Command, Reader, StreamThread, Feed

-----------------------------------------------------------------------------
(* Receiver losses and launches.                                           *)

\* What prepare() leaves: a session that was not lost, if there is a target.
LEMMA PreparedAlive ==
  ASSUME NEW o \in OutputRec,
         ~o.target => o.player = "none" /\ ~o.lost,
         o.player \in {"live", "fresh"} => ~o.lost
  PROVE  /\ PreparedOutput(o).target = o.target
         /\ ~PreparedOutput(o).lost
         /\ ~o.target => PreparedOutput(o).player = "none"
BY DEF PreparedOutput, OutputRec, Player

\* Every step keeps what is believed of losses and launches true.
LEMMA LossesStep ==
  ASSUME TypeOK, Structure, Losses, Next
  PROVE  Losses'
<1> USE DEF TypeOK, Structure, PumpState, OneDriver, Losses, NeedsTarget, LossSeen,
            LaunchedWhenReady, InRun, Alive, Running, Goto, ThreadRec, PumpRec,
            OutputRec
<1>1. CASE BeginStart \/ BeginFlush \/ StopByFade \/ BeginStop \/ BeginAudeOff
  BY <1>1 DEF BeginStart, BeginFlush, StopByFade, BeginStop, BeginAudeOff
<1>2. CASE OnCont \/ OnCodc
  BY <1>2 DEF OnCont, OnCodc, MaybeStartPump, Idle
<1>3. CASE OnPause \/ OnUnpause \/ Shutdown
  BY <1>3 DEF OnPause, OnUnpause, Shutdown, SilencedOutput
<1>4. CASE FinishFlush
  BY <1>4 DEF FinishFlush, Joined, NoThread, SilencedOutput
<1>5. CASE FinishStop
  BY <1>5 DEF FinishStop, Joined, NoThread, StoppedOutput
<1>6. CASE FinishStart
  <2>1. th.state # "running" /\ UNCHANGED out
    BY <1>6 DEF FinishStart, Joined
  <2>2. th'.state # "running" \/ pump'.pc = "begin"
    BY <1>6 DEF FinishStart, RefuseStart, FailOpen, OpenStart, NoThread,
                MaybeStartPump, Idle
  <2> QED
    BY <2>1, <2>2
<1>7. CASE PumpBegin
  <2> DEFINE o == [out EXCEPT !.keepAlive = FALSE]
  <2>1. /\ o \in OutputRec /\ o.target = out.target /\ o.player = out.player
        /\ o.lost = out.lost
    OBVIOUS
  <2>2. /\ out' = PreparedOutput(o) /\ pump'.pc = "run" /\ Alive /\ UNCHANGED th
        /\ pump.pc = "begin"
    BY <1>7 DEF PumpBegin
  <2>3. out.player \in {"live", "fresh"} => ~out.lost
    BY <2>2
  <2>4. ~out'.lost /\ (~out'.target => out'.player = "none")
    BY <2>1, <2>2, <2>3, PreparedAlive
  <2> QED
    BY <2>2, <2>4
<1>8. CASE PumpRun
  BY <1>8 DEF PumpRun
<1>9. CASE PumpTop \/ PumpPaused \/ PumpGateWait \/ PumpPace
  BY <1>9 DEF PumpTop, PumpPaused, PumpGateWait, PumpPace
<1>10. CASE PumpGate
  BY <1>10 DEF PumpGate, OutputReady, LaunchedOutput
<1>11. CASE ReadResult \/ ReadNothing
  BY <1>11 DEF ReadResult, ReadData, ReadEof, ReadClosed, ReadWatchdog, ReadNothing
<1>12. CASE FeedChunk
  <2> USE <1>12 DEF FeedChunk, Feeding, ChunkOut
  <2>1. CASE OutputReady(ChunkOut, ChunkFlags, ChunkSent)
    BY <2>1, LaunchGoesOn DEF OutputReady, LaunchedOutput
  <2>2. CASE ChunkFed /\ Goto(IF track'.fadeDone THEN "ret" ELSE "pace")
    BY <2>2 DEF ChunkFed
  <2> QED
    BY <2>1, <2>2
<1>13. CASE FeedPartial
  BY <1>13 DEF FeedPartial, Feeding
<1>14. CASE FeedUndecodable
  BY <1>14 DEF FeedUndecodable, Feeding, ChunkFed, ChunkOut
<1>15. CASE FeedTail
  BY <1>15 DEF FeedTail, Feeding, ChunkFed, ChunkOut
<1>16. CASE PumpRet \/ PumpExit \/ PumpDrain
  BY <1>16, ZenonT(120) DEF PumpRet, PumpExit, PumpDrain
<1>17. CASE PumpDecide
  BY <1>17 DEF PumpDecide
<1>18. CASE PumpRetry
  <2>1. out.player \in {"live", "fresh"} => ~out.lost
    BY <1>18 DEF PumpRetry
  <2>2. ~out'.lost /\ (~out'.target => out'.player = "none")
    BY <1>18, <2>1, PreparedAlive DEF PumpRetry
  <2> QED
    BY <1>18, <2>2 DEF PumpRetry
<1>19. CASE PumpFinal
  BY <1>19 DEF PumpFinal, Idle, StoppedOutput
<1>20. CASE Clock
  BY <1>20 DEF Clock, PauseDue, GateDue
<1>21. CASE SenderSends \/ TargetFound
  BY <1>21 DEF SenderSends, TargetFound
<1>22. CASE ReceiverCloses
  BY <1>22 DEF ReceiverCloses, Driven, DrivingPc
<1> QED
  BY <1>1, <1>2, <1>3, <1>4, <1>5, <1>6, <1>7, <1>8, <1>9, <1>10, <1>11, <1>12,
     <1>13, <1>14, <1>15, <1>16, <1>17, <1>18, <1>19, <1>20, <1>21, <1>22
     DEF Next, Command, Reader, StreamThread, Feed

-----------------------------------------------------------------------------
(* Why run() was left.                                                     *)

\* Every step keeps the disconnect reason in line with why run() was left.
LEMMA ReasonStep ==
  ASSUME TypeOK, Structure, Losses, ReasonFits, Next
  PROVE  ReasonFits'
<1> USE DEF TypeOK, Structure, PumpState, OneDriver, Losses, LossSeen, ReasonFits,
            InRun, Alive, Running, Goto, ThreadRec, PumpRec, OutputRec, TrackRec
<1>1. CASE BeginStart \/ BeginFlush \/ StopByFade \/ BeginStop \/ BeginAudeOff
  BY <1>1 DEF BeginStart, BeginFlush, StopByFade, BeginStop, BeginAudeOff
<1>2. CASE OnCont \/ OnCodc
  BY <1>2 DEF OnCont, OnCodc, MaybeStartPump, Idle
<1>3. CASE OnPause \/ OnUnpause \/ Shutdown
  <2>1. /\ track'.src = track.src /\ track'.disco = track.disco
        /\ out'.lost = out.lost /\ th'.state = th.state /\ UNCHANGED pump
    BY <1>3 DEF OnPause, OnUnpause, Shutdown, SilencedOutput, Unpaused
  <2> QED
    BY <2>1
<1>4. CASE FinishFlush
  BY <1>4 DEF FinishFlush, Joined, NoThread, SilencedOutput
<1>5. CASE FinishStop
  BY <1>5 DEF FinishStop, Joined, NoThread, StoppedOutput
<1>6. CASE FinishStart
  <2>1. th.state # "running" /\ UNCHANGED out
    BY <1>6 DEF FinishStart, Joined
  <2>2. th'.state # "running" \/ pump'.pc = "begin"
    BY <1>6 DEF FinishStart, RefuseStart, FailOpen, OpenStart, NoThread,
                MaybeStartPump, Idle
  <2>3. track'.src = "open" => track'.disco = "none"
    BY <1>6 DEF FinishStart, RefuseStart, FailOpen, OpenStart, NewTrack
  <2> QED
    BY <2>1, <2>2, <2>3
<1>7. CASE PumpBegin
  BY <1>7 DEF PumpBegin
<1>8. CASE PumpRun
  <2>1. /\ pump.pc = "run" /\ pump'.pc = "top" /\ pump'.why = "none"
        /\ UNCHANGED <<track, th, out>>
    BY <1>8 DEF PumpRun
  <2> QED
    BY <2>1
<1>9. CASE PumpTop
  BY <1>9, ZenonT(120) DEF PumpTop
<1>10. CASE PumpPaused \/ PumpGateWait \/ PumpPace
  BY <1>10 DEF PumpPaused, PumpGateWait, PumpPace
<1>11. CASE PumpGate
  <2>1. /\ out'.lost = out.lost /\ pump'.pc \in {"gatewait", "read", "pace"}
        /\ track'.src = track.src /\ track'.disco = track.disco
        /\ pump.pc = "gate" /\ th.state = "running" /\ pump'.why = pump.why /\ th' = th
    BY <1>11, GateKeeps DEF OutputReady, LaunchedOutput
  <2> QED
    BY <2>1
<1>12. CASE ReadData \/ ReadNothing
  BY <1>12 DEF ReadData, ReadNothing
<1>13. CASE ReadEof
  BY <1>13 DEF ReadEof
<1>14. CASE ReadClosed \/ ReadWatchdog
  BY <1>14 DEF ReadClosed, ReadWatchdog
<1>15. CASE FeedChunk
  <2> USE <1>15 DEF FeedChunk, Feeding
  <2>1. track'.src = track.src /\ track'.disco = track.disco
    BY ChunkKeeps
  <2>2. pump'.why = pump.why /\ pump'.pc \in {"ret", "pace"}
    BY LaunchGoesOn DEF OutputReady
  <2> QED
    BY <2>1, <2>2
<1>16. CASE FeedPartial
  BY <1>16 DEF FeedPartial, Feeding
<1>17. CASE FeedUndecodable
  BY <1>17, ZenonT(120) DEF FeedUndecodable, Feeding, ChunkTracks
<1>18. CASE FeedTail
  <2>1. track.src = "eof" /\ pump'.pc = "ret" /\ pump'.why = "eof"
    BY <1>18 DEF FeedTail, Feeding
  <2>2. \A t \in TrackRec : [t EXCEPT !.disco = "ok"].src = t.src
    OBVIOUS
  <2>3. track'.src = track.src
    BY <1>18, <2>2, ChunkKeeps DEF FeedTail
  <2> QED
    BY <1>18, <2>1, <2>3 DEF FeedTail
<1>19. CASE PumpRet
  BY <1>19 DEF PumpRet
<1>20. CASE PumpExit
  BY <1>20 DEF PumpExit
<1>21. CASE PumpDecide
  BY <1>21 DEF PumpDecide, DecideExit
<1>22. CASE PumpRetry \/ PumpDrain
  BY <1>22 DEF PumpRetry, PumpDrain
<1>23. CASE PumpFinal
  BY <1>23 DEF PumpFinal, Idle, StoppedOutput
<1>24. CASE Clock
  BY <1>24 DEF Clock, PauseDue, GateDue
<1>25. CASE SenderSends \/ TargetFound
  BY <1>25 DEF SenderSends, TargetFound
<1>26. CASE ReceiverCloses
  BY <1>26 DEF ReceiverCloses, Driven, DrivingPc
<1> QED
  BY <1>1, <1>2, <1>3, <1>4, <1>5, <1>6, <1>7, <1>8, <1>9, <1>10, <1>11, <1>12,
     <1>13, <1>14, <1>15, <1>16, <1>17, <1>18, <1>19, <1>20, <1>21, <1>22, <1>23,
     <1>24, <1>25, <1>26
     DEF Next, Command, Reader, StreamThread, ReadResult, Feed

-----------------------------------------------------------------------------
(* What was said of a stream that ended.                                   *)

\* What was said stays said, and what is added is said.
LEMMA SaidConcat ==
  ASSUME NEW s \in Seq(Event), NEW t \in Seq(Event), sent = s, sent' = s \o t, NEW e
  PROVE  /\ Said(e) => Said(e)'
         /\ (\E i \in DOMAIN t : t[i] = e) => Said(e)'
<1>1. /\ Len(s \o t) = Len(s) + Len(t)
      /\ \A i \in 1..Len(s) : (s \o t)[i] = s[i]
      /\ \A i \in 1..Len(t) : (s \o t)[Len(s) + i] = t[i]
      /\ DOMAIN (s \o t) = 1..(Len(s) + Len(t))
      /\ DOMAIN s = 1..Len(s) /\ DOMAIN t = 1..Len(t)
      /\ Len(s) \in Nat /\ Len(t) \in Nat
  BY ConcatProperties, LenProperties
<1>2. ASSUME NEW i \in DOMAIN s, s[i] = e PROVE Said(e)'
  <2>1. i \in DOMAIN (s \o t) /\ (s \o t)[i] = e
    BY <1>1, <1>2
  <2> QED
    BY <2>1 DEF Said
<1>3. ASSUME NEW i \in DOMAIN t, t[i] = e PROVE Said(e)'
  <2>1. Len(s) + i \in DOMAIN (s \o t) /\ (s \o t)[Len(s) + i] = e
    BY <1>1, <1>3
  <2> QED
    BY <2>1 DEF Said
<1> QED
  BY <1>2, <1>3 DEF Said

\* The same for one more event.
LEMMA SaidAppend ==
  ASSUME NEW s \in Seq(Event), NEW d \in Event, sent = s, sent' = Append(s, d), NEW e
  PROVE  Said(e) => Said(e)'
<1>1. /\ DOMAIN s = 1..Len(s) /\ Len(s) \in Nat
      /\ DOMAIN Append(s, d) = 1..(Len(s) + 1)
      /\ \A i \in 1..Len(s) : Append(s, d)[i] = s[i]
  BY AppendProperties, LenProperties
<1>2. ASSUME NEW i \in DOMAIN s, s[i] = e PROVE Said(e)'
  <2>1. i \in DOMAIN Append(s, d) /\ Append(s, d)[i] = e
    BY <1>1, <1>2
  <2> QED
    BY <2>1 DEF Said
<1> QED
  BY <1>2 DEF Said

\* Every exit other than a retry, a drain or a stop says so.
LEMMA DecideTells ==
  ASSUME TypeOK, Endings, PumpDecide, ~th.stop, pump'.pc = "final"
  PROVE  Told'
<1> DEFINE action == IF pump.end = "FadedOut" THEN "SilentStop"
                     ELSE DecideExit(th.stop, out.lost, ses.retryUsed, pump.end = "Eof")
<1>1. CASE pump.end = "FadedOut"
  <2>1. lms.halted /\ UNCHANGED lms
    BY <1>1 DEF Endings, EndTold, PumpDecide, Running, Alive
  <2> QED
    BY <2>1 DEF Told
<1>2. CASE pump.end # "FadedOut"
  <2>1. /\ action \in {"Retry", "GaveUp", "EndedEof", "EndedError"}
        /\ sent' = sent \o ExitEvents(action)
        /\ pump' = [pump EXCEPT !.pc = CASE action = "Retry"    -> "retry"
                                        [] action = "EndedEof" -> "drain"
                                        [] OTHER               -> "final"]
    BY <1>2 DEF PumpDecide, DecideExit, Goto
  <2>2. action \in {"GaveUp", "EndedError"}
    BY <2>1 DEF TypeOK, PumpRec
  <2>3. /\ <<"STMd">> \in Seq(Event) /\ <<"STMu">> \in Seq(Event)
        /\ <<"DSCO", "STMn">> \in Seq(Event)
    <3>1. "STMd" \in Event /\ "STMu" \in Event /\ "STMn" \in Event /\ "DSCO" \in Event
      BY DEF Event
    <3> QED
      BY <3>1, ShortSayType
  <2>4. ExitEvents(action) \in {<<"STMd">>, <<"STMu">>, <<"DSCO", "STMn">>}
    BY <2>2 DEF ExitEvents
  <2> HIDE DEF action
  <2>5. sent \in Seq(Event)
    BY DEF TypeOK
  <2>6. CASE ExitEvents(action) = <<"STMd">>
    <3>1. \E i \in DOMAIN <<"STMd">> : <<"STMd">>[i] = "STMd"
      OBVIOUS
    <3> QED
      BY <2>1, <2>3, <2>5, <2>6, <3>1, SaidConcat DEF Told
  <2>7. CASE ExitEvents(action) = <<"STMu">>
    <3>1. \E i \in DOMAIN <<"STMu">> : <<"STMu">>[i] = "STMu"
      OBVIOUS
    <3> QED
      BY <2>1, <2>3, <2>5, <2>7, <3>1, SaidConcat DEF Told
  <2>8. CASE ExitEvents(action) = <<"DSCO", "STMn">>
    <3>1. 2 \in DOMAIN <<"DSCO", "STMn">> /\ <<"DSCO", "STMn">>[2] = "STMn"
      OBVIOUS
    <3> QED
      BY <2>1, <2>3, <2>5, <2>8, <3>1, SaidConcat DEF Told
  <2> QED
    BY <2>4, <2>6, <2>7, <2>8
<1> QED
  BY <1>1, <1>2

\* The end of the source is reported before the drain.
LEMMA DecideSaysDone ==
  ASSUME TypeOK, PumpDecide, pump'.pc = "drain"
  PROVE  Said("STMd")'
<1>1. sent' = sent \o <<"DSCO", "STMd">>
  BY DEF TypeOK, PumpRec, PumpDecide, DecideExit, Goto, ExitEvents
<1>2. "DSCO" \in Event /\ "STMd" \in Event
  BY DEF Event
<1>3. <<"DSCO", "STMd">> \in Seq(Event) /\ sent \in Seq(Event)
  BY <1>2, ShortSayType DEF TypeOK
<1>4. 2 \in DOMAIN <<"DSCO", "STMd">> /\ <<"DSCO", "STMd">>[2] = "STMd"
  OBVIOUS
<1> QED
  BY <1>1, <1>3, <1>4, SaidConcat

\* Every step keeps ended streams reported.
LEMMA EndingsStep ==
  ASSUME TypeOK, Structure, Endings, Next
  PROVE  Endings'
<1> USE DEF TypeOK, Structure, PumpState, Endings, EndTold, EndIsReported, Told,
            Alive, Running, Goto, ThreadRec, PumpRec, TrackRec, LmsRec
<1>1. CASE BeginStart \/ BeginFlush \/ StopByFade \/ BeginStop \/ BeginAudeOff
  <2>1. /\ lms'.halted /\ UNCHANGED <<th, pump, sent>>
    BY <1>1 DEF BeginStart, BeginFlush, StopByFade, BeginStop, BeginAudeOff, Halted
  <2> QED
    BY <2>1 DEF Said
<1>2. CASE OnCont
  <2>1. /\ lms'.halted = lms.halted /\ UNCHANGED <<track, sent>>
        /\ UNCHANGED <<th, pump>> \/ (th'.state = "running" /\ pump'.pc = "begin")
    BY <1>2 DEF OnCont, MaybeStartPump, Idle
  <2> QED
    BY <2>1 DEF Said
<1>3. CASE OnCodc
  <2>1. /\ lms'.halted = lms.halted /\ UNCHANGED track
        /\ \/ UNCHANGED <<th, pump, sent>>
           \/ th'.state = "running" /\ pump'.pc = "begin"
           \/ th.state = "none" /\ UNCHANGED th
    BY <1>3 DEF OnCodc, MaybeStartPump, Idle, CodecFirst
  <2> QED
    BY <2>1 DEF Said
<1>4. CASE OnPause \/ OnUnpause \/ Shutdown
  <2>1. /\ track'.fadeReq = track.fadeReq /\ track'.fadeOut = track.fadeOut
        /\ track'.fadeDone = track.fadeDone
        /\ th'.state = th.state /\ (th.stop => th'.stop)
        /\ UNCHANGED <<pump, lms, sent>>
    BY <1>4, ZenonT(120) DEF OnPause, OnUnpause, Shutdown, Unpaused
  <2> QED
    BY <2>1 DEF Said
<1>5. CASE FinishFlush \/ FinishStop
  <2>1. /\ track'.fadeReq = track.fadeReq /\ track'.fadeOut = track.fadeOut
        /\ track'.fadeDone = track.fadeDone /\ th'.state = "none" /\ UNCHANGED lms
    BY <1>5 DEF FinishFlush, FinishStop, NoThread
  <2> QED
    BY <2>1
<1>6. CASE FinishStart
  <2>1. th'.state = "none" \/ (th'.state = "running" /\ pump'.pc = "begin")
    BY <1>6 DEF FinishStart, RefuseStart, FailOpen, OpenStart, NoThread,
                MaybeStartPump, Idle
  <2>2. PICK r \in Requests : \/ RefuseStart(r) \/ FailOpen(r)
                              \/ \E attached \in BOOLEAN : OpenStart(r, attached)
    BY <1>6 DEF FinishStart
  <2>3. /\ NewTrack(r) \in TrackRec /\ ~NewTrack(r).fadeReq /\ ~NewTrack(r).fadeOut
        /\ ~NewTrack(r).fadeDone
    BY NewTrackType, RequestsAssumption DEF NewTrack
  <2>4. track'.fadeReq \/ track'.fadeOut \/ track'.fadeDone => lms'.halted
    <3>1. CASE RefuseStart(r)
      BY <3>1 DEF RefuseStart
    <3>2. CASE FailOpen(r) \/ \E attached \in BOOLEAN : OpenStart(r, attached)
      <4>1. ~track'.fadeReq /\ ~track'.fadeOut /\ ~track'.fadeDone
        BY <2>3, <3>2 DEF FailOpen, OpenStart
      <4> QED
        BY <4>1
    <3> QED
      BY <2>2, <3>1, <3>2
  <2> QED
    BY <2>1, <2>4
<1>7. CASE PumpBegin \/ PumpRun \/ PumpPaused \/ PumpGateWait \/ PumpPace \/ PumpRetry
  BY <1>7 DEF PumpBegin, PumpRun, PumpPaused, PumpGateWait, PumpPace, PumpRetry
<1>8. CASE PumpTop
  BY <1>8 DEF PumpTop
<1>9. CASE PumpGate
  <2>1. /\ track'.fadeReq = track.fadeReq /\ track'.fadeOut = track.fadeOut
        /\ track'.fadeDone = track.fadeDone /\ UNCHANGED <<lms, th>> /\ Alive
        /\ pump'.pc \in {"gatewait", "read", "pace"}
    BY <1>9, GateKeeps
  <2> QED
    BY <2>1
<1>10. CASE ReadResult \/ ReadNothing
  <2>1. /\ track'.fadeReq = track.fadeReq /\ track'.fadeOut = track.fadeOut
        /\ track'.fadeDone = track.fadeDone
        /\ UNCHANGED <<lms, th>> /\ Alive /\ pump'.pc \in {"feed", "ret", "pace"}
    BY <1>10, ZenonT(120) DEF ReadResult, ReadData, ReadEof, ReadClosed, ReadWatchdog, ReadNothing
  <2> QED
    BY <2>1
<1>11. CASE Feed
  <2>1. UNCHANGED <<lms, th>> /\ Alive /\ pump'.pc \in {"ret", "pace"}
    BY <1>11, LaunchGoesOn DEF Feed, Feeding, FeedChunk, FeedPartial, FeedUndecodable,
                               FeedTail, OutputReady
  <2>2. \A t \in TrackRec : LET c == [t EXCEPT !.disco = "ok"] IN
           /\ c.fadeReq = t.fadeReq /\ c.fadeOut = t.fadeOut
           /\ c.fadeDone = t.fadeDone
    OBVIOUS
  <2>3. /\ track'.fadeReq = track.fadeReq /\ track'.fadeOut = track.fadeOut
        /\ track'.fadeDone => track.fadeDone \/ track.fadeOut
    <3>1. CASE FeedTail
      BY <3>1, <2>2, ChunkKeeps DEF FeedTail
    <3>2. CASE FeedChunk \/ FeedPartial \/ FeedUndecodable
      BY <3>2, ChunkKeeps DEF FeedChunk, FeedPartial, FeedUndecodable
    <3> QED
      BY <1>11, <3>1, <3>2 DEF Feed
  <2> QED
    BY <2>1, <2>3
<1>12. CASE PumpRet
  BY <1>12 DEF PumpRet
<1>13. CASE PumpExit
  BY <1>13 DEF PumpExit
<1>14. CASE PumpDecide
  <2>1. UNCHANGED <<track, th, lms>> /\ Alive /\ pump'.pc \in {"retry", "drain", "final"}
    BY <1>14 DEF PumpDecide
  <2> QED
    BY <1>14, <2>1, DecideTells, DecideSaysDone
<1>15. CASE PumpDrain
  <2>1. /\ UNCHANGED <<track, th, lms>> /\ Alive /\ pump.pc = "drain"
        /\ pump'.pc = "final" /\ sent \in Seq(Event)
        /\ sent' = sent \/ sent' = Append(sent, "STMu")
    BY <1>15 DEF PumpDrain
  <2>2. Said("STMd")'
    BY <2>1, SaidAppend DEF Said, Event
  <2> QED
    BY <2>1, <2>2
<1>16. CASE PumpFinal
  <2>1. /\ Alive /\ pump.pc = "final" /\ th'.state = "finished" /\ th'.stop = th.stop
        /\ track'.fadeReq = track.fadeReq /\ track'.fadeOut = track.fadeOut
        /\ track'.fadeDone = track.fadeDone /\ UNCHANGED <<lms, sent>>
    BY <1>16 DEF PumpFinal
  <2> QED
    BY <2>1 DEF Said
<1>17. CASE Clock
  <2>1. /\ track'.fadeReq = track.fadeReq /\ track'.fadeOut = track.fadeOut
        /\ track'.fadeDone = track.fadeDone /\ UNCHANGED <<lms, sent, th, pump>>
    BY <1>17 DEF Clock, PauseDue, GateDue
  <2> QED
    BY <2>1 DEF Said
<1>18. CASE SenderSends \/ ReceiverCloses \/ TargetFound
  BY <1>18 DEF SenderSends, ReceiverCloses, TargetFound, Said
<1> QED
  BY <1>1, <1>2, <1>3, <1>4, <1>5, <1>6, <1>7, <1>8, <1>9, <1>10, <1>11, <1>12,
     <1>13, <1>14, <1>15, <1>16, <1>17, <1>18
     DEF Next, Command, Reader, StreamThread

-----------------------------------------------------------------------------
(* The inductive invariant, and what follows from it.                      *)

LEMMA InitInv == Init => IInv
<1> SUFFICES ASSUME Init PROVE IInv
  OBVIOUS
<1>1. TypeOK
  BY InitType
<1>2. Structure
  BY DEF Init, Structure, PumpState, TrackOutlivesPump, CodecFirst, OneDriver,
         NoOrphanSession, Alive, NoThread, Idle
<1>3. Losses
  BY DEF Init, Losses, NeedsTarget, LossSeen, LaunchedWhenReady, Alive, NoThread
<1>4. ReasonFits
  <2>1. NewTrack(NoRequest) \in TrackRec
    BY FirstTrackType
  <2>2. track.src = "closed" /\ th.state = "none"
    BY <2>1 DEF Init, NoThread, TrackRec
  <2> QED
    BY <2>2 DEF ReasonFits, Alive
<1>5. Endings
  <2>1. NewTrack(NoRequest) \in TrackRec
    BY FirstTrackType
  <2>2. ~track.fadeReq /\ ~track.fadeOut /\ ~track.fadeDone /\ th.state = "none"
    BY <2>1 DEF Init, NoThread, TrackRec, NewTrack
  <2> QED
    BY <2>2 DEF Endings, EndTold, EndIsReported, Alive
<1> QED
  BY <1>1, <1>2, <1>3, <1>4, <1>5 DEF IInv

LEMMA StepInv == IInv /\ [Next]_vars => IInv'
<1> SUFFICES ASSUME IInv, [Next]_vars PROVE IInv'
  OBVIOUS
<1>1. CASE Next
  BY <1>1, TypeStep, StructureStep, LossesStep, ReasonStep, EndingsStep DEF IInv
<1>2. CASE UNCHANGED vars
  BY <1>2, TypeStep
     DEF vars, IInv, Structure, PumpState, TrackOutlivesPump, CodecFirst, OneDriver,
         NoOrphanSession, Losses, NeedsTarget, LossSeen, LaunchedWhenReady,
         ReasonFits, Endings, EndTold, EndIsReported, Told, Said, Alive
<1> QED
  BY <1>1, <1>2

\* The inductive invariant holds in every reachable state.
THEOREM Invariance == Spec => []IInv
BY InitInv, StepInv, PTL DEF Spec

\* No handler destroys the track a stream thread holds a raw pointer to.
THEOREM TrackSafe == Spec => []TrackOutlivesPump
<1>1. IInv => TrackOutlivesPump
  BY DEF IInv, Structure
<1> QED
  BY <1>1, Invariance, PTL

\* The keep-alive thread and a stream thread never drive the sender together.
THEOREM DriverUnique == Spec => []OneDriver
<1>1. IInv => OneDriver
  BY DEF IInv, Structure
<1> QED
  BY <1>1, Invariance, PTL

\* A session that outlives its stream thread is parked.
THEOREM SessionsParked == Spec => []NoOrphanSession
<1>1. IInv => NoOrphanSession
  BY DEF IInv, Structure
<1> QED
  BY <1>1, Invariance, PTL

\* A prepared session starts without the loss flag of an earlier one.
THEOREM LossNotInherited == Spec => []NoInheritedLoss
<1>1. IInv => NoInheritedLoss
  BY DEF IInv, Losses, LossSeen, NoInheritedLoss, Running, Alive
<1> QED
  BY <1>1, Invariance, PTL

\* A pass of run() that believes the receiver launched has launched it.
THEOREM LaunchBelieved == Spec => []LaunchedWhenReady
<1>1. IInv => LaunchedWhenReady
  BY DEF IInv, Losses
<1> QED
  BY <1>1, Invariance, PTL

\* A pump that ended without being asked to has told LMS.
THEOREM EndsReported == Spec => []EndIsReported
<1>1. IInv => EndIsReported
  BY DEF IInv, Endings
<1> QED
  BY <1>1, Invariance, PTL

-----------------------------------------------------------------------------
(* The action properties: what a launch and the end of a pass of run() may  *)
(* do.                                                                      *)

\* The reader is inside a command exactly while it is busy.
Busy == rd.pc = "idle" <=> rd.op = "none"

\* A flush mark (or a session already kept because of one) that outlives its
\* flush belongs to a closed source and an empty ring: only a pump that starts
\* on the closed track can still meet it.
Leftover ==
    rd.op # "flush" /\ (ses.flushed \/ (Alive /\ pump.keep)) =>
        track.src = "closed" /\ out.ring = "empty"

\* With no pump there is nothing queued, but for the audio a flush is about to
\* silence.
Quiet == ~Alive /\ rd.op # "flush" => out.ring = "empty"

\* An open gate was opened by strm u, or by shutdown() for a pump that is to
\* stop; the one pump that can find it open afterwards has nothing to play.
GateKept ==
    /\ track.gate = "timed" => track.released
    /\ GateOpen /\ ses.track /\ ~track.released =>
          \/ th.state # "none" /\ th.stop
          \/ track.src = "closed" /\ (Alive => out.ring = "empty")

\* Until a stream has used its retry, strm f's mark is there for the exit path.
Marked ==
    rd.op = "flush" /\ Alive /\ pump.pc \notin {"decide", "drain", "final"} =>
        ses.flushed \/ ses.retryUsed

OInv == IInv /\ Busy /\ Leftover /\ Quiet /\ GateKept /\ Marked

-----------------------------------------------------------------------------
(* What a step may touch of what these invariants are about.               *)

\* A chunk moves no gate.
LEMMA ChunkGates ==
  ASSUME TypeOK
  PROVE  \A t \in ChunkTracks :
            t \in TrackRec /\ t.gate = track.gate /\ t.released = track.released
<1> DEFINE Fed(d) == [track EXCEPT !.ready = TRUE, !.fadeDone = d]
<1>1. \A d \in BOOLEAN : Fed(d).gate = track.gate /\ Fed(d).released = track.released
  BY DEF TypeOK, TrackRec
<1>2. track.fadeDone \in BOOLEAN /\ track.fadeOut \in BOOLEAN
  BY DEF TypeOK, TrackRec
<1> QED
  BY <1>1, <1>2, ChunkType DEF ChunkTracks

\* A step of the stream thread releases nothing, opens no gate and gives a
\* closed track nothing to play; what it keeps was marked.
LEMMA PumpFrame ==
  ASSUME TypeOK, ReasonFits, StreamThread
  PROVE  /\ Alive /\ UNCHANGED rd /\ th'.stop = th.stop
         /\ track'.gate = track.gate /\ track'.released = track.released
         /\ ses'.track = ses.track
         /\ track.src = "closed" => track'.src = "closed"
         /\ track.src = "closed" /\ out.ring = "empty" => out'.ring = "empty"
         /\ ses'.flushed => ses.flushed
         /\ Alive' /\ pump'.keep => pump.keep \/ ses.flushed
<1> USE DEF TypeOK, Running, Goto, Alive, ThreadRec, PumpRec, TrackRec, SessionRec,
            OutputRec
<1>1. CASE PumpBegin \/ PumpRetry
  <2>1. \A o \in OutputRec : PreparedOutput(o).ring = o.ring
                             \/ PreparedOutput(o).ring = "empty"
    BY DEF PreparedOutput
  <2>2. [out EXCEPT !.keepAlive = FALSE] \in OutputRec
        /\ [out EXCEPT !.keepAlive = FALSE].ring = out.ring
    OBVIOUS
  <2>3. out'.ring = out.ring \/ out'.ring = "empty"
    BY <1>1, <2>1, <2>2 DEF PumpBegin, PumpRetry
  <2>4. /\ UNCHANGED <<rd, track, th>> /\ th.state = "running"
        /\ ses'.track = ses.track /\ ses'.flushed = ses.flushed
        /\ pump'.keep = pump.keep
    BY <1>1 DEF PumpBegin, PumpRetry
  <2> QED
    BY <2>3, <2>4
<1>2. CASE PumpRun \/ PumpPaused \/ PumpGateWait \/ PumpPace
  BY <1>2 DEF PumpRun, PumpPaused, PumpGateWait, PumpPace
<1>10. CASE PumpTop
  <2>1. /\ track'.gate = track.gate /\ track'.released = track.released
        /\ track'.src = track.src
    BY <1>10, ZenonT(120) DEF PumpTop
  <2> QED
    BY <1>10, <2>1 DEF PumpTop
<1>3. CASE PumpGate
  <2>1. /\ out'.ring = out.ring /\ ses'.track = ses.track
        /\ ses'.flushed = ses.flushed
    BY <1>3, GateKeeps DEF OutputReady, LaunchedOutput
  <2> QED
    BY <1>3, <2>1, GateKeeps
<1>4. CASE ReadResult \/ ReadNothing
  BY <1>4 DEF ReadResult, ReadData, ReadEof, ReadClosed, ReadWatchdog, ReadNothing
<1>5. CASE Feed
  <2>1. track.src # "closed" /\ th.state = "running" /\ UNCHANGED <<rd, th>>
    BY <1>5 DEF Feed, Feeding, FeedChunk, FeedPartial, FeedUndecodable, FeedTail,
                ReasonFits
  <2>2. /\ ChunkFlags.track = ses.track /\ ChunkFlags.flushed = ses.flushed
        /\ ChunkFlags \in SessionRec
    BY ChunkType DEF ChunkFlags
  <2>3. ses'.track = ses.track /\ ses'.flushed = ses.flushed /\ pump'.keep = pump.keep
    <3>1. ASSUME ChunkFed PROVE ses'.track = ses.track /\ ses'.flushed = ses.flushed
      BY <2>2, <3>1 DEF ChunkFed
    <3>2. CASE FeedChunk
      <4>1. CASE OutputReady(ChunkOut, ChunkFlags, ChunkSent)
        <5>1. ses'.track = ses.track /\ ses'.flushed = ses.flushed
          BY <2>2, <4>1 DEF OutputReady
        <5>2. pump'.keep = pump.keep
          BY <4>1 DEF OutputReady
        <5> QED
          BY <5>1, <5>2
      <4>2. CASE ChunkFed /\ Goto(IF track'.fadeDone THEN "ret" ELSE "pace")
        <5>1. pump'.keep = pump.keep
          BY <4>2
        <5> QED
          BY <3>1, <4>2, <5>1
      <4> QED
        BY <3>2, <4>1, <4>2 DEF FeedChunk
    <3>3. CASE FeedPartial
      BY <3>3 DEF FeedPartial
    <3>4. CASE FeedUndecodable
      <4>1. pump'.keep = pump.keep
        BY <3>4 DEF FeedUndecodable
      <4> QED
        BY <3>1, <3>4, <4>1 DEF FeedUndecodable
    <3>5. CASE FeedTail
      <4>1. pump'.keep = pump.keep
        BY <3>5 DEF FeedTail
      <4> QED
        BY <3>1, <3>5, <4>1 DEF FeedTail
    <3> QED
      BY <1>5, <3>2, <3>3, <3>4, <3>5 DEF Feed
  <2>4. \A t \in ChunkTracks :
           /\ t \in TrackRec /\ t.gate = track.gate /\ t.released = track.released
    BY ChunkGates
  <2>5. track'.gate = track.gate /\ track'.released = track.released
    BY <1>5, <2>4 DEF Feed, FeedChunk, FeedPartial, FeedUndecodable, FeedTail
  <2> QED
    BY <2>1, <2>3, <2>5
<1>6. CASE PumpRet \/ PumpDrain
  BY <1>6 DEF PumpRet, PumpDrain
<1>7. CASE PumpExit
  BY <1>7 DEF PumpExit
<1>8. CASE PumpDecide
  BY <1>8 DEF PumpDecide
<1>9. CASE PumpFinal
  <2>1. out'.ring = out.ring \/ out'.ring = "empty"
    BY <1>9 DEF PumpFinal, StoppedOutput
  <2> QED
    BY <1>9, <2>1 DEF PumpFinal
<1> QED
  BY <1>1, <1>2, <1>3, <1>4, <1>5, <1>6, <1>7, <1>8, <1>9, <1>10
     DEF StreamThread

\* What LMS asks for leaves a closed track closed, queues nothing, opens no gate
\* of a track it does not release, and may start a pump with nothing kept.
LEMMA CommandFrame ==
  ASSUME TypeOK, Command
  PROVE  /\ rd.pc = "idle"
         /\ track'.src = track.src
         /\ out'.ring = out.ring \/ out'.ring = "empty"
         /\ ses'.track => ses.track
         /\ ses'.flushed = ses.flushed \/ BeginFlush
         /\ ses'.retryUsed = ses.retryUsed
         /\ \/ track'.gate = track.gate /\ track'.released = track.released
            \/ track'.released
         /\ \/ UNCHANGED <<th, pump>>
            \/ th.state = "none" /\ Alive' /\ ~pump'.keep /\ UNCHANGED <<rd, track, out>>
<1> USE DEF TypeOK, Alive, ThreadRec, PumpRec, TrackRec, SessionRec, OutputRec
<1>1. CASE BeginStart \/ BeginFlush \/ BeginStop \/ BeginAudeOff
  BY <1>1 DEF BeginStart, BeginFlush, BeginStop, BeginAudeOff
<1>2. CASE StopByFade
  BY <1>2 DEF StopByFade
<1>3. CASE OnCont
  <2>1. ses'.flushed = ses.flushed /\ ses'.retryUsed = ses.retryUsed
        /\ ses'.track = ses.track
    BY <1>3 DEF OnCont
  <2>2. UNCHANGED <<th, pump>> \/ (th.state = "none" /\ Alive' /\ ~pump'.keep)
    BY <1>3 DEF OnCont, MaybeStartPump, Idle
  <2> QED
    BY <1>3, <2>1, <2>2 DEF OnCont
<1>4. CASE OnCodc
  <2>1. ses'.flushed = ses.flushed /\ ses'.retryUsed = ses.retryUsed
        /\ (ses'.track => ses.track)
    BY <1>4, ZenonT(120) DEF OnCodc
  <2>2. UNCHANGED <<th, pump>> \/ (th.state = "none" /\ Alive' /\ ~pump'.keep)
    BY <1>4 DEF OnCodc, MaybeStartPump, Idle
  <2> QED
    BY <1>4, <2>1, <2>2 DEF OnCodc
<1>5. CASE OnPause
  BY <1>5 DEF OnPause, SilencedOutput
<1>6. CASE OnUnpause
  BY <1>6 DEF OnUnpause, Unpaused
<1> QED
  BY <1>1, <1>2, <1>3, <1>4, <1>5, <1>6 DEF Command

\* The rest of a command after the join leaves no pump but a new one, a closed
\* track or a new one, and no mark for a new one.
LEMMA FinishFrame ==
  ASSUME TypeOK, FinishFlush \/ FinishStop \/ FinishStart
  PROVE  /\ th.state # "running" /\ rd' = [pc |-> "idle", op |-> "none"]
         /\ rd.op \in {"flush", "stop", "start"}
         /\ th'.state = "none" \/ (Alive' /\ ~pump'.keep)
         /\ ses'.flushed => track'.src = "closed" /\ rd.op # "start"
         /\ IF rd.op = "start" THEN UNCHANGED out ELSE out'.ring = "empty"
         /\ \/ track'.src = "closed" /\ th'.state = "none" /\ track'.released = track.released
                                     /\ track'.gate = track.gate
            \/ track'.gate # "timed" /\ (track'.gate = "open" => track'.released)
<1> USE DEF TypeOK, Alive, Joined, AfterJoin, NoThread, TrackRec, SessionRec, OutputRec
<1>1. CASE FinishFlush \/ FinishStop
  <2>1. /\ track'.src = "closed" /\ track'.released = track.released
        /\ track'.gate = track.gate
    BY <1>1 DEF FinishFlush, FinishStop
  <2>2. out'.ring = "empty"
    BY <1>1 DEF FinishFlush, FinishStop, SilencedOutput, StoppedOutput
  <2> QED
    BY <1>1, <2>1, <2>2 DEF FinishFlush, FinishStop
<1>2. CASE FinishStart
  <2>1. PICK r \in Requests : \/ RefuseStart(r) \/ FailOpen(r)
                              \/ \E attached \in BOOLEAN : OpenStart(r, attached)
    BY <1>2 DEF FinishStart
  <2>2. /\ NewTrack(r) \in TrackRec /\ NewTrack(r).gate # "timed"
        /\ NewTrack(r).gate = "open" => NewTrack(r).released
    BY NewTrackType, RequestsAssumption DEF NewTrack
  <2>3. FreshFlags(r) \in SessionRec /\ ~FreshFlags(r).flushed
    BY FreshFlagsType DEF FreshFlags
  <2>4. ~ses'.flushed
    BY <2>1, <2>3 DEF RefuseStart, FailOpen, OpenStart
  <2>5. (th'.state = "none" /\ UNCHANGED pump) \/ (Alive' /\ ~pump'.keep)
    BY <2>1 DEF RefuseStart, FailOpen, OpenStart, MaybeStartPump, Idle
  <2>6. \/ track'.src = "closed" /\ th'.state = "none" /\ track'.released = track.released
                                 /\ track'.gate = track.gate
        \/ track'.gate # "timed" /\ (track'.gate = "open" => track'.released)
    BY <2>1, <2>2 DEF RefuseStart, FailOpen, OpenStart
  <2> QED
    BY <1>2, <2>4, <2>5, <2>6 DEF FinishStart
<1> QED
  BY <1>1, <1>2

\* The clock, the receiver and discovery queue nothing and open no gate but a
\* scheduled one.
LEMMA WorldFrame ==
  ASSUME TypeOK, Clock \/ SenderSends \/ ReceiverCloses \/ TargetFound
  PROVE  /\ UNCHANGED <<rd, ses, th, pump>>
         /\ track'.src = track.src /\ track'.released = track.released
         /\ track'.gate = track.gate \/ (track.gate = "timed" /\ track'.gate = "open")
         /\ out.ring = "empty" => out'.ring = "empty"
<1> USE DEF TypeOK, TrackRec, OutputRec
<1>1. CASE Clock
  BY <1>1 DEF Clock, PauseDue, GateDue
<1>2. CASE SenderSends \/ ReceiverCloses \/ TargetFound
  BY <1>2 DEF SenderSends, ReceiverCloses, TargetFound
<1> QED
  BY <1>1, <1>2

\* shutdown() opens the gate of a pump it stops, and of no other.
LEMMA ShutdownFrame ==
  ASSUME TypeOK, Shutdown
  PROVE  /\ rd.pc = "shutdown" /\ rd'.pc = "join" /\ rd'.op = rd.op
         /\ UNCHANGED <<ses, pump, out>> /\ th'.state = th.state
         /\ track'.src = track.src /\ track'.released = track.released
         /\ \/ th.state = "none" /\ UNCHANGED <<th, track>>
            \/ th.state # "none" /\ th'.stop /\ track'.gate \in {track.gate, "open"}
<1> USE DEF TypeOK, TrackRec, ThreadRec, ReaderRec
<1>1. track'.src = track.src /\ track'.released = track.released
      /\ track'.gate \in {track.gate, "open"}
  BY DEF Shutdown, Unpaused
<1> QED
  BY <1>1 DEF Shutdown

-----------------------------------------------------------------------------
(* Every step keeps each part of the invariant.                            *)

\* Commands begin and end together with their op.
LEMMA BusyStep ==
  ASSUME TypeOK, Busy, Next
  PROVE  Busy'
<1> USE DEF Busy
<1>1. CASE Command
  <2>1. UNCHANGED rd \/ (rd'.pc = "shutdown" /\ rd'.op # "none")
    BY <1>1 DEF Command, BeginStart, BeginFlush, StopByFade, BeginStop, BeginAudeOff,
                OnCont, OnCodc, OnPause, OnUnpause
  <2> QED
    BY <2>1
<1>2. CASE Reader
  <2>1. CASE Shutdown
    BY <2>1, ShutdownFrame
  <2>2. CASE FinishFlush \/ FinishStop \/ FinishStart
    BY <2>2, FinishFrame
  <2> QED
    BY <1>2, <2>1, <2>2 DEF Reader
<1>3. CASE StreamThread
  BY <1>3 DEF StreamThread, PumpBegin, PumpRun, PumpTop, PumpPaused, PumpGate,
              PumpGateWait, ReadResult, ReadData, ReadEof, ReadClosed, ReadWatchdog,
              ReadNothing, Feed, FeedChunk, FeedPartial, FeedUndecodable, FeedTail,
              PumpPace, PumpRet, PumpExit, PumpDecide, PumpRetry, PumpDrain, PumpFinal
<1>4. CASE Clock \/ SenderSends \/ ReceiverCloses \/ TargetFound
  BY <1>4, WorldFrame
<1> QED
  BY <1>1, <1>2, <1>3, <1>4 DEF Next

\* A mark leaves its flush only with the track closed and the receiver silenced.
LEMMA LeftoverStep ==
  ASSUME IInv, Busy, Leftover, Next
  PROVE  Leftover'
<1> USE DEF IInv, Busy, Leftover
<1>1. CASE BeginFlush
  BY <1>1 DEF BeginFlush
<1>2. CASE Command /\ ~BeginFlush
  <2>1. track'.src = track.src /\ (out'.ring = out.ring \/ out'.ring = "empty")
    BY <1>2, CommandFrame
  <2>2. rd.op # "flush"
    BY <1>2, CommandFrame
  <2>3. ses'.flushed = ses.flushed
    BY <1>2, CommandFrame
  <2>4. Alive' /\ pump'.keep => Alive /\ pump.keep
    BY <1>2, CommandFrame DEF Alive
  <2> QED
    BY <2>1, <2>2, <2>3, <2>4
<1>3. CASE Shutdown
  BY <1>3, ShutdownFrame DEF Alive
<1>4. CASE FinishFlush \/ FinishStop \/ FinishStart
  BY <1>4, FinishFrame DEF Alive
<1>5. CASE StreamThread
  BY <1>5, PumpFrame
<1>6. CASE Clock \/ SenderSends \/ ReceiverCloses \/ TargetFound
  BY <1>6, WorldFrame DEF Alive
<1> QED
  BY <1>1, <1>2, <1>3, <1>4, <1>5, <1>6 DEF Next, Reader

\* A pump leaves audio behind only in a session it keeps.
LEMMA QuietStep ==
  ASSUME IInv, Busy, Leftover, Quiet, Next
  PROVE  Quiet'
<1> USE DEF IInv, Busy, Quiet
<1>1. CASE BeginFlush
  BY <1>1 DEF BeginFlush
<1>2. CASE Command /\ ~BeginFlush
  <2>1. (out'.ring = out.ring \/ out'.ring = "empty") /\ rd.op # "flush"
    BY <1>2, CommandFrame
  <2>2. ~Alive' => ~Alive
    BY <1>2, CommandFrame DEF Alive
  <2> QED
    BY <2>1, <2>2
<1>3. CASE Shutdown
  BY <1>3, ShutdownFrame DEF Alive
<1>4. CASE FinishFlush \/ FinishStop \/ FinishStart
  BY <1>4, FinishFrame DEF Alive
<1>5. CASE PumpFinal
  <2>1. rd' = rd /\ Alive /\ (out'.ring = out.ring \/ out'.ring = "empty")
        /\ (~pump.keep => out'.ring = "empty")
    BY <1>5 DEF PumpFinal, Running, Alive, StoppedOutput, TypeOK, OutputRec
  <2> QED
    BY <2>1 DEF Leftover
<1>6. CASE StreamThread /\ ~PumpFinal
  <2>1. Alive'
    BY <1>6 DEF StreamThread, PumpBegin, PumpRun, PumpTop, PumpPaused, PumpGate,
              PumpGateWait, ReadResult, ReadData, ReadEof, ReadClosed, ReadWatchdog,
              ReadNothing, Feed, Feeding, FeedChunk, FeedPartial, FeedUndecodable, FeedTail,
              PumpPace, PumpRet, PumpExit, PumpDecide, PumpRetry, PumpDrain,
              Running, Alive
  <2> QED
    BY <2>1
<1>7. CASE Clock \/ SenderSends \/ ReceiverCloses \/ TargetFound
  BY <1>7, WorldFrame DEF Alive
<1> QED
  BY <1>1, <1>2, <1>3, <1>4, <1>5, <1>6, <1>7 DEF Next, Reader

\* Whoever opens a gate has released the track or is stopping its pump.
LEMMA GateKeptStep ==
  ASSUME IInv, Busy, Quiet, GateKept, Next
  PROVE  GateKept'
<1> USE DEF IInv, Busy, GateKept, GateOpen
<1>1. CASE Command
  <2>1. /\ track'.src = track.src /\ (out'.ring = out.ring \/ out'.ring = "empty")
        /\ rd.op # "flush" /\ (ses'.track => ses.track)
    BY <1>1, CommandFrame
  <2>2. CASE track'.released
    BY <2>2
  <2>3. CASE track'.gate = track.gate /\ track'.released = track.released
    <3>1. CASE UNCHANGED <<th, pump>>
      BY <2>1, <2>3, <3>1 DEF Alive
    <3>2. CASE th.state = "none" /\ Alive' /\ UNCHANGED <<rd, track, out>>
      <4>1. out'.ring = "empty"
        BY <2>1, <3>2 DEF Quiet, Alive
      <4> QED
        BY <2>1, <3>2, <4>1
    <3> QED
      BY <1>1, <3>1, <3>2, CommandFrame
  <2> QED
    BY <1>1, <2>2, <2>3, CommandFrame
<1>2. CASE Shutdown
  <2>1. /\ UNCHANGED <<ses, pump, out>> /\ th'.state = th.state
        /\ track'.src = track.src /\ track'.released = track.released
        /\ \/ th.state = "none" /\ UNCHANGED <<th, track>>
           \/ th.state # "none" /\ th'.stop /\ track'.gate \in {track.gate, "open"}
    BY <1>2, ShutdownFrame
  <2> QED
    BY <2>1 DEF Alive
<1>3. CASE FinishFlush \/ FinishStop \/ FinishStart
  <2>1. \/ track'.src = "closed" /\ th'.state = "none" /\ track'.released = track.released
                                 /\ track'.gate = track.gate
        \/ track'.gate # "timed" /\ (track'.gate = "open" => track'.released)
    BY <1>3, FinishFrame
  <2> QED
    BY <2>1 DEF Alive
<1>4. CASE StreamThread
  <2>1. /\ Alive /\ th'.stop = th.stop /\ ses'.track = ses.track
        /\ track'.gate = track.gate /\ track'.released = track.released
        /\ track.src = "closed" => track'.src = "closed"
        /\ track.src = "closed" /\ out.ring = "empty" => out'.ring = "empty"
    BY <1>4, PumpFrame
  <2>2. th'.state # "none"
    BY <1>4 DEF StreamThread, PumpBegin, PumpRun, PumpTop, PumpPaused, PumpGate,
              PumpGateWait, ReadResult, ReadData, ReadEof, ReadClosed, ReadWatchdog,
              ReadNothing, Feed, Feeding, FeedChunk, FeedPartial, FeedUndecodable, FeedTail,
              PumpPace, PumpRet, PumpExit, PumpDecide, PumpRetry, PumpDrain, PumpFinal,
              Running, TypeOK, ThreadRec
  <2> QED
    BY <2>1, <2>2
<1>5. CASE Clock \/ SenderSends \/ ReceiverCloses \/ TargetFound
  <2>1. /\ UNCHANGED <<rd, ses, th, pump>>
        /\ track'.src = track.src /\ track'.released = track.released
        /\ track'.gate = track.gate \/ (track.gate = "timed" /\ track'.gate = "open")
        /\ out.ring = "empty" => out'.ring = "empty"
    BY <1>5, WorldFrame
  <2> QED
    BY <2>1 DEF Alive
<1> QED
  BY <1>1, <1>2, <1>3, <1>4, <1>5 DEF Next, Reader

\* The flush mark is set with the flush and taken only by the exit path, which a
\* pump that has not used its retry does not leave without using it.
LEMMA MarkedStep ==
  ASSUME IInv, Busy, Marked, Next
  PROVE  Marked'
<1> USE DEF IInv, Busy, Marked
<1>1. CASE BeginFlush
  BY <1>1 DEF BeginFlush, TypeOK, SessionRec
<1>2. CASE Command /\ ~BeginFlush
  BY <1>2 DEF Command, BeginStart, StopByFade, BeginStop, BeginAudeOff, OnCont,
              OnCodc, OnPause, OnUnpause
<1>3. CASE Shutdown
  BY <1>3, ShutdownFrame DEF Alive
<1>4. CASE FinishFlush \/ FinishStop \/ FinishStart
  BY <1>4, FinishFrame
<1>5. CASE StreamThread
  <2> USE DEF TypeOK, SessionRec, ThreadRec, PumpRec, Running, Goto, Alive
  <2>1. CASE PumpBegin \/ PumpRun \/ PumpTop \/ PumpPaused \/ PumpGateWait \/ PumpPace
             \/ PumpRet \/ PumpDrain \/ PumpRetry
    BY <2>1 DEF PumpBegin, PumpRun, PumpTop, PumpPaused, PumpGateWait, PumpPace,
                PumpRet, PumpDrain, PumpRetry
  <2>2. CASE PumpGate
    BY <2>2 DEF PumpGate, OutputReady
  <2>3. CASE ReadResult \/ ReadNothing
    BY <2>3 DEF ReadResult, ReadData, ReadEof, ReadClosed, ReadWatchdog, ReadNothing
  <2>4. CASE Feed
    <3>1. /\ ChunkFlags.retryUsed = ses.retryUsed /\ ChunkFlags.flushed = ses.flushed
          /\ ChunkFlags \in SessionRec
      BY ChunkType DEF ChunkFlags
    <3>2. ses'.retryUsed = ses.retryUsed /\ ses'.flushed = ses.flushed
      BY <2>4, <3>1 DEF Feed, FeedChunk, FeedPartial, FeedUndecodable, FeedTail,
                        ChunkFed, OutputReady
    <3>3. Alive /\ pump.pc = "feed" /\ UNCHANGED rd
      BY <2>4 DEF Feed, Feeding, FeedChunk, FeedPartial, FeedUndecodable, FeedTail
    <3> QED
      BY <3>2, <3>3
  <2>5. CASE PumpExit
    BY <2>5 DEF PumpExit
  <2>6. CASE PumpDecide
    <3>1. pump'.pc = "retry" => ses'.retryUsed
      BY <2>6 DEF PumpDecide
    <3>2. pump'.pc \in {"retry", "drain", "final"}
      BY <2>6 DEF PumpDecide
    <3> QED
      BY <3>1, <3>2
  <2>7. CASE PumpFinal
    BY <2>7 DEF PumpFinal
  <2> QED
    BY <1>5, <2>1, <2>2, <2>3, <2>4, <2>5, <2>6, <2>7 DEF StreamThread
<1>6. CASE Clock \/ SenderSends \/ ReceiverCloses \/ TargetFound
  BY <1>6, WorldFrame DEF Alive
<1> QED
  BY <1>1, <1>2, <1>3, <1>4, <1>5, <1>6 DEF Next, Reader

-----------------------------------------------------------------------------
(* The invariant, and what a step may do in a state that satisfies it.     *)

\* Nothing has been asked for yet.
LEMMA InitOrder == Init => OInv
<1> SUFFICES ASSUME Init PROVE OInv
  OBVIOUS
<1>1. IInv
  BY InitInv
<1>2. /\ rd.pc = "idle" /\ rd.op = "none" /\ ~ses.flushed /\ ~ses.track
      /\ th.state = "none" /\ out.ring = "empty" /\ rd.op # "flush"
  BY DEF Init, NoThread
<1>3. NewTrack(NoRequest) \in TrackRec /\ NewTrack(NoRequest).gate = "open"
  BY FirstTrackType DEF NewTrack, NoRequest
<1>4. track.gate = "open"
  BY <1>3 DEF Init, TrackRec
<1> QED
  BY <1>1, <1>2, <1>4 DEF OInv, Busy, Leftover, Quiet, GateKept, Marked, Alive

\* Every step keeps the invariant.
LEMMA StepOrder == OInv /\ [Next]_vars => OInv'
<1> SUFFICES ASSUME OInv, [Next]_vars PROVE OInv'
  OBVIOUS
<1>1. CASE Next
  <2>1. IInv'
    BY <1>1, StepInv DEF OInv
  <2>2. TypeOK
    BY DEF OInv, IInv
  <2> QED
    BY <1>1, <2>1, <2>2, BusyStep, LeftoverStep, QuietStep, GateKeptStep, MarkedStep
       DEF OInv
<1>2. CASE UNCHANGED vars
  <2>1. IInv'
    BY StepInv DEF OInv
  <2> QED
    BY <1>2, <2>1 DEF OInv, vars, Busy, Leftover, Quiet, GateKept, GateOpen, Marked,
                      Alive
<1> QED
  BY <1>1, <1>2

\* The invariant of the action properties holds in every reachable state.
THEOREM OrderInvariance == Spec => []OInv
BY InitOrder, StepOrder, PTL DEF Spec

\* Only the gate and the feed launch a receiver, through an open start gate and
\* with audio queued.
LEMMA LaunchStep ==
  ASSUME IInv, Next, out.player = "fresh", out'.player = "live"
  PROVE  /\ Alive /\ GateOpen
         /\ out.ring # "empty" \/ track.src # "closed"
<1> USE DEF IInv, TypeOK, OutputRec
<1>1. CASE Command
  BY <1>1 DEF Command, BeginStart, BeginFlush, StopByFade, BeginStop, BeginAudeOff,
              OnCont, OnCodc, OnPause, OnUnpause, SilencedOutput
<1>2. CASE Reader
  BY <1>2 DEF Reader, Shutdown, FinishFlush, FinishStop, FinishStart, SilencedOutput,
              StoppedOutput
<1>3. CASE PumpBegin \/ PumpRetry
  <2>1. \A o \in OutputRec : PreparedOutput(o).player \in {o.player, "fresh"}
    BY DEF PreparedOutput
  <2>2. [out EXCEPT !.keepAlive = FALSE] \in OutputRec
        /\ [out EXCEPT !.keepAlive = FALSE].player = out.player
    OBVIOUS
  <2> QED
    BY <1>3, <2>1, <2>2 DEF PumpBegin, PumpRetry
<1>4. CASE PumpGate
  <2>1. Alive /\ (UNCHANGED out \/ (out.ring # "empty" /\ GateOpen))
    BY <1>4 DEF PumpGate, Running, Alive
  <2> QED
    BY <2>1
<1>5. CASE Feed
  <2>1. Alive /\ track.src # "closed"
    BY <1>5 DEF Feed, Feeding, FeedChunk, FeedPartial, FeedUndecodable, FeedTail,
                ReasonFits, Running, Alive
  <2>2. ChunkOut.player = out.player
    BY DEF ChunkOut
  <2>3. GateOpen
    BY <1>5, <2>2 DEF Feed, FeedChunk, FeedPartial, FeedUndecodable, FeedTail, ChunkFed
  <2> QED
    BY <2>1, <2>3
<1>6. CASE PumpDecide \/ PumpFinal
  BY <1>6 DEF PumpDecide, PumpFinal, StoppedOutput
<1>7. CASE PumpRun \/ PumpTop \/ PumpPaused \/ PumpGateWait \/ ReadResult \/ ReadNothing
           \/ PumpPace \/ PumpRet \/ PumpExit \/ PumpDrain \/ Clock
  BY <1>7 DEF PumpRun, PumpTop, PumpPaused, PumpGateWait, ReadResult, ReadData, ReadEof,
              ReadClosed, ReadWatchdog, ReadNothing, PumpPace, PumpRet, PumpExit,
              PumpDrain, Clock, PauseDue, GateDue
<1>8. CASE SenderSends \/ ReceiverCloses \/ TargetFound
  BY <1>8 DEF SenderSends, ReceiverCloses, TargetFound
<1> QED
  BY <1>1, <1>2, <1>3, <1>4, <1>5, <1>6, <1>7, <1>8 DEF Next, StreamThread

\* A synchronised start launches the receiver only once LMS has released it, or
\* when its pump has been asked to stop.
THEOREM HeldStart == Spec => HeldUntilReleased
<1>1. OInv /\ [Next]_vars =>
         [out.player = "fresh" /\ out'.player = "live" => track.released \/ th.stop]_vars
  <2> SUFFICES ASSUME OInv, Next, out.player = "fresh", out'.player = "live"
               PROVE  track.released \/ th.stop
    OBVIOUS
  <2>1. /\ Alive /\ GateOpen /\ ses.track
        /\ out.ring # "empty" \/ track.src # "closed"
    BY LaunchStep DEF OInv, IInv, Structure, TrackOutlivesPump, Alive
  <2> QED
    BY <2>1 DEF OInv, GateKept
<1> QED
  BY <1>1, OrderInvariance, PTL DEF Spec, HeldUntilReleased

\* strm f keeps the live session of a pump that still streams, whatever ends its
\* run() first.
THEOREM FlushKept == Spec => FlushKeepsStreaming
<1>1. OInv /\ [Next]_vars =>
         [PumpExit /\ rd.op = "flush" /\ out.player = "live" /\ ~ses.retryUsed =>
             pump'.keep]_vars
  <2> SUFFICES ASSUME OInv, PumpExit, rd.op = "flush", ~ses.retryUsed
               PROVE  pump'.keep
    OBVIOUS
  <2>1. Alive /\ pump.pc = "exit"
    BY DEF PumpExit, Running, Alive
  <2>2. ses.flushed
    BY <2>1 DEF OInv, Marked
  <2> QED
    BY <2>2 DEF PumpExit, OInv, IInv, TypeOK, PumpRec
<1> QED
  BY <1>1, OrderInvariance, PTL DEF Spec, FlushKeepsStreaming

-----------------------------------------------------------------------------
(* The refinement: what LMS hears about its streams.                        *)

\* The operators of the refinement mapping, for any history s.
Talk == Verdict \cup {"STMc"}
Names == [STMc |-> "connected", STMd |-> "complete", STMn |-> "failed",
          STMu |-> "ended"]
CountIn(s, E) == Cardinality({i \in DOMAIN s : s[i] \in E})
LatestIn(s, E) == CHOOSE i \in DOMAIN s :
                     s[i] \in E /\ \A j \in DOMAIN s : s[j] \in E => j <= i
PhaseIn(s) == IF CountIn(s, Talk) = 0 THEN "none" ELSE Names[s[LatestIn(s, Talk)]]

\* The latest event of s that says something about the stream says p.
Speaks(s, p) ==
    \/ p = "none" /\ \A i \in DOMAIN s : s[i] \notin Talk
    \/ \E i \in DOMAIN s :
          /\ s[i] \in Talk /\ p = Names[s[i]]
          /\ \A j \in DOMAIN s : s[j] \in Talk => j <= i

\* A busy reader has been told to end the stream there is.
Superseded == rd.op # "none" => lms.halted

\* A track that still may get its pump is connected, or LMS ended it before.
Startable ==
    ses.track /\ th.state = "none" =>
        PhaseOf = "connected" \/ (lms.halted /\ track.src = "closed")

\* Until its exit path has spoken, so is the track of a pump; the one LMS ended
\* before has nothing to play.
Concluding == pump.pc \in {"drain", "final"}
              \/ (pump.pc = "decide" /\ pump.end = "DecodeError")
Connected ==
    Alive /\ ~Concluding =>
        \/ PhaseOf = "connected"
        \/ lms.halted /\ track.src = "closed" /\ out.ring = "empty"

\* STMs is remembered in its flag.
Begun == Count({"STMs"}) = 0 \/ ses.stms

\* Why a pass of run() ended, and what its exit path has said so far.
EndFits ==
    /\ Alive /\ pump.pc = "ret" /\ pump.why = "none" =>
          track.fadeDone \/ th.stop \/ out.lost
    /\ Alive /\ pump.pc = "ret" /\ pump.why = "socket" => track.disco # "none"
    /\ Alive /\ pump.pc \in {"exit", "decide"} =>
          /\ pump.end # "none"
          /\ pump.end = "Stopped" => th.stop
          /\ pump.end = "Lost" => out.lost
          /\ pump.end = "SocketError" => track.disco # "none"
          /\ pump.end = "DecodeError" => ~out.lost
    /\ Alive /\ pump.pc = "decide" /\ pump.end = "DecodeError" => PhaseOf = "failed"
    /\ Alive /\ pump.pc = "drain" => PhaseOf = "complete"

RInv ==
    /\ OInv /\ Speaks(sent, PhaseOf)
    /\ Superseded /\ Startable /\ Connected /\ Begun /\ EndFits

-----------------------------------------------------------------------------
(* Histories.                                                              *)

\* The mapping's operators are the ones for the current history.
LEMMA MappingIs ==
  /\ PhaseOf = PhaseIn(sent) /\ PhaseOf' = PhaseIn(sent')
  /\ \A E : Count(E) = CountIn(sent, E) /\ Count(E)' = CountIn(sent', E)
BY DEF PhaseOf, PhaseIn, Count, CountIn, Latest, LatestIn, Talk, Names

\* The positions of a history that hold an event of E are finitely many.
LEMMA CountFinite ==
  ASSUME NEW s \in Seq(Event), NEW E
  PROVE  /\ IsFiniteSet({i \in DOMAIN s : s[i] \in E})
         /\ CountIn(s, E) \in Nat
         /\ CountIn(s, E) = 0 <=> \A i \in DOMAIN s : s[i] \notin E
<1> DEFINE at == {i \in DOMAIN s : s[i] \in E}
<1>1. Len(s) \in Nat /\ DOMAIN s = 1 .. Len(s)
  OBVIOUS
<1>2. IsFiniteSet(1 .. Len(s))
  BY <1>1, FS_Interval
<1>3. at \subseteq 1 .. Len(s)
  BY <1>1
<1>4. IsFiniteSet(at)
  BY <1>2, <1>3, FS_Subset
<1>5. Cardinality(at) \in Nat
  BY <1>4, FS_CardinalityType
<1>6. Cardinality(at) = 0 <=> at = {}
  BY <1>4, FS_EmptySet
<1> QED
  BY <1>4, <1>5, <1>6 DEF CountIn

\* One more event counts if it is one of E.
LEMMA CountAppend ==
  ASSUME NEW s \in Seq(Event), NEW e \in Event, NEW E
  PROVE  /\ e \in E => CountIn(Append(s, e), E) = CountIn(s, E) + 1
         /\ e \notin E => CountIn(Append(s, e), E) = CountIn(s, E)
<1> DEFINE t == Append(s, e)
           at == {i \in DOMAIN s : s[i] \in E}
           then == {i \in DOMAIN t : t[i] \in E}
           last == Len(s) + 1
<1>1. /\ DOMAIN s = 1 .. Len(s) /\ DOMAIN t = 1 .. last /\ Len(s) \in Nat
      /\ t[last] = e /\ \A i \in DOMAIN s : t[i] = s[i]
  BY AppendProperties
<1>2. last \notin DOMAIN s /\ \A i : i \in DOMAIN t <=> i \in DOMAIN s \/ i = last
  BY <1>1
<1>3. ASSUME e \in E PROVE Cardinality(then) = Cardinality(at) + 1
  <2>1. then = at \cup {last} /\ last \notin at
    BY <1>1, <1>2, <1>3
  <2>2. IsFiniteSet(at)
    BY CountFinite
  <2> HIDE DEF at, then, last
  <2> QED
    BY <2>1, <2>2, FS_AddElement
<1>4. ASSUME e \notin E PROVE then = at
  BY <1>1, <1>2, <1>4
<1> QED
  BY <1>3, <1>4 DEF CountIn

\* What the latest event says is what the phase is.
LEMMA SpeaksIs ==
  ASSUME NEW s \in Seq(Event), NEW p, Speaks(s, p)
  PROVE  PhaseIn(s) = p
<1>1. CASE p = "none" /\ \A i \in DOMAIN s : s[i] \notin Talk
  BY <1>1, CountFinite DEF PhaseIn
<1>2. CASE \E i \in DOMAIN s : /\ s[i] \in Talk /\ p = Names[s[i]]
                               /\ \A j \in DOMAIN s : s[j] \in Talk => j <= i
  <2> DEFINE Last(i) == s[i] \in Talk /\ \A j \in DOMAIN s : s[j] \in Talk => j <= i
  <2>1. PICK i \in DOMAIN s : Last(i) /\ p = Names[s[i]]
    BY <1>2
  <2>2. CountIn(s, Talk) # 0
    BY <2>1, CountFinite
  <2>3. LatestIn(s, Talk) \in DOMAIN s /\ Last(LatestIn(s, Talk))
    BY <2>1 DEF LatestIn
  <2>4. LatestIn(s, Talk) <= i /\ i <= LatestIn(s, Talk)
    BY <2>1, <2>3
  <2>5. i \in Int /\ LatestIn(s, Talk) \in Int
    BY <2>1, <2>3
  <2>6. LatestIn(s, Talk) = i
    BY <2>4, <2>5
  <2> QED
    BY <2>1, <2>2, <2>6 DEF PhaseIn
<1> QED
  BY <1>1, <1>2 DEF Speaks

\* An event about the stream is the latest; another changes nothing.
LEMMA SpeaksAppend ==
  ASSUME NEW s \in Seq(Event), NEW e \in Event, NEW p, Speaks(s, p)
  PROVE  /\ e \in Talk => Speaks(Append(s, e), Names[e])
         /\ e \notin Talk => Speaks(Append(s, e), p)
<1> DEFINE t == Append(s, e)
           last == Len(s) + 1
<1>1. /\ DOMAIN s = 1 .. Len(s) /\ DOMAIN t = 1 .. last /\ Len(s) \in Nat
      /\ t[last] = e /\ \A i \in DOMAIN s : t[i] = s[i]
  BY AppendProperties
<1>2. /\ last \in DOMAIN t /\ \A i \in DOMAIN t : i <= last
      /\ \A i : i \in DOMAIN t <=> i \in DOMAIN s \/ i = last
  BY <1>1
<1> HIDE DEF t, last
<1>3. ASSUME e \in Talk PROVE Speaks(t, Names[e])
  BY <1>1, <1>2, <1>3 DEF Speaks
<1>4. ASSUME e \notin Talk PROVE Speaks(t, p)
  <2>1. CASE p = "none" /\ \A i \in DOMAIN s : s[i] \notin Talk
    BY <1>1, <1>2, <1>4, <2>1 DEF Speaks
  <2>2. ASSUME NEW i \in DOMAIN s, s[i] \in Talk, p = Names[s[i]],
               \A j \in DOMAIN s : s[j] \in Talk => j <= i
        PROVE  Speaks(t, p)
    <3>1. i \in DOMAIN t /\ t[i] \in Talk /\ p = Names[t[i]]
      BY <1>1, <1>2, <2>2
    <3>2. \A j \in DOMAIN t : t[j] \in Talk => j \in DOMAIN s /\ s[j] \in Talk
      BY <1>1, <1>2, <1>4
    <3>3. \A j \in DOMAIN t : t[j] \in Talk => j <= i
      BY <2>2, <3>2
    <3> QED
      BY <3>1, <3>3 DEF Speaks
  <2> QED
    BY <2>1, <2>2 DEF Speaks
<1> QED
  BY <1>3, <1>4 DEF t

\* A history nothing has been said in.
LEMMA SpeaksEmpty ==
  /\ <<>> \in Seq(Event) /\ Speaks(<<>>, "none") /\ PhaseIn(<<>>) = "none"
  /\ \A E : CountIn(<<>>, E) = 0
<1>1. <<>> \in Seq(Event) /\ DOMAIN <<>> = {}
  OBVIOUS
<1>2. Speaks(<<>>, "none")
  BY <1>1 DEF Speaks
<1>3. \A E : CountIn(<<>>, E) = 0
  BY <1>1, CountFinite
<1> QED
  BY <1>1, <1>2, <1>3, SpeaksIs

\* What one more event does to the phase and to the counts.
LEMMA Tell ==
  ASSUME NEW s \in Seq(Event), NEW e \in Event, Speaks(s, PhaseIn(s))
  PROVE  LET t == Append(s, e) IN
         /\ t \in Seq(Event) /\ Speaks(t, PhaseIn(t))
         /\ PhaseIn(t) = IF e \in Talk THEN Names[e] ELSE PhaseIn(s)
         /\ e \in Verdict => CountIn(t, Verdict) = CountIn(s, Verdict) + 1
         /\ e \notin Verdict => CountIn(t, Verdict) = CountIn(s, Verdict)
         /\ e = "STMs" => CountIn(t, {"STMs"}) = CountIn(s, {"STMs"}) + 1
         /\ e # "STMs" => CountIn(t, {"STMs"}) = CountIn(s, {"STMs"})
<1> DEFINE t == Append(s, e)
           p == IF e \in Talk THEN Names[e] ELSE PhaseIn(s)
<1>1. t \in Seq(Event)
  BY SayType
<1>2. Speaks(t, p)
  BY SpeaksAppend
<1>3. PhaseIn(t) = p
  <2> HIDE DEF t, p
  <2> QED
    BY <1>1, <1>2, SpeaksIs
<1>4. Speaks(t, PhaseIn(t))
  BY <1>2, <1>3
<1>5. /\ e \in Verdict => CountIn(t, Verdict) = CountIn(s, Verdict) + 1
      /\ e \notin Verdict => CountIn(t, Verdict) = CountIn(s, Verdict)
  BY CountAppend
<1>6. /\ e \in {"STMs"} => CountIn(t, {"STMs"}) = CountIn(s, {"STMs"}) + 1
      /\ e \notin {"STMs"} => CountIn(t, {"STMs"}) = CountIn(s, {"STMs"})
  BY CountAppend
<1> QED
  BY <1>1, <1>3, <1>4, <1>5, <1>6

\* The report as it was: the phase, the number of verdicts and that of STMs.
SameReport ==
    /\ PhaseOf' = PhaseOf /\ Count(Verdict)' = Count(Verdict)
    /\ Count({"STMs"})' = Count({"STMs"})

\* One more verdict e, and no STMs.
Concludes(e) ==
    /\ PhaseOf' = Names[e] /\ Count(Verdict)' = Count(Verdict) + 1
    /\ Count({"STMs"})' = Count({"STMs"})

\* STMs, and no verdict.
Begins ==
    /\ PhaseOf' = PhaseOf /\ Count(Verdict)' = Count(Verdict)
    /\ Count({"STMs"})' = Count({"STMs"}) + 1

\* The history is told to the end: its latest event gives the phase.
HeardSoFar == sent \in Seq(Event) /\ Speaks(sent, PhaseOf)

\* A step that sends nothing.
LEMMA SaysNothing ==
  ASSUME HeardSoFar, sent' = sent
  PROVE  HeardSoFar' /\ SameReport
<1>1. /\ PhaseIn(sent') = PhaseIn(sent) /\ CountIn(sent', Verdict) = CountIn(sent, Verdict)
      /\ CountIn(sent', {"STMs"}) = CountIn(sent, {"STMs"})
  OBVIOUS
<1> QED
  BY <1>1, MappingIs DEF HeardSoFar, SameReport

\* A step that sends one event.
LEMMA SaysOne ==
  ASSUME HeardSoFar, NEW e \in Event, sent' = Append(sent, e)
  PROVE  /\ HeardSoFar'
         /\ e \in Verdict => Concludes(e)
         /\ e = "STMs" => Begins
         /\ e \in {"DSCO", "STMl"} => SameReport
<1>1. sent \in Seq(Event) /\ Speaks(sent, PhaseIn(sent))
  BY MappingIs DEF HeardSoFar
<1>2. /\ sent' \in Seq(Event) /\ Speaks(sent', PhaseIn(sent'))
      /\ PhaseIn(sent') = IF e \in Talk THEN Names[e] ELSE PhaseIn(sent)
      /\ e \in Verdict => CountIn(sent', Verdict) = CountIn(sent, Verdict) + 1
      /\ e \notin Verdict => CountIn(sent', Verdict) = CountIn(sent, Verdict)
      /\ e = "STMs" => CountIn(sent', {"STMs"}) = CountIn(sent, {"STMs"}) + 1
      /\ e # "STMs" => CountIn(sent', {"STMs"}) = CountIn(sent, {"STMs"})
  BY <1>1, Tell
<1>3. HeardSoFar'
  BY <1>2, MappingIs DEF HeardSoFar
<1>4. ASSUME e \in Verdict PROVE Concludes(e)
  BY <1>2, <1>4, MappingIs DEF Concludes, Talk, Verdict
<1>5. ASSUME e = "STMs" PROVE Begins
  BY <1>2, <1>5, MappingIs DEF Begins, Talk, Verdict
<1>6. ASSUME e \in {"DSCO", "STMl"} PROVE SameReport
  BY <1>2, <1>6, MappingIs DEF SameReport, Talk, Verdict
<1> QED
  BY <1>3, <1>4, <1>5, <1>6

\* The events of a step, one after the other.
LEMMA OneByOne ==
  ASSUME NEW s \in Seq(Event), NEW d \in Event, NEW e \in Event
  PROVE  /\ s \o <<>> = s /\ s \o <<e>> = Append(s, e)
         /\ s \o <<d, e>> = Append(Append(s, d), e)
OBVIOUS

\* A history of two.
LEMMA AppendOne ==
  ASSUME NEW d \in Event, NEW e \in Event
  PROVE  <<d, e>> = Append(<<d>>, e)
OBVIOUS

\* A step that sends two: DSCO and a verdict, or STMl and STMs.
LEMMA SaysTwo ==
  ASSUME HeardSoFar, NEW d \in {"DSCO", "STMl"}, NEW e \in Event,
         sent' = Append(Append(sent, d), e)
  PROVE  /\ HeardSoFar'
         /\ e \in Verdict => Concludes(e)
         /\ e = "STMs" => Begins
<1> DEFINE s == Append(sent, d)
<1>1. sent \in Seq(Event) /\ Speaks(sent, PhaseIn(sent)) /\ d \in Event
      /\ d \notin Talk /\ d \notin Verdict /\ d # "STMs"
  BY MappingIs DEF HeardSoFar, Event, Talk, Verdict
<1>2. /\ s \in Seq(Event) /\ Speaks(s, PhaseIn(s)) /\ PhaseIn(s) = PhaseIn(sent)
      /\ CountIn(s, Verdict) = CountIn(sent, Verdict)
      /\ CountIn(s, {"STMs"}) = CountIn(sent, {"STMs"})
  BY <1>1, Tell
<1>3. sent' = Append(s, e)
  OBVIOUS
<1> HIDE DEF s
<1>4. /\ sent' \in Seq(Event) /\ Speaks(sent', PhaseIn(sent'))
      /\ PhaseIn(sent') = IF e \in Talk THEN Names[e] ELSE PhaseIn(s)
      /\ e \in Verdict => CountIn(sent', Verdict) = CountIn(s, Verdict) + 1
      /\ e \notin Verdict => CountIn(sent', Verdict) = CountIn(s, Verdict)
      /\ e = "STMs" => CountIn(sent', {"STMs"}) = CountIn(s, {"STMs"}) + 1
      /\ e # "STMs" => CountIn(sent', {"STMs"}) = CountIn(s, {"STMs"})
  BY <1>2, <1>3, Tell
<1>5. HeardSoFar'
  BY <1>4, MappingIs DEF HeardSoFar
<1>6. ASSUME e \in Verdict PROVE Concludes(e)
  BY <1>2, <1>4, <1>6, MappingIs DEF Concludes, Talk, Verdict
<1>7. ASSUME e = "STMs" PROVE Begins
  BY <1>2, <1>4, <1>7, MappingIs DEF Begins, Talk, Verdict
<1> QED
  BY <1>5, <1>6, <1>7

\* A verdict before which LMS may be told the disconnect.
LEMMA SaysVerdict ==
  ASSUME HeardSoFar, NEW e \in Verdict, sent' = sent \o <<e>> \/ sent' = sent \o <<"DSCO", e>>
  PROVE  HeardSoFar' /\ Concludes(e)
<1>1. e \in Event /\ "DSCO" \in Event /\ sent \in Seq(Event)
  BY DEF Event, Verdict, HeardSoFar
<1>2. CASE sent' = sent \o <<e>>
  BY <1>1, <1>2, OneByOne, SaysOne
<1>3. CASE sent' = sent \o <<"DSCO", e>>
  <2>1. sent' = Append(Append(sent, "DSCO"), e)
    BY <1>1, <1>3, OneByOne
  <2> QED
    BY <1>1, <2>1, SaysTwo
<1> QED
  BY <1>2, <1>3

\* The first event of a history.
LEMMA TellFirst ==
  ASSUME NEW e \in Event
  PROVE  LET t == <<e>> IN
         /\ t \in Seq(Event) /\ Speaks(t, PhaseIn(t))
         /\ PhaseIn(t) = IF e \in Talk THEN Names[e] ELSE "none"
         /\ CountIn(t, Verdict) = IF e \in Verdict THEN 1 ELSE 0
         /\ e # "STMs" => CountIn(t, {"STMs"}) = 0
<1> DEFINE none == <<>>
<1>1. /\ none \in Seq(Event) /\ Speaks(none, PhaseIn(none)) /\ PhaseIn(none) = "none"
      /\ CountIn(none, Verdict) = 0 /\ CountIn(none, {"STMs"}) = 0
  BY SpeaksEmpty
<1>2. <<e>> = Append(none, e)
  OBVIOUS
<1> HIDE DEF none
<1> DEFINE t == <<e>>
<1>3. /\ t \in Seq(Event) /\ Speaks(t, PhaseIn(t))
      /\ PhaseIn(t) = IF e \in Talk THEN Names[e] ELSE PhaseIn(none)
      /\ e \in Verdict => CountIn(t, Verdict) = CountIn(none, Verdict) + 1
      /\ e \notin Verdict => CountIn(t, Verdict) = CountIn(none, Verdict)
      /\ e # "STMs" => CountIn(t, {"STMs"}) = CountIn(none, {"STMs"})
  BY <1>1, <1>2, Tell
<1> HIDE DEF t
<1> QED
  BY <1>1, <1>3 DEF t

\* A history of two events that ends in STMn and has no other verdict.
LEMMA TellFailure ==
  ASSUME NEW e \in {"STMc", "DSCO"}
  PROVE  LET t == <<e, "STMn">> IN
         /\ t \in Seq(Event) /\ Speaks(t, PhaseIn(t)) /\ PhaseIn(t) = "failed"
         /\ CountIn(t, Verdict) = 1 /\ CountIn(t, {"STMs"}) = 0
<1> DEFINE s == <<e>>
           t == <<e, "STMn">>
<1>1. e \in Event /\ e \notin Verdict /\ e # "STMs"
  BY DEF Event, Verdict
<1>2. /\ s \in Seq(Event) /\ Speaks(s, PhaseIn(s))
      /\ CountIn(s, Verdict) = 0 /\ CountIn(s, {"STMs"}) = 0
  BY <1>1, TellFirst
<1>3. t = Append(s, "STMn")
  OBVIOUS
<1>4. /\ "STMn" \in Event /\ "STMn" \in Talk /\ "STMn" \in Verdict
      /\ "STMn" # "STMs" /\ Names["STMn"] = "failed"
  BY DEF Event, Talk, Verdict, Names
<1> HIDE DEF s, t
<1>5. /\ t \in Seq(Event) /\ Speaks(t, PhaseIn(t))
      /\ PhaseIn(t) = Names["STMn"]
      /\ CountIn(t, Verdict) = CountIn(s, Verdict) + 1
      /\ CountIn(t, {"STMs"}) = CountIn(s, {"STMs"})
  BY <1>2, <1>3, <1>4, Tell
<1> QED
  BY <1>2, <1>4, <1>5 DEF t

\* The answers to strm s, which begin a history of their own.
LEMMA Answers ==
  ASSUME sent' \in {<<"STMc">>, <<"STMn">>, <<"DSCO", "STMn">>, <<"STMc", "STMn">>}
  PROVE  /\ HeardSoFar' /\ Count({"STMs"})' = 0
         /\ IF sent' = <<"STMc">> THEN PhaseOf' = "connected" /\ Count(Verdict)' = 0
            ELSE PhaseOf' = "failed" /\ Count(Verdict)' = 1
<1>1. /\ "STMc" \in Event /\ "STMn" \in Event
      /\ "STMc" \in Talk /\ "STMn" \in Talk
      /\ "STMc" \notin Verdict /\ "STMn" \in Verdict
      /\ "STMc" # "STMs" /\ "STMn" # "STMs"
      /\ Names["STMc"] = "connected" /\ Names["STMn"] = "failed"
  BY DEF Event, Talk, Verdict, Names
<1>2. CASE sent' = <<"STMc">>
  BY <1>1, <1>2, TellFirst, MappingIs DEF HeardSoFar
<1>3. CASE sent' = <<"STMn">>
  BY <1>1, <1>3, TellFirst, MappingIs DEF HeardSoFar
<1>4. CASE \E e \in {"STMc", "DSCO"} : sent' = <<e, "STMn">>
  BY <1>1, <1>4, TellFailure, MappingIs DEF HeardSoFar
<1> QED
  BY <1>2, <1>3, <1>4

\* A step that launches the receiver, or has decoded a chunk, sends STMs unless
\* the stream has it already.
Announces ==
    \/ SameReport /\ (ses.stms => ses'.stms)
    \/ Begins /\ ~ses.stms /\ ses'.stms

\* The histories such a step leads to.
LEMMA SaysReady ==
  ASSUME HeardSoFar,
         \/ sent' \in {sent, Append(sent, "STMl")} /\ (ses.stms => ses'.stms)
         \/ /\ sent' \in {Append(sent, "STMs"), Append(Append(sent, "STMl"), "STMs")}
            /\ ~ses.stms /\ ses'.stms
  PROVE  HeardSoFar' /\ Announces
<1>1. "STMl" \in Event /\ "STMs" \in Event /\ "STMs" \notin Verdict
  BY DEF Event, Verdict
<1>2. CASE sent' = sent /\ (ses.stms => ses'.stms)
  BY <1>2, SaysNothing DEF Announces
<1>3. CASE sent' = Append(sent, "STMl") /\ (ses.stms => ses'.stms)
  BY <1>1, <1>3, SaysOne DEF Announces
<1>4. CASE sent' = Append(sent, "STMs") /\ ~ses.stms /\ ses'.stms
  BY <1>1, <1>4, SaysOne DEF Announces
<1>5. CASE sent' = Append(Append(sent, "STMl"), "STMs") /\ ~ses.stms /\ ses'.stms
  BY <1>1, <1>5, SaysTwo DEF Announces
<1> QED
  BY <1>2, <1>3, <1>4, <1>5

\* What a decoded chunk adds to the history.
LEMMA ChunkSays ==
  ASSUME TypeOK
  PROVE  \/ ChunkSent \in {sent, Append(sent, "STMl")} /\ ChunkFlags.stms = ses.stms
         \/ /\ ChunkSent \in {Append(sent, "STMs"), Append(Append(sent, "STMl"), "STMs")}
            /\ ~ses.stms /\ ChunkFlags.stms
<1>1. "STMl" \in Event /\ "STMs" \in Event /\ sent \in Seq(Event)
  BY DEF Event, TypeOK
<1>2. /\ sent \o <<>> = sent /\ sent \o <<"STMl">> = Append(sent, "STMl")
      /\ sent \o <<"STMs">> = Append(sent, "STMs")
      /\ sent \o <<"STMl", "STMs">> = Append(Append(sent, "STMl"), "STMs")
  BY <1>1, OneByOne
<1>3. CASE track.ready
  BY <1>3 DEF ChunkSent, ChunkFlags
<1>4. CASE ~track.ready
  <2>1. ChunkFlags.stms = (ses.stms \/ ~out.target)
    BY <1>4 DEF ChunkFlags, TypeOK, SessionRec, OutputRec
  <2>2. ChunkSent = sent \o ReadyEvents
    BY <1>4 DEF ChunkSent
  <2>3. IF ~out.target /\ ~ses.stms THEN ReadyEvents \in {<<"STMs">>, <<"STMl", "STMs">>}
        ELSE ReadyEvents \in {<<>>, <<"STMl">>}
    <3>1. /\ <<>> \o <<>> = <<>> /\ <<"STMl">> \o <<>> = <<"STMl">>
          /\ <<>> \o <<"STMs">> = <<"STMs">>
          /\ <<"STMl">> \o <<"STMs">> = <<"STMl", "STMs">>
      <4>1. <<>> \in Seq(Event) /\ <<"STMl">> \in Seq(Event)
        BY <1>1, ShortSayType
      <4>2. /\ <<>> \o <<>> = <<>> /\ <<"STMl">> \o <<>> = <<"STMl">>
            /\ <<>> \o <<"STMs">> = Append(<<>>, "STMs")
            /\ <<"STMl">> \o <<"STMs">> = Append(<<"STMl">>, "STMs")
        BY <1>1, <4>1, OneByOne
      <4>3. Append(<<>>, "STMs") = <<"STMs">>
        OBVIOUS
      <4>4. Append(<<"STMl">>, "STMs") = <<"STMl", "STMs">>
        BY <1>1, AppendOne
      <4> QED
        BY <4>2, <4>3, <4>4
    <3> QED
      BY <3>1 DEF ReadyEvents
  <2>4. CASE ~out.target /\ ~ses.stms
    BY <1>2, <2>1, <2>2, <2>3, <2>4
  <2>5. CASE ~(~out.target /\ ~ses.stms)
    <3>1. ChunkFlags.stms = ses.stms
      BY <2>1, <2>5 DEF TypeOK, SessionRec, OutputRec
    <3> QED
      BY <1>2, <2>2, <2>3, <2>5, <3>1
  <2> QED
    BY <2>4, <2>5
<1> QED
  BY <1>3, <1>4

-----------------------------------------------------------------------------
(* Each step keeps the mapping's invariant and is a step of the report.    *)

\* The part of the invariant that is about the report, without OInv.
Reported == HeardSoFar /\ Superseded /\ Startable /\ Connected /\ Begun /\ EndFits

\* The step, as the report sees it.
Reports ==
    \/ Report!RNext
    \/ UNCHANGED <<rd.op = "start", PhaseOf, Count(Verdict), Count({"STMs"}), lms.halted>>

\* The order in which the definitions below split Next: the commands that end
\* the stream there is, the start, and the steps that say nothing.
Ending    == BeginStart \/ BeginFlush \/ StopByFade \/ BeginStop \/ BeginAudeOff
QuietPump == PumpBegin \/ PumpRun \/ PumpTop \/ PumpPaused \/ PumpGateWait
             \/ ReadResult \/ ReadNothing \/ PumpPace \/ PumpRet \/ PumpRetry \/ PumpFinal
World     == Clock \/ SenderSends \/ ReceiverCloses \/ TargetFound

\* A command that ends the stream is asked for, or halts what there is.
LEMMA EndingStep ==
  ASSUME OInv, Reported, Ending
  PROVE  Reported' /\ Reports
<1> USE DEF Reported, Ending
<1>1. /\ sent' = sent /\ lms'.halted /\ UNCHANGED <<th, pump, out>>
      /\ ses'.stms = ses.stms /\ ses'.track = ses.track
  BY DEF BeginStart, BeginFlush, StopByFade, BeginStop, BeginAudeOff, Halted,
         OInv, IInv, TypeOK, LmsRec, SessionRec
<1>2. track'.src = track.src /\ track'.disco = track.disco
      /\ track'.fadeDone = track.fadeDone
  BY DEF BeginStart, BeginFlush, StopByFade, BeginStop, BeginAudeOff,
         OInv, IInv, TypeOK, TrackRec
<1>3. HeardSoFar' /\ SameReport
  BY <1>1, SaysNothing
<1>4. Superseded' /\ Startable' /\ Connected'
  BY <1>1, <1>2, <1>3 DEF Superseded, Startable, Connected, Concluding, SameReport, Alive
<1>5. Begun' /\ EndFits'
  BY <1>1, <1>2, <1>3 DEF Begun, EndFits, SameReport, Alive
<1>6. rd.op = "none"
  <2>1. rd.pc = "idle"
    BY DEF BeginStart, BeginFlush, StopByFade, BeginStop, BeginAudeOff
  <2> QED
    BY <2>1 DEF OInv, Busy
<1>7. Reports
  <2>1. CASE BeginStart
    <3>1. rd'.op = "start"
      BY <2>1 DEF BeginStart
    <3>2. Report!Ask
      BY <1>1, <1>3, <1>6, <3>1 DEF Report!Ask, SameReport
    <3> QED
      BY <3>2 DEF Reports, Report!RNext
  <2>2. CASE BeginFlush \/ StopByFade \/ BeginStop \/ BeginAudeOff
    <3>1. rd'.op # "start"
      BY <1>6, <2>2 DEF BeginFlush, StopByFade, BeginStop, BeginAudeOff
    <3>2. Report!Halt
      BY <1>1, <1>3, <1>6, <3>1 DEF Report!Halt, SameReport
    <3> QED
      BY <3>2 DEF Reports, Report!RNext
  <2> QED
    BY <2>1, <2>2
<1> QED
  BY <1>3, <1>4, <1>5, <1>7

\* The rest of strm s answers it.
LEMMA StartStep ==
  ASSUME OInv, Reported, FinishStart
  PROVE  Reported' /\ Reports
<1> USE DEF Reported
<1>1. rd.op = "start" /\ rd'.op = "none" /\ lms.halted /\ th.state # "running"
  BY DEF FinishStart, Joined, AfterJoin, Superseded
<1>2. PICK r \in Requests : \/ RefuseStart(r) \/ FailOpen(r)
                            \/ \E attached \in BOOLEAN : OpenStart(r, attached)
  BY DEF FinishStart
<1>3. FreshFlags(r) \in SessionRec
  BY FreshFlagsType DEF OInv, IInv, TypeOK
<1>4. /\ sent' \in {<<"STMc">>, <<"STMn">>, <<"DSCO", "STMn">>, <<"STMc", "STMn">>}
      /\ \/ lms'.halted = FALSE
         \/ lms'.halted = lms.halted /\ sent' # <<"STMc">>
  BY <1>2 DEF RefuseStart, FailOpen, OpenStart, OInv, IInv, TypeOK, LmsRec
<1>5. /\ HeardSoFar' /\ Count({"STMs"})' = 0
      /\ sent' = <<"STMc">> => PhaseOf' = "connected" /\ Count(Verdict)' = 0
      /\ sent' # <<"STMc">> => PhaseOf' = "failed" /\ Count(Verdict)' = 1
  BY <1>4, Answers
<1>6. Startable'
  <2>1. \/ ~ses'.track
        \/ sent' = <<"STMc">>
        \/ lms'.halted /\ track'.src = "closed"
    <3>1. CASE RefuseStart(r)
      BY <1>1, <3>1 DEF RefuseStart, OInv, IInv, TypeOK, TrackRec
    <3>2. CASE FailOpen(r)
      BY <1>3, <3>2 DEF FailOpen, SessionRec
    <3>3. CASE \E attached \in BOOLEAN : OpenStart(r, attached)
      BY <1>3, <3>3 DEF OpenStart, SessionRec
    <3> QED
      BY <1>2, <3>1, <3>2, <3>3
  <2> QED
    BY <1>5, <2>1 DEF Startable
<1>7. th'.state = "none" \/ (sent' = <<"STMc">> /\ pump'.pc = "begin")
  BY <1>1, <1>2 DEF RefuseStart, FailOpen, OpenStart, NoThread, MaybeStartPump, Idle
<1>8. Superseded' /\ Connected' /\ Begun' /\ EndFits'
  BY <1>1, <1>5, <1>7 DEF Superseded, Connected, Begun, EndFits, Alive
<1>9. Report!Answer
  <2>1. lms'.halted \in {FALSE, lms.halted} /\ (sent' = <<"STMc">> => lms'.halted = FALSE)
    BY <1>4
  <2>2. \/ PhaseOf' = "connected" /\ Count(Verdict)' = 0 /\ lms'.halted = FALSE
        \/ PhaseOf' = "failed" /\ Count(Verdict)' = 1 /\ lms'.halted \in {FALSE, lms.halted}
    BY <1>5, <2>1
  <2>3. (rd.op = "start") /\ (rd'.op = "start") = FALSE
    BY <1>1
  <2> QED
    BY <1>5, <2>2, <2>3 DEF Report!Answer
<1> QED
  BY <1>5, <1>6, <1>8, <1>9 DEF Reports, Report!RNext

\* A step that says nothing and ends nothing is none of the report.
LEMMA Silence ==
  ASSUME HeardSoFar, sent' = sent, lms'.halted = lms.halted,
         rd'.op = rd.op \/ (rd.op # "start" /\ rd'.op # "start")
  PROVE  HeardSoFar' /\ SameReport /\ Reports
<1>1. HeardSoFar' /\ SameReport
  BY SaysNothing
<1>2. (rd'.op = "start") = (rd.op = "start")
  OBVIOUS
<1> QED
  BY <1>1, <1>2 DEF SameReport, Reports

\* The other commands, and the rest of those that do not start a stream.
LEMMA ReaderStep ==
  ASSUME OInv, Reported,
         OnCont \/ OnPause \/ OnUnpause \/ Shutdown \/ FinishFlush \/ FinishStop
  PROVE  Reported' /\ Reports
<1> USE DEF Reported
<1>0. TypeOK
  BY DEF OInv, IInv
<1>1. /\ sent' = sent /\ lms'.halted = lms.halted
      /\ rd'.op = rd.op \/ (rd.op # "start" /\ rd'.op = "none")
  BY <1>0 DEF OnCont, OnPause, OnUnpause, Shutdown, FinishFlush, FinishStop, AfterJoin,
              TypeOK, LmsRec, ReaderRec
<1>2. HeardSoFar' /\ SameReport /\ Reports
  BY <1>1, Silence
<1>3. Superseded'
  BY <1>1 DEF Superseded
<1>4. ses'.stms = ses.stms /\ ses'.track = ses.track
  BY <1>0 DEF OnCont, OnPause, OnUnpause, Shutdown, FinishFlush, FinishStop, TypeOK,
              SessionRec
<1>5. Begun'
  BY <1>2, <1>4 DEF Begun, SameReport
<1>6. CASE FinishFlush \/ FinishStop
  <2>1. th'.state = "none" /\ track'.src = "closed" /\ lms.halted
    BY <1>0, <1>6 DEF FinishFlush, FinishStop, NoThread, TypeOK, TrackRec, Superseded
  <2>2. Startable' /\ Connected' /\ EndFits'
    BY <1>1, <2>1 DEF Startable, Connected, EndFits, Alive
  <2> QED
    BY <1>2, <1>3, <1>5, <2>2
<1>7. CASE OnCont
  <2>1. UNCHANGED <<rd, track, out>> /\ rd.op # "flush"
    BY <1>7 DEF OnCont, OInv, Busy
  <2>2. CASE UNCHANGED <<th, pump>>
    <3>1. Startable' /\ Connected' /\ EndFits'
      BY <1>1, <1>2, <1>4, <2>1, <2>2 DEF Startable, Connected, EndFits, Alive,
                                          Concluding, SameReport
    <3> QED
      BY <1>2, <1>3, <1>5, <3>1
  <2>3. CASE th.state = "none" /\ ses'.track /\ th'.state = "running" /\ pump'.pc = "begin"
    <3>1. out.ring = "empty"
      BY <2>1, <2>3 DEF OInv, Quiet, Alive
    <3>2. PhaseOf = "connected" \/ (lms.halted /\ track.src = "closed")
      BY <1>4, <2>3 DEF Startable
    <3>3. Connected'
      BY <1>1, <1>2, <2>1, <3>1, <3>2 DEF Connected, SameReport
    <3>4. Startable' /\ EndFits'
      BY <2>3 DEF Startable, EndFits
    <3> QED
      BY <1>2, <1>3, <1>5, <3>3, <3>4
  <2> QED
    BY <1>7, <2>2, <2>3 DEF OnCont, MaybeStartPump, Idle
<1>8. CASE OnPause \/ OnUnpause \/ Shutdown
  <2>1. /\ track'.src = track.src /\ track'.disco = track.disco
        /\ track'.fadeDone = track.fadeDone
    BY <1>0, <1>8 DEF OnPause, OnUnpause, Shutdown, Unpaused, TypeOK, TrackRec
  <2>2. /\ out'.lost = out.lost /\ (out'.ring = out.ring \/ out'.ring = "empty")
    BY <1>0, <1>8 DEF OnPause, OnUnpause, Shutdown, SilencedOutput, TypeOK, OutputRec
  <2>3. UNCHANGED pump /\ th'.state = th.state /\ (th.stop => th'.stop)
    BY <1>0, <1>8 DEF OnPause, OnUnpause, Shutdown, TypeOK, ThreadRec
  <2>4. Startable' /\ Connected'
    BY <1>1, <1>2, <1>4, <2>1, <2>2, <2>3 DEF Startable, Connected, Concluding,
                                              SameReport, Alive
  <2>5. EndFits'
    BY <1>2, <2>1, <2>2, <2>3 DEF EndFits, SameReport, Alive
  <2> QED
    BY <1>2, <1>3, <1>5, <2>4, <2>5
<1> QED
  BY <1>6, <1>7, <1>8

\* codc attaches the decoder and starts the pump, or fails the stream.
LEMMA CodcStep ==
  ASSUME OInv, Reported, OnCodc
  PROVE  Reported' /\ Reports
<1> USE DEF Reported
<1>0. TypeOK
  BY DEF OInv, IInv
<1>1. /\ lms'.halted = lms.halted /\ UNCHANGED <<rd, track, out>>
      /\ ses'.stms = ses.stms /\ rd.op = "none"
  BY <1>0 DEF OnCodc, TypeOK, LmsRec, SessionRec, OInv, Busy
<1>2. Superseded'
  BY <1>1 DEF Superseded
<1>3. CASE UNCHANGED <<ses, th, pump, sent>>
  <2>1. HeardSoFar' /\ SameReport /\ Reports
    BY <1>1, <1>3, Silence
  <2>2. Startable' /\ Connected' /\ Begun' /\ EndFits'
    BY <1>1, <1>3, <2>1 DEF Startable, Connected, Concluding, Begun, EndFits,
                            SameReport, Alive
  <2> QED
    BY <1>2, <2>1, <2>2
<1>4. CASE ses.awaitCodc /\ ses.track
           /\ ses' = [ses EXCEPT !.haveCodc = TRUE, !.awaitCodc = FALSE]
           /\ MaybeStartPump(ses', th) /\ UNCHANGED sent
  <2>1. HeardSoFar' /\ SameReport /\ Reports
    BY <1>1, <1>4, Silence
  <2>2. ses'.track = ses.track /\ th.state = "none" /\ out.ring = "empty"
    BY <1>0, <1>1, <1>4 DEF OInv, IInv, Structure, CodecFirst, Quiet, Alive, TypeOK,
                            SessionRec
  <2>3. PhaseOf = "connected" \/ (lms.halted /\ track.src = "closed")
    BY <1>4, <2>2 DEF Startable
  <2>4. th'.state = "none" \/ (th'.state = "running" /\ pump'.pc = "begin")
    BY <1>4, <2>2 DEF MaybeStartPump, Idle
  <2>5. Startable' /\ Connected'
    BY <1>1, <2>1, <2>2, <2>3 DEF Startable, Connected, SameReport
  <2>6. Begun' /\ EndFits'
    BY <1>1, <2>1, <2>4 DEF Begun, EndFits, SameReport, Alive
  <2> QED
    BY <1>2, <2>1, <2>5, <2>6
<1>5. CASE /\ ses.awaitCodc /\ ses.track
           /\ ses' = [ses EXCEPT !.haveCodc = TRUE, !.awaitCodc = FALSE, !.track = FALSE]
           /\ sent' = Append(sent, "STMn") /\ UNCHANGED <<th, pump>>
  <2>1. HeardSoFar' /\ Concludes("STMn")
    BY <1>5, SaysOne DEF Event, Verdict
  <2>2. ~ses'.track /\ th.state = "none"
    BY <1>0, <1>5 DEF OInv, IInv, Structure, CodecFirst, TypeOK, SessionRec
  <2>3. PhaseOf = "connected" \/ lms.halted
    BY <1>5, <2>2 DEF Startable
  <2>4. PhaseOf' = "failed"
    BY <2>1 DEF Concludes, Names
  <2>5. Report!Fail
    BY <1>1, <2>1, <2>3, <2>4 DEF Report!Fail, Concludes
  <2>6. Startable' /\ Connected' /\ Begun' /\ EndFits'
    BY <1>1, <1>5, <2>1, <2>2 DEF Startable, Connected, Begun, EndFits, Concludes, Alive
  <2> QED
    BY <1>2, <2>1, <2>5, <2>6 DEF Reports, Report!RNext
<1> QED
  BY <1>3, <1>4, <1>5 DEF OnCodc

\* A step of the stream thread that says nothing.
LEMMA QuietPumpStep ==
  ASSUME OInv, Reported, QuietPump
  PROVE  Reported' /\ Reports
<1> USE DEF Reported, QuietPump
<1>0. TypeOK /\ ReasonFits /\ StreamThread
  BY DEF OInv, IInv, StreamThread
<1>1. sent' = sent /\ UNCHANGED <<rd, lms>> /\ ses'.stms = ses.stms
  BY <1>0 DEF PumpBegin, PumpRun, PumpTop, PumpPaused, PumpGateWait, ReadResult, ReadData,
         ReadEof, ReadClosed, ReadWatchdog, ReadNothing, PumpPace, PumpRet, PumpRetry,
         PumpFinal, TypeOK, SessionRec
<1>2. HeardSoFar' /\ SameReport /\ Reports
  BY <1>1, Silence
<1>3. Superseded' /\ Begun'
  BY <1>1, <1>2 DEF Superseded, Begun, SameReport
<1>4. /\ Alive /\ th'.stop = th.stop
      /\ track.src = "closed" => track'.src = "closed"
      /\ track.src = "closed" /\ out.ring = "empty" => out'.ring = "empty"
  BY <1>0, PumpFrame
<1>5. /\ th'.state # "none" /\ (Alive' => pump'.pc \notin {"drain", "final", "decide"})
      /\ ~Concluding \/ ~Alive'
  BY <1>0 DEF PumpBegin, PumpRun, PumpTop, PumpPaused, PumpGateWait, ReadResult, ReadData,
         ReadEof, ReadClosed, ReadWatchdog, ReadNothing, PumpPace, PumpRet, PumpRetry,
         PumpFinal, TypeOK, ThreadRec, PumpRec, Running, Goto, Alive, Concluding
<1>6. Startable'
  BY <1>5 DEF Startable
<1>7. Connected'
  BY <1>1, <1>2, <1>4, <1>5 DEF Connected, SameReport
<1>8. EndFits'
  <2>1. /\ Alive' /\ pump'.pc = "ret" /\ pump'.why = "none" =>
              track'.fadeDone \/ th'.stop \/ out'.lost
        /\ Alive' /\ pump'.pc = "ret" /\ pump'.why = "socket" => track'.disco # "none"
    <3>1. CASE PumpTop
      <4>1. pump'.pc = "ret" => track'.fadeDone \/ th'.stop \/ out'.lost
        BY <1>0, <3>1 DEF PumpTop, Goto, TypeOK, PumpRec
      <4>2. pump'.why = "none"
        BY <1>0, <1>4, <3>1 DEF PumpTop, Goto, TypeOK, PumpRec, Running, ReasonFits, InRun
      <4> QED
        BY <4>1, <4>2
    <3>2. CASE ReadResult
      BY <1>0, <3>2 DEF ReadResult, ReadData, ReadEof, ReadClosed, ReadWatchdog, Goto,
                        TypeOK, PumpRec, TrackRec
    <3>3. CASE ~PumpTop /\ ~ReadResult
      <4>1. ~Alive' \/ pump'.pc # "ret"
        BY <1>0, <3>3 DEF PumpBegin, PumpRun, PumpPaused, PumpGateWait, ReadNothing,
           PumpPace, PumpRet, PumpRetry, PumpFinal, TypeOK, ThreadRec, PumpRec, Goto, Alive
      <4> QED
        BY <4>1
    <3> QED
      BY <3>1, <3>2, <3>3
  <2>2. Alive' /\ pump'.pc \in {"exit", "decide"} =>
          /\ pump'.end # "none"
          /\ pump'.end = "Stopped" => th'.stop
          /\ pump'.end = "Lost" => out'.lost
          /\ pump'.end = "SocketError" => track'.disco # "none"
          /\ pump'.end = "DecodeError" => ~out'.lost
    <3>1. CASE PumpRet
      <4>1. pump.pc = "ret" /\ UNCHANGED <<track, th, out>>
        BY <3>1 DEF PumpRet, Running
      <4>2. pump'.end = IF track.fadeDone           THEN "FadedOut"
                        ELSE IF th.stop             THEN "Stopped"
                        ELSE IF out.lost            THEN "Lost"
                        ELSE IF pump.why = "eof"    THEN "Eof"
                        ELSE IF pump.why = "decode" THEN "DecodeError"
                        ELSE "SocketError"
        BY <1>0, <3>1 DEF PumpRet, TypeOK, PumpRec
      <4>3. pump.why \in {"none", "eof", "decode", "socket"}
        BY <1>0 DEF TypeOK, PumpRec, Why
      <4>4. /\ pump.why = "none" => track.fadeDone \/ th.stop \/ out.lost
            /\ pump.why = "socket" => track.disco # "none"
        BY <1>4, <4>1 DEF EndFits
      <4>5. CASE track.fadeDone
        BY <4>2, <4>5
      <4>6. CASE ~track.fadeDone /\ th.stop
        BY <4>1, <4>2, <4>6
      <4>7. CASE ~track.fadeDone /\ ~th.stop /\ out.lost
        BY <4>1, <4>2, <4>7
      <4>8. CASE ~track.fadeDone /\ ~th.stop /\ ~out.lost
        BY <4>1, <4>2, <4>3, <4>4, <4>8
      <4> QED
        BY <4>5, <4>6, <4>7, <4>8
    <3>2. CASE ~PumpRet
      <4>1. ~Alive' \/ pump'.pc \notin {"exit", "decide"}
        BY <1>0, <3>2 DEF PumpBegin, PumpRun, PumpTop, PumpPaused, PumpGateWait,
           ReadResult, ReadData, ReadEof, ReadClosed, ReadWatchdog, ReadNothing, PumpPace,
           PumpRetry, PumpFinal, TypeOK, ThreadRec, PumpRec, Goto, Alive
      <4> QED
        BY <4>1
    <3> QED
      BY <3>1, <3>2
  <2> QED
    BY <1>5, <2>1, <2>2 DEF EndFits
<1> QED
  BY <1>2, <1>3, <1>6, <1>7, <1>8

\* Time, the receiver and discovery say nothing; a receiver is not lost while
\* nobody drives it.
LEMMA WorldStep ==
  ASSUME OInv, Reported, World
  PROVE  Reported' /\ Reports
<1> USE DEF Reported, World
<1>0. TypeOK
  BY DEF OInv, IInv
<1>1. /\ UNCHANGED <<rd, ses, th, pump, lms, sent>>
  BY DEF Clock, PauseDue, GateDue, SenderSends, ReceiverCloses, TargetFound
<1>2. HeardSoFar' /\ SameReport /\ Reports
  BY <1>1, Silence
<1>3. Superseded' /\ Begun'
  BY <1>1, <1>2 DEF Superseded, Begun, SameReport
<1>4. /\ track'.src = track.src /\ (out.ring = "empty" => out'.ring = "empty")
  BY <1>0, WorldFrame
<1>5. Startable' /\ Connected'
  BY <1>1, <1>2, <1>4 DEF Startable, Connected, Concluding, SameReport, Alive
<1>6. track'.fadeDone = track.fadeDone /\ track'.disco = track.disco
  BY <1>0 DEF Clock, PauseDue, GateDue, SenderSends, ReceiverCloses, TargetFound,
              TypeOK, TrackRec
<1>7. /\ out.lost => out'.lost
      /\ Alive /\ pump.pc \in {"exit", "decide"} => out'.lost = out.lost
  <2>1. CASE ReceiverCloses
    <3>1. out'.lost
      BY <1>0, <2>1 DEF ReceiverCloses, TypeOK, OutputRec
    <3>2. ~(Alive /\ pump.pc \in {"exit", "decide"})
      BY <2>1 DEF ReceiverCloses, Driven, DrivingPc, OInv, IInv, Structure, OneDriver,
                  Alive
    <3> QED
      BY <3>1, <3>2
  <2>2. CASE ~ReceiverCloses
    BY <1>0, <2>2 DEF Clock, PauseDue, GateDue, SenderSends, TargetFound, TypeOK, OutputRec
  <2> QED
    BY <2>1, <2>2
<1>8. EndFits'
  BY <1>1, <1>2, <1>6, <1>7 DEF EndFits, SameReport, Alive
<1> QED
  BY <1>2, <1>3, <1>5, <1>8

\* A step that may announce the stream: the gate, or a decoded chunk.
LEMMA LaunchingStep ==
  ASSUME OInv, Reported, PumpGate \/ Feed
  PROVE  Reported' /\ Reports
<1> USE DEF Reported
<1>0. TypeOK /\ ReasonFits /\ StreamThread
  BY DEF OInv, IInv, StreamThread
<1>1. UNCHANGED <<rd, lms, th>> /\ Alive /\ ~Concluding /\ pump.pc \in {"gate", "feed"}
  BY DEF PumpGate, Feed, Feeding, FeedChunk, FeedPartial, FeedUndecodable, FeedTail,
         Running, Alive, Concluding
<1>2. pump'.pc \in {"gatewait", "read", "pace", "ret"}
  <2>1. CASE PumpGate
    BY <1>0, <2>1, GateKeeps
  <2>2. CASE Feed
    BY <1>0, <2>2, LaunchGoesOn DEF Feed, Feeding, FeedChunk, FeedPartial, FeedUndecodable,
                                    FeedTail, OutputReady, Goto, TypeOK, PumpRec
  <2> QED
    BY <2>1, <2>2
<1>3. ChunkFlags \in SessionRec /\ ChunkSent \in Seq(Event)
  BY <1>0, ChunkType
\* What the step sends, and that it then has something to play.
<1>4. /\ HeardSoFar' /\ Announces
      /\ sent' # sent => out.ring # "empty" \/ track.src # "closed"
  <2>1. CASE sent' = sent /\ ses' = ses
    BY <2>1, SaysNothing DEF Announces
  <2>2. CASE OutputReady(out, ses, sent) /\ PumpGate
    <3>1. ses'.stms
      BY <1>0, <2>2 DEF OutputReady, TypeOK, SessionRec
    <3>2. IF ses.stms THEN sent' = sent ELSE sent' = Append(sent, "STMs")
      BY <2>2 DEF OutputReady
    <3>3. HeardSoFar' /\ Announces
      BY <3>1, <3>2, SaysReady
    <3>4. out.ring # "empty" \/ sent' = sent
      BY <2>2 DEF PumpGate
    <3> QED
      BY <3>3, <3>4
  <2>3. CASE Feed /\ ChunkFed
    <3>1. HeardSoFar' /\ Announces
      BY <1>0, <2>3, ChunkSays, SaysReady DEF ChunkFed
    <3>2. track.src # "closed"
      BY <1>0, <2>3 DEF Feed, Feeding, FeedChunk, FeedPartial, FeedUndecodable, FeedTail,
                        Running, ReasonFits, Alive
    <3> QED
      BY <3>1, <3>2
  <2>4. CASE Feed /\ OutputReady(ChunkOut, ChunkFlags, ChunkSent)
    <3>1. ses'.stms
      BY <1>3, <2>4 DEF OutputReady, SessionRec
    <3>2. IF ChunkFlags.stms THEN sent' = ChunkSent ELSE sent' = Append(ChunkSent, "STMs")
      BY <2>4 DEF OutputReady
    <3>3. \/ sent' \in {sent, Append(sent, "STMl")}
          \/ /\ sent' \in {Append(sent, "STMs"), Append(Append(sent, "STMl"), "STMs")}
             /\ ~ses.stms
      BY <1>0, <3>2, ChunkSays
    <3>4. HeardSoFar' /\ Announces
      BY <3>1, <3>3, SaysReady
    <3>5. track.src # "closed"
      BY <1>0, <2>4 DEF Feed, Feeding, FeedChunk, FeedPartial, FeedUndecodable, FeedTail,
                        Running, ReasonFits, Alive
    <3> QED
      BY <3>4, <3>5
  <2> QED
    BY <2>1, <2>2, <2>3, <2>4 DEF PumpGate, Feed, FeedChunk, FeedPartial,
                                  FeedUndecodable, FeedTail
<1>5. Superseded' /\ Startable'
  BY <1>1 DEF Superseded, Startable, Alive
<1>6. PhaseOf' = PhaseOf
  BY <1>4 DEF Announces, SameReport, Begins
<1>7. Connected'
  <2>1. /\ track.src = "closed" => track'.src = "closed"
        /\ track.src = "closed" /\ out.ring = "empty" => out'.ring = "empty"
    BY <1>0, PumpFrame
  <2> QED
    BY <1>1, <1>6, <2>1 DEF Connected
<1>8. Begun'
  BY <1>4 DEF Begun, Announces, SameReport
<1>9. EndFits'
  <2>1. pump'.pc = "ret" /\ pump'.why = "none" => track'.fadeDone
    <3>1. CASE PumpGate
      BY <1>0, <3>1, GateKeeps
    <3>2. CASE FeedChunk
      BY <1>0, <3>2, LaunchGoesOn DEF FeedChunk, OutputReady, Goto, TypeOK, PumpRec
    <3>3. CASE FeedPartial \/ FeedUndecodable \/ FeedTail
      BY <1>0, <3>3 DEF FeedPartial, FeedUndecodable, FeedTail, Feeding, Goto, TypeOK,
                        PumpRec
    <3> QED
      BY <3>1, <3>2, <3>3 DEF Feed
  <2>2. pump'.pc = "ret" => pump'.why # "socket"
    <3>1. CASE PumpGate
      BY <1>0, <3>1, GateKeeps
    <3>2. CASE Feed
      BY <1>0, <3>2, LaunchGoesOn DEF Feed, Feeding, FeedChunk, FeedPartial,
                     FeedUndecodable, FeedTail, OutputReady, Goto, TypeOK, PumpRec
    <3> QED
      BY <3>1, <3>2
  <2> QED
    BY <1>2, <2>1, <2>2 DEF EndFits
<1>10. Reports
  <2>1. CASE SameReport
    BY <1>1, <2>1 DEF Reports, SameReport
  <2>2. CASE Begins /\ ~ses.stms
    <3>1. sent' # sent
      <4>1. Count({"STMs"})' = Count({"STMs"}) + 1 /\ Count({"STMs"}) \in Nat
        BY <1>0, <2>2, MappingIs, CountFinite DEF Begins, TypeOK
      <4>2. sent' = sent => Count({"STMs"})' = Count({"STMs"})
        BY DEF Count
      <4> QED
        BY <4>1, <4>2
    <3>2. PhaseOf = "connected"
      BY <1>1, <1>4, <3>1 DEF Connected
    <3>3. Count({"STMs"}) = 0
      BY <2>2 DEF Begun
    <3>4. Report!Begin
      BY <1>1, <2>2, <3>2, <3>3 DEF Report!Begin, Begins
    <3> QED
      BY <3>4 DEF Reports, Report!RNext
  <2> QED
    BY <1>4, <2>1, <2>2 DEF Announces
<1> QED
  BY <1>4, <1>5, <1>7, <1>8, <1>9, <1>10

\* The exit path reports a decode error at once.
LEMMA ExitStep ==
  ASSUME OInv, Reported, PumpExit
  PROVE  Reported' /\ Reports
<1> USE DEF Reported
<1>0. TypeOK /\ StreamThread
  BY DEF OInv, IInv, StreamThread
<1>1. /\ UNCHANGED <<rd, track, th, out, lms>> /\ Alive /\ pump.pc = "exit"
      /\ pump'.pc = "decide" /\ pump'.end = pump.end /\ ses'.stms = ses.stms
  BY <1>0 DEF PumpExit, Running, Alive, TypeOK, PumpRec, SessionRec
<1>2. Superseded' /\ Startable'
  BY <1>1 DEF Superseded, Startable, Alive
<1>3. ~Concluding
  BY <1>1 DEF Concluding
<1>4. CASE pump.end # "DecodeError"
  <2>1. HeardSoFar' /\ SameReport /\ Reports
    BY <1>1, <1>4, Silence DEF PumpExit
  <2>2. Connected' /\ Begun' /\ EndFits'
    BY <1>1, <1>3, <1>4, <2>1 DEF Connected, Begun, EndFits, SameReport, Alive
  <2> QED
    BY <1>2, <2>1, <2>2
<1>5. CASE pump.end = "DecodeError"
  <2>1. HeardSoFar' /\ Concludes("STMn")
    BY <1>5, SaysOne DEF PumpExit, Event, Verdict
  <2>2. PhaseOf' = "failed"
    BY <2>1 DEF Concludes, Names
  <2>3. Report!Fail
    BY <1>1, <1>3, <2>1, <2>2 DEF Report!Fail, Concludes, Connected
  <2>4. Connected'
    BY <1>1, <1>5 DEF Connected, Concluding
  <2>5. Begun' /\ EndFits'
    BY <1>1, <1>5, <2>1, <2>2 DEF Begun, EndFits, Concludes, Alive
  <2> QED
    BY <1>2, <2>1, <2>3, <2>4, <2>5 DEF Reports, Report!RNext
<1> QED
  BY <1>4, <1>5

\* A retry says nothing; every other exit that is not silent is a verdict the
\* stream does not have yet.
LEMMA DecideStep ==
  ASSUME OInv, Reported, PumpDecide
  PROVE  Reported' /\ Reports
<1> USE DEF Reported
<1> DEFINE action == IF pump.end = "FadedOut" THEN "SilentStop"
                     ELSE DecideExit(th.stop, out.lost, ses.retryUsed, pump.end = "Eof")
<1>0. TypeOK /\ ReasonFits /\ sent \in Seq(Event)
  BY DEF OInv, IInv, TypeOK
<1>1. /\ UNCHANGED <<rd, track, th, lms>> /\ Alive /\ pump.pc = "decide"
      /\ ses'.stms = ses.stms /\ pump'.end = pump.end /\ out'.ring = out.ring
  BY <1>0 DEF PumpDecide, Running, Alive, Goto, TypeOK, PumpRec, SessionRec, OutputRec
<1>2. /\ sent' = sent \o ExitEvents(action)
      /\ action = "Retry" => pump'.pc = "retry"
      /\ action = "EndedEof" => pump'.pc = "drain"
      /\ action \notin {"Retry", "EndedEof"} => pump'.pc = "final"
  BY <1>0 DEF PumpDecide, Goto, TypeOK, PumpRec
<1>3. action \in {"SilentStop", "GaveUp", "Retry", "EndedEof", "EndedError"}
  BY DEF DecideExit
<1>4. Superseded' /\ Startable'
  BY <1>1 DEF Superseded, Startable, Alive
<1>5. pump.end = "DecodeError" => ~out.lost /\ track.disco = "none" /\ PhaseOf = "failed"
  BY <1>0, <1>1 DEF EndFits, ReasonFits
<1>6. pump.end # "DecodeError" =>
         \/ PhaseOf = "connected"
         \/ lms.halted /\ track.src = "closed" /\ out.ring = "empty"
  BY <1>1 DEF Connected, Concluding
<1>7. action = "Retry" \/ action = "GaveUp" => out.lost
  BY DEF DecideExit
<1>8. action = "EndedEof" => pump.end = "Eof"
  BY DEF DecideExit
<1>9. action = "EndedError" =>
         \/ pump.end = "DecodeError"
         \/ pump.end # "DecodeError" /\ track.disco # "none"
  <2>1. action = "EndedError" => pump.end \notin {"FadedOut", "Eof"} /\ ~th.stop /\ ~out.lost
    BY DEF DecideExit
  <2>2. pump.end \in EndCode
    BY <1>0 DEF TypeOK, PumpRec
  <2> QED
    BY <1>1, <2>1, <2>2 DEF EndCode, EndFits
<1> HIDE DEF action
<1>10. CASE action \in {"SilentStop", "Retry"}
  <2>1. sent' = sent
    BY <1>0, <1>2, <1>10, OneByOne DEF ExitEvents
  <2>2. HeardSoFar' /\ SameReport /\ Reports
    BY <1>1, <2>1, Silence
  <2>3. Connected'
    BY <1>1, <1>2, <1>5, <1>6, <1>7, <1>10, <2>2 DEF Connected, Concluding, SameReport
  <2>4. Begun' /\ EndFits'
    BY <1>1, <1>2, <1>10, <2>2 DEF Begun, EndFits, SameReport
  <2> QED
    BY <1>4, <2>2, <2>3, <2>4
<1>11. CASE action = "GaveUp"
  <2>1. sent' = sent \o <<"STMd">>
    BY <1>2, <1>11 DEF ExitEvents
  <2>2. HeardSoFar' /\ Concludes("STMd")
    BY <2>1, SaysVerdict DEF Verdict
  <2>3. PhaseOf' = "complete"
    BY <2>2 DEF Concludes, Names
  <2>4. PhaseOf = "connected" \/ lms.halted
    BY <1>5, <1>6, <1>7, <1>11
  <2>5. Report!Complete
    BY <1>1, <2>2, <2>3, <2>4 DEF Report!Complete, Concludes
  <2>6. Connected' /\ Begun' /\ EndFits'
    BY <1>1, <1>2, <1>11, <2>2 DEF Connected, Concluding, Begun, EndFits, Concludes
  <2> QED
    BY <1>4, <2>2, <2>5, <2>6 DEF Reports, Report!RNext
<1>12. CASE action = "EndedEof"
  <2>1. sent' = sent \o <<"DSCO", "STMd">>
    BY <1>2, <1>12 DEF ExitEvents
  <2>2. HeardSoFar' /\ Concludes("STMd")
    BY <2>1, SaysVerdict DEF Verdict
  <2>3. PhaseOf' = "complete"
    BY <2>2 DEF Concludes, Names
  <2>4. PhaseOf = "connected" \/ lms.halted
    BY <1>6, <1>8, <1>12
  <2>5. Report!Complete
    BY <1>1, <2>2, <2>3, <2>4 DEF Report!Complete, Concludes
  <2>6. Connected' /\ Begun' /\ EndFits'
    BY <1>1, <1>2, <1>12, <2>2, <2>3 DEF Connected, Concluding, Begun, EndFits, Concludes
  <2> QED
    BY <1>4, <2>2, <2>5, <2>6 DEF Reports, Report!RNext
<1>13. CASE action = "EndedError" /\ pump.end # "DecodeError"
  <2>1. sent' = sent \o <<"DSCO", "STMn">>
    BY <1>2, <1>9, <1>13 DEF ExitEvents
  <2>2. HeardSoFar' /\ Concludes("STMn")
    BY <2>1, SaysVerdict DEF Verdict
  <2>3. PhaseOf' = "failed"
    BY <2>2 DEF Concludes, Names
  <2>4. PhaseOf = "connected" \/ lms.halted
    BY <1>6, <1>13
  <2>5. Report!Fail
    BY <1>1, <2>2, <2>3, <2>4 DEF Report!Fail, Concludes
  <2>6. Connected' /\ Begun' /\ EndFits'
    BY <1>1, <1>2, <1>13, <2>2 DEF Connected, Concluding, Begun, EndFits, Concludes
  <2> QED
    BY <1>4, <2>2, <2>5, <2>6 DEF Reports, Report!RNext
<1>14. CASE action = "EndedError" /\ pump.end = "DecodeError"
  <2>1. sent' = sent \o <<"STMu">>
    BY <1>2, <1>5, <1>14 DEF ExitEvents
  <2>2. HeardSoFar' /\ Concludes("STMu")
    BY <2>1, SaysVerdict DEF Verdict
  <2>3. PhaseOf' = "ended" /\ PhaseOf = "failed"
    BY <1>5, <1>14, <2>2 DEF Concludes, Names
  <2>4. Report!End
    BY <1>1, <2>2, <2>3 DEF Report!End, Concludes
  <2>5. Connected' /\ Begun' /\ EndFits'
    BY <1>1, <1>2, <1>14, <2>2 DEF Connected, Concluding, Begun, EndFits, Concludes
  <2> QED
    BY <1>4, <2>2, <2>4, <2>5 DEF Reports, Report!RNext
<1> QED
  BY <1>3, <1>10, <1>11, <1>12, <1>13, <1>14

\* The drained end of a complete stream.
LEMMA DrainStep ==
  ASSUME OInv, Reported, PumpDrain
  PROVE  Reported' /\ Reports
<1> USE DEF Reported
<1>0. TypeOK
  BY DEF OInv, IInv
<1>1. /\ UNCHANGED <<rd, ses, track, th, out, lms>> /\ Alive /\ pump.pc = "drain"
      /\ pump'.pc = "final"
  BY <1>0 DEF PumpDrain, Running, Alive, Goto, TypeOK, PumpRec
<1>2. Superseded' /\ Startable' /\ Connected' /\ EndFits'
  BY <1>1 DEF Superseded, Startable, Connected, Concluding, EndFits, Alive
<1>3. CASE sent' = sent
  <2>1. HeardSoFar' /\ SameReport /\ Reports
    BY <1>1, <1>3, Silence
  <2> QED
    BY <1>1, <1>2, <2>1 DEF Begun, SameReport
<1>4. CASE sent' = Append(sent, "STMu")
  <2>1. HeardSoFar' /\ Concludes("STMu")
    BY <1>4, SaysOne DEF Event, Verdict
  <2>2. PhaseOf = "complete" /\ PhaseOf' = "ended"
    BY <1>1, <2>1 DEF EndFits, Concludes, Names
  <2>3. Report!End
    BY <1>1, <2>1, <2>2 DEF Report!End, Concludes
  <2>4. Begun'
    BY <1>1, <2>1 DEF Begun, Concludes
  <2> QED
    BY <1>2, <2>1, <2>3, <2>4 DEF Reports, Report!RNext
<1> QED
  BY <1>3, <1>4 DEF PumpDrain

-----------------------------------------------------------------------------
(* The refinement.                                                         *)

\* Nothing has been said or asked for.
LEMMA InitReport == Init => RInv /\ Report!RInit
<1> SUFFICES ASSUME Init PROVE RInv /\ Report!RInit
  OBVIOUS
<1>1. OInv
  BY InitOrder
<1>2. /\ sent = <<>> /\ rd.op = "none" /\ ~ses.track /\ th.state = "none"
      /\ lms.halted = FALSE
  BY DEF Init, NoThread
<1>3. /\ Speaks(sent, PhaseOf) /\ PhaseOf = "none"
      /\ Count(Verdict) = 0 /\ Count({"STMs"}) = 0
  BY <1>2, SpeaksEmpty, MappingIs
<1>4. Superseded /\ Startable /\ Connected /\ Begun /\ EndFits
  BY <1>2, <1>3 DEF Superseded, Startable, Connected, Begun, EndFits, Alive
<1>5. Report!RInit
  BY <1>2, <1>3 DEF Report!RInit
<1> QED
  BY <1>1, <1>3, <1>4, <1>5 DEF RInv

\* Every step keeps the invariant and is a step of the report, or none.
LEMMA StepReport == RInv /\ [Next]_vars => RInv' /\ [Report!RNext]_(Report!rvars)
<1> SUFFICES ASSUME RInv, [Next]_vars PROVE RInv' /\ Reports
  BY DEF Reports, Report!rvars
<1>1. OInv /\ Reported
  BY DEF RInv, Reported, HeardSoFar, OInv, IInv, TypeOK
<1>2. OInv'
  BY <1>1, StepOrder
<1>3. Reported' /\ Reports
  <2>1. CASE UNCHANGED vars
    <3>1. HeardSoFar' /\ SameReport /\ Reports
      BY <1>1, <2>1, Silence DEF Reported, vars
    <3>2. Superseded' /\ Startable' /\ Connected' /\ Begun' /\ EndFits'
      BY <1>1, <2>1, <3>1 DEF Reported, vars, Superseded, Startable, Connected,
                              Concluding, Begun, EndFits, SameReport, Alive
    <3> QED
      BY <3>1, <3>2 DEF Reported
  <2>2. CASE Command
    BY <1>1, <2>2, EndingStep, ReaderStep, CodcStep DEF Command, Ending
  <2>3. CASE Reader
    BY <1>1, <2>3, StartStep, ReaderStep DEF Reader
  <2>4. CASE StreamThread
    BY <1>1, <2>4, QuietPumpStep, LaunchingStep, ExitStep, DecideStep, DrainStep
       DEF StreamThread, QuietPump
  <2>5. CASE World
    BY <1>1, <2>5, WorldStep
  <2> QED
    BY <2>1, <2>2, <2>3, <2>4, <2>5 DEF Next, World
<1>4. RInv'
  BY <1>2, <1>3 DEF RInv, Reported, HeardSoFar
<1> QED
  BY <1>3, <1>4

\* What the exit path and the command handlers rely on holds in every reachable
\* state: what LMS has heard is what the flags and the program counter say.
THEOREM ReportInvariance == Spec => []RInv
BY InitReport, StepReport, PTL DEF Spec

\* Through every interleaving of the reader and the stream thread, every loss
\* and every retry, LMS hears one stream after another as StreamReport says.
THEOREM Refinement == Spec => ImplementsReport
BY InitReport, StepReport, PTL DEF Spec, ImplementsReport, Report!RSpec
=============================================================================
