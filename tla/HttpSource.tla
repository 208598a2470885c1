----------------------------- MODULE HttpSource -----------------------------
(* The HTTP source of one track, from strm s to its end: HttpStreamReader    *)
(* over a plain or a TLS transport, the slimproto reader thread that opens   *)
(* it, the pump that reads it, and the thread that shuts the stream down.    *)
(* The server is external: it answers in pieces of any size, goes silent or  *)
(* ends the connection at any point.                                        *)
(*                                                                          *)
(* The answer is a sequence of units: header lines, the end of the header,   *)
(* and a body of audio, ICY length bytes and cells of metadata.              *)
EXTENDS Integers, Sequences, SequencesExt

CONSTANTS
    Responses,      \* what a server may answer, see Answer
    HeaderChunk,    \* units openBlocking() reads at once
    HeaderLimit,    \* units of an unfinished header it gives up after
    BufferSize,     \* units of the pump's buffer
    MetaChunk,      \* cells of metadata read() pulls at once
    WireSize,       \* bound: units on the way
    MaxTickets      \* bound: TLS session tickets the server sends

Unit(kind, of, at) == [kind |-> kind, of |-> of, at |-> at]
Run(kind, of, n) == [i \in 1 .. n |-> Unit(kind, of, i)]

\* One round of an ICY body: the audio of an interval, a length byte, a block.
Round(r, b) ==
    Run("audio", b, r.metaint) \o << Unit("len", b, r.blocks[b]) >>
        \o Run("meta", b, r.blocks[b])

\* A response: its headers announce icy-metaint (0: not), its blocks have a
\* length each, and audio follows the last one.
Body(r) ==
    (IF r.metaint = 0 THEN << >> ELSE FlattenSeq([b \in DOMAIN r.blocks |-> Round(r, b)]))
        \o Run("audio", 0, r.tail)
Answer(r) == Run("header", 0, r.headers) \o << Unit("end", 0, r.metaint) >> \o Body(r)

\* A body without icy-metaint has no blocks; in one with it, the audio that
\* follows the last block is no longer than an interval.
ASSUME ResponsesAssumption ==
    \A r \in Responses :
        /\ r \in [headers : Nat, metaint : Nat, blocks : Seq(Nat), tail : Nat]
        /\ IF r.metaint = 0 THEN r.blocks = << >> ELSE r.tail <= r.metaint

ASSUME SizesAssumption ==
    /\ HeaderChunk \in Nat \ {0} /\ BufferSize \in Nat \ {0} /\ MetaChunk \in Nat \ {0}
    /\ WireSize \in Nat /\ MaxTickets \in Nat

VARIABLES
    response, tls,  \* the track's source
    toSend, wire, tickets,
    peer,           \* the server's side: "up", "fin", "rst"
    fd,             \* the socket: "none", "up", "shut", "closed"
    published,      \* transport_ points to it
    header,         \* openBlocking()'s buf
    leftover,       \* leftover_
    icy,            \* metaInterval_, metaCountdown_, metaBytesLeft_, metaBuf_
    opener,         \* the slimproto reader thread
    pump,           \* the stream thread
    call,           \* its read(): buffer so far, and the pull it is in
    result,         \* what its last read() returned
    stopper,        \* the thread in StreamCoordinator::shutdown()
    handle, stop,   \* streamThread_ is joinable; its stop is requested
    audio, blocks   \* history: what the pump got, what onMeta() got

server == << response, tls, toSend, wire, tickets, peer >>
reader == << fd, published, header, leftover, icy >>
threads == << opener, stopper, handle, stop >>
pumping == << pump, call, result, audio, blocks >>
vars == << server, reader, threads, pumping >>

NoIcy == [interval |-> 0, countdown |-> 0, bytesLeft |-> 0, metaBuf |-> << >>]
NoCall == [produced |-> << >>, part |-> "", want |-> 0]

-----------------------------------------------------------------------------
(* The server (external).                                                   *)

Requested == opener \in {"header", "attach", "free"}

Send ==
    /\ Requested /\ peer = "up" /\ toSend # << >> /\ Len(wire) < WireSize
    /\ wire' = Append(wire, Head(toSend)) /\ toSend' = Tail(toSend)
    /\ UNCHANGED << response, tls, tickets, peer, reader, threads, pumping >>

SendTicket ==
    /\ Requested /\ tls /\ peer = "up" /\ tickets < MaxTickets
    /\ wire' = Append(wire, Unit("ticket", 0, 0)) /\ tickets' = tickets + 1
    /\ UNCHANGED << response, tls, toSend, peer, reader, threads, pumping >>

\* An end, with or without the close_notify of TLS, or a reset.
EndConnection(how) ==
    /\ fd = "up" /\ peer = "up"
    /\ peer' = how
    /\ UNCHANGED << response, tls, toSend, wire, tickets, reader, threads, pumping >>

-----------------------------------------------------------------------------
(* The transports.                                                          *)

\* mbedtls swallows session tickets; what is behind them is read.
Readable(w) ==
    LET first == SelectInSeq(w, LAMBDA u : u.kind # "ticket")
    IN  IF ~tls THEN w ELSE IF first = 0 THEN << >> ELSE SubSeq(w, first, Len(w))

\* One piece: what is there, up to the buffer's size and the next ticket.
Piece(w, size) ==
    LET next == SelectInSeq(w, LAMBDA u : u.kind = "ticket")
        have == IF next = 0 THEN Len(w) ELSE next - 1
    IN  SubSeq(w, 1, IF have < size THEN have ELSE size)

\* TcpTransport::read() and TlsTransport::read(): data first, then how the
\* connection ended; a socket closed under the poll is never reported by it.  To
\* mbedtls an end without a close_notify is an end as well: ssl_read() returns 0.
NoData ==
    CASE fd = "closed" -> {"Timeout", "Error"}
      [] fd = "shut"   -> {"Eof"}
      [] fd = "up"     -> IF peer = "up" THEN {"Timeout"}
                          ELSE IF peer = "rst" THEN {"Error"} ELSE {"Eof"}

\* What Transport::read() can return, and what it leaves on the wire.
Reads(size) ==
    LET w == Readable(wire)
        p == Piece(w, size)
    IN  IF w # << >> /\ fd # "closed"
        THEN { [result |-> "Data", units |-> p, rest |-> SubSeq(w, Len(p) + 1, Len(w))] }
        ELSE { [result |-> end, units |-> << >>, rest |-> w] : end \in NoData }

\* Mutant: nobody is woken.
Interrupted_Nobody(socket) == socket

\* interrupt(): the published socket is shut down, never closed.
Interrupted(socket) == IF published /\ socket = "up" THEN "shut" ELSE socket

\* resetLocked().
Reset ==
    /\ fd' = (IF published THEN "closed" ELSE fd) /\ published' = FALSE
    /\ header' = << >> /\ leftover' = << >> /\ icy' = NoIcy

-----------------------------------------------------------------------------
(* openBlocking(), on the reader thread, and the start of the pump.         *)

Opening == opener \in {"connect", "handshake", "send", "header"}

\* The lock is taken and the reader reset; the transport is a local one.
Open ==
    /\ opener = "open"
    /\ opener' = "connect" /\ Reset
    /\ UNCHANGED << server, stopper, handle, stop, pumping >>

\* connectTcp(): resolved and connected, or neither.
ConnectTcp(ok) ==
    /\ opener = "connect"
    /\ fd' = IF ok THEN "up" ELSE "closed"
    /\ opener' = IF ~ok THEN "failed" ELSE IF tls THEN "handshake" ELSE "send"
    /\ published' = (ok /\ ~tls)
    /\ UNCHANGED << server, header, leftover, icy, stopper, handle, stop, pumping >>

\* handshake(): done, or out of time, refused, or cut off by the server.
Handshake(ok) ==
    /\ opener = "handshake"
    /\ ok => peer = "up"
    /\ fd' = IF ok THEN fd ELSE "closed"
    /\ opener' = IF ok THEN "send" ELSE "failed"
    /\ published' = ok
    /\ UNCHANGED << server, header, leftover, icy, stopper, handle, stop, pumping >>

\* openBlocking() gives up: the error is returned, nothing stays open.
GiveUp ==
    /\ opener' = "failed" /\ Reset
    /\ UNCHANGED << server, stopper, handle, stop, pumping >>

\* writeAll() of the request.
SendRequest ==
    /\ opener = "send"
    /\ \/ GiveUp
       \/ /\ fd = "up" /\ opener' = "header"
          /\ UNCHANGED << server, reader, stopper, handle, stop, pumping >>

\* The header is complete: headers_ and leftover_, and the interval that
\* parseIcyMetaint() found.
HeaderComplete(buf, at) ==
    /\ header' = SubSeq(buf, 1, at)
    /\ leftover' = SubSeq(buf, at + 1, Len(buf))
    /\ icy' = [NoIcy EXCEPT !.interval = buf[at].at, !.countdown = buf[at].at]
    /\ opener' = "attach"
    /\ UNCHANGED << fd, published >>

\* One turn of the header loop that reads something.
ReadHeader ==
    /\ opener = "header"
    /\ \E r \in Reads(HeaderChunk) :
        LET buf == header \o r.units
            at  == SelectInSeq(buf, LAMBDA u : u.kind = "end")
        IN  /\ r.result # "Timeout"
            /\ wire' = r.rest
            /\ UNCHANGED << response, tls, toSend, tickets, peer,
                            stopper, handle, stop, pumping >>
            /\ \/ /\ r.result = "Data" /\ at # 0
                  /\ HeaderComplete(buf, at)
               \/ /\ r.result = "Data" /\ at = 0 /\ Len(buf) <= HeaderLimit
                  /\ header' = buf
                  /\ UNCHANGED << fd, published, leftover, icy, opener >>
               \/ /\ r.result # "Data" \/ (at = 0 /\ Len(buf) > HeaderLimit)
                  /\ opener' = "failed" /\ Reset

\* The deadline of the header phase passes.
HeaderLate == opener = "header" /\ GiveUp

\* attachDecoder() and maybeStartPump(), at once or for a later codc or cont;
\* a format without a decoder drops the track.
StartPump ==
    /\ opener = "attach"
    /\ opener' = "free" /\ handle' = TRUE /\ stop' = FALSE /\ pump' = "start"
    /\ UNCHANGED << server, reader, stopper, call, result, audio, blocks >>

DropTrack == opener = "attach" /\ GiveUp

-----------------------------------------------------------------------------
(* read(), on the pump.                                                     *)

\* streamLoop() begins: its stop callback runs at once when the stop came first.
Register ==
    /\ pump = "start"
    /\ pump' = "loop"
    /\ fd' = IF stop THEN Interrupted(fd) ELSE fd
    /\ UNCHANGED << server, published, header, leftover, icy, threads,
                    call, result, audio, blocks >>

\* Which bytes come next, and how many of them a pull asks for.
Part == IF icy.bytesLeft # 0 THEN "meta"
        ELSE IF icy.interval # 0 /\ icy.countdown = 0 THEN "len" ELSE "audio"

Smaller(m, n) == IF m < n THEN m ELSE n

\* Mutant: what the buffer already holds is not counted.
Want_WholeBuffer(produced) ==
    CASE Part = "meta"  -> Smaller(icy.bytesLeft, MetaChunk)
      [] Part = "len"   -> 1
      [] Part = "audio" -> IF icy.countdown = 0 THEN BufferSize
                           ELSE Smaller(BufferSize, icy.countdown)

Want(produced) ==
    LET room == BufferSize - Len(produced)
    IN  CASE Part = "meta"  -> Smaller(icy.bytesLeft, MetaChunk)
          [] Part = "len"   -> 1
          [] Part = "audio" -> IF icy.countdown = 0 THEN room ELSE Smaller(room, icy.countdown)

BeginRead ==
    /\ pump = "loop" /\ ~stop /\ result \notin {"AtEof", "Closed"}
    /\ pump' = "pull" /\ call' = NoCall
    /\ UNCHANGED << server, reader, threads, result, audio, blocks >>

\* run() ends: stopped, at the end of its source, or for a reason of its own.
EndRun ==
    /\ pump = "loop"
    /\ pump' = "close"
    /\ UNCHANGED << server, reader, threads, call, result, audio, blocks >>

\* Mutant: the end is returned and what was produced before it is lost.
Return_OutcomeWins(produced, outcome) ==
    /\ pump' = "loop" /\ call' = NoCall
    /\ result' = outcome
    /\ audio' = IF outcome = "Data" THEN audio \o produced ELSE audio

\* The last lines of read(): what was produced wins over how it ended.
Return(produced, outcome) ==
    /\ pump' = "loop" /\ call' = NoCall
    /\ result' = IF produced # << >> THEN "Data" ELSE outcome
    /\ audio' = audio \o produced

\* Mutant: every piece is handed to onMeta().
TakeMeta_EachPiece(units) ==
    LET done == Len(units) = icy.bytesLeft
    IN  /\ icy' = IF done
                  THEN [icy EXCEPT !.bytesLeft = 0, !.countdown = icy.interval]
                  ELSE [icy EXCEPT !.bytesLeft = @ - Len(units)]
        /\ blocks' = Append(blocks, units)

\* A piece of metadata: the last one completes the block.
TakeMeta(units) ==
    LET buf  == icy.metaBuf \o units
        done == Len(units) = icy.bytesLeft
    IN  /\ icy' = IF done
                  THEN [icy EXCEPT !.bytesLeft = 0, !.metaBuf = << >>, !.countdown = icy.interval]
                  ELSE [icy EXCEPT !.bytesLeft = @ - Len(units), !.metaBuf = buf]
        /\ blocks' = IF done THEN Append(blocks, buf) ELSE blocks

\* A length byte; an empty block is over at once.
TakeLength(unit) ==
    icy' = [icy EXCEPT !.bytesLeft = unit.at, !.metaBuf = << >>,
                       !.countdown = IF unit.at = 0 THEN icy.interval ELSE @]

\* What a pull brought is taken for the part it was asked for.
Take(part, units) ==
    LET produced == IF part = "audio" THEN call.produced \o units ELSE call.produced
    IN  /\ CASE part = "meta"  -> TakeMeta(units)
             [] part = "len"   -> TakeLength(units[1]) /\ UNCHANGED blocks
             [] part = "audio" -> /\ icy' = [icy EXCEPT !.countdown =
                                                IF @ = 0 THEN 0 ELSE @ - Len(units)]
                                  /\ UNCHANGED blocks
        /\ IF Len(produced) = BufferSize
           THEN Return(produced, "Data")
           ELSE /\ pump' = "pull" /\ call' = [NoCall EXCEPT !.produced = produced]
                /\ UNCHANGED << result, audio >>

\* Mutant: what was pulled from leftover_ stays in it.
Erased_Never(n) == leftover

\* leftover_ once n of its units are pulled.
Erased(n) == SubSeq(leftover, n + 1, Len(leftover))

\* pullRaw(): what is left from the header phase comes first; then the
\* transport, whose reference it takes here and reads from afterwards.
Pull ==
    LET want == Want(call.produced)
        n    == Smaller(Len(leftover), want)
    IN  /\ pump = "pull"
        /\ \/ /\ leftover # << >>
              /\ leftover' = Erased(n)
              /\ Take(Part, SubSeq(leftover, 1, n))
              /\ UNCHANGED << server, fd, published, header, threads >>
           \/ /\ leftover = << >> /\ ~published
              /\ Return(call.produced, "Closed")
              /\ UNCHANGED << server, reader, threads, blocks >>
           \/ /\ leftover = << >> /\ published
              /\ pump' = "recv" /\ call' = [call EXCEPT !.part = Part, !.want = want]
              /\ UNCHANGED << server, reader, threads, result, audio, blocks >>

OutcomeOf(r) ==
    CASE r = "Eof" -> "AtEof" [] r = "Error" -> "Closed" [] r = "Timeout" -> "Timeout"

\* Transport::read() returns.
Recv(r) ==
    /\ pump = "recv"
    /\ wire' = r.rest
    /\ UNCHANGED << response, tls, toSend, tickets, peer,
                    fd, published, header, leftover, threads >>
    /\ \/ r.result = "Data" /\ Take(call.part, r.units)
       \/ /\ r.result # "Data" /\ Return(call.produced, OutcomeOf(r.result))
          /\ UNCHANGED << icy, blocks >>

\* The end of streamLoop(); the stop callback is waited for.
PumpClose ==
    /\ pump = "close" /\ ~Opening /\ stopper # "interrupt"
    /\ pump' = "over" /\ Reset
    /\ UNCHANGED << server, threads, call, result, audio, blocks >>

-----------------------------------------------------------------------------
(* shutdown(): from a handler of the reader thread once it is free, or from *)
(* the discovery thread at any time.                                        *)

Shutdown ==
    /\ stopper = "away"
    /\ stop' = handle
    /\ stopper' = IF handle THEN "interrupt" ELSE "close"
    /\ UNCHANGED << server, reader, opener, handle, pumping >>

\* The stop callback, when streamLoop() has registered it and not left.
Interrupt ==
    /\ stopper = "interrupt"
    /\ fd' = IF pump \in {"loop", "pull", "recv", "close"} THEN Interrupted(fd) ELSE fd
    /\ stopper' = "join"
    /\ UNCHANGED << server, published, header, leftover, icy, opener, handle, stop, pumping >>

Join ==
    /\ stopper = "join" /\ pump = "over"
    /\ handle' = FALSE /\ stopper' = "close"
    /\ UNCHANGED << server, reader, opener, stop, pumping >>

\* close(), under the lock openBlocking() holds.
Close ==
    /\ stopper = "close" /\ ~Opening
    /\ stopper' = "done" /\ Reset
    /\ UNCHANGED << server, opener, handle, stop, pumping >>

-----------------------------------------------------------------------------
Init ==
    /\ response \in Responses /\ tls \in BOOLEAN
    /\ toSend = Answer(response) /\ wire = << >> /\ tickets = 0 /\ peer = "up"
    /\ fd = "none" /\ published = FALSE
    /\ header = << >> /\ leftover = << >> /\ icy = NoIcy
    /\ opener = "open" /\ pump = "none" /\ call = NoCall /\ result = "none"
    /\ stopper = "away" /\ handle = FALSE /\ stop = FALSE
    /\ audio = << >> /\ blocks = << >>

Server == Send \/ SendTicket \/ \E how \in {"fin", "rst"} : EndConnection(how)

Opener ==
    \/ Open \/ SendRequest \/ ReadHeader \/ HeaderLate
    \/ \E ok \in BOOLEAN : ConnectTcp(ok) \/ Handshake(ok)

RecvWithin(results) ==
    pump = "recv" /\ \E r \in Reads(call.want) : r.result \in results /\ Recv(r)

Pump ==
    \/ Register \/ BeginRead \/ EndRun \/ Pull \/ PumpClose
    \/ RecvWithin({"Data", "Eof", "Error"})

Stopper == Shutdown \/ Interrupt \/ Join \/ Close

Next ==
    \/ Server \/ Opener \/ StartPump \/ DropTrack \/ Pump
    \/ RecvWithin({"Timeout"}) \/ Stopper

\* The threads are scheduled, a connect and the header phase have deadlines;
\* nothing is assumed of the server, nor of the timeout of a read.
Fairness ==
    /\ WF_vars(Opener) /\ WF_vars(Pump)
    /\ WF_vars(Interrupt \/ Join \/ Close)

Spec == Init /\ [][Next]_vars /\ Fairness

-----------------------------------------------------------------------------
(* Properties.                                                              *)

\* The audio of a body, and its metadata blocks that are not empty.
AudioIn(r) ==
    FlattenSeq([b \in DOMAIN r.blocks |-> Run("audio", b, r.metaint)])
        \o Run("audio", 0, r.tail)
BlocksIn(r) ==
    FlattenSeq([b \in DOMAIN r.blocks |->
        IF r.blocks[b] = 0 THEN << >> ELSE << Run("meta", b, r.blocks[b]) >>])

\* Every variable has its type; only the pump's thread has a call under way.
TypeOK ==
    /\ response \in Responses /\ tls \in BOOLEAN /\ stop \in BOOLEAN /\ handle \in BOOLEAN
    /\ Len(wire) <= WireSize + MaxTickets /\ peer \in {"up", "fin", "rst"}
    /\ fd \in {"none", "up", "shut", "closed"} /\ (published => fd \in {"up", "shut"})
    /\ icy.bytesLeft \in Nat /\ icy.countdown \in 0 .. icy.interval
    /\ opener \in {"open", "connect", "handshake", "send", "header", "attach", "free", "failed"}
    /\ pump \in {"none", "start", "loop", "pull", "recv", "close", "over"}
    /\ Len(call.produced) < BufferSize
    /\ stopper \in {"away", "interrupt", "join", "close", "done"}

\* The decoder is fed the audio of the body and nothing else, in order and
\* without a gap, however the answer is cut into pieces: neither a length
\* byte nor metadata gets into it, and no byte read with the header is lost.
AudioIsClean == IsPrefix(audio, AudioIn(response))

\* onMeta() gets each metadata block once, whole and in order.
BlocksAreWhole == IsPrefix(blocks, BlocksIn(response))

\* A read() that reports the end or an error comes after everything the server
\* sent before it: partial data is returned first. What the pump does not have
\* of the audio and the blocks has not been sent.
EndIsComplete ==
    (result \in {"AtEof", "Closed"} /\ stopper = "away") =>
        /\ ToSet(AudioIn(response)) \subseteq ToSet(audio) \cup ToSet(toSend)
        /\ \A b \in DOMAIN response.blocks : response.blocks[b] # 0 =>
              \/ Run("meta", b, response.blocks[b]) \in ToSet(blocks)
              \/ Unit("meta", b, response.blocks[b]) \in ToSet(toSend)

\* "close() is not concurrent-safe against read(): the owner must ensure the
\* reader has stopped (its thread joined) before closing" (transport.h:22-23).
NoCloseUnderRead == pump = "recv" => fd # "closed"

\* shutdown() returns, with a silent server too: a connection being opened
\* comes to its deadline, and a read under way is woken by the interrupt,
\* without the help of its timeout.
ShutdownReturns == (stopper # "away") ~> (stopper = "done")
=============================================================================
