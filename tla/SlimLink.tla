------------------------------ MODULE SlimLink ------------------------------
(* A player's control link to LMS (SlimProtoClient): the reader thread that  *)
(* connects, greets, cuts the byte stream into packets, answers them and     *)
(* reconnects; the stream thread that sends events of its own on the same    *)
(* socket; and the thread that stops the client.  LMS and the network are    *)
(* external: they send packets that are read in pieces of any size, cut a    *)
(* connection with or without a sign, and come back.                        *)
EXTENDS Integers, Sequences, SequencesExt, FiniteSets, FiniteSetsExt

CONSTANTS
    Scripts,        \* what LMS may send on each connection: sequences of packets
                    \* [op, body], body a number of units
    Timeout,        \* serverTimeoutMs_ in poll timeouts, 0 for none
    MaxOutages      \* bound: cuts, and downs of LMS

\* A length below kMinPacketBytes or above kMaxPacketBytes is "bogus", so any
\* other packet has a body.
ASSUME LinkAssumption ==
    /\ Timeout \in Nat /\ MaxOutages \in Nat
    /\ Scripts \subseteq Seq([op : STRING, body : Nat])
    /\ \A s \in Scripts : \A i \in DOMAIN s : s[i].op # "bogus" => s[i].body > 0

Prefix == 2         \* kLengthPrefixBytes

\* The connection of sock_, and one before it that a sender still holds: one
\* thread at most does, since the stream has ended when the client is stopped.
Conns == {"now", "old"}
Threads == {"reader", "stream", "stopper"}

VARIABLES
    lms, outages,   \* external: LMS is up; cuts so far
    script,         \* external: the packets of every connection
    stream,         \* external: there is a stream thread (StreamSession)
    conns,          \* the connections, both ends
    sock,           \* sock_: "now", or "none"
    run,            \* the reader thread in run()
    known,          \* host_ is not empty
    reconnect,      \* reconnect_
    out,            \* each thread's sendRaw(): the frame, and where it goes
    mutex,          \* the holder of sendMutex_
    stopper         \* the thread in stop()

world == << lms, outages, script, stream >>
vars == << world, conns, sock, run, known, reconnect, out, mutex, stopper >>

NoConn == [peer |-> "none", shut |-> FALSE, full |-> FALSE, wire |-> << >>,
           sent |-> 0, handled |-> << >>,
           first |-> "", half |-> "", torn |-> FALSE, greeted |-> FALSE]
NotSending == [pc |-> "idle", frame |-> "", to |-> "none"]
At(pc) == [pc |-> pc, prefix |-> 0, expect |-> 0, buf |-> << >>, quiet |-> 0]

Stopping == stopper # "none"

\* The bytes of the n-th packet LMS sends on a connection.
Units(n) == [i \in 1 .. Prefix + script[n].body |-> [packet |-> n, at |-> i]]

-----------------------------------------------------------------------------
(* LMS and the network (external).                                          *)

LmsSend(c) ==
    /\ conns[c].peer = "up" /\ conns[c].greeted /\ conns[c].sent < Len(script)
    /\ conns' = [conns EXCEPT ![c].sent = @ + 1, ![c].wire = @ \o Units(conns[c].sent + 1)]
    /\ UNCHANGED << world, sock, run, known, reconnect, out, mutex, stopper >>

\* What is left of a connection that LMS has ended, or that died without a
\* sign; what is under way beyond the first n units is lost.
Ended(conn, how, n) ==
    [NoConn EXCEPT !.peer = how, !.shut = conn.shut, !.handled = conn.handled,
                   !.full = IF how = "dead" THEN conn.full ELSE FALSE,
                   !.wire = SubSeq(conn.wire, 1, n)]

Cut(c, how, n) ==
    /\ outages < MaxOutages /\ outages' = outages + 1
    /\ conns[c].peer = "up" /\ n \in 0 .. Len(conns[c].wire)
    /\ conns' = [conns EXCEPT ![c] = Ended(@, how, n)]
    /\ UNCHANGED << lms, script, stream, sock, run, known, reconnect, out, mutex, stopper >>

LmsDown(how) ==
    /\ lms = "up" /\ outages < MaxOutages /\ outages' = outages + 1
    /\ lms' = "down"
    /\ conns' = [c \in Conns |-> IF conns[c].peer = "up"
                                 THEN Ended(conns[c], how, Len(conns[c].wire)) ELSE conns[c]]
    /\ UNCHANGED << script, stream, sock, run, known, reconnect, out, mutex, stopper >>

LmsUp ==
    /\ lms = "down" /\ lms' = "up"
    /\ UNCHANGED << outages, script, stream, conns, sock, run, known, reconnect, out, mutex, stopper >>

\* LMS does not read what it is sent, or nobody is there to: the socket's buffer
\* has no room for a whole frame any more, and the second piece has to wait.
Fill(c) ==
    /\ conns[c].peer \in {"up", "dead"} /\ ~conns[c].full
    /\ \E t \in Threads : out[t].to = c
    /\ conns' = [conns EXCEPT ![c].full = TRUE]
    /\ UNCHANGED << world, sock, run, known, reconnect, out, mutex, stopper >>

\* LMS reads on.
Drain(c) ==
    /\ conns[c].peer = "up" /\ conns[c].full
    /\ conns' = [conns EXCEPT ![c].full = FALSE]
    /\ UNCHANGED << world, sock, run, known, reconnect, out, mutex, stopper >>

\* The kernel's keepalive, or its retransmissions, give a dead connection up.
Keepalive(c) ==
    /\ conns[c].peer = "dead"
    /\ conns' = [conns EXCEPT ![c].peer = "reset"]
    /\ UNCHANGED << world, sock, run, known, reconnect, out, mutex, stopper >>

-----------------------------------------------------------------------------
(* sendPacket() and sendRaw(), of any thread.                               *)

\* The socket is read once, before the lock; without one the frame is dropped.
Sending(t, frame, to) ==
    out' = [out EXCEPT ![t] = IF to = "none" THEN NotSending
                              ELSE [pc |-> "lock", frame |-> frame, to |-> to]]

\* Mutant: the frame is written without the lock.
Unlocked_Ignored(t) == TRUE

Unlocked(t) == mutex \in {"none", t}

\* A send fails on a socket that is shut down or reset; what goes to a peer
\* that is gone is lost.
Refused(c) == conns[c].shut \/ conns[c].peer = "reset"

\* send() blocks, without a timeout, until LMS has read or the connection fails.
Stalled(c) == conns[c].full /\ ~Refused(c)

\* What LMS makes of the next piece of a connection: the first op it sees,
\* the thread whose frame is incomplete, and whether a piece did not fit.
Received(conn, t, piece) ==
    [conn EXCEPT !.first   = IF @ = "" THEN out[t].frame ELSE @,
                 !.half    = IF piece = 1 THEN t ELSE "",
                 !.torn    = @ \/ conn.half # (IF piece = 1 THEN "" ELSE t),
                 !.greeted = @ \/ (piece = 2 /\ out[t].frame \in {"HELO", "HELO again"})]

Written(t, piece) ==
    LET c == out[t].to
    IN  IF conns[c].peer = "up" /\ ~Refused(c)
        THEN [conns EXCEPT ![c] = Received(@, t, piece)]
        ELSE conns

\* It has the lock, and nothing to do but wait.
Waits(t) == out[t].pc = "half" /\ Stalled(out[t].to)

\* sendAll() in two pieces, under sendMutex_, which it keeps while it waits; an
\* old connection closes with its last sender.
Write(t) ==
    /\ out[t].pc \in {"lock", "half"} /\ Unlocked(t) /\ ~Waits(t)
    /\ IF out[t].pc = "lock" /\ ~Refused(out[t].to)
       THEN /\ out' = [out EXCEPT ![t].pc = "half"] /\ mutex' = t
            /\ conns' = Written(t, 1)
       ELSE /\ out' = [out EXCEPT ![t] = NotSending] /\ mutex' = "none"
            /\ conns' = IF out[t].to = "old" THEN [conns EXCEPT !["old"] = NoConn]
                        ELSE Written(t, 2)
    /\ UNCHANGED << world, sock, run, known, reconnect, stopper >>

Done(t) == out[t].pc = "idle"

\* The stream thread (external): it is started by the handler of a strm s, or of
\* a cont or codc after one, and outlives its connection.
Opened == \E buf \in Range(conns["now"].handled) : script[buf[1].packet].op = "start"
StreamStarts ==
    /\ ~stream /\ run.pc = "handler" /\ Done("reader") /\ Opened /\ ~Stopping
    /\ stream' = TRUE
    /\ UNCHANGED << lms, outages, script, conns, sock, run, known, reconnect, out, mutex, stopper >>

\* Its track has ended, or was stopped.
StreamEnds ==
    /\ stream /\ Done("stream")
    /\ stream' = FALSE
    /\ UNCHANGED << lms, outages, script, conns, sock, run, known, reconnect, out, mutex, stopper >>

\* An event of the stream thread: sendStat() with STMs, STMd and the others.
StreamEvent ==
    /\ stream /\ Done("stream") /\ sock # "none"
    /\ Sending("stream", "STAT", sock)
    /\ UNCHANGED << world, conns, sock, run, known, reconnect, mutex, stopper >>

-----------------------------------------------------------------------------
(* run(): the connection's lifecycle.                                       *)

\* Mutant: a stop is not looked for before the next connection.
LoopHead_NoStop ==
    /\ run.pc = "start"
    /\ run' = At(IF known THEN "connect" ELSE "discover")
    /\ UNCHANGED << world, conns, sock, known, reconnect, out, mutex, stopper >>

LoopHead ==
    /\ run.pc = "start"
    /\ run' = At(IF Stopping THEN "over" ELSE IF known THEN "connect" ELSE "discover")
    /\ UNCHANGED << world, conns, sock, known, reconnect, out, mutex, stopper >>

\* discoverLms(): the host it finds is kept for good.
Discover ==
    /\ run.pc = "discover"
    /\ known' = (lms = "up")
    /\ run' = At(IF lms = "up" THEN "connect" ELSE "backoff")
    /\ UNCHANGED << world, conns, sock, reconnect, out, mutex, stopper >>

\* The retry delay, that a stop cuts short.
Backoff ==
    /\ run.pc = "backoff" /\ run' = At("start")
    /\ UNCHANGED << world, conns, sock, known, reconnect, out, mutex, stopper >>

\* The threads in the middle of a send.
Holding == { t \in Threads : out[t].to # "none" }

\* Mutant: the player is not registered again after an outage.
Helo_Once ==
    IF reconnect THEN NotSending ELSE [pc |-> "lock", frame |-> "HELO", to |-> "now"]

\* sendHelo(), on the new connection.
Helo == [pc |-> "lock", frame |-> IF reconnect THEN "HELO again" ELSE "HELO", to |-> "now"]

\* connectOnce(): the new socket takes the place of sock_, whose connection
\* closes unless a sender holds it; then sendHelo().
Connect ==
    LET kept == IF \E t \in Holding : out[t].to = "now" THEN conns["now"]
                ELSE IF Holding # {} THEN conns["old"] ELSE NoConn
    IN  /\ run.pc = "connect"
        /\ IF lms = "up"
           THEN /\ conns' = [c \in Conns |->
                                IF c = "now" THEN [NoConn EXCEPT !.peer = "up"]
                                ELSE [kept EXCEPT !.wire = << >>, !.handled = << >>]]
                /\ out' = [t \in Threads |->
                                IF t = "reader" THEN Helo
                                ELSE IF t \in Holding THEN [out[t] EXCEPT !.to = "old"]
                                ELSE out[t]]
                /\ sock' = "now" /\ run' = At("greet")
           ELSE run' = At("backoff") /\ UNCHANGED << conns, sock, out >>
        /\ UNCHANGED << world, known, reconnect, mutex, stopper >>

Greet ==
    /\ run.pc = "greet" /\ Done("reader")
    /\ reconnect' = TRUE /\ run' = At("poll")
    /\ UNCHANGED << world, conns, sock, known, out, mutex, stopper >>

-----------------------------------------------------------------------------
(* run(): the read loop.                                                    *)

My == conns["now"]
Polling == run.pc = "poll" /\ Done("reader")
Expired == Timeout # 0 /\ run.quiet > Timeout
InLoop == Polling /\ ~Stopping /\ ~Expired

\* Mutant: a connection the kernel gave up is not noticed.
Gone_NotReset == My.shut \/ My.peer = "fin"

\* Out of the loop: stopped, the server silent for too long, or the
\* connection at its end once everything is read.
Gone == My.shut \/ My.peer \in {"fin", "reset"}
Leave ==
    /\ Polling
    /\ \/ run.prefix = 0 /\ (Stopping \/ Expired)
       \/ My.wire = << >> /\ Gone
    /\ run' = At("start")
    /\ UNCHANGED << world, conns, sock, known, reconnect, out, mutex, stopper >>

\* poll() times out: a heartbeat when one is due.  A reader that has half a
\* length prefix is in recvFully() and does not come here.
PollTimeout(beat) ==
    /\ InLoop /\ run.prefix = 0 /\ My.wire = << >> /\ ~Gone
    /\ run' = [run EXCEPT !.quiet = IF Timeout = 0 THEN 0 ELSE @ + 1]
    /\ IF beat
       THEN Sending("reader", "STAT", sock)
       ELSE UNCHANGED out
    /\ UNCHANGED << world, conns, sock, known, reconnect, mutex, stopper >>

\* Taken: the first n units of the wire.
Taken(n) == [conns EXCEPT !["now"].wire = SubSeq(@, n + 1, Len(@))]

\* recvFully() of the length prefix, in one or two pieces; a bogus length
\* ends the connection.
ReadPrefix(n) ==
    /\ Polling /\ run.expect = 0 /\ (run.prefix = 0 => InLoop)
    /\ n \in 1 .. Prefix - run.prefix /\ n <= Len(My.wire)
    /\ conns' = Taken(n)
    /\ LET p == script[My.wire[1].packet]
       IN  run' = IF run.prefix + n < Prefix THEN [run EXCEPT !.prefix = @ + n]
                  ELSE IF p.op = "bogus" THEN At("start")
                  ELSE [run EXCEPT !.prefix = 0, !.expect = p.body, !.buf = << >>]
    /\ UNCHANGED << world, sock, known, reconnect, out, mutex, stopper >>

\* process(): the frame it answers a packet with, "" for none, before it runs
\* the session's handler of a command; strm s ("start") is answered at once.
Answer(p) ==
    CASE p.op \in {"t", "start"} -> "STAT" [] p.op = "setd" -> "SETD" [] OTHER -> ""
HasHandler(p) == p.op \in {"start", "command"}
process(p) ==
    /\ run' = At(IF HasHandler(p) THEN "handler" ELSE "poll")
    /\ IF Answer(p) = "" THEN UNCHANGED out ELSE Sending("reader", Answer(p), sock)

\* Mutant: a packet is processed as soon as anything of it is there.
Complete_Early(buf) == buf # << >>

Complete(buf) == Len(buf) = run.expect

\* recv() of the body, in any pieces; the complete packet is processed.
ReadBody(n) ==
    LET buf == run.buf \o SubSeq(My.wire, 1, n)
        p   == script[buf[1].packet]
    IN  /\ InLoop /\ run.expect # 0
        /\ n \in 1 .. run.expect - Len(run.buf) /\ n <= Len(My.wire)
        /\ IF Complete(buf)
           THEN /\ conns' = [Taken(n) EXCEPT !["now"].handled = Append(@, buf)]
                /\ process(p)
           ELSE conns' = Taken(n) /\ run' = [run EXCEPT !.buf = buf] /\ UNCHANGED out
        /\ UNCHANGED << world, sock, known, reconnect, mutex, stopper >>

\* The session's handler of a command returns (StreamSession), after a STAT or
\* without one.
HandlerDone(stat) ==
    /\ run.pc = "handler" /\ Done("reader")
    /\ run' = At("poll")
    /\ IF stat THEN Sending("reader", "STAT", sock) ELSE UNCHANGED out
    /\ UNCHANGED << world, conns, sock, known, reconnect, mutex, stopper >>

-----------------------------------------------------------------------------
(* stop().                                                                  *)

\* The stop is requested, and BYE! sent.  PlayerSession::stop() has ended the
\* stream before; a strm s that is handled in between is left out.
RequestStop ==
    /\ stopper = "none" /\ ~stream
    /\ stopper' = "bye" /\ Sending("stopper", "BYE!", sock)
    /\ UNCHANGED << world, conns, sock, run, known, reconnect, mutex >>

\* The present socket is shut down, which wakes its reader.
ShutDown == IF sock = "none" THEN conns ELSE [conns EXCEPT ![sock].shut = TRUE]

\* Mutant: sock_ is dropped before the reader is joined.
Disconnect_Drops ==
    /\ stopper = "bye" /\ Done("stopper")
    /\ stopper' = "join" /\ conns' = ShutDown /\ sock' = "none"
    /\ UNCHANGED << world, run, known, reconnect, out, mutex >>

Disconnect ==
    /\ stopper = "bye" /\ Done("stopper")
    /\ stopper' = "join" /\ conns' = ShutDown
    /\ UNCHANGED << world, sock, run, known, reconnect, out, mutex >>

Joined ==
    /\ stopper = "join" /\ run.pc = "over"
    /\ stopper' = "done" /\ sock' = "none"
    /\ UNCHANGED << world, conns, run, known, reconnect, out, mutex >>

-----------------------------------------------------------------------------
Init ==
    /\ lms = "up" /\ outages = 0 /\ script \in Scripts /\ stream = FALSE
    /\ conns = [c \in Conns |-> NoConn] /\ sock = "none"
    /\ run = At("start") /\ known \in BOOLEAN /\ reconnect = FALSE
    /\ out = [t \in Threads |-> NotSending] /\ mutex = "none"
    /\ stopper = "none"

Lms ==
    \/ LmsUp \/ \E how \in {"fin", "dead"} : LmsDown(how)
    \/ \E c \in Conns : \/ LmsSend(c)
                        \/ \E how \in {"fin", "dead"}, n \in 0 .. Len(conns[c].wire) :
                                Cut(c, how, n)

Reader ==
    \/ LoopHead \/ Discover \/ Backoff \/ Connect \/ Greet \/ Leave \/ PollTimeout(FALSE)
    \/ \E stat \in BOOLEAN : HandlerDone(stat)
    \/ \E n \in 1 .. Prefix : ReadPrefix(n)
    \/ run.pc = "poll" /\ \E n \in 1 .. run.expect : ReadBody(n)

Next ==
    \/ Lms \/ Reader \/ PollTimeout(TRUE) \/ StreamStarts \/ StreamEnds \/ StreamEvent
    \/ RequestStop \/ Disconnect \/ Joined
    \/ \E t \in Threads : Write(t)
    \/ \E c \in Conns : Fill(c) \/ Drain(c) \/ Keepalive(c)

\* The threads are scheduled, handlers return, and the kernel gives a dead
\* connection up; a sender gets the mutex in the end, since the others send a
\* few frames a second.  Of LMS one thing is assumed: what is connected to it
\* it reads in the end, since nothing in sendAll() bounds a send that waits.
Fairness ==
    /\ WF_vars(Reader) /\ WF_vars(Disconnect \/ Joined)
    /\ \A t \in Threads : SF_vars(Write(t))
    /\ \A c \in Conns : WF_vars(Keepalive(c)) /\ WF_vars(Drain(c))

Spec == Init /\ [][Next]_vars /\ Fairness

-----------------------------------------------------------------------------
(* Properties.                                                              *)

\* The types of what is not a flag; whoever is in the middle of a frame holds the lock.
TypeOK ==
    /\ lms \in {"up", "down"} /\ outages \in 0 .. MaxOutages /\ sock \in {"none", "now"}
    /\ \A c \in Conns : conns[c].peer \in {"none", "up", "fin", "dead", "reset"}
    /\ run.pc \in {"start", "discover", "connect", "backoff", "greet", "poll", "handler", "over"}
    /\ run.pc \in {"greet", "poll", "handler"} => sock = "now"
    /\ run.prefix < Prefix /\ Len(run.buf) <= run.expect
    /\ mutex \in {"none"} \cup Threads
    /\ \A t \in Threads : out[t].pc = "half" <=> mutex = t
    /\ stopper \in {"none", "bye", "join", "done"}

\* The packets process() sees on a connection are the ones LMS sent on it,
\* whole and in order, however the bytes are cut and whatever was left of a
\* packet on an earlier connection.
HandledInOrder ==
    \A c \in Conns :
        IsPrefix(conns[c].handled,
                 [i \in DOMAIN script |-> SubSeq(Units(i), Prefix + 1, Len(Units(i)))])

\* What LMS receives on a connection is whole frames: the reader, the stream
\* and the stopping thread never write into each other's.
FramesWhole == \A c \in Conns : ~conns[c].torn

\* "first packet is HELO" (test_slimproto_wire.cpp:186), on a reconnect too
\* (:569).  connectOnce() stores the new socket before it greets, so that others
\* may come first; of what is not a goodbye that can only be an event of a stream
\* that has outlived its connection: no answer, no heartbeat, and nothing at all
\* on the first connection.
GreetsFirst ==
    [][ My.first = "" /\ My.first' \in {"STAT", "SETD"}
            => reconnect /\ out'["stream"] # out["stream"] ]_vars

\* stop() returns, wherever the reader is: in a read, a delay or a handler.
StopReturns == Stopping ~> (stopper = "done")

Registered ==
    run.pc \in {"poll", "handler"} /\ My.peer = "up" /\ My.greeted

\* While LMS is there and the client is not stopped, the player is registered
\* again and again, whatever became of its earlier connections.
StaysRegistered == []<>(Registered \/ lms = "down" \/ Stopping)
=============================================================================
