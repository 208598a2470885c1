--------------------------- MODULE SlimLink_proofs ---------------------------
(***************************************************************************)
(* What LMS receives on a connection is whole frames, HELO first but for   *)
(* an event of a stream that is older; what the player processes is the    *)
(* packets LMS sent on it, whole and in order: for every script of packets *)
(* and any cut of the byte stream and of the connections.                  *)
(***************************************************************************)
EXTENDS SlimLink, SharedLemmas

-----------------------------------------------------------------------------
(* The types of what TypeOK leaves open.                                   *)

PacketRec == [op : STRING, body : Nat]
UnitRec   == [packet : Nat, at : Nat]
Halves    == {""} \cup Threads
Frames    == {"", "HELO", "HELO again", "STAT", "SETD", "BYE!"}

ConnRec == [peer : {"none", "up", "fin", "dead", "reset"}, shut : BOOLEAN, full : BOOLEAN,
            wire : Seq(UnitRec), sent : Nat, handled : Seq(Seq(UnitRec)),
            first : Frames, half : Halves, torn : BOOLEAN, greeted : BOOLEAN]

RunPc  == {"start", "discover", "connect", "backoff", "greet", "poll", "handler", "over"}
RunRec == [pc : RunPc, prefix : 0 .. Prefix - 1, expect : Nat, buf : Seq(UnitRec), quiet : Nat]

SendRec == [pc : {"lock", "half"}, frame : Frames, to : Conns] \cup {NotSending}

Types ==
    /\ script \in Seq(PacketRec)
    /\ \A i \in 1 .. Len(script) : script[i].op # "bogus" => script[i].body > 0
    /\ conns \in [Conns -> ConnRec] /\ run \in RunRec /\ out \in [Threads -> SendRec]

-----------------------------------------------------------------------------
(* Who sends.                                                              *)

Connected == run.pc \in {"greet", "poll", "handler"}

\* The reader sends on its connection only; the stream thread and the one that
\* stops the client never send together, since the stream has ended then.
Senders ==
    /\ ~Connected => Done("reader")
    /\ stopper = "none" => Done("stopper")
    /\ stopper # "none" => ~stream
    /\ ~stream => Done("stream")

\* A frame is incomplete at LMS exactly while its sender is in the middle of it.
FramesMatch ==
    \A c \in Conns :
        conns[c].peer = "up" /\ ~conns[c].shut =>
            \A t \in Threads : conns[c].half = t <=> (out[t].pc = "half" /\ out[t].to = c)

-----------------------------------------------------------------------------
(* What the reader reads.                                                  *)

Size(n) == Prefix + script[n].body
Body(n) == SubSeq(Units(n), Prefix + 1, Len(Units(n)))

\* The packets processed so far on a connection are LMS's first ones.
HandledSoFar ==
    /\ conns["old"].handled = << >>
    /\ Len(My.handled) <= Len(script)
    /\ \A i \in 1 .. Len(My.handled) : My.handled[i] = Body(i)

\* Units follow one another without a gap: within a packet, and from the last
\* of a packet to the first of the next.
Gapless(wire) ==
    /\ \A j \in 1 .. Len(wire) : /\ wire[j].packet \in 1 .. Len(script)
                                 /\ wire[j].at \in 1 .. Size(wire[j].packet)
    /\ \A j \in 1 .. Len(wire) : \A d \in 0 .. Len(wire) - j :
          wire[j].at + d <= Size(wire[j].packet) =>
              wire[j + d] = [packet |-> wire[j].packet, at |-> wire[j].at + d]
    /\ \A j \in 1 .. Len(wire) - 1 :
          wire[j].at = Size(wire[j].packet) =>
              wire[j + 1] = [packet |-> wire[j].packet + 1, at |-> 1]

\* The packet the reader is in, and the unit of it that it reads next.
Reading == Len(My.handled) + 1
Here == [packet |-> Reading,
         at |-> 1 + (IF run.expect = 0 THEN run.prefix ELSE Prefix + Len(run.buf))]

\* What the reader holds is the beginning of the packet it is in.
Holds ==
    /\ run.expect = 0 => run.buf = << >>
    /\ run.pc # "poll" => run.expect = 0 /\ run.prefix = 0
    /\ run.expect # 0 =>
          /\ Reading <= Len(script) /\ run.expect = script[Reading].body /\ run.prefix = 0
          /\ Len(run.buf) < run.expect
          /\ \A j \in 1 .. Len(run.buf) :
                run.buf[j] = [packet |-> Reading, at |-> Prefix + j]

\* What is under way is what LMS sent and the reader did not read; while the
\* connection is up, nothing of it is lost.
UnderWay ==
    /\ Gapless(My.wire)
    /\ My.wire # << >> => My.wire[1] = Here
    /\ My.peer = "up" =>
          /\ My.sent <= Len(script)
          /\ My.wire = << >> => Here = [packet |-> My.sent + 1, at |-> 1]
          /\ My.wire # << >> => /\ My.sent \in 1 .. Len(script)
                                /\ My.wire[Len(My.wire)] =
                                     [packet |-> My.sent, at |-> Size(My.sent)]

IInv ==
    /\ TypeOK /\ Types
    /\ Senders /\ FramesMatch /\ FramesWhole
    /\ HandledSoFar /\ Holds /\ (Connected => UnderWay)

-----------------------------------------------------------------------------
(* Sequences of units.                                                     *)

\* A packet's units.
LEMMA UnitsType ==
    ASSUME script \in Seq(PacketRec), NEW n \in 1 .. Len(script)
    PROVE  /\ Units(n) \in Seq(UnitRec) /\ Size(n) \in Nat /\ Size(n) >= Prefix
           /\ Len(Units(n)) = Size(n)
           /\ \A i \in 1 .. Size(n) : Units(n)[i] = [packet |-> n, at |-> i]
  <1>1. script[n].body \in Nat /\ n \in Nat
    <2>1. script[n] \in PacketRec /\ Len(script) \in Nat
      BY ElementOfSeq, LenProperties
    <2> QED BY <2>1 DEF PacketRec
  <1>2. Size(n) \in Nat /\ Size(n) >= Prefix
    BY <1>1 DEF Size, Prefix
  <1>3. Units(n) = [i \in 1 .. Size(n) |-> [packet |-> n, at |-> i]]
    BY DEF Units, Size
  <1>4. \A i \in 1 .. Size(n) : [packet |-> n, at |-> i] \in UnitRec
    BY <1>1, <1>2 DEF UnitRec
  <1> QED BY <1>2, <1>3, <1>4

\* A part of a gapless sequence is gapless.
LEMMA GaplessPart ==
    ASSUME NEW wire \in Seq(UnitRec), Gapless(wire),
           NEW m \in 0 .. Len(wire), NEW n \in m .. Len(wire)
    PROVE  Gapless(SubSeq(wire, m + 1, n))
  <1> DEFINE part == SubSeq(wire, m + 1, n)
  <1>1. /\ Len(part) = n - m /\ \A i \in 1 .. n - m : part[i] = wire[m + i]
    BY PartOf
  <1>2. Len(wire) \in Nat /\ m \in Nat /\ n \in Nat
    BY LenProperties
  <1> HIDE DEF part
  <1>3. ASSUME NEW j \in 1 .. Len(part)
        PROVE  part[j].packet \in 1 .. Len(script) /\ part[j].at \in 1 .. Size(part[j].packet)
    BY <1>1, <1>2, SMTT(120) DEF Gapless
  <1>4. ASSUME NEW j \in 1 .. Len(part), NEW d \in 0 .. Len(part) - j,
               part[j].at + d <= Size(part[j].packet)
        PROVE  part[j + d] = [packet |-> part[j].packet, at |-> part[j].at + d]
    <2>1. part[j] = wire[m + j] /\ part[j + d] = wire[m + (j + d)]
      BY <1>1, <1>2
    <2>2. m + j \in 1 .. Len(wire) /\ d \in 0 .. Len(wire) - (m + j) /\ m + (j + d) = (m + j) + d
      BY <1>1, <1>2
    <2> QED BY <1>4, <2>1, <2>2 DEF Gapless
  <1>5. ASSUME NEW j \in 1 .. Len(part) - 1, part[j].at = Size(part[j].packet)
        PROVE  part[j + 1] = [packet |-> part[j].packet + 1, at |-> 1]
    <2>1. part[j] = wire[m + j] /\ part[j + 1] = wire[m + (j + 1)]
      BY <1>1, <1>2
    <2>2. m + j \in 1 .. Len(wire) - 1 /\ m + (j + 1) = (m + j) + 1
      BY <1>1, <1>2
    <2> QED BY <1>5, <2>1, <2>2 DEF Gapless
  <1> QED BY <1>3, <1>4, <1>5 DEF Gapless, part

\* The next packet's units after the last packet's last one leave no gap.
LEMMA GaplessAppend ==
    ASSUME script \in Seq(PacketRec),
           NEW wire \in Seq(UnitRec), Gapless(wire), NEW n \in 1 .. Len(script),
           wire # << >> => wire[Len(wire)] = [packet |-> n - 1, at |-> Size(n - 1)]
    PROVE  LET all == wire \o Units(n)
           IN  /\ all \in Seq(UnitRec) /\ Gapless(all) /\ all # << >>
               /\ all[Len(all)] = [packet |-> n, at |-> Size(n)]
               /\ all[1] = IF wire = << >> THEN [packet |-> n, at |-> 1] ELSE wire[1]
  <1> DEFINE all == wire \o Units(n)
             len == Len(wire)
  <1>1. /\ Units(n) \in Seq(UnitRec) /\ Size(n) \in Nat /\ Size(n) >= 2
        /\ Len(Units(n)) = Size(n)
        /\ \A i \in 1 .. Size(n) : Units(n)[i] = [packet |-> n, at |-> i]
    BY UnitsType DEF Prefix
  <1>2. len \in Nat /\ (wire # << >> => len # 0)
    BY LenProperties, EmptySeq
  <1>3. all \in Seq(UnitRec) /\ Len(all) = len + Size(n)
    BY <1>1, ConcatProperties
  <1>4. /\ \A i \in 1 .. len : all[i] = wire[i]
        /\ \A i \in 1 .. Size(n) : all[len + i] = [packet |-> n, at |-> i]
    <2>1. \A i \in 1 .. len + Size(n) :
             all[i] = IF i <= len THEN wire[i] ELSE Units(n)[i - len]
      BY <1>1, ConcatProperties
    <2>2. \A i \in 1 .. Size(n) : len + i \in 1 .. len + Size(n) /\ ~(len + i <= len)
                                  /\ (len + i) - len = i
      BY <1>1, <1>2
    <2> QED BY <1>1, <1>2, <2>1, <2>2
  <1>5. len # 0 => wire[len] = [packet |-> n - 1, at |-> Size(n - 1)]
    BY EmptySeq
  <1> HIDE DEF all, len
  <1>6. \A j \in 1 .. Len(all) : j \in 1 .. len \/ \E i \in 1 .. Size(n) : j = len + i
    <2> SUFFICES ASSUME NEW j \in 1 .. Len(all), j \notin 1 .. len
                 PROVE  \E i \in 1 .. Size(n) : j = len + i
      OBVIOUS
    <2>1. j \in 1 .. len + Size(n) /\ Size(n) \in Nat /\ len \in Nat
      BY <1>1, <1>2, <1>3
    <2>2. j - len \in 1 .. Size(n) /\ j = len + (j - len)
      BY <2>1
    <2> QED BY <2>2
  <1>7. ASSUME NEW j \in 1 .. Len(all)
        PROVE  all[j].packet \in 1 .. Len(script) /\ all[j].at \in 1 .. Size(all[j].packet)
    <2>1. CASE j \in 1 .. len
      BY <1>4, <2>1 DEF Gapless, len
    <2>2. ASSUME NEW i \in 1 .. Size(n), j = len + i
          PROVE  all[j].packet \in 1 .. Len(script) /\ all[j].at \in 1 .. Size(all[j].packet)
      <3>1. all[j] = [packet |-> n, at |-> i]
        BY <1>4, <2>2
      <3>2. all[j].packet = n /\ all[j].at = i
        BY <3>1
      <3> HIDE DEF Size
      <3> QED BY <2>2, <3>2
    <2> QED BY <1>6, <2>1, <2>2
  <1>8. ASSUME NEW j \in 1 .. Len(all), NEW d \in 0 .. Len(all) - j,
               all[j].at + d <= Size(all[j].packet)
        PROVE  all[j + d] = [packet |-> all[j].packet, at |-> all[j].at + d]
    <2>1. CASE j \in 1 .. len /\ j + d <= len
      <3>1. all[j] = wire[j] /\ all[j + d] = wire[j + d] /\ d \in 0 .. len - j
        BY <1>2, <1>4, <2>1, SMTT(120)
      <3> QED BY <1>8, <2>1, <3>1 DEF Gapless, len
    <2>2. CASE j \in 1 .. len /\ ~(j + d <= len)
      <3>1. all[j] = wire[j]
        BY <1>4, <2>2
      <3>8. /\ len - j \in 0 .. len - j /\ len - j < d /\ d \in Nat
            /\ j + (len - j) = len /\ len # 0
        <4>1. len \in Nat /\ j \in 1 .. len /\ d \in Nat
          BY <1>1, <1>2, <1>3, <2>2
        <4> QED BY <2>2, <4>1
      <3>2. wire[j].at \in 1 .. Size(wire[j].packet) /\ wire[j].packet \in 1 .. Len(script)
        BY <2>2 DEF Gapless, len
      <3>3. Size(wire[j].packet) \in Nat
        BY <3>2, UnitsType
      <3>4. wire[j].at + (len - j) <= Size(wire[j].packet)
        BY <1>2, <1>8, <3>1, <3>2, <3>3, <3>8
      <3>5. wire[len] = [packet |-> wire[j].packet, at |-> wire[j].at + (len - j)]
        BY <2>2, <3>4, <3>8 DEF Gapless, len
      <3>6. wire[j].packet = n - 1 /\ wire[j].at + (len - j) = Size(n - 1)
        <4>1. [packet |-> n - 1, at |-> Size(n - 1)]
              = [packet |-> wire[j].packet, at |-> wire[j].at + (len - j)]
          BY <1>5, <3>5, <3>8
        <4> HIDE DEF Size
        <4> QED BY <4>1
      <3>7. Size(wire[j].packet) = wire[j].at + (len - j)
        BY <3>6
      <3>9. wire[j].at + d <= Size(wire[j].packet)
        BY <1>8, <3>1
      <3>10. wire[j].at + d <= wire[j].at + (len - j)
        BY <3>7, <3>9
      <3>11. wire[j].at \in Int /\ len - j \in Int
        BY <1>2, <3>2
      <3> HIDE DEF Size
      <3> QED BY <3>8, <3>10, <3>11
    <2>3. ASSUME NEW i \in 1 .. Size(n), j = len + i
          PROVE  all[j + d] = [packet |-> all[j].packet, at |-> all[j].at + d]
      <3>1. all[j] = [packet |-> n, at |-> i]
        BY <1>4, <2>3
      <3>2. i + d \in 1 .. Size(n) /\ j + d = len + (i + d)
        BY <1>1, <1>2, <1>8, <2>3, <3>1
      <3> QED BY <1>4, <3>1, <3>2
    <2> QED BY <1>6, <2>1, <2>2, <2>3
  <1>9. ASSUME NEW j \in 1 .. Len(all) - 1, all[j].at = Size(all[j].packet)
        PROVE  all[j + 1] = [packet |-> all[j].packet + 1, at |-> 1]
    <2>1. CASE j \in 1 .. len - 1
      BY <1>2, <1>4, <1>9, <2>1, SMTT(120) DEF Gapless, len
    <2>2. CASE j = len /\ len # 0
      <3>1. all[j] = wire[len] /\ all[j + 1] = [packet |-> n, at |-> 1]
        BY <1>1, <1>2, <1>4, <2>2
      <3>2. n = (n - 1) + 1
        BY LenProperties
      <3> QED BY <1>5, <2>2, <3>1, <3>2
    <2>3. ASSUME NEW i \in 1 .. Size(n), j = len + i
          PROVE  all[j + 1] = [packet |-> all[j].packet + 1, at |-> 1]
      <3>1. all[j] = [packet |-> n, at |-> i]
        BY <1>4, <2>3
      <3>2. all[j].packet = n /\ all[j].at = i
        BY <3>1
      <3>3. i = Size(n)
        BY <1>9, <3>2
      <3>4. j = Len(all) /\ Len(all) \in Nat
        <4>1. Len(all) = len + Size(n) /\ j = len + Size(n)
          BY <1>3, <2>3, <3>3
        <4>2. len + Size(n) \in Nat
          BY <1>1, <1>2
        <4> QED BY <4>1, <4>2
      <3> QED BY <1>9, <3>4
    <2>4. j \in 1 .. Len(all) /\ (j \in 1 .. len => j \in 1 .. len - 1 \/ (j = len /\ len # 0))
      <3>1. Len(all) = len + Size(n)
        BY <1>3
      <3>2. len \in Nat /\ Len(all) \in Nat
        BY <1>1, <1>2, <3>1
      <3> QED BY <3>2
    <2> QED BY <1>6, <2>1, <2>2, <2>3, <2>4
  <1>10. Gapless(all)
    BY <1>7, <1>8, <1>9 DEF Gapless
  <1>11. all # << >> /\ all[Len(all)] = [packet |-> n, at |-> Size(n)]
    BY <1>1, <1>2, <1>3, <1>4, EmptySeq
  <1>12. all[1] = IF wire = << >> THEN [packet |-> n, at |-> 1] ELSE wire[1]
    <2>1. CASE wire = << >>
      BY <1>1, <1>4, <2>1 DEF len
    <2>2. CASE wire # << >>
      <3>1. 1 \in 1 .. len
        BY <1>2, <2>2
      <3> QED BY <1>4, <2>2, <3>1
    <2> QED BY <2>1, <2>2
  <1> QED BY <1>3, <1>10, <1>11, <1>12 DEF all

-----------------------------------------------------------------------------
(* What most steps leave alone.                                            *)

\* Nobody begins or ends a frame, and no connection that LMS still receives on
\* is replaced.
LEMMA FramesKept ==
    ASSUME FramesMatch, FramesWhole,
           \A c \in Conns :
              /\ ~conns[c].torn => ~conns'[c].torn
              /\ conns'[c].peer = "up" /\ ~conns'[c].shut =>
                    /\ conns[c].peer = "up" /\ ~conns[c].shut
                    /\ conns'[c].half = conns[c].half,
           \A t \in Threads : out[t].pc = "half" \/ out'[t].pc = "half" => out'[t] = out[t]
    PROVE  FramesMatch' /\ FramesWhole'
  BY DEF FramesMatch, FramesWhole

\* The reader stays where it is in the byte stream, and the stream stays.
LEMMA ReadKept ==
    ASSUME HandledSoFar, Holds, Connected => UnderWay,
           script' = script, conns'["old"].handled = << >>,
           conns'["now"].handled = My.handled, conns'["now"].wire = My.wire,
           conns'["now"].sent = My.sent, conns'["now"].peer = "up" => My.peer = "up",
           run'.expect = run.expect, run'.prefix = run.prefix, run'.buf = run.buf,
           run'.pc # "poll" => run.expect = 0 /\ run.prefix = 0, Connected' => Connected
    PROVE  HandledSoFar' /\ Holds' /\ (Connected => UnderWay)'
  <1>1. HandledSoFar'
    BY DEF HandledSoFar, My, Body, Units
  <1>2. Holds'
    BY DEF Holds, Reading, My
  <1>3. Here' = Here
    BY DEF Here, Reading, My
  <1>4. ASSUME Connected' PROVE UnderWay'
    <2>1. Gapless(My.wire)'
      BY <1>4 DEF UnderWay, Gapless, Size, My
    <2> QED BY <1>3, <1>4, <2>1 DEF UnderWay, My, Size
  <1> QED BY <1>1, <1>2, <1>4

\* The reader is, or comes to be, without a connection it reads from.
LEMMA ReadLeft ==
    ASSUME HandledSoFar, script' = script, conns'["old"].handled = << >>,
           conns'["now"].handled = My.handled,
           NEW pc \in {"start", "discover", "connect", "backoff", "over"}, run' = At(pc)
    PROVE  HandledSoFar' /\ Holds' /\ (Connected => UnderWay)'
  <1>1. HandledSoFar'
    BY DEF HandledSoFar, My, Body, Units
  <1>2. Holds' /\ ~Connected'
    BY DEF Holds, Connected, At
  <1> QED BY <1>1, <1>2

\* A fresh place of the reader has its type.
LEMMA AtType ==
    ASSUME NEW pc \in RunPc
    PROVE  At(pc) \in RunRec /\ At(pc).pc = pc
  <1>1. << >> \in Seq(UnitRec)
    BY EmptySeq
  <1> QED BY <1>1 DEF At, RunRec, Prefix

\* A connection LMS did not write to, or that ended, has its type.
LEMMA EndedType ==
    ASSUME NEW conn \in ConnRec, NEW how \in {"fin", "dead"}, NEW n \in 0 .. Len(conn.wire)
    PROVE  /\ Ended(conn, how, n) \in ConnRec /\ NoConn \in ConnRec
           /\ Ended(conn, how, n).wire = SubSeq(conn.wire, 1, n)
           /\ Ended(conn, how, n).peer = how /\ ~Ended(conn, how, n).torn
           /\ Ended(conn, how, n).handled = conn.handled
  <1>1. conn.wire \in Seq(UnitRec) /\ Len(conn.wire) \in Nat
    BY LenProperties DEF ConnRec
  <1>2. SubSeq(conn.wire, 0 + 1, n) \in Seq(UnitRec)
    BY <1>1, PartOf
  <1>3. << >> \in Seq(UnitRec) /\ << >> \in Seq(Seq(UnitRec))
    BY EmptySeq
  <1>4. NoConn \in ConnRec
    BY <1>3 DEF NoConn, ConnRec, Halves, Frames
  <1>5. 0 + 1 = 1
    OBVIOUS
  <1> DEFINE full == IF how = "dead" THEN conn.full ELSE FALSE
  <1>6. Ended(conn, how, n) =
           [NoConn EXCEPT !.peer = how, !.shut = conn.shut, !.handled = conn.handled,
                          !.full = full, !.wire = SubSeq(conn.wire, 1, n)]
    BY DEF Ended
  <1>7. full \in BOOLEAN
    <2>1. conn.full \in BOOLEAN
      BY DEF ConnRec
    <2> QED BY <2>1
  <1> HIDE DEF full
  <1>8. conn.shut \in BOOLEAN /\ conn.handled \in Seq(Seq(UnitRec))
    BY DEF ConnRec
  <1>9. Ended(conn, how, n) =
           [peer |-> how, shut |-> conn.shut, full |-> full, wire |-> SubSeq(conn.wire, 1, n),
            sent |-> 0, handled |-> conn.handled,
            first |-> "", half |-> "", torn |-> FALSE, greeted |-> FALSE]
    BY <1>6 DEF NoConn
  <1> DEFINE rest == SubSeq(conn.wire, 1, n)
             e    == Ended(conn, how, n)
  <1>10. rest \in Seq(UnitRec) /\ how \in {"none", "up", "fin", "dead", "reset"}
    BY <1>2, <1>5
  <1>11. "" \in Frames /\ "" \in {""} \cup Threads /\ 0 \in Nat /\ FALSE \in BOOLEAN
    BY DEF Frames
  <1> HIDE DEF rest, e
  <1>12. e = [peer |-> how, shut |-> conn.shut, full |-> full, wire |-> rest,
              sent |-> 0, handled |-> conn.handled,
              first |-> "", half |-> "", torn |-> FALSE, greeted |-> FALSE]
    BY <1>9 DEF rest, e
  <1>13. e \in ConnRec
    BY <1>7, <1>8, <1>10, <1>11, <1>12, Zenon DEF ConnRec, Halves
  <1>14. e.wire = rest /\ e.peer = how /\ e.handled = conn.handled
    BY <1>12
  <1>15. e.torn = FALSE
    BY <1>12
  <1> QED BY <1>4, <1>13, <1>14, <1>15 DEF rest, e

\* The initial states satisfy the inductive invariant.
LEMMA InitInv == Init => IInv
  <1> SUFFICES ASSUME Init PROVE IInv
    OBVIOUS
  <1> USE LinkAssumption DEF Init
  <1>0. /\ conns["now"] = NoConn /\ conns["old"] = NoConn /\ \A t \in Threads : out[t] = NotSending
        /\ run.pc = "start" /\ run.prefix = 0 /\ run.expect = 0 /\ run.buf = << >>
        /\ NoConn.peer = "none" /\ NoConn.handled = << >> /\ NotSending.pc = "idle"
    BY DEF NoConn, NotSending, At, Conns
  <1>1. TypeOK
    BY <1>0 DEF TypeOK, Conns, Threads, Prefix
  <1>2. Types
    <2>1. /\ script \in Seq(PacketRec)
          /\ \A i \in 1 .. Len(script) : script[i].op # "bogus" => script[i].body > 0
      <3>1. script \in Seq(PacketRec)
        BY DEF PacketRec
      <3> QED BY <3>1, LenProperties
    <2>2. << >> \in Seq(UnitRec) /\ << >> \in Seq(Seq(UnitRec))
      BY EmptySeq
    <2>3. NoConn \in ConnRec
      BY <2>2 DEF NoConn, ConnRec, Halves, Frames
    <2>4. run \in RunRec
      BY AtType DEF RunPc
    <2> QED BY <2>1, <2>3, <2>4 DEF Types, SendRec
  <1>3. Senders /\ FramesMatch /\ FramesWhole
    BY DEF Senders, Done, NotSending, FramesMatch, FramesWhole, NoConn, Conns, Threads
  <1>4. HandledSoFar /\ Holds /\ ~Connected
    <2>1. Len(script) \in Nat
      BY <1>2, LenProperties DEF Types
    <2>2. HandledSoFar
      BY <1>0, <2>1 DEF HandledSoFar, My
    <2>3. Holds /\ ~Connected
      BY <1>0 DEF Holds, Connected
    <2> QED BY <2>2, <2>3
  <1> QED BY <1>1, <1>2, <1>3, <1>4 DEF IInv

-----------------------------------------------------------------------------
(* LMS and the network.                                                    *)

\* What LMS and the network do touches no thread of the client.
LEMMA LmsFrame ==
    ASSUME IInv, conns' \in [Conns -> ConnRec], lms' \in {"up", "down"},
           outages' \in 0 .. MaxOutages,
           UNCHANGED << script, stream, sock, run, known, reconnect, out, mutex, stopper >>
    PROVE  TypeOK' /\ Types' /\ Senders' /\ (Connected' <=> Connected)
  <1>1. \A c \in Conns : conns'[c].peer \in {"none", "up", "fin", "dead", "reset"}
    BY DEF ConnRec
  <1>2. TypeOK'
    BY <1>1 DEF IInv, TypeOK
  <1> QED BY <1>2 DEF IInv, Types, Senders, Done, Connected

\* The next packet joins what is under way.
LEMMA LmsSendStep ==
    ASSUME IInv, NEW c \in Conns, LmsSend(c)
    PROVE  IInv'
  <1> DEFINE conn == conns[c]
             next == [conn EXCEPT !.sent = @ + 1, !.wire = @ \o Units(conn.sent + 1)]
  <1>1. /\ conn.peer = "up" /\ conn.sent < Len(script) /\ conns' = [conns EXCEPT ![c] = next]
        /\ UNCHANGED << world, sock, run, known, reconnect, out, mutex, stopper >>
        /\ UNCHANGED << lms, outages, script, stream >>
    BY DEF LmsSend, IInv, Types, ConnRec, world
  <1>2. /\ script \in Seq(PacketRec) /\ conns \in [Conns -> ConnRec] /\ conn \in ConnRec
        /\ conn.sent + 1 \in 1 .. Len(script) /\ conn.sent \in Nat
    <2>1. script \in Seq(PacketRec) /\ conns \in [Conns -> ConnRec] /\ conn \in ConnRec
      BY DEF IInv, Types
    <2>2. Len(script) \in Nat /\ conn.sent \in Nat
      BY <2>1, LenProperties DEF ConnRec
    <2> QED BY <1>1, <2>1, <2>2
  <1>3. /\ next \in ConnRec /\ next.wire = conn.wire \o Units(conn.sent + 1)
        /\ next.sent = conn.sent + 1 /\ next.peer = conn.peer /\ next.shut = conn.shut
        /\ next.half = conn.half /\ next.torn = conn.torn /\ next.handled = conn.handled
    <2>1. conn.wire \o Units(conn.sent + 1) \in Seq(UnitRec)
      BY <1>2, UnitsType, ConcatProperties DEF ConnRec
    <2>2. conn.sent + 1 \in Nat
      BY <1>2
    <2> QED BY <1>2, <2>1, <2>2 DEF ConnRec
  <1> HIDE DEF next
  <1>4. TypeOK' /\ Types' /\ Senders' /\ (Connected' <=> Connected)
    <2>1. conns' \in [Conns -> ConnRec]
      BY <1>1, <1>2, <1>3
    <2>2. lms' \in {"up", "down"} /\ outages' \in 0 .. MaxOutages /\ script' = script
      BY <1>1 DEF IInv, TypeOK, world
    <2> QED BY <1>1, <2>1, <2>2, LmsFrame
  <1>5. FramesMatch' /\ FramesWhole'
    BY <1>1, <1>2, <1>3, FramesKept DEF IInv
  <1>6. HandledSoFar' /\ Holds' /\ (Connected => UnderWay)'
    <2>1. CASE c = "old"
      BY <1>1, <1>2, <1>3, <1>4, <2>1, ReadKept
         DEF IInv, world, My, Conns, Holds, HandledSoFar
    <2>2. CASE c = "now"
      <3>1. conns'["now"] = next /\ conns'["old"] = conns["old"] /\ My = conn
        BY <1>1, <1>2, <2>2 DEF Conns, My
      <3>2. script' = script /\ run' = run
        BY <1>1 DEF world
      <3>3. HandledSoFar'
        <4>1. conns'["now"].handled = conns["now"].handled /\ conns'["old"] = conns["old"]
          BY <1>3, <3>1 DEF My
        <4> QED BY <3>2, <4>1 DEF IInv, HandledSoFar, My, Body, Units
      <3>4. Holds' /\ Here' = Here
        BY <1>3, <3>1, <3>2 DEF IInv, Holds, Reading, My, Here
      <3>5. ASSUME Connected' PROVE UnderWay'
        <4> DEFINE n == conn.sent + 1
                   all == conn.wire \o Units(n)
        <4>1. UnderWay
          BY <1>4, <3>5 DEF IInv
        <4>2. conn.wire # << >> =>
                 conn.wire[Len(conn.wire)] = [packet |-> n - 1, at |-> Size(n - 1)]
          <5>1. conn.sent = n - 1
            BY <1>2
          <5> HIDE DEF n
          <5> QED BY <1>1, <3>1, <4>1, <5>1 DEF UnderWay
        <4>3. /\ all \in Seq(UnitRec) /\ Gapless(all) /\ all # << >>
              /\ all[Len(all)] = [packet |-> n, at |-> Size(n)]
              /\ all[1] = IF conn.wire = << >> THEN [packet |-> n, at |-> 1] ELSE conn.wire[1]
          <5>1. Gapless(conn.wire) /\ conn.wire \in Seq(UnitRec)
            BY <1>2, <3>1, <4>1 DEF UnderWay, ConnRec
          <5> QED BY <1>2, <4>2, <5>1, GaplessAppend
        <4> HIDE DEF all
        <4>4. all[1] = Here
          BY <1>1, <3>1, <4>1, <4>3 DEF UnderWay
        <4>5. My'.wire = all /\ My'.sent = n /\ My'.peer = "up"
          BY <1>1, <1>3, <3>1 DEF My, all
        <4>6. n \in 1 .. Len(script) /\ n <= Len(script)
          BY <1>2
        <4> HIDE DEF n
        <4>7. Gapless(My.wire)'
          BY <3>2, <4>3, <4>5 DEF Gapless, Size
        <4>8. My'.wire # << >> /\ My'.wire[1] = Here'
          BY <3>4, <4>3, <4>4, <4>5
        <4>9. My'.wire[Len(My'.wire)] = [packet |-> My'.sent, at |-> Size(My.sent)']
          BY <3>2, <4>3, <4>5 DEF Size
        <4> QED BY <3>2, <4>5, <4>6, <4>7, <4>8, <4>9 DEF UnderWay
      <3> QED BY <3>3, <3>4, <3>5
    <2> QED BY <2>1, <2>2 DEF Conns
  <1> QED BY <1>4, <1>5, <1>6 DEF IInv

\* A connection that ends keeps the beginning of what is under way on it.
LEMMA EndsStep ==
    ASSUME IInv, lms' \in {"up", "down"}, outages' \in 0 .. MaxOutages,
           UNCHANGED << script, stream, sock, run, known, reconnect, out, mutex, stopper >>,
           conns' = [c \in Conns |-> conns'[c]],
           \A c \in Conns :
              \/ conns'[c] = conns[c]
              \/ \E how \in {"fin", "dead"}, n \in 0 .. Len(conns[c].wire) :
                    conns'[c] = Ended(conns[c], how, n)
    PROVE  IInv'
  <1>1. \A c \in Conns : conns[c] \in ConnRec
    BY DEF IInv, Types
  <1>2. \A c \in Conns :
           /\ conns'[c] \in ConnRec /\ conns'[c].handled = conns[c].handled
           /\ ~conns[c].torn => ~conns'[c].torn
           /\ conns'[c].peer = "up" => conns'[c] = conns[c]
    BY <1>1, EndedType
  <1>3. conns' \in [Conns -> ConnRec]
    BY <1>2
  <1>4. TypeOK' /\ Types' /\ Senders' /\ (Connected' <=> Connected)
    BY <1>3, LmsFrame
  <1>5. FramesMatch' /\ FramesWhole'
    BY <1>2, FramesKept DEF IInv
  <1>6. /\ conns'["now"].handled = My.handled /\ conns'["old"].handled = << >>
        /\ run' = run /\ script' = script
    BY <1>2 DEF IInv, HandledSoFar, My, Conns
  <1>7. HandledSoFar'
    BY <1>6 DEF IInv, HandledSoFar, My, Body, Units
  <1>8. Holds' /\ Here' = Here
    BY <1>6 DEF IInv, Holds, Reading, My, Here
  <1>9. ASSUME Connected' PROVE UnderWay'
    <2>1. UnderWay
      BY <1>4, <1>9 DEF IInv
    <2>2. CASE conns'["now"] = My
      <3>1. My' = My
        BY <2>2 DEF My
      <3>2. Gapless(My.wire)'
        BY <1>6, <2>1, <3>1 DEF UnderWay, Gapless, Size
      <3> QED BY <1>6, <1>8, <2>1, <3>1, <3>2 DEF UnderWay, Size
    <2>3. ASSUME NEW how \in {"fin", "dead"}, NEW n \in 0 .. Len(My.wire),
                 conns'["now"] = Ended(My, how, n)
          PROVE  UnderWay'
      <3>1. My.wire \in Seq(UnitRec) /\ My \in ConnRec
        BY <1>1 DEF My, Conns, ConnRec
      <3>2. My'.wire = SubSeq(My.wire, 1, n) /\ My'.peer # "up"
        BY <2>3, <3>1, EndedType DEF My
      <3>3. Gapless(SubSeq(My.wire, 0 + 1, n))
        BY <2>1, <3>1, GaplessPart, LenProperties, SMTT(120) DEF UnderWay
      <3>4. /\ Len(SubSeq(My.wire, 0 + 1, n)) = n - 0
            /\ \A i \in 1 .. n - 0 : SubSeq(My.wire, 0 + 1, n)[i] = My.wire[0 + i]
            /\ SubSeq(My.wire, 0 + 1, n) = << >> <=> 0 = n
        <4>1. Len(My.wire) \in Nat
          BY <3>1, LenProperties
        <4>2. 0 \in 0 .. Len(My.wire) /\ n \in 0 .. Len(My.wire)
          BY <4>1
        <4> HIDE DEF My
        <4> QED BY <3>1, <4>2, PartOf
      <3>5. Gapless(My'.wire)
        BY <3>2, <3>3
      <3>6. Gapless(My.wire)'
        BY <1>6, <3>5 DEF Gapless, Size
      <3>7. My'.wire # << >> => My'.wire[1] = My.wire[1] /\ My.wire # << >>
        <4>1. Len(My.wire) \in Nat
          BY <3>1, LenProperties
        <4>2. My'.wire # << >> => 1 \in 1 .. n - 0 /\ n # 0
          BY <3>2, <3>4, <4>1
        <4>3. n # 0 => My.wire # << >>
          BY <4>1, EmptySeq
        <4> QED BY <3>2, <3>4, <4>2, <4>3
      <3> QED BY <1>8, <2>1, <3>2, <3>6, <3>7 DEF UnderWay
    <2> QED BY <2>2, <2>3 DEF My, Conns
  <1> QED BY <1>4, <1>5, <1>7, <1>8, <1>9 DEF IInv

\* Whatever LMS and the network do.
LEMMA LmsStep ==
    ASSUME IInv, Lms \/ \E c \in Conns : Keepalive(c)
    PROVE  IInv'
  <1> USE LinkAssumption
  <1>1. conns \in [Conns -> ConnRec] /\ lms \in {"up", "down"} /\ outages \in 0 .. MaxOutages
    BY DEF IInv, TypeOK, Types
  <1>2. CASE LmsUp
    <2>1. /\ UNCHANGED << script, stream, sock, run, known, reconnect, out, mutex, stopper >>
          /\ UNCHANGED << outages, conns >> /\ lms' = "up"
      BY <1>2 DEF LmsUp
    <2>2. conns' = [c \in Conns |-> conns'[c]]
      BY <1>1, <2>1
    <2> QED BY <1>1, <2>1, <2>2, EndsStep
  <1>3. ASSUME NEW how \in {"fin", "dead"}, LmsDown(how) PROVE IInv'
    <2>1. /\ UNCHANGED << script, stream, sock, run, known, reconnect, out, mutex, stopper >>
          /\ lms' = "down" /\ outages < MaxOutages /\ outages' = outages + 1
          /\ conns' = [c \in Conns |-> IF conns[c].peer = "up"
                                       THEN Ended(conns[c], how, Len(conns[c].wire))
                                       ELSE conns[c]]
      BY <1>3 DEF LmsDown
    <2>2. outages' \in 0 .. MaxOutages /\ conns' = [c \in Conns |-> conns'[c]]
      BY <1>1, <2>1
    <2>3. \A c \in Conns : Len(conns[c].wire) \in 0 .. Len(conns[c].wire)
      <3>1. \A c \in Conns : conns[c].wire \in Seq(UnitRec)
        BY <1>1 DEF ConnRec
      <3>2. \A c \in Conns : Len(conns[c].wire) \in Nat
        BY <3>1, LenProperties
      <3> QED BY <3>2
    <2>4. \A c \in Conns : \/ conns'[c] = conns[c]
                           \/ conns'[c] = Ended(conns[c], how, Len(conns[c].wire))
      BY <2>1
    <2> QED BY <2>1, <2>2, <2>3, <2>4, EndsStep
  <1>4. ASSUME NEW c \in Conns, NEW how \in {"fin", "dead"}, NEW n, Cut(c, how, n) PROVE IInv'
    <2>1. /\ UNCHANGED << script, stream, sock, run, known, reconnect, out, mutex, stopper >>
          /\ lms' = lms /\ outages < MaxOutages /\ outages' = outages + 1
          /\ n \in 0 .. Len(conns[c].wire)
          /\ conns' = [conns EXCEPT ![c] = Ended(@, how, n)]
      BY <1>4 DEF Cut
    <2>2. outages' \in 0 .. MaxOutages /\ conns' = [d \in Conns |-> conns'[d]]
      <3>1. outages' \in 0 .. MaxOutages
        BY <1>1, <2>1
      <3> QED BY <1>1, <2>1, <3>1
    <2>3. \A d \in Conns : conns'[d] = conns[d] \/ (d = c /\ conns'[d] = Ended(conns[d], how, n))
      BY <1>1, <2>1
    <2> QED BY <1>1, <2>1, <2>2, <2>3, EndsStep
  <1>5. ASSUME NEW c \in Conns, Keepalive(c) PROVE IInv'
    <2>1. /\ UNCHANGED << world, sock, run, known, reconnect, out, mutex, stopper >>
          /\ conns[c].peer = "dead" /\ conns' = [conns EXCEPT ![c].peer = "reset"]
      BY <1>5 DEF Keepalive
    <2>2. \A d \in Conns : /\ conns'[d] \in ConnRec
                           /\ conns'[d].handled = conns[d].handled
                           /\ conns'[d].wire = conns[d].wire /\ conns'[d].sent = conns[d].sent
                           /\ conns'[d].torn = conns[d].torn
                           /\ conns'[d].peer = "up" => conns'[d] = conns[d]
      BY <1>1, <2>1 DEF ConnRec
    <2>3. conns' \in [Conns -> ConnRec]
      BY <1>1, <2>1, <2>2
    <2>4. UNCHANGED << lms, outages, script, stream >>
      BY <2>1 DEF world
    <2>5. TypeOK' /\ Types' /\ Senders' /\ (Connected' <=> Connected)
      BY <1>1, <2>1, <2>3, <2>4, LmsFrame
    <2>6. FramesMatch' /\ FramesWhole'
      BY <2>1, <2>2, FramesKept DEF IInv
    <2>7. HandledSoFar' /\ Holds' /\ (Connected => UnderWay)'
      <3>1. /\ conns'["old"].handled = << >> /\ conns'["now"].handled = My.handled
            /\ conns'["now"].wire = My.wire /\ conns'["now"].sent = My.sent
            /\ conns'["now"].peer = "up" => My.peer = "up"
        BY <2>2 DEF IInv, HandledSoFar, My, Conns
      <3>2. run.pc # "poll" => run.expect = 0 /\ run.prefix = 0
        BY DEF IInv, Holds
      <3> QED BY <2>1, <2>4, <2>5, <3>1, <3>2, ReadKept DEF IInv
    <2> QED BY <2>5, <2>6, <2>7 DEF IInv
  <1> QED BY <1>2, <1>3, <1>4, <1>5, LmsSendStep DEF Lms

\* A socket's buffer fills, or LMS reads on: what is written and read stays.
LEMMA BufferStep ==
    ASSUME IInv, NEW c \in Conns, Fill(c) \/ Drain(c)
    PROVE  IInv'
  <1>1. /\ UNCHANGED << lms, outages, script, stream, sock, run, known, reconnect, out, mutex,
                       stopper >>
    BY DEF Fill, Drain, world
  <1>2. conns \in [Conns -> ConnRec] /\ lms \in {"up", "down"} /\ outages \in 0 .. MaxOutages
    BY DEF IInv, TypeOK, Types
  <1>3. \A d \in Conns :
           /\ conns'[d] \in ConnRec
           /\ conns'[d].peer = conns[d].peer /\ conns'[d].shut = conns[d].shut
           /\ conns'[d].half = conns[d].half /\ conns'[d].torn = conns[d].torn
           /\ conns'[d].handled = conns[d].handled
           /\ conns'[d].wire = conns[d].wire /\ conns'[d].sent = conns[d].sent
    <2>1. ASSUME NEW full \in BOOLEAN, conns' = [conns EXCEPT ![c].full = full]
          PROVE  \A d \in Conns :
                    /\ conns'[d] \in ConnRec
                    /\ conns'[d].peer = conns[d].peer /\ conns'[d].shut = conns[d].shut
                    /\ conns'[d].half = conns[d].half /\ conns'[d].torn = conns[d].torn
                    /\ conns'[d].handled = conns[d].handled
                    /\ conns'[d].wire = conns[d].wire /\ conns'[d].sent = conns[d].sent
      BY <1>2, <2>1 DEF ConnRec
    <2>2. CASE conns' = [conns EXCEPT ![c].full = TRUE]
      BY <2>1, <2>2, Zenon
    <2>3. CASE conns' = [conns EXCEPT ![c].full = FALSE]
      BY <2>1, <2>3, Zenon
    <2> QED BY <2>2, <2>3 DEF Fill, Drain
  <1>4. conns' \in [Conns -> ConnRec]
    <2>1. conns' = [d \in Conns |-> conns'[d]]
      BY <1>2 DEF Fill, Drain
    <2> QED BY <1>3, <2>1, Zenon
  <1>5. TypeOK' /\ Types' /\ Senders' /\ (Connected' <=> Connected)
    BY <1>1, <1>2, <1>4, LmsFrame
  <1>6. FramesMatch' /\ FramesWhole'
    BY <1>1, <1>3, FramesKept DEF IInv
  <1>7. HandledSoFar' /\ Holds' /\ (Connected => UnderWay)'
    <2>1. /\ conns'["old"].handled = << >> /\ conns'["now"].handled = My.handled
          /\ conns'["now"].wire = My.wire /\ conns'["now"].sent = My.sent
          /\ conns'["now"].peer = "up" => My.peer = "up"
      BY <1>3 DEF IInv, HandledSoFar, My, Conns
    <2>2. run.pc # "poll" => run.expect = 0 /\ run.prefix = 0
      BY DEF IInv, Holds
    <2> QED BY <1>1, <1>5, <2>1, <2>2, ReadKept DEF IInv
  <1> QED BY <1>5, <1>6, <1>7 DEF IInv

-----------------------------------------------------------------------------
(* The threads' sends.                                                     *)

\* A thread that sends nothing begins a frame, or does not.
LEMMA SendingType ==
    ASSUME out \in [Threads -> SendRec], NEW t \in Threads, Done(t),
           NEW frame \in Frames, NEW to \in {"none"} \cup Conns,
           Sending(t, frame, to) \/ UNCHANGED out
    PROVE  /\ out' \in [Threads -> SendRec]
           /\ \A u \in Threads : out[u].pc = "half" \/ out'[u].pc = "half" => out'[u] = out[u]
           /\ \A u \in Threads \ {t} : out'[u] = out[u]
  <1>1. CASE UNCHANGED out
    BY <1>1
  <1>2. CASE Sending(t, frame, to)
    <2> DEFINE s == IF to = "none" THEN NotSending
                    ELSE [pc |-> "lock", frame |-> frame, to |-> to]
    <2>1. out' = [out EXCEPT ![t] = s]
      BY <1>2 DEF Sending
    <2>2. s \in SendRec /\ s.pc # "half"
      BY DEF SendRec, NotSending
    <2>3. out[t].pc # "half"
      BY DEF Done
    <2> HIDE DEF s
    <2> QED BY <2>1, <2>2, <2>3
  <1> QED BY <1>1, <1>2

\* A step that only begins frames, with the connections as they are.
LEMMA BeginStep ==
    ASSUME IInv, UNCHANGED << lms, outages, script, conns, sock, mutex >>,
           stopper' \in {"none", "bye", "join", "done"},
           out' \in [Threads -> SendRec], Senders',
           \A u \in Threads : out[u].pc = "half" \/ out'[u].pc = "half" => out'[u] = out[u],
           run' \in RunRec, run'.expect = run.expect, run'.prefix = run.prefix,
           run'.buf = run.buf, run'.pc # "poll" => run.expect = 0 /\ run.prefix = 0,
           Connected' => Connected
    PROVE  IInv'
  <1>1. TypeOK'
    <2>1. run'.pc \in RunPc /\ run'.prefix < Prefix
      BY DEF RunRec, Prefix
    <2>2. Len(run'.buf) <= run'.expect
      BY DEF IInv, TypeOK
    <2>3. \A t \in Threads : out'[t].pc = "half" <=> mutex' = t
      BY DEF IInv, TypeOK
    <2>4. run'.pc \in {"greet", "poll", "handler"} => sock' = "now"
      BY DEF IInv, TypeOK, Connected
    <2> QED BY <2>1, <2>2, <2>3, <2>4 DEF IInv, TypeOK, RunPc
  <1>2. Types'
    BY DEF IInv, Types
  <1>3. FramesMatch' /\ FramesWhole'
    BY FramesKept DEF IInv
  <1>4. HandledSoFar' /\ Holds' /\ (Connected => UnderWay)'
    BY ReadKept DEF IInv, HandledSoFar, My
  <1> QED BY <1>1, <1>2, <1>3, <1>4 DEF IInv

\* The events of the stream thread, the stop's farewell, the heartbeat and the
\* handler's STAT.
LEMMA SendStep ==
    ASSUME IInv,
           \/ StreamEvent \/ RequestStop
           \/ \E beat \in BOOLEAN : PollTimeout(beat) \/ HandlerDone(beat)
    PROVE  IInv'
  <1>1. /\ out \in [Threads -> SendRec] /\ run \in RunRec /\ Senders /\ Holds
        /\ stopper \in {"none", "bye", "join", "done"} /\ sock \in {"none"} \cup Conns
    BY DEF IInv, TypeOK, Types, Conns
  <1>2. CASE StreamEvent
    <2>1. /\ stream /\ Done("stream") /\ Sending("stream", "STAT", sock)
          /\ UNCHANGED << lms, outages, script, stream, conns, sock, run, known, reconnect, mutex, stopper >>
      BY <1>2 DEF StreamEvent, world
    <2>2. /\ out' \in [Threads -> SendRec]
          /\ \A u \in Threads : out[u].pc = "half" \/ out'[u].pc = "half" => out'[u] = out[u]
          /\ \A u \in Threads \ {"stream"} : out'[u] = out[u]
      BY <1>1, <2>1, SendingType DEF Threads, Frames
    <2>3. Senders'
      BY <1>1, <2>1, <2>2 DEF Senders, Connected, Done, Threads
    <2> QED BY <1>1, <2>1, <2>2, <2>3, BeginStep DEF Holds, Connected
  <1>3. CASE RequestStop
    <2>1. /\ ~stream /\ stopper = "none" /\ stopper' = "bye"
          /\ Sending("stopper", "BYE!", sock)
          /\ UNCHANGED << lms, outages, script, stream, conns, sock, run, known, reconnect, mutex >>
      BY <1>3 DEF RequestStop, world
    <2>2. /\ out' \in [Threads -> SendRec]
          /\ \A u \in Threads : out[u].pc = "half" \/ out'[u].pc = "half" => out'[u] = out[u]
          /\ \A u \in Threads \ {"stopper"} : out'[u] = out[u]
      BY <1>1, <2>1, SendingType DEF Threads, Frames, Senders
    <2>3. Senders'
      BY <1>1, <2>1, <2>2 DEF Senders, Connected, Done, Threads
    <2> QED BY <1>1, <2>1, <2>2, <2>3, BeginStep DEF Holds, Connected
  <1>4. ASSUME NEW beat \in BOOLEAN, PollTimeout(beat) PROVE IInv'
    <2>1. /\ run.pc = "poll" /\ Done("reader")
          /\ run' = [run EXCEPT !.quiet = IF Timeout = 0 THEN 0 ELSE @ + 1]
          /\ Sending("reader", "STAT", sock) \/ UNCHANGED out
          /\ UNCHANGED << lms, outages, script, stream, conns, sock, known, reconnect, mutex, stopper >>
      BY <1>4 DEF PollTimeout, InLoop, Polling, world
    <2>2. /\ out' \in [Threads -> SendRec]
          /\ \A u \in Threads : out[u].pc = "half" \/ out'[u].pc = "half" => out'[u] = out[u]
          /\ \A u \in Threads \ {"reader"} : out'[u] = out[u]
      BY <1>1, <2>1, SendingType DEF Threads, Frames
    <2>3. /\ run' \in RunRec /\ run'.expect = run.expect /\ run'.prefix = run.prefix
          /\ run'.buf = run.buf /\ run'.pc = "poll"
      BY <1>1, <2>1 DEF RunRec
    <2>4. Senders' /\ Connected
      BY <1>1, <2>1, <2>2, <2>3 DEF Senders, Connected, Done, Threads
    <2> QED BY <1>1, <2>1, <2>2, <2>3, <2>4, BeginStep
  <1>5. ASSUME NEW stat \in BOOLEAN, HandlerDone(stat) PROVE IInv'
    <2>1. /\ run.pc = "handler" /\ Done("reader") /\ run' = At("poll")
          /\ Sending("reader", "STAT", sock) \/ UNCHANGED out
          /\ UNCHANGED << lms, outages, script, stream, conns, sock, known, reconnect, mutex, stopper >>
      BY <1>5 DEF HandlerDone, world
    <2>2. /\ out' \in [Threads -> SendRec]
          /\ \A u \in Threads : out[u].pc = "half" \/ out'[u].pc = "half" => out'[u] = out[u]
          /\ \A u \in Threads \ {"reader"} : out'[u] = out[u]
      BY <1>1, <2>1, SendingType DEF Threads, Frames
    <2>3. /\ run' \in RunRec /\ run'.expect = run.expect /\ run'.prefix = run.prefix
          /\ run'.buf = run.buf /\ run'.pc = "poll"
      BY <1>1, <2>1, AtType DEF Holds, At, RunPc
    <2>4. Senders' /\ Connected
      BY <1>1, <2>1, <2>2, <2>3 DEF Senders, Connected, Done, Threads
    <2> QED BY <1>1, <2>1, <2>2, <2>3, <2>4, BeginStep
  <1> QED BY <1>2, <1>3, <1>4, <1>5

\* The stream thread is started, or ends, between two frames.
LEMMA StreamStep ==
    ASSUME IInv, StreamStarts \/ StreamEnds
    PROVE  IInv'
  <1>1. /\ out \in [Threads -> SendRec] /\ run \in RunRec /\ Senders /\ Holds
        /\ stopper \in {"none", "bye", "join", "done"}
    BY DEF IInv, TypeOK, Types
  <1>2. /\ UNCHANGED << lms, outages, script, conns, sock, run, out, mutex, stopper >>
        /\ Done("stream") /\ (stopper # "none" => ~stream')
    BY <1>1 DEF StreamStarts, StreamEnds, Stopping, Senders
  <1>3. Senders' /\ (Connected' => Connected)
    BY <1>1, <1>2 DEF Senders, Connected, Done
  <1> QED BY <1>1, <1>2, <1>3, BeginStep DEF Holds

\* The first piece of a frame, as LMS receives it.
LEMMA FirstPiece ==
    ASSUME NEW conn \in ConnRec, NEW t \in Threads, out[t].frame \in Frames
    PROVE  /\ Received(conn, t, 1) \in ConnRec
           /\ Received(conn, t, 1).half = t
           /\ Received(conn, t, 1).torn => conn.torn \/ conn.half # ""
           /\ Received(conn, t, 1).peer = conn.peer
           /\ Received(conn, t, 1).shut = conn.shut
           /\ Received(conn, t, 1).wire = conn.wire
           /\ Received(conn, t, 1).sent = conn.sent
           /\ Received(conn, t, 1).handled = conn.handled
  <1> DEFINE first   == IF conn.first = "" THEN out[t].frame ELSE conn.first
             torn    == conn.torn \/ conn.half # ""
             greeted == conn.greeted \/ (1 = 2 /\ out[t].frame \in {"HELO", "HELO again"})
             got     == Received(conn, t, 1)
  <1>1. got = [conn EXCEPT !.first = first, !.half = t, !.torn = torn, !.greeted = greeted]
    BY DEF Received
  <1>2. first \in Frames /\ torn \in BOOLEAN /\ greeted \in BOOLEAN /\ t \in {""} \cup Threads
    BY DEF ConnRec
  <1> HIDE DEF first, torn, greeted, got
  <1>3. /\ got \in ConnRec /\ got.half = t /\ got.torn = torn
        /\ got.peer = conn.peer /\ got.shut = conn.shut /\ got.wire = conn.wire
        /\ got.sent = conn.sent /\ got.handled = conn.handled
    BY <1>1, <1>2 DEF ConnRec, Halves
  <1> QED BY <1>3 DEF torn, got

\* The last piece of a frame.
LEMMA LastPiece ==
    ASSUME NEW conn \in ConnRec, NEW t \in Threads, out[t].frame \in Frames
    PROVE  /\ Received(conn, t, 2) \in ConnRec
           /\ Received(conn, t, 2).half = ""
           /\ Received(conn, t, 2).torn => conn.torn \/ conn.half # t
           /\ Received(conn, t, 2).peer = conn.peer
           /\ Received(conn, t, 2).shut = conn.shut
           /\ Received(conn, t, 2).wire = conn.wire
           /\ Received(conn, t, 2).sent = conn.sent
           /\ Received(conn, t, 2).handled = conn.handled
  <1> DEFINE first   == IF conn.first = "" THEN out[t].frame ELSE conn.first
             torn    == conn.torn \/ conn.half # t
             greeted == conn.greeted \/ (2 = 2 /\ out[t].frame \in {"HELO", "HELO again"})
             got     == Received(conn, t, 2)
  <1>1. got = [conn EXCEPT !.first = first, !.half = "", !.torn = torn, !.greeted = greeted]
    BY DEF Received
  <1>2. first \in Frames /\ torn \in BOOLEAN /\ greeted \in BOOLEAN /\ t \in {""} \cup Threads
    BY DEF ConnRec
  <1> HIDE DEF first, torn, greeted, got
  <1>3. /\ got \in ConnRec /\ got.half = "" /\ got.torn = torn
        /\ got.peer = conn.peer /\ got.shut = conn.shut /\ got.wire = conn.wire
        /\ got.sent = conn.sent /\ got.handled = conn.handled
    BY <1>1, <1>2 DEF ConnRec, Halves
  <1> QED BY <1>3 DEF torn, got

\* Who is in the middle of a frame holds the lock, and nobody else is.
LEMMA OneAtATime ==
    ASSUME IInv, NEW t \in Threads, out[t].pc \in {"lock", "half"}, Unlocked(t)
    PROVE  /\ out[t].pc = "lock" => mutex = "none" /\ \A u \in Threads : out[u].pc # "half"
           /\ out[t].pc = "half" => mutex = t /\ \A u \in Threads \ {t} : out[u].pc # "half"
           /\ out[t] \in [pc : {"lock", "half"}, frame : Frames, to : Conns]
  <1>1. \A u \in Threads : out[u].pc = "half" <=> mutex = u
    BY DEF IInv, TypeOK
  <1>2. out[t] \in SendRec
    BY DEF IInv, Types
  <1>3. out[t] \in [pc : {"lock", "half"}, frame : Frames, to : Conns]
    <2>1. NotSending.pc = "idle"
      BY DEF NotSending
    <2>2. out[t] # NotSending
      BY <2>1
    <2>3. out[t] \in [pc : {"lock", "half"}, frame : Frames, to : Conns]
      BY <1>2, <2>2 DEF SendRec
    <2> QED BY <2>3
  <1>4. "none" \notin Threads
    BY DEF Threads
  <1>5. out[t].pc = "lock" => mutex = "none"
    BY <1>1 DEF Unlocked
  <1> QED BY <1>1, <1>3, <1>4, <1>5

\* A thread writes a piece of its frame, under the lock.
LEMMA WriteStep ==
    ASSUME IInv, NEW t \in Threads, Write(t)
    PROVE  IInv'
  <1> DEFINE to == out[t].to
  <1>1. /\ out[t].pc \in {"lock", "half"} /\ Unlocked(t)
        /\ UNCHANGED << world, sock, run, known, reconnect, stopper >>
    BY DEF Write
  <1>2. /\ out[t].pc = "lock" => mutex = "none" /\ \A u \in Threads : out[u].pc # "half"
        /\ out[t].pc = "half" => mutex = t /\ \A u \in Threads \ {t} : out[u].pc # "half"
        /\ out[t] \in [pc : {"lock", "half"}, frame : Frames, to : Conns]
    BY <1>1, OneAtATime
  <1>3. /\ conns \in [Conns -> ConnRec] /\ out \in [Threads -> SendRec] /\ to \in Conns
        /\ NoConn \in ConnRec /\ out[t].frame \in Frames /\ "" \notin Threads
    <2>1. NoConn \in ConnRec
      BY EndedType, EmptySeq DEF NoConn, ConnRec, Halves, Frames
    <2> QED BY <1>2, <2>1 DEF IInv, Types, Threads
  <1>4. FramesMatch /\ FramesWhole /\ \A c \in Conns : conns[c].half \in {""} \cup Threads
    BY <1>3 DEF IInv, ConnRec, Halves
  <1> DEFINE got1 == Received(conns[to], t, 1)
             got2 == Received(conns[to], t, 2)
  <1>7. /\ got1 \in ConnRec /\ got1.half = t
        /\ got1.torn => conns[to].torn \/ conns[to].half # ""
        /\ got1.peer = conns[to].peer /\ got1.shut = conns[to].shut
        /\ got1.wire = conns[to].wire /\ got1.sent = conns[to].sent
        /\ got1.handled = conns[to].handled
    BY <1>3, FirstPiece, ZenonT(120)
  <1>8. /\ got2 \in ConnRec /\ got2.half = ""
        /\ got2.torn => conns[to].torn \/ conns[to].half # t
        /\ got2.peer = conns[to].peer /\ got2.shut = conns[to].shut
        /\ got2.wire = conns[to].wire /\ got2.sent = conns[to].sent
        /\ got2.handled = conns[to].handled
    <2>1. conns[to] \in ConnRec /\ out[t].frame \in Frames
      BY <1>3
    <2> QED BY <2>1, LastPiece, ZenonT(120)
  <1> HIDE DEF got1, got2
  <1>5. CASE out[t].pc = "lock" /\ ~Refused(to)
    <2>1. /\ out' = [out EXCEPT ![t].pc = "half"] /\ mutex' = t
          /\ conns' = IF conns[to].peer = "up"
                      THEN [conns EXCEPT ![to] = got1] ELSE conns
      BY <1>5 DEF Write, Written, got1
    <2>2. /\ out' \in [Threads -> SendRec] /\ out'[t].pc = "half" /\ out'[t].to = to
          /\ \A u \in Threads \ {t} : out'[u] = out[u]
      BY <1>2, <1>3, <2>1 DEF SendRec
    <2>3. conns' \in [Conns -> ConnRec]
      BY <1>3, <1>7, <1>8, <2>1
    <2>4. \A c \in Conns : /\ conns'[c].handled = conns[c].handled
                           /\ conns'[c].wire = conns[c].wire /\ conns'[c].sent = conns[c].sent
                           /\ conns'[c].peer = conns[c].peer /\ conns'[c].shut = conns[c].shut
      BY <1>3, <1>7, <1>8, <2>1
    <2>5. \A c \in Conns : conns[c].peer = "up" /\ ~conns[c].shut => conns[c].half = ""
      <3>1. \A u \in Threads : out[u].pc # "half"
        BY <1>2, <1>5
      <3>2. \A c \in Conns : conns[c].peer = "up" /\ ~conns[c].shut =>
               \A u \in Threads : conns[c].half # u
        <4> SUFFICES ASSUME NEW c \in Conns, conns[c].peer = "up", ~conns[c].shut,
                            NEW u \in Threads
                     PROVE  conns[c].half # u
          OBVIOUS
        <4>1. FramesMatch
          BY <1>4
        <4>2. conns[c].half = u <=> (out[u].pc = "half" /\ out[u].to = c)
          BY <4>1 DEF FramesMatch
        <4> QED BY <3>1, <4>2
      <3> QED BY <1>4, <3>2
    <2>6. ~Refused(to) => ~conns[to].shut
      BY DEF Refused
    <2>7. FramesMatch' /\ FramesWhole'
      <3>1. CASE conns[to].peer = "up"
        <4>1. /\ conns'[to].half = t /\ ~conns'[to].torn
              /\ \A c \in Conns \ {to} : conns'[c] = conns[c]
          BY <1>3, <1>4, <1>5, <1>7, <2>1, <2>5, <2>6, <3>1 DEF FramesWhole
        <4>2. FramesWhole'
          BY <1>4, <4>1 DEF FramesWhole
        <4>3. ASSUME NEW c \in Conns, conns'[c].peer = "up", ~conns'[c].shut, NEW u \in Threads
              PROVE  conns'[c].half = u <=> (out'[u].pc = "half" /\ out'[u].to = c)
          <5>1. \A v \in Threads : out'[v].pc = "half" <=> v = t
            BY <1>2, <1>5, <2>2
          <5>2. c # to => conns'[c].half = "" /\ u # ""
            BY <1>3, <2>4, <2>5, <4>1, <4>3
          <5> QED BY <2>2, <4>1, <5>1, <5>2
        <4> QED BY <4>2, <4>3 DEF FramesMatch
      <3>2. CASE conns[to].peer # "up"
        <4>1. conns' = conns
          BY <2>1, <3>2
        <4>2. ASSUME NEW c \in Conns, conns'[c].peer = "up", ~conns'[c].shut, NEW u \in Threads
              PROVE  conns'[c].half = u <=> (out'[u].pc = "half" /\ out'[u].to = c)
          <5>1. conns'[c].half = "" /\ u # "" /\ c # to
            BY <1>3, <2>5, <3>2, <4>1, <4>2
          <5>2. out'[u].pc = "half" => u = t
            BY <1>2, <1>5, <2>2
          <5> QED BY <2>2, <5>1, <5>2
        <4> QED BY <1>4, <4>1, <4>2 DEF FramesMatch, FramesWhole
      <3> QED BY <3>1, <3>2
    <2> QED
      <3>1. \A u \in Threads : out'[u].pc = "half" <=> mutex' = u
        BY <1>2, <1>5, <2>1, <2>2
      <3>2. TypeOK'
        <4>1. \A c \in Conns : conns'[c].peer \in {"none", "up", "fin", "dead", "reset"}
          BY <2>3 DEF ConnRec
        <4> QED BY <1>1, <2>1, <3>1, <4>1 DEF IInv, TypeOK, world, Threads
      <3>3. Types' /\ Senders'
        BY <1>1, <2>2, <2>3 DEF IInv, Types, Senders, Done, Connected, world, Threads
      <3>4. HandledSoFar' /\ Holds' /\ (Connected => UnderWay)'
        <4>1. /\ conns'["old"].handled = << >> /\ conns'["now"].handled = My.handled
              /\ conns'["now"].wire = My.wire /\ conns'["now"].sent = My.sent
              /\ conns'["now"].peer = "up" => My.peer = "up"
          BY <2>4 DEF IInv, HandledSoFar, My, Conns
        <4>2. run.pc # "poll" => run.expect = 0 /\ run.prefix = 0
          BY DEF IInv, Holds
        <4> QED BY <1>1, <4>1, <4>2, ReadKept DEF IInv, world, Connected
      <3> QED BY <2>7, <3>2, <3>3, <3>4 DEF IInv
  <1>6. CASE ~(out[t].pc = "lock" /\ ~Refused(to))
    <2>1. /\ out' = [out EXCEPT ![t] = NotSending] /\ mutex' = "none"
          /\ conns' = IF to = "old" THEN [conns EXCEPT !["old"] = NoConn]
                      ELSE IF conns[to].peer = "up" /\ ~Refused(to)
                           THEN [conns EXCEPT ![to] = got2] ELSE conns
      BY <1>6 DEF Write, Written, got2
    <2>2. /\ out' \in [Threads -> SendRec] /\ out'[t].pc = "idle"
          /\ \A u \in Threads \ {t} : out'[u] = out[u]
          /\ \A u \in Threads : out'[u].pc # "half"
      BY <1>1, <1>2, <1>3, <2>1 DEF SendRec, NotSending
    <2>3. conns' \in [Conns -> ConnRec]
      BY <1>3, <1>7, <1>8, <2>1
    <2>4. /\ \A c \in Conns : conns'[c].torn => conns[c].torn \/ (c = to /\ conns[c].half # t
                                    /\ conns[c].peer = "up" /\ ~Refused(c))
          /\ \A c \in Conns : conns'[c].peer = "up" /\ ~conns'[c].shut =>
                /\ conns[c].peer = "up" /\ ~conns[c].shut
                /\ conns'[c].half = "" \/ (c # to /\ conns'[c].half = conns[c].half)
      BY <1>3, <1>8, <2>1 DEF NoConn, Conns, Refused
    <2>5. \A c \in Conns : conns[c].peer = "up" /\ ~Refused(c) => ~conns[c].shut
      BY DEF Refused
    <2>6. FramesWhole'
      <3>1. conns[to].peer = "up" /\ ~Refused(to) => conns[to].half = t
        BY <1>1, <1>3, <1>4, <1>6, <2>5 DEF FramesMatch
      <3> QED BY <1>4, <2>4, <3>1 DEF FramesWhole
    <2>7. FramesMatch'
      <3>1. ASSUME NEW c \in Conns, conns'[c].peer = "up", ~conns'[c].shut
            PROVE  conns'[c].half = ""
        <4>1. conns[c].peer = "up" /\ ~conns[c].shut
              /\ (conns'[c].half = "" \/ (c # to /\ conns'[c].half = conns[c].half))
          BY <2>4, <3>1
        <4>2. c # to => conns[c].half = ""
          <5>1. \A u \in Threads : ~(out[u].pc = "half" /\ out[u].to = c) \/ c = to
            BY <1>1, <1>2
          <5> QED BY <1>4, <4>1, <5>1, ZenonT(120) DEF FramesMatch
        <4> QED BY <4>1, <4>2
      <3> QED BY <1>3, <2>2, <3>1 DEF FramesMatch
    <2> QED
      <3>1. TypeOK'
        <4>1. \A c \in Conns : conns'[c].peer \in {"none", "up", "fin", "dead", "reset"}
          BY <2>3 DEF ConnRec
        <4>2. mutex' \notin Threads
          BY <2>1 DEF Threads
        <4> QED BY <1>1, <2>1, <2>2, <4>1, <4>2 DEF IInv, TypeOK, world
      <3>2. Types' /\ Senders'
        BY <1>1, <2>2, <2>3 DEF IInv, Types, Senders, Done, Connected, world, Threads
      <3>3. HandledSoFar' /\ Holds' /\ (Connected => UnderWay)'
        <4>1. /\ conns'["old"].handled = << >> /\ conns'["now"].handled = My.handled
              /\ conns'["now"].wire = My.wire /\ conns'["now"].sent = My.sent
              /\ conns'["now"].peer = "up" => My.peer = "up"
          BY <1>3, <1>8, <2>1 DEF IInv, HandledSoFar, My, Conns, NoConn
        <4>2. run.pc # "poll" => run.expect = 0 /\ run.prefix = 0
          BY DEF IInv, Holds
        <4> QED BY <1>1, <4>1, <4>2, ReadKept DEF IInv, world, Connected
      <3> QED BY <2>6, <2>7, <3>1, <3>2, <3>3 DEF IInv
  <1> QED BY <1>5, <1>6

-----------------------------------------------------------------------------
(* run(): the connection's lifecycle.                                      *)

\* The reader gives up the connection it reads from, if any, with or without
\* having taken something from it.
LEMMA LeaveStep ==
    ASSUME IInv, UNCHANGED << world, sock, out, mutex, stopper >>, Done("reader"),
           NEW pc \in {"start", "discover", "connect", "backoff", "over"}, run' = At(pc),
           conns' \in [Conns -> ConnRec],
           \A c \in Conns : /\ conns'[c].peer = conns[c].peer /\ conns'[c].shut = conns[c].shut
                            /\ conns'[c].half = conns[c].half
                            /\ conns'[c].torn = conns[c].torn
                            /\ conns'[c].handled = conns[c].handled
    PROVE  IInv'
  <1>1. run' \in RunRec /\ run'.pc = pc
    BY AtType DEF RunPc
  <1>2. /\ run'.prefix = 0 /\ run'.expect = 0 /\ run'.buf = << >>
        /\ script' = script /\ lms' = lms /\ outages' = outages /\ stream' = stream
    BY DEF At, world
  <1>3. TypeOK'
    <2>1. Len(run'.buf) <= run'.expect /\ run'.prefix < Prefix
      BY <1>2, EmptySeq DEF Prefix
    <2>2. \A c \in Conns : conns'[c].peer \in {"none", "up", "fin", "dead", "reset"}
      BY DEF ConnRec
    <2>3. run'.pc \in RunPc /\ run'.pc \notin {"greet", "poll", "handler"}
      BY <1>1 DEF RunPc
    <2> QED BY <1>2, <2>1, <2>2, <2>3 DEF IInv, TypeOK, RunPc
  <1>4. Types' /\ Senders'
    BY <1>1, <1>2 DEF IInv, Types, Senders, Done
  <1>5. FramesMatch' /\ FramesWhole'
    BY FramesKept DEF IInv
  <1>6. HandledSoFar' /\ Holds' /\ (Connected => UnderWay)'
    <2>1. conns'["old"].handled = << >> /\ conns'["now"].handled = My.handled
      BY DEF IInv, HandledSoFar, My, Conns
    <2> QED BY <1>2, <2>1, ReadLeft DEF IInv
  <1> QED BY <1>3, <1>4, <1>5, <1>6 DEF IInv

\* The loop's head, the discovery, the retry delay, the greeting sent, and the
\* end of the read loop.
LEMMA RunStep ==
    ASSUME IInv, LoopHead \/ Discover \/ Backoff \/ Greet \/ Leave
    PROVE  IInv'
  <1>1. /\ out \in [Threads -> SendRec] /\ run \in RunRec /\ Senders /\ Holds
        /\ stopper \in {"none", "bye", "join", "done"} /\ conns \in [Conns -> ConnRec]
    BY DEF IInv, TypeOK, Types
  <1>2. CASE LoopHead
    <2>1. /\ Done("reader") /\ UNCHANGED << world, conns, sock, out, mutex, stopper >>
          /\ run' = At("over") \/ run' = At("connect") \/ run' = At("discover")
      BY <1>1, <1>2 DEF LoopHead, Senders, Connected
    <2> QED BY <1>1, <2>1, LeaveStep
  <1>3. CASE Discover
    <2>1. /\ Done("reader") /\ UNCHANGED << world, conns, sock, out, mutex, stopper >>
          /\ run' = At("connect") \/ run' = At("backoff")
      BY <1>1, <1>3 DEF Discover, Senders, Connected
    <2> QED BY <1>1, <2>1, LeaveStep
  <1>4. CASE Backoff
    <2>1. /\ Done("reader") /\ UNCHANGED << world, conns, sock, out, mutex, stopper >>
          /\ run' = At("start")
      BY <1>1, <1>4 DEF Backoff, Senders, Connected
    <2> QED BY <1>1, <2>1, LeaveStep
  <1>5. CASE Leave
    <2>1. /\ Done("reader") /\ UNCHANGED << world, conns, sock, out, mutex, stopper >>
          /\ run' = At("start")
      BY <1>5 DEF Leave, Polling
    <2> QED BY <1>1, <2>1, LeaveStep
  <1>6. CASE Greet
    <2>1. /\ run.pc = "greet" /\ run' = At("poll")
          /\ UNCHANGED << lms, outages, script, stream, conns, sock, out, mutex, stopper >>
      BY <1>6 DEF Greet, world
    <2>2. /\ run' \in RunRec /\ run'.expect = run.expect /\ run'.prefix = run.prefix
          /\ run'.buf = run.buf /\ run'.pc = "poll"
      BY <1>1, <2>1, AtType DEF Holds, At, RunPc
    <2>3. Senders' /\ Connected
      BY <1>1, <2>1, <2>2 DEF Senders, Connected, Done
    <2> QED BY <1>1, <2>1, <2>2, <2>3, BeginStep
  <1> QED BY <1>2, <1>3, <1>4, <1>5, <1>6

\* A stop shuts the connection down, and ends when the reader has.
LEMMA StopStep ==
    ASSUME IInv, Disconnect \/ Joined
    PROVE  IInv'
  <1>1. /\ out \in [Threads -> SendRec] /\ run \in RunRec /\ Senders /\ Holds
        /\ sock \in {"none", "now"} /\ conns \in [Conns -> ConnRec]
    BY DEF IInv, TypeOK, Types
  <1>2. CASE Disconnect
    <2>1. /\ stopper = "bye" /\ stopper' = "join" /\ conns' = ShutDown
          /\ UNCHANGED << world, sock, run, known, reconnect, out, mutex >>
      BY <1>2 DEF Disconnect
    <2>2. \A c \in Conns : /\ conns'[c] \in ConnRec /\ conns'[c].peer = conns[c].peer
                           /\ ~conns'[c].shut => ~conns[c].shut
                           /\ conns'[c].half = conns[c].half /\ conns'[c].torn = conns[c].torn
                           /\ conns'[c].handled = conns[c].handled
                           /\ conns'[c].wire = conns[c].wire /\ conns'[c].sent = conns[c].sent
      <3>1. CASE sock = "none"
        BY <1>1, <2>1, <3>1 DEF ShutDown
      <3>2. CASE sock # "none"
        BY <1>1, <2>1, <3>2, ZenonT(120) DEF ShutDown, ConnRec
      <3> QED BY <3>1, <3>2
    <2>3. conns' \in [Conns -> ConnRec]
      <3>1. CASE sock = "none"
        BY <1>1, <2>1, <3>1 DEF ShutDown
      <3>2. CASE sock # "none"
        BY <1>1, <2>1, <2>2, <3>2 DEF ShutDown
      <3> QED BY <3>1, <3>2
    <2>4. /\ script' = script /\ lms' = lms /\ outages' = outages /\ stream' = stream
      BY <2>1 DEF world
    <2>5. TypeOK'
      <3>1. \A c \in Conns : conns'[c].peer \in {"none", "up", "fin", "dead", "reset"}
        BY <2>2 DEF ConnRec
      <3> QED BY <2>1, <2>4, <3>1 DEF IInv, TypeOK
    <2>6. Types' /\ Senders'
      BY <2>1, <2>3, <2>4 DEF IInv, Types, Senders, Done, Connected
    <2>7. FramesMatch' /\ FramesWhole'
      BY <2>1, <2>2, FramesKept DEF IInv
    <2>8. HandledSoFar' /\ Holds' /\ (Connected => UnderWay)'
      <3>1. /\ conns'["old"].handled = << >> /\ conns'["now"].handled = My.handled
            /\ conns'["now"].wire = My.wire /\ conns'["now"].sent = My.sent
            /\ conns'["now"].peer = "up" => My.peer = "up"
        BY <2>2 DEF IInv, HandledSoFar, My, Conns
      <3>2. /\ run.pc # "poll" => run.expect = 0 /\ run.prefix = 0
            /\ Connected' => Connected
        BY <1>1, <2>1 DEF Holds, Connected
      <3> QED BY <2>1, <2>4, <3>1, <3>2, ReadKept DEF IInv
    <2> QED BY <2>5, <2>6, <2>7, <2>8 DEF IInv
  <1>3. CASE Joined
    <2>1. /\ stopper = "join" /\ run.pc = "over" /\ stopper' = "done" /\ sock' = "none"
          /\ UNCHANGED << world, conns, run, known, reconnect, out, mutex >>
      BY <1>3 DEF Joined
    <2>2. /\ script' = script /\ lms' = lms /\ outages' = outages /\ stream' = stream
      BY <2>1 DEF world
    <2>3. TypeOK'
      BY <2>1, <2>2 DEF IInv, TypeOK
    <2>4. Types' /\ Senders'
      BY <2>1, <2>2 DEF IInv, Types, Senders, Done, Connected
    <2>5. FramesMatch' /\ FramesWhole'
      BY <2>1, FramesKept DEF IInv
    <2>6. HandledSoFar' /\ Holds' /\ (Connected => UnderWay)'
      <3>1. /\ run.pc # "poll" => run.expect = 0 /\ run.prefix = 0
            /\ Connected' => Connected
        BY <1>1, <2>1 DEF Holds, Connected
      <3> QED BY <2>1, <2>2, <3>1, ReadKept DEF IInv, HandledSoFar, My
    <2> QED BY <2>3, <2>4, <2>5, <2>6 DEF IInv
  <1> QED BY <1>2, <1>3

\* A new connection takes the place of sock_: the one before it stays for the
\* thread that is in the middle of a frame to it, and there is at most one.
LEMMA ConnectStep ==
    ASSUME IInv, Connect
    PROVE  IInv'
  <1> DEFINE onNow == \E t \in Holding : out[t].to = "now"
             kept == IF onNow THEN conns["now"] ELSE IF Holding # {} THEN conns["old"] ELSE NoConn
             frame == IF reconnect THEN "HELO again" ELSE "HELO"
             helo == [pc |-> "lock", frame |-> frame, to |-> "now"]
             fresh == [NoConn EXCEPT !.peer = "up"]
             old == [kept EXCEPT !.wire = << >>, !.handled = << >>]
  <1>1. /\ out \in [Threads -> SendRec] /\ run \in RunRec /\ Senders /\ Holds
        /\ conns \in [Conns -> ConnRec] /\ FramesMatch /\ FramesWhole
    BY DEF IInv, Types
  <1>2. /\ run.pc = "connect" /\ Done("reader")
        /\ UNCHANGED << world, known, reconnect, mutex, stopper >>
    BY <1>1 DEF Connect, Senders, Connected
  <1>3. CASE lms # "up"
    <2>1. run' = At("backoff") /\ UNCHANGED << conns, sock, out >>
      BY <1>3 DEF Connect
    <2> QED BY <1>1, <1>2, <2>1, LeaveStep
  <1>4. CASE lms = "up"
    <2>1. /\ conns' = [c \in Conns |-> IF c = "now" THEN fresh ELSE old]
          /\ out' = [t \in Threads |-> IF t = "reader" THEN helo
                                       ELSE IF t \in Holding THEN [out[t] EXCEPT !.to = "old"]
                                       ELSE out[t]]
          /\ sock' = "now" /\ run' = At("greet")
      BY <1>4 DEF Connect, Helo
    <2>2. /\ << >> \in Seq(UnitRec) /\ << >> \in Seq(Seq(UnitRec)) /\ Len(<< >>) = 0
          /\ NoConn \in ConnRec
      <3>1. << >> \in Seq(UnitRec) /\ << >> \in Seq(Seq(UnitRec)) /\ Len(<< >>) = 0
        BY EmptySeq
      <3> QED BY <3>1 DEF NoConn, ConnRec, Halves, Frames
    <2>3. /\ fresh \in ConnRec /\ fresh.peer = "up" /\ fresh.half = "" /\ ~fresh.torn
          /\ fresh.handled = << >> /\ fresh.wire = << >> /\ fresh.sent = 0
      BY <2>2 DEF NoConn, ConnRec
    <2>4. kept \in ConnRec /\ ~kept.torn
      <3>1. /\ conns["now"] \in ConnRec /\ conns["old"] \in ConnRec
            /\ ~conns["now"].torn /\ ~conns["old"].torn /\ ~NoConn.torn
        BY <1>1 DEF FramesWhole, NoConn, Conns
      <3> QED BY <2>2, <3>1
    <2> HIDE DEF kept, fresh
    <2>5. /\ old \in ConnRec /\ ~old.torn /\ old.handled = << >>
          /\ old.half = kept.half /\ old.peer = kept.peer /\ old.shut = kept.shut
      BY <2>2, <2>4 DEF ConnRec
    <2> HIDE DEF old
    <2>6. conns'["now"] = fresh /\ conns'["old"] = old /\ conns' \in [Conns -> ConnRec]
      BY <2>1, <2>3, <2>5 DEF Conns
    <2>7. \A t \in Threads : /\ t \in Holding <=> out[t].pc # "idle"
                             /\ t \in Holding => out[t] \in [pc : {"lock", "half"},
                                                             frame : Frames, to : Conns]
      <3> SUFFICES ASSUME NEW t \in Threads
                   PROVE  /\ t \in Holding <=> out[t].pc # "idle"
                          /\ t \in Holding => out[t] \in [pc : {"lock", "half"},
                                                          frame : Frames, to : Conns]
        OBVIOUS
      <3>1. t \in Holding <=> out[t].to # "none"
        BY DEF Holding
      <3>2. out[t] \in [pc : {"lock", "half"}, frame : Frames, to : Conns]
            \/ out[t] = NotSending
        BY <1>1 DEF SendRec
      <3>3. NotSending.pc = "idle" /\ NotSending.to = "none"
        BY DEF NotSending
      <3>4. out[t] \in [pc : {"lock", "half"}, frame : Frames, to : Conns]
            => out[t].pc # "idle" /\ out[t].to # "none"
        BY DEF Conns
      <3> QED BY <3>1, <3>2, <3>3, <3>4
    <2>8. \A t \in Threads : \/ t = "reader" /\ out'[t] = helo
                             \/ /\ t # "reader" /\ t \in Holding
                                /\ out'[t] = [out[t] EXCEPT !.to = "old"]
                             \/ t # "reader" /\ t \notin Holding /\ out'[t] = out[t]
      BY <2>1
    <2>9. /\ out' \in [Threads -> SendRec]
          /\ \A t \in Threads \ {"reader"} :
                /\ out'[t].pc = out[t].pc
                /\ t \in Holding => out'[t].to = "old"
                /\ t \notin Holding => out'[t].pc = "idle"
          /\ out'["reader"].pc = "lock" /\ out'["reader"].to = "now"
      <3>1. helo \in SendRec
        BY DEF SendRec, Frames, Conns
      <3>2. \A t \in Holding \ {"reader"} :
               /\ [out[t] EXCEPT !.to = "old"] \in SendRec
               /\ [out[t] EXCEPT !.to = "old"].pc = out[t].pc
               /\ [out[t] EXCEPT !.to = "old"].to = "old"
        <4> SUFFICES ASSUME NEW t \in Holding \ {"reader"}
                     PROVE  /\ [out[t] EXCEPT !.to = "old"] \in SendRec
                            /\ [out[t] EXCEPT !.to = "old"].pc = out[t].pc
                            /\ [out[t] EXCEPT !.to = "old"].to = "old"
          OBVIOUS
        <4>1. out[t] \in [pc : {"lock", "half"}, frame : Frames, to : Conns]
          BY <2>7 DEF Holding
        <4> QED BY <4>1 DEF SendRec, Conns
      <3>3. \A t \in Threads : out'[t] \in SendRec
        BY <1>1, <2>8, <3>1, <3>2
      <3>4. out' = [t \in Threads |-> out'[t]]
        BY <2>1
      <3>5. out' \in [Threads -> SendRec]
        BY <3>3, <3>4
      <3>6. "reader" \in Threads /\ out'["reader"] = helo
        BY <2>8 DEF Threads
      <3>7. \A t \in Threads \ {"reader"} :
                /\ out'[t].pc = out[t].pc
                /\ t \in Holding => out'[t].to = "old"
                /\ t \notin Holding => out'[t].pc = "idle"
        BY <2>7, <2>8, <3>2
      <3>8. helo.pc = "lock" /\ helo.to = "now"
        OBVIOUS
      <3> HIDE DEF helo
      <3> QED BY <3>5, <3>6, <3>7, <3>8
    <2>10. run' \in RunRec /\ run'.pc = "greet" /\ run'.expect = 0 /\ run'.prefix = 0
           /\ run'.buf = << >>
      BY <2>1, AtType DEF RunPc, At
    <2>11. /\ script' = script /\ lms' = lms /\ outages' = outages /\ stream' = stream
      BY <1>2 DEF world
    <2>12. TypeOK'
      <3>1. \A c \in Conns : conns'[c].peer \in {"none", "up", "fin", "dead", "reset"}
        BY <2>6 DEF ConnRec
      <3>2. \A t \in Threads : out'[t].pc = "half" <=> out[t].pc = "half"
        BY <1>2, <2>9 DEF Done
      <3>3. \A t \in Threads : out'[t].pc = "half" <=> mutex' = t
        BY <1>2, <3>2 DEF IInv, TypeOK
      <3>4. run'.prefix < Prefix /\ Len(run'.buf) <= run'.expect
        BY <2>2, <2>10 DEF Prefix
      <3>5. run'.pc \in RunPc
        BY <2>10 DEF RunPc
      <3> QED BY <1>2, <2>1, <2>11, <3>1, <3>3, <3>4, <3>5 DEF IInv, TypeOK, RunPc
    <2>13. Types' /\ Senders'
      <3>1. Types'
        BY <2>6, <2>9, <2>10, <2>11 DEF IInv, Types
      <3>2. Senders'
        BY <1>1, <1>2, <2>9, <2>10, <2>11 DEF Senders, Done, Connected, Threads
      <3> QED BY <3>1, <3>2
    <2>14. FramesWhole'
      BY <2>3, <2>5, <2>6 DEF FramesWhole, Conns
    <2>15. FramesMatch'
      <3>1. ASSUME NEW u \in Threads
            PROVE  conns'["now"].half = u <=> (out'[u].pc = "half" /\ out'[u].to = "now")
        <4>1. conns'["now"].half # u
          BY <2>3, <2>6 DEF Threads
        <4>2. out'[u].pc = "half" => out'[u].to # "now"
          BY <2>9
        <4> QED BY <4>1, <4>2
      <3>2. \A s, t \in Holding : s = t
        <4>1. \A t \in Holding : t \in {"stream", "stopper"} /\ ~Done(t)
          BY <1>2, <2>7 DEF Holding, Threads, Done
        <4> QED BY <1>1, <4>1 DEF Senders
      <3>3. ASSUME conns'["old"].peer = "up", ~conns'["old"].shut, NEW u \in Threads
            PROVE  conns'["old"].half = u <=> (out'[u].pc = "half" /\ out'[u].to = "old")
        <4>1. kept.peer = "up" /\ ~kept.shut /\ conns'["old"].half = kept.half
          BY <2>5, <2>6, <3>3
        <4>2. out'[u].pc = "half" /\ out'[u].to = "old" <=> out[u].pc = "half"
          BY <1>2, <2>7, <2>9 DEF Done
        <4>3. out[u].pc = "half" => u \in Holding
          BY <2>7
        <4>4. CASE onNow
          <5>1. PICK t \in Holding : out[t].to = "now"
            BY <4>4
          <5>2. kept = conns["now"]
            BY <4>4 DEF kept
          <5>3. kept.half = u <=> (out[u].pc = "half" /\ out[u].to = "now")
            BY <1>1, <4>1, <5>2 DEF FramesMatch, Conns
          <5>4. u \in Holding => out[u].to = "now"
            BY <3>2, <5>1
          <5> QED BY <4>1, <4>2, <4>3, <5>3, <5>4
        <4>5. CASE ~onNow /\ Holding # {}
          <5>1. kept = conns["old"]
            BY <4>5 DEF kept
          <5>2. kept.half = u <=> (out[u].pc = "half" /\ out[u].to = "old")
            BY <1>1, <4>1, <5>1 DEF FramesMatch, Conns
          <5>3. u \in Holding => out[u].to = "old"
            <6>1. u \in Holding => out[u].to # "now" /\ out[u].to \in Conns
              BY <2>7, <4>5
            <6> QED BY <6>1 DEF Conns
          <5> QED BY <4>1, <4>2, <4>3, <5>2, <5>3
        <4>6. CASE ~onNow /\ Holding = {}
          BY <4>1, <4>6 DEF kept, NoConn
        <4> QED BY <4>4, <4>5, <4>6
      <3> QED BY <3>1, <3>3 DEF FramesMatch, Conns
    <2>16. HandledSoFar'
      <3>1. Len(script) \in Nat
        BY LenProperties DEF IInv, Types
      <3>2. conns'["old"].handled = << >> /\ My'.handled = << >> /\ Len(My'.handled) = 0
        BY <2>2, <2>3, <2>5, <2>6 DEF My
      <3> QED BY <2>11, <3>1, <3>2 DEF HandledSoFar
    <2>17. Holds'
      BY <2>2, <2>10 DEF Holds
    <2>18. UnderWay'
      <3>1. My'.wire = << >> /\ My'.sent = 0 /\ My'.handled = << >>
        BY <2>3, <2>6 DEF My
      <3>2. Here' = [packet |-> 0 + 1, at |-> 1]
        BY <2>2, <2>10, <3>1 DEF Here, Reading
      <3>3. Gapless(My.wire)'
        BY <2>2, <3>1 DEF Gapless
      <3>4. 0 <= Len(script')
        BY <2>11, LenProperties DEF IInv, Types
      <3> QED BY <3>1, <3>2, <3>3, <3>4 DEF UnderWay
    <2> QED BY <2>12, <2>13, <2>14, <2>15, <2>16, <2>17, <2>18 DEF IInv
  <1> QED BY <1>3, <1>4

-----------------------------------------------------------------------------
(* run(): the read loop.                                                   *)

\* The unit after the next n, none of which is of the next packet.
After(n) == IF Here.at + n <= Size(Reading) THEN [packet |-> Reading, at |-> Here.at + n]
            ELSE [packet |-> Reading + 1, at |-> 1]

\* What is under way begins with the packet the reader is in.
LEMMA NextUnits ==
    ASSUME IInv, Connected, NEW n \in 1 .. Len(My.wire), Here.at + n - 1 <= Size(Reading)
    PROVE  /\ Reading \in 1 .. Len(script) /\ Here.at \in Nat /\ Here.at > 0
           /\ \A j \in 1 .. n :
                 My.wire[j] = [packet |-> Reading, at |-> Here.at + (j - 1)]
           /\ n < Len(My.wire) => My.wire[n + 1] = After(n)
           /\ n = Len(My.wire) /\ My.peer = "up" => After(n) = [packet |-> My.sent + 1, at |-> 1]
  <1> DEFINE wire == My.wire
  <1>1. /\ script \in Seq(PacketRec) /\ My \in ConnRec /\ wire \in Seq(UnitRec) /\ UnderWay
        /\ run.prefix \in Nat /\ Len(run.buf) \in Nat
    <2>1. script \in Seq(PacketRec) /\ My \in ConnRec /\ run \in RunRec /\ UnderWay
      BY DEF IInv, Types, My, Conns
    <2>2. wire \in Seq(UnitRec) /\ run.buf \in Seq(UnitRec) /\ run.prefix \in Nat
      <3>1. wire \in Seq(UnitRec)
        BY <2>1 DEF ConnRec
      <3>2. run.buf \in Seq(UnitRec) /\ run.prefix \in 0 .. Prefix - 1
        BY <2>1 DEF RunRec
      <3>3. run.prefix \in Nat
        BY <3>2 DEF Prefix
      <3> QED BY <3>1, <3>2, <3>3
    <2> QED BY <2>1, <2>2, LenProperties
  <1>2. Len(wire) \in Nat /\ wire # << >> /\ n \in Nat /\ 1 \in 1 .. Len(wire)
    <2>1. Len(wire) \in Nat /\ n \in Nat /\ 1 \in 1 .. Len(wire)
      BY <1>1, LenProperties
    <2> QED BY <2>1, EmptySeq
  <1>3. wire[1] = Here /\ Here.packet = Reading
    BY <1>1, <1>2 DEF UnderWay, Here
  <1>4. /\ Reading \in 1 .. Len(script) /\ Here.at \in 1 .. Size(Reading)
        /\ Size(Reading) \in Nat
    <2>1. wire[1].packet \in 1 .. Len(script) /\ wire[1].at \in 1 .. Size(wire[1].packet)
      BY <1>1, <1>2 DEF UnderWay, Gapless
    <2>2. Reading \in 1 .. Len(script) /\ Here.at \in 1 .. Size(Reading)
      BY <1>3, <2>1
    <2> QED BY <1>1, <2>2, UnitsType
  <1> HIDE DEF wire
  <1>5. ASSUME NEW j \in 1 .. n
        PROVE  wire[j] = [packet |-> Reading, at |-> Here.at + (j - 1)]
    <2>1. /\ j - 1 \in 0 .. Len(wire) - 1 /\ 1 + (j - 1) = j
          /\ Here.at + (j - 1) <= Size(Reading)
      <3>1. n \in 1 .. Len(wire)
        BY DEF wire
      <3> HIDE DEF Here, Reading, Size
      <3> QED BY <1>2, <1>4, <3>1
    <2>2. wire[1].at + (j - 1) <= Size(wire[1].packet)
      BY <1>3, <2>1
    <2>3. wire[1 + (j - 1)] = [packet |-> wire[1].packet, at |-> wire[1].at + (j - 1)]
      BY <1>1, <1>2, <2>1, <2>2 DEF UnderWay, Gapless, wire
    <2> QED BY <1>3, <2>1, <2>3
  <1>6. wire[n] = [packet |-> Reading, at |-> Here.at + (n - 1)] /\ n \in 1 .. Len(wire)
    BY <1>2, <1>5 DEF wire
  <1>7. ASSUME n < Len(wire) PROVE wire[n + 1] = After(n)
    <2>1. CASE Here.at + n <= Size(Reading)
      <3>1. wire[1].at + n <= Size(wire[1].packet) /\ n \in 0 .. Len(wire) - 1
        BY <1>2, <1>3, <1>7, <2>1
      <3>2. wire[1 + n] = [packet |-> wire[1].packet, at |-> wire[1].at + n]
        BY <1>1, <1>2, <3>1 DEF UnderWay, Gapless, wire
      <3>3. 1 + n = n + 1
        BY <1>2
      <3> QED BY <1>3, <2>1, <3>2, <3>3 DEF After
    <2>2. CASE ~(Here.at + n <= Size(Reading))
      <3>1. Here.at + (n - 1) = Size(Reading)
        <4> HIDE DEF Here, Reading, Size
        <4> QED BY <1>2, <1>4, <2>2
      <3>2. wire[n].packet = Reading /\ wire[n].at = Size(Reading)
        BY <1>6, <3>1
      <3>3. n \in 1 .. Len(wire) - 1
        BY <1>2, <1>7, <1>6
      <3>4. wire[n + 1] = [packet |-> wire[n].packet + 1, at |-> 1]
        BY <1>1, <3>2, <3>3 DEF UnderWay, Gapless, wire
      <3> QED BY <2>2, <3>2, <3>4 DEF After
    <2> QED BY <2>1, <2>2
  <1>8. ASSUME n = Len(wire), My.peer = "up"
        PROVE  After(n) = [packet |-> My.sent + 1, at |-> 1]
    <2>1. wire[Len(wire)] = [packet |-> My.sent, at |-> Size(My.sent)]
      BY <1>1, <1>2, <1>8 DEF UnderWay, wire
    <2>2. Reading = My.sent /\ Here.at + (n - 1) = Size(My.sent)
      <3>1. [packet |-> My.sent, at |-> Size(My.sent)]
            = [packet |-> Reading, at |-> Here.at + (n - 1)]
        BY <1>6, <1>8, <2>1
      <3> HIDE DEF Size, Here, Reading
      <3> QED BY <3>1
    <2>3. ~(Here.at + n <= Size(Reading))
      <3>1. Here.at + (n - 1) = Size(Reading)
        BY <2>2
      <3> HIDE DEF Size, Here, Reading
      <3> QED BY <1>2, <1>4, <3>1
    <2> QED BY <2>2, <2>3 DEF After
  <1>9. Here.at \in Nat /\ Here.at > 0
    <2> HIDE DEF Here, Size
    <2> QED BY <1>4
  <1> QED BY <1>4, <1>5, <1>7, <1>8, <1>9 DEF wire

\* The reader takes the next n units.
LEMMA TakenStep ==
    ASSUME IInv, Connected, NEW n \in 1 .. Len(My.wire), Here.at + n - 1 <= Size(Reading),
           script' = script, Here' = After(n), My'.peer = My.peer, My'.sent = My.sent,
           My'.wire = SubSeq(My.wire, n + 1, Len(My.wire))
    PROVE  UnderWay'
  <1> DEFINE wire == My.wire
             rest == SubSeq(wire, n + 1, Len(wire))
  <1>1. wire \in Seq(UnitRec) /\ UnderWay /\ Gapless(wire)
    <2>1. My \in ConnRec /\ UnderWay
      BY DEF IInv, Types, My, Conns
    <2> QED BY <2>1 DEF ConnRec, UnderWay
  <1>2. Len(wire) \in Nat /\ n \in 0 .. Len(wire) /\ Len(wire) \in n .. Len(wire)
    <2>1. Len(wire) \in Nat
      BY <1>1, LenProperties
    <2>2. n \in 1 .. Len(wire)
      OBVIOUS
    <2> HIDE DEF wire
    <2> QED BY <2>1, <2>2
  <1>3. Gapless(rest)
    BY <1>1, <1>2, GaplessPart
  <1>4. /\ Len(rest) = Len(wire) - n /\ \A i \in 1 .. Len(wire) - n : rest[i] = wire[n + i]
        /\ rest = << >> <=> n = Len(wire)
    <2> DEFINE len == Len(wire)
    <2>1. wire \in Seq(UnitRec) /\ n \in 0 .. Len(wire) /\ len \in n .. Len(wire)
      BY <1>1, <1>2
    <2> HIDE DEF wire, len
    <2>2. Len(SubSeq(wire, n + 1, len)) = len - n
      BY <2>1, PartOf
    <2>3. \A i \in 1 .. len - n : SubSeq(wire, n + 1, len)[i] = wire[n + i]
      BY <2>1, PartOf
    <2>4. SubSeq(wire, n + 1, len) \in Seq(UnitRec)
      BY <2>1, PartOf
    <2>5. SubSeq(wire, n + 1, len) = << >> <=> len - n = 0
      BY <2>2, <2>4, EmptySeq
    <2>6. len - n = 0 <=> n = len
      BY <1>2 DEF len
    <2> QED BY <2>2, <2>3, <2>5, <2>6 DEF len
  <1>5. /\ n < Len(wire) => wire[n + 1] = After(n)
        /\ n = Len(wire) /\ My.peer = "up" => After(n) = [packet |-> My.sent + 1, at |-> 1]
    BY NextUnits
  <1>6. Gapless(My.wire)'
    <2>1. Gapless(My'.wire)
      BY <1>3
    <2> QED BY <2>1 DEF Gapless, Size
  <1> HIDE DEF rest
  <1>7. rest # << >> =>
           rest[1] = wire[n + 1] /\ rest[Len(rest)] = wire[Len(wire)] /\ wire # << >> /\ n < Len(wire)
    <2>1. ASSUME rest # << >>
          PROVE  rest[1] = wire[n + 1] /\ rest[Len(rest)] = wire[Len(wire)] /\ n < Len(wire)
      <3>1. n # Len(wire)
        BY <1>4, <2>1
      <3> HIDE DEF wire
      <3>2. /\ 1 \in 1 .. Len(wire) - n /\ Len(wire) - n \in 1 .. Len(wire) - n
            /\ n + (Len(wire) - n) = Len(wire) /\ n < Len(wire)
        BY <1>2, <3>1
      <3> QED BY <1>4, <3>2
    <2>2. n < Len(wire) => wire # << >>
      BY <1>2, EmptySeq
    <2> QED BY <2>1, <2>2
  <1>8. My'.wire = rest
    BY DEF rest
  <1>9. rest # << >> => rest[1] = Here'
    BY <1>5, <1>7
  <1>10. My.peer = "up" /\ rest = << >> => Here' = [packet |-> My.sent + 1, at |-> 1]
    BY <1>4, <1>5
  <1>11. My.peer = "up" => My.sent <= Len(script)
    BY <1>1 DEF UnderWay
  <1>12. My.peer = "up" /\ rest # << >> =>
            /\ My.sent \in 1 .. Len(script)
            /\ rest[Len(rest)] = [packet |-> My.sent, at |-> Size(My.sent)]
    BY <1>1, <1>7 DEF UnderWay
  <1>13. \A m : Size(m)' = Size(m')
    BY DEF Size
  <1> HIDE DEF wire
  <1> QED BY <1>6, <1>8, <1>9, <1>10, <1>11, <1>12 DEF UnderWay, Size

\* What a step of the reader in its loop leaves alone.
LEMMA ReadStep ==
    ASSUME IInv, run.pc = "poll", Done("reader"), UNCHANGED << world, sock, mutex, stopper >>,
           conns' \in [Conns -> ConnRec],
           \A c \in Conns : /\ conns'[c].peer = conns[c].peer /\ conns'[c].shut = conns[c].shut
                            /\ conns'[c].half = conns[c].half
                            /\ conns'[c].torn = conns[c].torn,
           run' \in RunRec, run'.pc \in {"poll", "handler"}, Len(run'.buf) <= run'.expect,
           out' \in [Threads -> SendRec],
           \A u \in Threads : out[u].pc = "half" \/ out'[u].pc = "half" => out'[u] = out[u],
           \A u \in Threads \ {"reader"} : out'[u] = out[u],
           HandledSoFar', Holds', UnderWay'
    PROVE  IInv'
  <1>1. script' = script /\ lms' = lms /\ outages' = outages /\ stream' = stream
    BY DEF world
  <1>2. TypeOK'
    <2>1. \A c \in Conns : conns'[c].peer \in {"none", "up", "fin", "dead", "reset"}
      BY DEF ConnRec
    <2>2. run'.prefix < Prefix
      <3>1. run'.prefix \in 0 .. Prefix - 1
        BY DEF RunRec
      <3> QED BY <3>1 DEF Prefix
    <2>3. \A t \in Threads : out'[t].pc = "half" <=> mutex' = t
      BY DEF IInv, TypeOK
    <2>4. sock' = "now"
      BY DEF IInv, TypeOK
    <2>5. run'.pc \in RunPc
      BY DEF RunPc
    <2> QED BY <1>1, <2>1, <2>2, <2>3, <2>4, <2>5 DEF IInv, TypeOK, RunPc
  <1>3. Types'
    BY <1>1 DEF IInv, Types
  <1>4. Senders'
    BY <1>1 DEF IInv, Senders, Connected, Done, Threads
  <1>5. FramesMatch' /\ FramesWhole'
    BY FramesKept DEF IInv
  <1> QED BY <1>2, <1>3, <1>4, <1>5 DEF IInv

\* Taking units changes nothing else of the connection.
LEMMA TakenType ==
    ASSUME conns \in [Conns -> ConnRec], NEW n \in 1 .. Len(My.wire)
    PROVE  /\ Taken(n) \in [Conns -> ConnRec] /\ Taken(n)["old"] = conns["old"]
           /\ Taken(n)["now"].wire = SubSeq(My.wire, n + 1, Len(My.wire))
           /\ Taken(n)["now"].handled = My.handled /\ Taken(n)["now"].sent = My.sent
           /\ Taken(n)["now"].peer = My.peer /\ Taken(n)["now"].shut = My.shut
           /\ Taken(n)["now"].half = My.half /\ Taken(n)["now"].torn = My.torn
  <1> DEFINE rest == SubSeq(My.wire, n + 1, Len(My.wire))
             mine == [My EXCEPT !.wire = rest]
  <1>1. My \in ConnRec /\ My.wire \in Seq(UnitRec)
    BY DEF My, Conns, ConnRec
  <1>2. rest \in Seq(UnitRec)
    <2>1. Len(My.wire) \in Nat /\ n \in 1 .. Len(My.wire)
      BY <1>1, LenProperties
    <2>2. n \in 0 .. Len(My.wire) /\ Len(My.wire) \in n .. Len(My.wire)
      <3> HIDE DEF My
      <3> QED BY <2>1
    <2> QED BY <1>1, <2>2, PartOf
  <1>3. Taken(n) = [conns EXCEPT !["now"] = mine]
    BY DEF Taken, My
  <1> HIDE DEF rest
  <1>4. /\ mine \in ConnRec /\ mine.wire = rest
        /\ mine.handled = My.handled /\ mine.sent = My.sent
        /\ mine.peer = My.peer /\ mine.shut = My.shut
        /\ mine.half = My.half /\ mine.torn = My.torn
    BY <1>1, <1>2 DEF ConnRec
  <1> HIDE DEF mine
  <1> QED BY <1>3, <1>4 DEF Conns, rest

\* The prefix of a packet is read, in one or two pieces.
LEMMA ReadPrefixStep ==
    ASSUME IInv, NEW n \in 1 .. Prefix, ReadPrefix(n)
    PROVE  IInv'
  <1>1. /\ run.pc = "poll" /\ Done("reader") /\ run.expect = 0
        /\ n \in 1 .. Prefix - run.prefix /\ n <= Len(My.wire)
        /\ conns' = Taken(n)
        /\ UNCHANGED << world, sock, known, reconnect, out, mutex, stopper >>
    BY DEF ReadPrefix, Polling
  <1>2. /\ conns \in [Conns -> ConnRec] /\ run \in RunRec /\ script \in Seq(PacketRec)
        /\ out \in [Threads -> SendRec] /\ HandledSoFar /\ Holds /\ Connected /\ script' = script
        /\ \A i \in 1 .. Len(script) : script[i].op # "bogus" => script[i].body > 0
    BY <1>1 DEF IInv, Types, Connected, world
  <1>3. run.prefix \in 0 .. 1 /\ run.prefix \in Nat /\ n \in 1 .. 2 - run.prefix /\ n \in Nat
    <2>1. run.prefix \in 0 .. Prefix - 1
      BY <1>2 DEF RunRec
    <2> QED BY <1>1, <2>1 DEF Prefix
  <1>4. n \in 1 .. Len(My.wire)
    <2>1. My.wire \in Seq(UnitRec)
      BY <1>2 DEF My, Conns, ConnRec
    <2>2. Len(My.wire) \in Nat
      BY <2>1, LenProperties
    <2> QED BY <1>1, <1>3, <2>2
  <1>5. /\ conns' \in [Conns -> ConnRec] /\ conns'["old"] = conns["old"]
        /\ My'.wire = SubSeq(My.wire, n + 1, Len(My.wire))
        /\ My'.handled = My.handled /\ My'.sent = My.sent
        /\ My'.peer = My.peer /\ My'.shut = My.shut
        /\ My'.half = My.half /\ My'.torn = My.torn
    BY <1>1, <1>2, <1>4, TakenType DEF My
  <1>6. \A c \in Conns : /\ conns'[c].peer = conns[c].peer /\ conns'[c].shut = conns[c].shut
                         /\ conns'[c].half = conns[c].half /\ conns'[c].torn = conns[c].torn
                         /\ conns'[c].handled = conns[c].handled
    BY <1>5 DEF My, Conns
  <1>7. /\ My.wire[1].packet = Reading /\ Reading \in 1 .. Len(script)
        /\ Size(Reading) \in Nat /\ Size(Reading) >= 2 /\ Here.at = 1 + run.prefix
        /\ Size(Reading) = 2 + script[Reading].body /\ script[Reading].body \in Nat
    <2>1. My.wire # << >> /\ 1 \in 1 .. Len(My.wire)
      <3>1. 1 \in 1 .. Len(My.wire)
        BY <1>3, <1>4
      <3> QED BY <3>1, EmptySeq
    <2>2. My.wire[1] = Here
      BY <1>2, <2>1 DEF IInv, UnderWay
    <2>3. Here.packet = Reading /\ Here.at = 1 + run.prefix
      BY <1>1 DEF Here
    <2>4. Reading \in 1 .. Len(script)
      <3>1. My.wire[1].packet \in 1 .. Len(script)
        BY <1>2, <2>1 DEF IInv, UnderWay, Gapless
      <3> QED BY <2>2, <2>3, <3>1
    <2>5. Size(Reading) \in Nat /\ Size(Reading) >= 2
      BY <1>2, <2>4, UnitsType DEF Prefix
    <2>6. script[Reading].body \in Nat
      <3>1. script[Reading] \in PacketRec
        BY <1>2, <2>4, ElementOfSeq
      <3> QED BY <3>1 DEF PacketRec
    <2>7. Size(Reading) = 2 + script[Reading].body
      BY DEF Size, Prefix
    <2> QED BY <2>2, <2>3, <2>4, <2>5, <2>6, <2>7
  <1>8. Here.at + n - 1 <= Size(Reading) /\ Here.at + n = 1 + (run.prefix + n)
    <2> HIDE DEF Here, Size, Reading
    <2> QED BY <1>3, <1>7
  <1>9. Reading' = Reading
    BY <1>5 DEF Reading
  <1>10. HandledSoFar'
    <2>1. conns'["old"].handled = << >>
      BY <1>2, <1>5 DEF HandledSoFar
    <2> QED BY <1>2, <1>5, <2>1 DEF HandledSoFar, Body, Units
  <1>11. ASSUME run' \in RunRec, run'.pc = "poll", Len(run'.buf) <= run'.expect, Holds',
                Here' = After(n)
         PROVE  IInv'
    <2>1. UnderWay'
      BY <1>2, <1>4, <1>5, <1>8, <1>11, TakenStep
    <2> QED BY <1>1, <1>2, <1>5, <1>6, <1>10, <1>11, <2>1, ReadStep
  <1> DEFINE p == script[Reading]
  <1>12. run' = IF run.prefix + n < 2 THEN [run EXCEPT !.prefix = @ + n]
                ELSE IF p.op = "bogus" THEN At("start")
                ELSE [run EXCEPT !.prefix = 0, !.expect = p.body, !.buf = << >>]
    BY <1>7 DEF ReadPrefix, Prefix
  <1>13. CASE run.prefix + n < 2
    <2>1. /\ run' \in RunRec /\ run'.pc = "poll" /\ run'.prefix = run.prefix + n
          /\ run'.expect = 0 /\ run'.buf = run.buf
      <3>1. run' = [run EXCEPT !.prefix = run.prefix + n]
        BY <1>12, <1>13
      <3>2. run.prefix + n \in 0 .. Prefix - 1
        BY <1>3, <1>13 DEF Prefix
      <3> QED BY <1>1, <1>2, <3>1, <3>2 DEF RunRec
    <2>2. Len(run'.buf) <= run'.expect /\ Holds'
      BY <1>1, <1>2, <2>1, EmptySeq DEF Holds
    <2>3. Here' = After(n)
      <3>1. Here' = [packet |-> Reading, at |-> 1 + (run.prefix + n)]
        BY <1>9, <2>1 DEF Here
      <3>2. Here.at + n <= Size(Reading)
        <4> HIDE DEF Here, Size, Reading
        <4> QED BY <1>3, <1>7, <1>8, <1>13
      <3> QED BY <1>8, <3>1, <3>2 DEF After
    <2> QED BY <1>11, <2>1, <2>2, <2>3
  <1>14. CASE ~(run.prefix + n < 2) /\ p.op = "bogus"
    <2>1. run' = At("start")
      BY <1>12, <1>14
    <2> QED BY <1>1, <1>5, <1>6, <2>1, LeaveStep
  <1>15. CASE ~(run.prefix + n < 2) /\ p.op # "bogus"
    <2>0. p.body \in Nat /\ p.body > 0
      BY <1>2, <1>7, <1>15
    <2>1. /\ run' \in RunRec /\ run'.pc = "poll" /\ run'.prefix = 0
          /\ run'.expect = p.body /\ run'.buf = << >>
      <3>1. run' = [run EXCEPT !.prefix = 0, !.expect = p.body, !.buf = << >>]
        BY <1>12, <1>15
      <3>2. 0 \in 0 .. Prefix - 1 /\ << >> \in Seq(UnitRec)
        BY EmptySeq DEF Prefix
      <3> HIDE DEF p
      <3> QED BY <1>1, <1>2, <2>0, <3>1, <3>2 DEF RunRec
    <2>2. Len(run'.buf) = 0 /\ Len(run'.buf) <= run'.expect /\ run'.expect # 0
      BY <2>0, <2>1, EmptySeq
    <2>3. Holds'
      <3>1. Reading' <= Len(script') /\ run'.expect = script'[Reading'].body
        BY <1>2, <1>7, <1>9, <2>1
      <3> QED BY <2>0, <2>1, <2>2, <3>1 DEF Holds
    <2>4. Here' = After(n)
      <3>1. run.prefix + n = 2
        BY <1>3, <1>15
      <3>2. Here' = [packet |-> Reading, at |-> 1 + (2 + 0)]
        BY <1>9, <2>1, <2>2 DEF Here, Prefix
      <3>3. Here.at + n = 1 + 2 /\ Here.at + n <= Size(Reading)
        <4> HIDE DEF Here, Size, Reading
        <4> QED BY <1>7, <1>8, <2>0, <3>1
      <3> QED BY <3>2, <3>3 DEF After
    <2> QED BY <1>11, <2>1, <2>2, <2>3, <2>4
  <1> QED BY <1>13, <1>14, <1>15

\* A body that begins with the packet's first unit and misses none is the packet's.
LEMMA WholeBody ==
    ASSUME script \in Seq(PacketRec), NEW r \in 1 .. Len(script), NEW buf \in Seq(UnitRec),
           Len(buf) = script[r].body,
           \A j \in 1 .. Len(buf) : buf[j] = [packet |-> r, at |-> Prefix + j]
    PROVE  buf = Body(r)
  <1>1. /\ Units(r) \in Seq(UnitRec) /\ Size(r) \in Nat /\ Size(r) >= 2
        /\ Len(Units(r)) = Size(r)
        /\ \A i \in 1 .. Size(r) : Units(r)[i] = [packet |-> r, at |-> i]
    BY UnitsType DEF Prefix
  <1>2. Len(buf) \in Nat /\ Size(r) = 2 + Len(buf)
    BY LenProperties DEF Size, Prefix
  <1>3. 2 \in 0 .. Len(Units(r)) /\ Size(r) \in 2 .. Len(Units(r)) /\ Size(r) - 2 = Len(buf)
    BY <1>1, <1>2
  <1>4. /\ SubSeq(Units(r), 2 + 1, Size(r)) \in Seq(UnitRec)
        /\ Len(SubSeq(Units(r), 2 + 1, Size(r))) = Size(r) - 2
        /\ \A i \in 1 .. Size(r) - 2 : SubSeq(Units(r), 2 + 1, Size(r))[i] = Units(r)[2 + i]
    <2> HIDE DEF Units, Size
    <2>1. SubSeq(Units(r), 2 + 1, Size(r)) \in Seq(UnitRec)
      BY <1>1, <1>3, PartOf
    <2>2. Len(SubSeq(Units(r), 2 + 1, Size(r))) = Size(r) - 2
      BY <1>1, <1>3, PartOf
    <2>3. \A i \in 1 .. Size(r) - 2 : SubSeq(Units(r), 2 + 1, Size(r))[i] = Units(r)[2 + i]
      BY <1>1, <1>3, PartOf
    <2> QED BY <2>1, <2>2, <2>3
  <1>5. Body(r) = SubSeq(Units(r), 2 + 1, Size(r))
    BY <1>1 DEF Body, Prefix
  <1>6. Body(r) \in Seq(UnitRec) /\ Len(Body(r)) = Len(buf)
    BY <1>3, <1>4, <1>5
  <1>7. ASSUME NEW i \in 1 .. Len(buf) PROVE Body(r)[i] = buf[i]
    <2>1. 2 + i \in 1 .. Size(r)
      BY <1>2
    <2>2. Body(r)[i] = Units(r)[2 + i]
      BY <1>3, <1>4, <1>5
    <2> QED BY <1>1, <2>1, <2>2 DEF Prefix
  <1> QED BY <1>6, <1>7, SeqEqual

\* Some of the body of a packet is read; the complete packet is processed.
LEMMA ReadBodyStep ==
    ASSUME IInv, run.pc = "poll", NEW n \in 1 .. run.expect, ReadBody(n)
    PROVE  IInv'
  <1> DEFINE buf == run.buf \o SubSeq(My.wire, 1, n)
             p   == script[buf[1].packet]
  <1>1. /\ Done("reader") /\ run.expect # 0
        /\ n \in 1 .. run.expect - Len(run.buf) /\ n <= Len(My.wire)
        /\ UNCHANGED << world, sock, known, reconnect, mutex, stopper >>
        /\ IF Len(buf) = run.expect
           THEN conns' = [Taken(n) EXCEPT !["now"].handled = Append(@, buf)] /\ process(p)
           ELSE conns' = Taken(n) /\ run' = [run EXCEPT !.buf = buf] /\ UNCHANGED out
    BY DEF ReadBody, InLoop, Polling, Complete
  <1>2. /\ conns \in [Conns -> ConnRec] /\ run \in RunRec /\ script \in Seq(PacketRec)
        /\ out \in [Threads -> SendRec] /\ HandledSoFar /\ Holds /\ Connected /\ script' = script
        /\ sock \in {"none"} \cup Conns
    BY <1>1 DEF IInv, TypeOK, Types, Connected, world, Conns
  <1>3. /\ run.expect \in Nat /\ run.buf \in Seq(UnitRec) /\ Len(run.buf) \in Nat
        /\ n \in Nat /\ n > 0 /\ n + Len(run.buf) <= run.expect
        /\ My.wire \in Seq(UnitRec) /\ Len(My.wire) \in Nat /\ n \in 1 .. Len(My.wire)
        /\ My.handled \in Seq(Seq(UnitRec)) /\ Len(My.handled) \in Nat
    <2>1. run.expect \in Nat /\ run.buf \in Seq(UnitRec)
      BY <1>2 DEF RunRec
    <2>2. My.wire \in Seq(UnitRec) /\ My.handled \in Seq(Seq(UnitRec))
      BY <1>2 DEF My, Conns, ConnRec
    <2>3. Len(run.buf) \in Nat /\ Len(My.wire) \in Nat /\ Len(My.handled) \in Nat
      BY <2>1, <2>2, LenProperties
    <2>4. n \in Nat /\ n > 0 /\ n + Len(run.buf) <= run.expect
      <3>1. n \in 1 .. run.expect - Len(run.buf)
        BY <1>1
      <3> QED BY <2>1, <2>3, <3>1
    <2>5. n \in 1 .. Len(My.wire)
      <3>1. n <= Len(My.wire)
        BY <1>1
      <3> HIDE DEF My
      <3> QED BY <2>3, <2>4, <3>1
    <2> QED BY <2>1, <2>2, <2>3, <2>4, <2>5
  <1>4. /\ Reading \in 1 .. Len(script) /\ run.expect = script[Reading].body
        /\ run.prefix = 0 /\ Size(Reading) = 2 + run.expect
        /\ Here = [packet |-> Reading, at |-> 1 + (2 + Len(run.buf))]
        /\ \A j \in 1 .. Len(run.buf) : run.buf[j] = [packet |-> Reading, at |-> 2 + j]
    <2>1. /\ Reading <= Len(script) /\ run.expect = script[Reading].body /\ run.prefix = 0
          /\ \A j \in 1 .. Len(run.buf) : run.buf[j] = [packet |-> Reading, at |-> 2 + j]
      BY <1>1, <1>2 DEF Holds, Prefix
    <2>2. Reading \in 1 .. Len(script)
      <3>1. Len(script) \in Nat
        BY <1>2, LenProperties
      <3> QED BY <1>3, <2>1, <3>1 DEF Reading
    <2>3. Here = [packet |-> Reading, at |-> 1 + (2 + Len(run.buf))]
      BY <1>1 DEF Here, Prefix
    <2>4. Size(Reading) = 2 + run.expect
      BY <2>1 DEF Size, Prefix
    <2> QED BY <2>1, <2>2, <2>3, <2>4
  <1>5. /\ Here.at = 3 + Len(run.buf) /\ Here.at + n - 1 <= Size(Reading)
        /\ Here.at + n = 3 + (Len(run.buf) + n)
    <2>1. Here.at = 3 + Len(run.buf)
      BY <1>3, <1>4
    <2>2. /\ Size(Reading) = 2 + run.expect /\ run.expect \in Nat /\ Len(run.buf) \in Nat
          /\ n \in Nat /\ n + Len(run.buf) <= run.expect
      BY <1>3, <1>4
    <2> HIDE DEF Here, Size, Reading
    <2> QED BY <2>1, <2>2
  <1>6. /\ buf \in Seq(UnitRec) /\ Len(buf) = Len(run.buf) + n /\ Len(buf) \in Nat
        /\ Len(buf) > 0 /\ Len(buf) <= run.expect
        /\ \A j \in 1 .. Len(buf) : buf[j] = [packet |-> Reading, at |-> 2 + j]
    <2> DEFINE piece == SubSeq(My.wire, 0 + 1, n)
    <2>1. 0 \in 0 .. Len(My.wire) /\ n \in 0 .. Len(My.wire)
      BY <1>3
    <2>2. piece \in Seq(UnitRec) /\ Len(piece) = n - 0
      <3> HIDE DEF My
      <3> QED BY <1>3, <2>1, PartOf
    <2>3. \A i \in 1 .. n - 0 : piece[i] = My.wire[0 + i]
      <3> HIDE DEF My
      <3> QED BY <1>3, <2>1, PartOf
    <2>4. /\ \A i \in 1 .. n :
                My.wire[i] = [packet |-> Reading, at |-> Here.at + (i - 1)]
      BY <1>2, <1>3, <1>5, NextUnits
    <2>5. \A i \in 1 .. n : piece[i] = [packet |-> Reading, at |-> 2 + (Len(run.buf) + i)]
      <3> SUFFICES ASSUME NEW i \in 1 .. n
                   PROVE  piece[i] = [packet |-> Reading, at |-> 2 + (Len(run.buf) + i)]
        OBVIOUS
      <3>1. piece[i] = My.wire[i]
        <4>1. i \in 1 .. n - 0 /\ 0 + i = i
          BY <1>3
        <4> HIDE DEF piece, My
        <4> QED BY <2>3, <4>1
      <3>2. Here.at + (i - 1) = 2 + (Len(run.buf) + i)
        BY <1>3, <1>5
      <3> HIDE DEF piece, My, Reading, Here
      <3> QED BY <2>4, <3>1, <3>2
    <2>6. buf = run.buf \o piece /\ Len(piece) = n
      BY <1>3, <2>2
    <2> HIDE DEF piece, buf
    <2>7. /\ buf \in Seq(UnitRec) /\ Len(buf) = Len(run.buf) + n
          /\ \A j \in 1 .. Len(run.buf) + n :
                buf[j] = IF j <= Len(run.buf) THEN run.buf[j] ELSE piece[j - Len(run.buf)]
      BY <1>3, <2>2, <2>6, ConcatProperties
    <2>8. ASSUME NEW j \in 1 .. Len(run.buf) + n
          PROVE  buf[j] = [packet |-> Reading, at |-> 2 + j]
      <3>1. CASE j <= Len(run.buf)
        <4>1. j \in 1 .. Len(run.buf)
          BY <1>3, <3>1
        <4> QED BY <1>4, <2>7, <3>1, <4>1
      <3>2. CASE ~(j <= Len(run.buf))
        <4>1. /\ j - Len(run.buf) \in 1 .. n
              /\ Len(run.buf) + (j - Len(run.buf)) = j
          BY <1>3, <3>2
        <4>2. piece[j - Len(run.buf)]
              = [packet |-> Reading, at |-> 2 + (Len(run.buf) + (j - Len(run.buf)))]
          BY <2>5, <4>1
        <4> HIDE DEF Reading
        <4> QED BY <2>7, <3>2, <4>1, <4>2
      <3> QED BY <3>1, <3>2
    <2> QED BY <1>3, <2>7, <2>8
  <1> HIDE DEF buf
  <1>7. /\ Taken(n) \in [Conns -> ConnRec] /\ Taken(n)["old"] = conns["old"]
        /\ Taken(n)["now"].wire = SubSeq(My.wire, n + 1, Len(My.wire))
        /\ Taken(n)["now"].handled = My.handled /\ Taken(n)["now"].sent = My.sent
        /\ Taken(n)["now"].peer = My.peer /\ Taken(n)["now"].shut = My.shut
        /\ Taken(n)["now"].half = My.half /\ Taken(n)["now"].torn = My.torn
    BY <1>2, <1>3, TakenType
  <1>8. CASE Len(buf) # run.expect
    <2>0. Len(buf) < run.expect
      <3>1. Len(buf) \in Nat /\ Len(buf) <= run.expect /\ run.expect \in Nat
        BY <1>3, <1>6
      <3> QED BY <1>8, <3>1
    <2>1. conns' = Taken(n) /\ run' = [run EXCEPT !.buf = buf] /\ UNCHANGED out
      BY <1>1, <1>8
    <2>2. /\ run' \in RunRec /\ run'.pc = "poll" /\ run'.prefix = 0
          /\ run'.expect = run.expect /\ run'.buf = buf
      BY <1>2, <1>4, <1>6, <2>1 DEF RunRec
    <2>3. /\ conns' \in [Conns -> ConnRec] /\ conns'["old"] = conns["old"]
          /\ My'.wire = SubSeq(My.wire, n + 1, Len(My.wire))
          /\ My'.handled = My.handled /\ My'.sent = My.sent /\ My'.peer = My.peer
      BY <1>7, <2>1 DEF My
    <2>4. \A c \in Conns : /\ conns'[c].peer = conns[c].peer /\ conns'[c].shut = conns[c].shut
                           /\ conns'[c].half = conns[c].half /\ conns'[c].torn = conns[c].torn
      BY <1>7, <2>1 DEF My, Conns
    <2>5. Reading' = Reading
      BY <2>3 DEF Reading
    <2>6. HandledSoFar'
      <3>1. conns'["old"].handled = << >>
        BY <1>2, <2>3 DEF HandledSoFar
      <3> QED BY <1>2, <2>3, <3>1 DEF HandledSoFar, Body, Units
    <2>7. Holds'
      <3>1. Len(run'.buf) < run'.expect
        BY <2>0, <2>2
      <3>2. Reading' <= Len(script') /\ run'.expect = script'[Reading'].body
        BY <1>2, <1>4, <2>2, <2>5
      <3>3. \A j \in 1 .. Len(run'.buf) : run'.buf[j] = [packet |-> Reading', at |-> Prefix + j]
        BY <1>6, <2>2, <2>5 DEF Prefix
      <3> QED BY <1>1, <2>2, <3>1, <3>2, <3>3 DEF Holds
    <2>8. Here' = After(n)
      <3>1. Here' = [packet |-> Reading, at |-> 1 + (2 + Len(buf))]
        BY <1>1, <2>2, <2>5 DEF Here, Prefix
      <3>2. Here.at + n <= Size(Reading) /\ 1 + (2 + Len(buf)) = Here.at + n
        <4>1. /\ Len(buf) \in Nat /\ run.expect \in Nat /\ Size(Reading) = 2 + run.expect
              /\ Here.at + n = 3 + Len(buf)
          BY <1>3, <1>4, <1>5, <1>6
        <4> HIDE DEF Here, Size, Reading
        <4> QED BY <2>0, <4>1
      <3> QED BY <3>1, <3>2 DEF After
    <2>9. UnderWay'
      BY <1>2, <1>3, <1>5, <2>3, <2>8, TakenStep
    <2>10. Len(run'.buf) <= run'.expect
      BY <1>6, <2>2
    <2> QED BY <1>1, <1>2, <2>1, <2>2, <2>3, <2>4, <2>6, <2>7, <2>9, <2>10, ReadStep
  <1>9. CASE Len(buf) = run.expect
    <2> DEFINE handled == Append(My.handled, buf)
    <2>1. conns' = [Taken(n) EXCEPT !["now"].handled = Append(@, buf)] /\ process(p)
      BY <1>1, <1>9
    <2>2. /\ handled \in Seq(Seq(UnitRec)) /\ Len(handled) = Reading
          /\ \A i \in 1 .. Len(My.handled) : handled[i] = My.handled[i]
          /\ handled[Reading] = buf
      BY <1>3, <1>6, AppendProperties DEF Reading
    <2> HIDE DEF handled
    <2>3. /\ conns' \in [Conns -> ConnRec] /\ conns'["old"] = conns["old"]
          /\ My'.wire = SubSeq(My.wire, n + 1, Len(My.wire))
          /\ My'.handled = handled /\ My'.sent = My.sent /\ My'.peer = My.peer
          /\ My'.shut = My.shut /\ My'.half = My.half /\ My'.torn = My.torn
      <3>1. conns' = [Taken(n) EXCEPT !["now"].handled = handled]
        BY <1>7, <2>1 DEF handled
      <3>2. Taken(n)["now"] \in ConnRec
        BY <1>7 DEF Conns
      <3> DEFINE mine == [Taken(n)["now"] EXCEPT !.handled = handled]
      <3>3. conns' = [Taken(n) EXCEPT !["now"] = mine]
        BY <3>1
      <3>4. /\ mine \in ConnRec /\ mine.handled = handled
            /\ mine.wire = Taken(n)["now"].wire /\ mine.sent = Taken(n)["now"].sent
            /\ mine.peer = Taken(n)["now"].peer /\ mine.shut = Taken(n)["now"].shut
            /\ mine.half = Taken(n)["now"].half /\ mine.torn = Taken(n)["now"].torn
        BY <2>2, <3>2 DEF ConnRec
      <3> HIDE DEF mine
      <3>5. conns' \in [Conns -> ConnRec] /\ conns'["old"] = conns["old"] /\ conns'["now"] = mine
        BY <1>7, <3>3, <3>4 DEF Conns
      <3> QED BY <1>7, <3>4, <3>5 DEF My
    <2>4. \A c \in Conns : /\ conns'[c].peer = conns[c].peer /\ conns'[c].shut = conns[c].shut
                           /\ conns'[c].half = conns[c].half /\ conns'[c].torn = conns[c].torn
      BY <2>3 DEF My, Conns
    <2>5. /\ run' = At("handler") \/ run' = At("poll")
          /\ \E frame \in Frames : Sending("reader", frame, sock) \/ UNCHANGED out
      <3>1. Answer(p) \in Frames
        BY DEF Answer, Frames
      <3> HIDE DEF p
      <3> QED BY <2>1, <3>1 DEF process
    <2>6. /\ out' \in [Threads -> SendRec]
          /\ \A u \in Threads : out[u].pc = "half" \/ out'[u].pc = "half" => out'[u] = out[u]
          /\ \A u \in Threads \ {"reader"} : out'[u] = out[u]
      BY <1>1, <1>2, <2>5, SendingType DEF Threads
    <2>7. /\ run' \in RunRec /\ run'.pc \in {"poll", "handler"} /\ run'.expect = 0
          /\ run'.prefix = 0 /\ run'.buf = << >> /\ Len(run'.buf) <= run'.expect
      <3>1. run' \in RunRec /\ run'.pc \in {"poll", "handler"}
        BY <2>5, AtType DEF RunPc
      <3>2. run'.expect = 0 /\ run'.prefix = 0 /\ run'.buf = << >>
        BY <2>5 DEF At
      <3> QED BY <3>1, <3>2, EmptySeq
    <2>8. Reading' = Reading + 1
      BY <2>2, <2>3 DEF Reading
    <2>9. HandledSoFar'
      <3>1. conns'["old"].handled = << >>
        BY <1>2, <2>3 DEF HandledSoFar
      <3>2. buf = Body(Reading)
        BY <1>2, <1>4, <1>6, <1>9, WholeBody DEF Prefix
      <3>3. ASSUME NEW i \in 1 .. Reading PROVE handled[i] = Body(i)
        <4>1. CASE i \in 1 .. Len(My.handled)
          BY <1>2, <2>2, <4>1 DEF HandledSoFar
        <4>2. CASE i = Reading
          BY <2>2, <3>2, <4>2
        <4>3. i \in 1 .. Len(My.handled) \/ i = Reading
          BY <1>3 DEF Reading
        <4> QED BY <4>1, <4>2, <4>3
      <3>4. \A i : Body(i)' = Body(i')
        BY <1>2 DEF Body, Units
      <3>5. Reading <= Len(script')
        BY <1>2, <1>4
      <3>6. \A i \in 1 .. Reading : My'.handled[i] = SubSeq(Units(i)', Prefix + 1, Len(Units(i)'))
        BY <1>2, <2>3, <3>3 DEF Body, Units
      <3> HIDE DEF Reading
      <3> QED BY <2>2, <2>3, <3>1, <3>5, <3>6 DEF HandledSoFar, Body
    <2>10. Holds'
      BY <2>7 DEF Holds
    <2>11. Here' = After(n)
      <3>1. Here' = [packet |-> Reading + 1, at |-> 1 + 0]
        BY <2>7, <2>8 DEF Here
      <3>2. ~(Here.at + n <= Size(Reading))
        <4>1. /\ Here.at + n = 3 + (Len(run.buf) + n) /\ Size(Reading) = 2 + run.expect
              /\ Len(run.buf) + n = run.expect /\ run.expect \in Nat
          BY <1>3, <1>4, <1>5, <1>6, <1>9
        <4> HIDE DEF Here, Size, Reading
        <4> QED BY <4>1
      <3> QED BY <3>1, <3>2 DEF After
    <2>12. UnderWay'
      BY <1>2, <1>3, <1>5, <2>3, <2>11, TakenStep
    <2> QED BY <1>1, <2>3, <2>4, <2>6, <2>7, <2>9, <2>10, <2>12, ReadStep
  <1> QED BY <1>8, <1>9

-----------------------------------------------------------------------------
(* Every step, and what follows.                                           *)

\* No step of anybody breaks the inductive invariant.
LEMMA StepInv == IInv /\ [Next]_vars => IInv'
  <1> SUFFICES ASSUME IInv, [Next]_vars PROVE IInv'
    OBVIOUS
  <1>1. CASE Lms \/ \E c \in Conns : Keepalive(c)
    BY <1>1, LmsStep
  <1>2. ASSUME Reader PROVE IInv'
    <2>1. CASE LoopHead \/ Discover \/ Backoff \/ Greet \/ Leave
      BY <2>1, RunStep
    <2>2. CASE Connect
      BY <2>2, ConnectStep
    <2>3. CASE PollTimeout(FALSE) \/ \E stat \in BOOLEAN : HandlerDone(stat)
      BY <2>3, SendStep
    <2>4. CASE \E n \in 1 .. Prefix : ReadPrefix(n)
      BY <2>4, ReadPrefixStep
    <2>5. CASE run.pc = "poll" /\ \E n \in 1 .. run.expect : ReadBody(n)
      BY <2>5, ReadBodyStep
    <2> QED BY <1>2, <2>1, <2>2, <2>3, <2>4, <2>5 DEF Reader
  <1>3. CASE PollTimeout(TRUE) \/ StreamEvent \/ RequestStop
    BY <1>3, SendStep
  <1>4. CASE Disconnect \/ Joined
    BY <1>4, StopStep
  <1>5. CASE \E t \in Threads : Write(t)
    BY <1>5, WriteStep
  <1>6. CASE StreamStarts \/ StreamEnds
    BY <1>6, StreamStep
  <1>7. CASE \E c \in Conns : Fill(c) \/ Drain(c)
    BY <1>7, BufferStep
  <1>8. CASE UNCHANGED vars
    <2>1. UNCHANGED << lms, outages, script, stream, conns, sock, run, known, reconnect, out, mutex, stopper >>
      BY <1>8 DEF vars, world
    <2>2. /\ out \in [Threads -> SendRec] /\ run \in RunRec /\ Senders
          /\ stopper \in {"none", "bye", "join", "done"} /\ Holds
      BY DEF IInv, TypeOK, Types
    <2>3. Senders' /\ (Connected' => Connected)
      BY <2>1, <2>2 DEF Senders, Connected, Done
    <2>4. run.pc # "poll" => run.expect = 0 /\ run.prefix = 0
      BY <2>2 DEF Holds
    <2> QED BY <2>1, <2>2, <2>3, <2>4, BeginStep
  <1> QED BY <1>1, <1>2, <1>3, <1>4, <1>5, <1>6, <1>7, <1>8 DEF Next

\* The inductive invariant holds of every execution: a frame is incomplete at
\* LMS exactly while its sender holds the lock, and what the reader holds and
\* what is under way continue, without a gap, what it has processed.
THEOREM Invariance == Spec => []IInv
  <1>1. Init => IInv
    BY InitInv
  <1>2. IInv /\ [Next]_vars => IInv'
    BY StepInv
  <1> QED BY <1>1, <1>2, PTL DEF Spec

\* Every variable has its type, and whoever is in the middle of a frame holds
\* the send mutex, for every script, timeout and number of outages.
THEOREM TypeCorrect == Spec => []TypeOK
  <1>1. IInv => TypeOK
    BY DEF IInv
  <1> QED BY <1>1, Invariance, PTL

\* sendRaw(): LMS receives whole frames only, whoever sends them and whatever
\* connection they go to.
THEOREM FramesAreWhole == Spec => []FramesWhole
  <1>1. IInv => FramesWhole
    BY DEF IInv
  <1> QED BY <1>1, Invariance, PTL

\* process() sees the packets LMS sent on the connection, whole, in order and
\* none twice, for every script and every cut of the stream into pieces.
THEOREM HandledIsInOrder == Spec => []HandledInOrder
  <1>1. ASSUME IInv PROVE HandledInOrder
    <2> DEFINE all == [i \in DOMAIN script |-> SubSeq(Units(i), Prefix + 1, Len(Units(i)))]
    <2>1. /\ script \in Seq(PacketRec) /\ conns \in [Conns -> ConnRec] /\ HandledSoFar
      BY <1>1 DEF IInv, Types
    <2>2. Len(script) \in Nat /\ DOMAIN script = 1 .. Len(script)
      BY <2>1, LenProperties
    <2>3. \A i \in 1 .. Len(script) : all[i] = Body(i) /\ Body(i) \in Seq(UnitRec)
      <3> SUFFICES ASSUME NEW i \in 1 .. Len(script)
                   PROVE  all[i] = Body(i) /\ Body(i) \in Seq(UnitRec)
        OBVIOUS
      <3>1. all[i] = Body(i)
        BY <2>2 DEF Body
      <3>2. /\ Units(i) \in Seq(UnitRec) /\ Size(i) \in Nat /\ Size(i) >= 2
            /\ Len(Units(i)) = Size(i)
        BY <2>1, UnitsType DEF Prefix
      <3> HIDE DEF all
      <3>3. 2 \in 0 .. Len(Units(i)) /\ Len(Units(i)) \in 2 .. Len(Units(i))
        <4> HIDE DEF Units, Size
        <4> QED BY <3>2
      <3>4. SubSeq(Units(i), 2 + 1, Len(Units(i))) \in Seq(UnitRec)
        <4> HIDE DEF Units, Size
        <4> QED BY <3>2, <3>3, PartOf
      <3> QED BY <3>1, <3>4 DEF Body, Prefix
    <2>4. all \in Seq(Seq(UnitRec)) /\ Len(all) = Len(script)
      <3>1. all = [i \in 1 .. Len(script) |-> all[i]]
        BY <2>2
      <3> HIDE DEF all
      <3>2. \A i \in 1 .. Len(script) : all[i] \in Seq(UnitRec)
        BY <2>3
      <3>3. all \in [1 .. Len(script) -> Seq(UnitRec)]
        BY <3>1, <3>2
      <3> QED BY <2>2, <3>3
    <2> HIDE DEF all
    <2>5. ASSUME NEW s \in Seq(Seq(UnitRec)), Len(s) <= Len(all),
                 \A i \in 1 .. Len(s) : s[i] = all[i]
          PROVE  IsPrefix(s, all)
      <3>1. Len(s) \in Nat /\ Len(all) \in Nat
        BY <2>4, LenProperties
      <3>2. /\ 0 \in 0 .. Len(s) /\ Len(s) \in 0 .. Len(s)
            /\ 0 \in 0 .. Len(all) /\ Len(s) \in 0 .. Len(all)
        BY <2>5, <3>1
      <3>3. /\ SubSeq(s, 0 + 1, Len(s)) \in Seq(Seq(UnitRec))
            /\ Len(SubSeq(s, 0 + 1, Len(s))) = Len(s) - 0
        BY <3>2, PartOf
      <3>4. \A i \in 1 .. Len(s) - 0 : SubSeq(s, 0 + 1, Len(s))[i] = s[0 + i]
        BY <3>2, PartOf
      <3>5. /\ SubSeq(all, 0 + 1, Len(s)) \in Seq(Seq(UnitRec))
            /\ Len(SubSeq(all, 0 + 1, Len(s))) = Len(s) - 0
        BY <2>4, <3>2, PartOf
      <3>6. \A i \in 1 .. Len(s) - 0 : SubSeq(all, 0 + 1, Len(s))[i] = all[0 + i]
        BY <2>4, <3>2, PartOf
      <3>7. \A i \in 1 .. Len(s) - 0 : s[0 + i] = all[0 + i]
        BY <2>5, <3>1
      <3>8. SubSeq(s, 0 + 1, Len(s)) = SubSeq(all, 0 + 1, Len(s))
        BY <3>3, <3>4, <3>5, <3>6, <3>7, SeqEqual
      <3> QED BY <2>5, <3>8 DEF IsPrefix
    <2>6. ASSUME NEW c \in Conns PROVE IsPrefix(conns[c].handled, all)
      <3>1. /\ conns[c].handled \in Seq(Seq(UnitRec))
            /\ Len(conns["now"].handled) \in Nat
        <4>1. /\ conns[c].handled \in Seq(Seq(UnitRec))
              /\ conns["now"].handled \in Seq(Seq(UnitRec))
          BY <2>1 DEF ConnRec, Conns
        <4> QED BY <4>1, LenProperties
      <3>2. CASE c = "now"
        <4>1. /\ Len(conns[c].handled) <= Len(script)
              /\ \A i \in 1 .. Len(conns[c].handled) : conns[c].handled[i] = Body(i)
          BY <2>1, <3>2 DEF HandledSoFar, My
        <4>2. \A i \in 1 .. Len(conns[c].handled) : i \in 1 .. Len(script)
          BY <2>2, <3>1, <3>2, <4>1
        <4> QED BY <2>3, <2>4, <2>5, <3>1, <4>1, <4>2
      <3>3. CASE c = "old"
        <4>1. conns[c].handled = << >> /\ Len(conns[c].handled) = 0
          BY <2>1, <3>3, EmptySeq DEF HandledSoFar
        <4>2. Len(conns[c].handled) <= Len(all)
          BY <2>2, <2>4, <4>1
        <4>3. \A i \in 1 .. Len(conns[c].handled) : conns[c].handled[i] = all[i]
          BY <4>1
        <4> QED BY <2>5, <3>1, <4>2, <4>3
      <3> QED BY <3>2, <3>3 DEF Conns
    <2> QED BY <2>6 DEF HandledInOrder, all
  <1> QED BY <1>1, Invariance, PTL
-----------------------------------------------------------------------------
(* What comes first on a connection.                                       *)

\* The frames that are sent.
Helos   == {"HELO", "HELO again"}
Goodbye == "BYE!"
Others  == {"STAT", "SETD", Goodbye}
Ops     == Helos \cup Others

\* A connection that stands, and on which LMS has seen nothing yet.
Ungreeted(conn) == conn.peer = "up" /\ ~conn.shut /\ conn.first \notin Ops

\* On such a connection the reader has the HELO still to send; what else can be
\* sent is a goodbye, or by a stream, which only a connection that was greeted
\* starts.
Greeting ==
    /\ stream => reconnect
    /\ run.pc \in {"poll", "handler"} => reconnect
    /\ \A t \in Threads : out[t].pc # "idle" => out[t].frame \in Ops
    /\ out["stopper"].pc # "idle" => out["stopper"].frame = Goodbye
    /\ run.pc = "greet" /\ out["reader"].pc # "idle" => out["reader"].frame \in Helos
    /\ Connected /\ Ungreeted(My) =>
          run.pc = "greet" /\ out["reader"].pc = "lock" /\ out["reader"].to = "now"

\* A step by which LMS sees nothing new on the connection, and the connection
\* is no other.
Silent ==
    /\ Ungreeted(My') => Ungreeted(My)
    /\ My'.first \in Ops => My'.first = My.first

\* Such a step, that begins no frame.
LEMMA GreetingKept ==
    ASSUME Greeting, UNCHANGED << out, reconnect >>,
           stream' => stream \/ run.pc = "handler",
           Silent,
           run'.pc \in {"greet", "poll", "handler"} =>
              \/ run'.pc = run.pc
              \/ run.pc \in {"poll", "handler"} /\ run'.pc \in {"poll", "handler"}
    PROVE  Greeting'
  BY DEF Greeting, Connected, Silent

\* A frame that is no HELO is begun, by the reader only after its own.
LEMMA GreetingSends ==
    ASSUME Greeting, out \in [Threads -> SendRec], UNCHANGED << reconnect, stream >>,
           NEW t \in Threads, NEW frame \in Others,
           NEW to \in {"none"} \cup Conns,
           Sending(t, frame, to) \/ UNCHANGED out,
           t = "stopper" => frame = Goodbye,
           Silent,
           \/ t # "reader" /\ UNCHANGED run
           \/ t = "reader" /\ run.pc \in {"poll", "handler"} /\ run'.pc \in {"poll", "handler"}
    PROVE  Greeting'
  <1>1. CASE UNCHANGED out
    BY <1>1, GreetingKept
  <1>2. CASE Sending(t, frame, to)
    <2> DEFINE s == IF to = "none" THEN NotSending
                    ELSE [pc |-> "lock", frame |-> frame, to |-> to]
    <2>1. out' = [out EXCEPT ![t] = s]
      BY <1>2 DEF Sending
    <2>2. s.pc # "idle" => s.frame = frame
      BY Zenon DEF NotSending
    <2> HIDE DEF s
    <2>3. out'[t] = s /\ \A u \in Threads \ {t} : out'[u] = out[u]
      BY <2>1
    <2>4. \A u \in Threads : out'[u].pc # "idle" => out'[u].frame \in Ops
      BY <2>2, <2>3 DEF Greeting, Ops
    <2>5. out'["stopper"].pc # "idle" => out'["stopper"].frame = Goodbye
      BY <2>2, <2>3 DEF Greeting, Threads
    <2>6. CASE t # "reader"
      <3>1. out'["reader"] = out["reader"] /\ run' = run
        BY <2>3, <2>6 DEF Threads
      <3> QED BY <2>4, <2>5, <3>1 DEF Greeting, Connected, Silent
    <2>7. CASE t = "reader"
      <3>1. run.pc \in {"poll", "handler"} /\ run'.pc \in {"poll", "handler"}
        BY <2>7
      <3> QED BY <2>4, <2>5, <3>1 DEF Greeting, Connected, Silent
    <2> QED BY <2>6, <2>7
  <1> QED BY <1>1, <1>2

\* A connection, changed in what no greeting depends on, and one that is given up.
LEMMA FieldsKept ==
    ASSUME NEW r \in ConnRec, NEW x, NEW y
    PROVE  /\ [r EXCEPT !.sent = x, !.wire = y].shut = r.shut
           /\ [r EXCEPT !.sent = x, !.wire = y].first = r.first
           /\ [r EXCEPT !.sent = x, !.wire = y].peer = r.peer
           /\ [r EXCEPT !.full = x].shut = r.shut
           /\ [r EXCEPT !.full = x].first = r.first
           /\ [r EXCEPT !.full = x].peer = r.peer
           /\ [r EXCEPT !.wire = x].shut = r.shut
           /\ [r EXCEPT !.wire = x].first = r.first
           /\ [r EXCEPT !.wire = x].peer = r.peer
           /\ [r EXCEPT !.peer = "reset"].peer = "reset"
           /\ [r EXCEPT !.shut = TRUE].shut = TRUE
           /\ [r EXCEPT !.shut = TRUE].first = r.first
           /\ Len(r.wire) \in Nat
  <1> DEFINE all == [peer |-> r.peer, shut |-> r.shut, full |-> r.full, wire |-> r.wire,
                     sent |-> r.sent, handled |-> r.handled, first |-> r.first,
                     half |-> r.half, torn |-> r.torn, greeted |-> r.greeted]
  <1>1. r = all
    BY DEF ConnRec
  <1>2. Len(r.wire) \in Nat
    <2>1. r.wire \in Seq(UnitRec)
      BY DEF ConnRec
    <2> QED BY <2>1, LenProperties
  <1> QED BY <1>1, <1>2

\* Nothing has been seen on a new connection, nor on what is left of an old one.
LEMMA EndedFirst ==
    ASSUME NEW conn, NEW how, NEW n
    PROVE  /\ Ended(conn, how, n).first \notin Ops
           /\ [NoConn EXCEPT !.peer = how].first \notin Ops
  <1> DEFINE none == ""
  <1>1. NoConn = [peer |-> "none", shut |-> FALSE, full |-> FALSE, wire |-> << >>,
                  sent |-> 0, handled |-> << >>,
                  first |-> none, half |-> none, torn |-> FALSE, greeted |-> FALSE]
    BY Zenon DEF NoConn
  <1>2. none \notin Ops
    BY Zenon DEF Ops, Helos, Others, Goodbye
  <1> HIDE DEF none
  <1> QED BY <1>1, <1>2 DEF Ended

\* LMS and the network.
LEMMA GreetingLms ==
    ASSUME IInv, Greeting,
           Lms \/ \E c \in Conns : Fill(c) \/ Drain(c) \/ Keepalive(c)
    PROVE  Greeting' /\ Silent
  <1>1. conns \in [Conns -> ConnRec] /\ "now" \in Conns
    BY DEF IInv, Types, Conns
  <1>2. UNCHANGED << stream, run, out, reconnect >>
    BY DEF Lms, LmsUp, LmsDown, LmsSend, Cut, Fill, Drain, Keepalive, world
  <1>3. ASSUME NEW conn \in ConnRec, NEW how \in {"fin", "dead"}, NEW n \in 0 .. Len(conn.wire)
        PROVE  ~Ungreeted(Ended(conn, how, n)) /\ Ended(conn, how, n).first \notin Ops
    BY EndedType, EndedFirst DEF Ungreeted
  <1>4. Silent
    <2>1. CASE LmsUp
      BY <2>1 DEF LmsUp, My, Silent
    <2>2. ASSUME NEW how \in {"fin", "dead"}, LmsDown(how)
          PROVE  Silent
      <3>1. Len(conns["now"].wire) \in 0 .. Len(conns["now"].wire)
        BY <1>1, FieldsKept
      <3>2. \/ conns'["now"] = conns["now"]
            \/ conns'["now"] = Ended(conns["now"], how, Len(conns["now"].wire))
        BY <1>1, <2>2 DEF LmsDown
      <3> QED BY <1>1, <1>3, <3>1, <3>2 DEF My, Silent
    <2>3. ASSUME NEW c \in Conns, NEW how \in {"fin", "dead"}, NEW n \in 0 .. Len(conns[c].wire),
                 Cut(c, how, n)
          PROVE  Silent
      <3>1. conns'["now"] = conns["now"] \/ (c = "now" /\ conns'["now"] = Ended(conns["now"], how, n))
        BY <1>1, <2>3 DEF Cut
      <3> QED BY <1>1, <1>3, <3>1 DEF My, Silent
    <2>4. ASSUME NEW c \in Conns, LmsSend(c) \/ Fill(c) \/ Drain(c) \/ Keepalive(c)
          PROVE  Silent
      <3>1. conns[c] \in ConnRec
        BY <1>1
      <3>2. \E new : /\ conns' = [conns EXCEPT ![c] = new]
                     /\ new.shut = conns[c].shut /\ new.first = conns[c].first
                     /\ new.peer = conns[c].peer \/ new.peer = "reset"
        <4>1. CASE LmsSend(c)
          <5> DEFINE x == conns[c].sent + 1
                     y == conns[c].wire \o Units(x)
                     new == [conns[c] EXCEPT !.sent = x, !.wire = y]
          <5>1. conns' = [conns EXCEPT ![c] = new]
            BY <1>1, <4>1 DEF LmsSend
          <5> HIDE DEF x, y
          <5>2. /\ new.shut = conns[c].shut /\ new.first = conns[c].first
                /\ new.peer = conns[c].peer
            BY <3>1, FieldsKept
          <5> HIDE DEF new
          <5> QED BY <5>1, <5>2
        <4>2. CASE Fill(c) \/ Drain(c)
          <5>1. PICK x : conns' = [conns EXCEPT ![c] = [conns[c] EXCEPT !.full = x]]
            BY <4>2 DEF Fill, Drain
          <5> DEFINE new == [conns[c] EXCEPT !.full = x]
          <5>2. /\ new.shut = conns[c].shut /\ new.first = conns[c].first
                /\ new.peer = conns[c].peer
            BY <3>1, FieldsKept
          <5> HIDE DEF new
          <5> QED BY <5>1, <5>2 DEF new
        <4>3. CASE Keepalive(c)
          <5> DEFINE new == [conns[c] EXCEPT !.peer = "reset"]
          <5>1. conns' = [conns EXCEPT ![c] = new]
            BY <4>3 DEF Keepalive
          <5>2. new.shut = conns[c].shut /\ new.first = conns[c].first /\ new.peer = "reset"
            BY <3>1 DEF ConnRec
          <5> HIDE DEF new
          <5> QED BY <5>1, <5>2
        <4> QED BY <2>4, <4>1, <4>2, <4>3
      <3>3. /\ conns'["now"].shut = conns["now"].shut
            /\ conns'["now"].first = conns["now"].first
            /\ conns'["now"].peer = conns["now"].peer \/ conns'["now"].peer = "reset"
        BY <1>1, <3>2
      <3> QED BY <3>3 DEF My, Ungreeted, Silent
    <2> QED BY <2>1, <2>2, <2>3, <2>4 DEF Lms
  <1> QED BY <1>2, <1>4, GreetingKept

\* The reader outside its connections, and reading on one.
LEMMA GreetingReads ==
    ASSUME IInv, Greeting,
           \/ LoopHead \/ Discover \/ Backoff \/ Greet \/ Leave
           \/ \E beat \in BOOLEAN : PollTimeout(beat) \/ HandlerDone(beat)
           \/ \E n \in 1 .. Prefix : ReadPrefix(n)
           \/ run.pc = "poll" /\ \E n \in 1 .. run.expect : ReadBody(n)
    PROVE  Greeting' /\ Silent
  <1>1. /\ out \in [Threads -> SendRec] /\ "reader" \in Threads
        /\ conns \in [Conns -> ConnRec] /\ "now" \in Conns /\ "none" \in {"none"} \cup Conns
        /\ sock \in {"none"} \cup Conns
    BY DEF IInv, TypeOK, Types, Conns, Threads
  <1>2. ASSUME NEW pc \in RunPc PROVE At(pc).pc = pc
    BY <1>2, AtType
  <1>3. "STAT" \in Others /\ "SETD" \in Others
    BY DEF Others
  <1>4. CASE LoopHead \/ Discover \/ Backoff \/ Leave
    <2>1. /\ run'.pc \in {"over", "connect", "discover", "backoff", "start"}
          /\ UNCHANGED << stream, conns, out, reconnect >>
      BY <1>2, <1>4 DEF LoopHead, Discover, Backoff, Leave, RunPc, world
    <2> QED BY <2>1, GreetingKept DEF My, Silent
  <1>5. CASE Greet
    <2>1. /\ run.pc = "greet" /\ out["reader"].pc = "idle" /\ reconnect' = TRUE
          /\ run'.pc = "poll" /\ UNCHANGED << stream, conns, out >>
      BY <1>2, <1>5 DEF Greet, RunPc, world, Done
    <2> QED BY <2>1 DEF Greeting, Connected, My, Silent
  <1>6. ASSUME NEW beat \in BOOLEAN, PollTimeout(beat) PROVE Greeting' /\ Silent
    <2>1. /\ run.pc = "poll" /\ run'.pc = "poll" /\ UNCHANGED << stream, conns, reconnect >>
          /\ Sending("reader", "STAT", sock) \/ UNCHANGED out
      <3>1. run \in RunRec
        BY DEF IInv, Types
      <3> QED BY <3>1, <1>6 DEF PollTimeout, InLoop, Polling, world, RunRec
    <2> QED BY <1>1, <1>3, <2>1, GreetingSends DEF My, Silent
  <1>7. ASSUME NEW stat \in BOOLEAN, HandlerDone(stat) PROVE Greeting' /\ Silent
    <2>1. /\ run.pc = "handler" /\ run'.pc = "poll" /\ UNCHANGED << stream, conns, reconnect >>
          /\ Sending("reader", "STAT", sock) \/ UNCHANGED out
      BY <1>2, <1>7 DEF HandlerDone, world, RunPc
    <2> QED BY <1>1, <1>3, <2>1, GreetingSends DEF My, Silent
  <1>8. ASSUME NEW n, conns' = Taken(n) PROVE Silent
    <2> DEFINE w == SubSeq(My.wire, n + 1, Len(My.wire))
               new == [conns["now"] EXCEPT !.wire = w]
    <2>1. conns' = [conns EXCEPT !["now"] = new]
      BY <1>8 DEF Taken, My
    <2> HIDE DEF w
    <2>2. new.shut = My.shut /\ new.first = My.first /\ new.peer = My.peer
      BY <1>1, FieldsKept DEF My
    <2> HIDE DEF new
    <2> QED BY <1>1, <2>1, <2>2 DEF My, Ungreeted, Silent
  <1>9. ASSUME NEW n \in 1 .. Prefix, ReadPrefix(n) PROVE Greeting' /\ Silent
    <2>1. /\ run.pc = "poll" /\ run'.pc \in {"poll", "start"} /\ conns' = Taken(n)
          /\ UNCHANGED << stream, out, reconnect >>
      <3>1. run \in RunRec
        BY DEF IInv, Types
      <3>2. At("start").pc = "start"
        BY <1>2 DEF RunPc
      <3> QED BY <3>1, <3>2, <1>9 DEF ReadPrefix, Polling, world, RunRec
    <2> QED BY <1>8, <2>1, GreetingKept
  <1>10. ASSUME run.pc = "poll", NEW n, ReadBody(n) PROVE Greeting' /\ Silent
    <2> DEFINE buf == run.buf \o SubSeq(My.wire, 1, n)
               p   == script[buf[1].packet]
    <2>1. CASE ~Complete(buf)
      <3>1. /\ conns' = Taken(n) /\ run' = [run EXCEPT !.buf = buf]
            /\ UNCHANGED << stream, out, reconnect >>
        BY <1>10, <2>1 DEF ReadBody, world
      <3>2. run \in RunRec
        BY DEF IInv, Types
      <3>3. run'.pc = "poll"
        BY <1>10, <3>1, <3>2 DEF RunRec
      <3> QED BY <1>8, <1>10, <3>1, <3>3, GreetingKept
    <2>2. CASE Complete(buf)
      <3>1. /\ conns' = [Taken(n) EXCEPT !["now"].handled = Append(@, buf)] /\ process(p)
            /\ UNCHANGED << stream, reconnect >>
        BY <1>10, <2>2 DEF ReadBody, world
      <3>2. run'.pc \in {"poll", "handler"}
        BY <1>2, <3>1, Zenon DEF process, RunPc
      <3>3. (Sending("reader", Answer(p), sock) /\ Answer(p) \in Others) \/ UNCHANGED out
        <4>1. Answer(p) = "" \/ Answer(p) \in {"STAT", "SETD"}
          BY DEF Answer
        <4> QED BY <1>3, <3>1, <4>1, Zenon DEF process
      <3>4. Silent
        <4> DEFINE w == SubSeq(My.wire, n + 1, Len(My.wire))
                   mid == [conns["now"] EXCEPT !.wire = w]
                   h == Append(mid.handled, buf)
                   new == [mid EXCEPT !.handled = h]
        <4>1. conns' = [conns EXCEPT !["now"] = new]
          BY <1>1, <3>1 DEF Taken, My
        <4> HIDE DEF w, h
        <4>2. new.shut = My.shut /\ new.first = My.first /\ new.peer = My.peer
          BY <1>1, FieldsKept DEF My
        <4> HIDE DEF new
        <4> QED BY <1>1, <4>1, <4>2 DEF My, Ungreeted, Silent
      <3>5. run.pc \in {"poll", "handler"}
        BY <1>10
      <3> HIDE DEF p
      <3>6. CASE UNCHANGED out
        BY <3>1, <3>2, <3>4, <3>5, <3>6, GreetingKept
      <3>7. CASE Sending("reader", Answer(p), sock) /\ Answer(p) \in Others
        BY <1>1, <3>1, <3>2, <3>4, <3>5, <3>7, GreetingSends
      <3> QED BY <3>3, <3>6, <3>7
    <2> QED BY <2>1, <2>2
  <1> QED BY <1>4, <1>5, <1>6, <1>7, <1>9, <1>10

\* The stream thread, and the one that stops the client.
LEMMA GreetingStops ==
    ASSUME IInv, Greeting,
           StreamStarts \/ StreamEnds \/ StreamEvent \/ RequestStop \/ Disconnect \/ Joined
    PROVE  Greeting' /\ Silent
  <1>1. /\ out \in [Threads -> SendRec] /\ "stream" \in Threads /\ "stopper" \in Threads
        /\ conns \in [Conns -> ConnRec] /\ "now" \in Conns
        /\ sock \in {"none"} \cup Conns
    BY DEF IInv, TypeOK, Types, Conns, Threads
  <1>2. "STAT" \in Others /\ Goodbye \in Others
    BY DEF Others
  <1>3. CASE StreamStarts \/ StreamEnds
    <2>1. /\ UNCHANGED << run, conns, out, reconnect >>
          /\ stream' => stream \/ run.pc = "handler"
      BY <1>3 DEF StreamStarts, StreamEnds
    <2> QED BY <2>1, GreetingKept DEF My, Silent
  <1>4. CASE StreamEvent
    <2>1. /\ UNCHANGED << stream, run, conns, reconnect >> /\ Sending("stream", "STAT", sock)
      BY <1>4 DEF StreamEvent, world
    <2> QED BY <1>1, <1>2, <2>1, GreetingSends DEF My, Silent
  <1>5. CASE RequestStop
    <2>1. /\ UNCHANGED << stream, run, conns, reconnect >> /\ Sending("stopper", Goodbye, sock)
      BY <1>5, Zenon DEF RequestStop, world, Goodbye
    <2> QED BY <1>1, <1>2, <2>1, GreetingSends DEF My, Silent
  <1>6. CASE Disconnect
    <2>1. UNCHANGED << stream, run, out, reconnect >> /\ conns' = ShutDown
      BY <1>6 DEF Disconnect, world
    <2>2. Silent
      <3>1. sock = "none" \/ sock = "now"
        BY DEF IInv, TypeOK
      <3>2. CASE sock = "none"
        BY <2>1, <3>2 DEF ShutDown, My, Silent
      <3>3. CASE sock = "now"
        <4> DEFINE new == [conns["now"] EXCEPT !.shut = TRUE]
        <4>1. conns' = [conns EXCEPT !["now"] = new]
          BY <2>1, <3>3 DEF ShutDown
        <4>2. new.shut = TRUE /\ new.first = My.first
          BY <1>1, FieldsKept DEF My
        <4> HIDE DEF new
        <4> QED BY <1>1, <4>1, <4>2 DEF My, Ungreeted, Silent
      <3> QED BY <3>1, <3>2, <3>3
    <2> QED BY <2>1, <2>2, GreetingKept
  <1>7. CASE Joined
    <2>1. UNCHANGED << stream, run, conns, out, reconnect >>
      BY <1>7 DEF Joined, world
    <2> QED BY <2>1, GreetingKept DEF My, Silent
  <1> QED BY <1>3, <1>4, <1>5, <1>6, <1>7

\* A new connection, or none: HELO is the reader's next frame.
LEMMA GreetingConnects ==
    ASSUME IInv, Greeting, Connect
    PROVE  Greeting' /\ (My'.first \in Ops => My'.first = My.first)
  <1>1. /\ out \in [Threads -> SendRec] /\ run.pc = "connect"
        /\ UNCHANGED << stream, reconnect >>
    <2>1. run.pc = "connect" /\ UNCHANGED << world, reconnect >>
      BY Zenon DEF Connect
    <2> QED BY <2>1 DEF IInv, Types, world
  <1>2. At("greet").pc = "greet" /\ At("backoff").pc = "backoff"
    BY AtType DEF RunPc
  <1>3. CASE lms # "up"
    <2>1. UNCHANGED << conns, out >> /\ run'.pc = "backoff"
      BY <1>2, <1>3 DEF Connect
    <2> QED BY <1>1, <2>1, GreetingKept DEF My, Silent
  <1>4. CASE lms = "up"
    <2>1. /\ out' = [t \in Threads |-> IF t = "reader" THEN Helo
                                       ELSE IF t \in Holding THEN [out[t] EXCEPT !.to = "old"]
                                       ELSE out[t]]
          /\ run' = At("greet")
      BY <1>4, Zenon DEF Connect
    <2>2. Helo.pc = "lock" /\ Helo.to = "now" /\ Helo.frame \in Helos
      BY Zenon DEF Helo, Helos
    <2>3. \A t \in Holding : /\ [out[t] EXCEPT !.to = "old"].pc = out[t].pc
                             /\ [out[t] EXCEPT !.to = "old"].frame = out[t].frame
      <3> SUFFICES ASSUME NEW t \in Holding
                   PROVE  /\ [out[t] EXCEPT !.to = "old"].pc = out[t].pc
                          /\ [out[t] EXCEPT !.to = "old"].frame = out[t].frame
        OBVIOUS
      <3>1. t \in Threads /\ out[t].to # "none"
        BY DEF Holding
      <3>2. out[t] \in [pc : {"lock", "half"}, frame : Frames, to : Conns]
            \/ out[t] = NotSending
        BY <1>1, <3>1 DEF SendRec
      <3>3. NotSending.to = "none"
        BY Zenon DEF NotSending
      <3>4. out[t] \in [pc : {"lock", "half"}, frame : Frames, to : Conns]
        BY <3>1, <3>2, <3>3
      <3> QED BY <3>4
    <2>4. /\ \A t \in Threads \ {"reader"} : /\ out'[t].pc = out[t].pc
                                             /\ out'[t].frame = out[t].frame
          /\ out'["reader"] = Helo
      BY <2>1, <2>3 DEF Threads
    <2>5. Helos \subseteq Ops
      BY DEF Ops
    <2>6. \A t \in Threads : out'[t].pc # "idle" => out'[t].frame \in Ops
      BY <2>2, <2>4, <2>5 DEF Greeting
    <2>7. out'["stopper"].pc = out["stopper"].pc /\ out'["stopper"].frame = out["stopper"].frame
      BY <2>4 DEF Threads
    <2>8. run'.pc = "greet"
      BY <1>2, <2>1
    <2>9. Greeting'
      BY <1>1, <2>2, <2>4, <2>6, <2>7, <2>8 DEF Greeting
    <2>10. conns'["now"] = [NoConn EXCEPT !.peer = "up"]
      BY <1>4 DEF Connect, Conns
    <2>11. My'.first \notin Ops
      BY <2>10, EndedFirst DEF My
    <2> QED BY <2>9, <2>11
  <1> QED BY <1>3, <1>4

\* What LMS sees first on a connection is the first frame that reaches it.
LEMMA ReceivedFirst ==
    ASSUME NEW conn \in ConnRec, NEW t \in Threads, out[t].frame \in Ops, NEW piece \in {1, 2}
    PROVE  /\ Received(conn, t, piece).first \in Ops
           /\ Received(conn, t, piece).first = conn.first \/ conn.first \notin Ops
           /\ Received(conn, t, piece).first \in {conn.first, out[t].frame}
  <1> DEFINE first   == IF conn.first = "" THEN out[t].frame ELSE conn.first
             half    == IF piece = 1 THEN t ELSE ""
             torn    == conn.torn \/ conn.half # (IF piece = 1 THEN "" ELSE t)
             greeted == conn.greeted \/ (piece = 2 /\ out[t].frame \in {"HELO", "HELO again"})
             got     == Received(conn, t, piece)
  <1>1. got = [conn EXCEPT !.first = first, !.half = half, !.torn = torn, !.greeted = greeted]
    BY DEF Received
  <1>2. conn.first \in Frames
    BY DEF ConnRec
  <1>3. /\ first \in Ops /\ first \in {conn.first, out[t].frame}
        /\ first = conn.first \/ conn.first \notin Ops
    BY <1>2, Zenon DEF Frames, Ops, Helos, Others, Goodbye
  <1> HIDE DEF first, half, torn, greeted
  <1>4. got.first = first
    BY <1>1 DEF ConnRec
  <1> QED BY <1>3, <1>4 DEF got

\* What a thread's next piece does: it goes on with its frame or is through, and
\* LMS sees something of it where the connection stands.
LEMMA WriteEffect ==
    ASSUME IInv, Greeting, NEW t \in Threads, Write(t)
    PROVE  /\ out[t].frame \in Ops /\ out[t].pc \in {"lock", "half"}
           /\ UNCHANGED << stream, run, reconnect >>
           /\ out'[t].pc # out[t].pc /\ out'[t].pc \in {"half", "idle"}
           /\ out'[t].pc = "half" => out'[t].frame = out[t].frame
           /\ \A u \in Threads \ {t} : out'[u] = out[u]
           /\ \/ /\ out[t].to # "now" \/ My.peer # "up" \/ Refused("now")
                 /\ My' = My
              \/ /\ out[t].to = "now" /\ My.peer = "up" /\ ~Refused("now")
                 /\ \E piece \in {1, 2} : My' = Received(My, t, piece)
  <1> DEFINE to == out[t].to
             got(piece) == Received(conns[to], t, piece)
  <1>1. /\ out[t].pc \in {"lock", "half"} /\ Unlocked(t)
        /\ UNCHANGED << stream, run, reconnect >>
    BY DEF Write, world
  <1>2. out[t] \in [pc : {"lock", "half"}, frame : Frames, to : Conns]
    BY <1>1, OneAtATime
  <1>3. /\ conns \in [Conns -> ConnRec] /\ out \in [Threads -> SendRec]
        /\ to \in Conns /\ "now" \in Conns
    BY <1>2 DEF IInv, Types, Conns
  <1>4. out[t].frame \in Ops
    BY <1>1 DEF Greeting
  <1>5. Refused(to) \/ conns[to].peer # "up" => Written(t, 1) = conns /\ Written(t, 2) = conns
    BY DEF Written
  <1>6. ~Refused(to) /\ conns[to].peer = "up" =>
           /\ Written(t, 1) = [conns EXCEPT ![to] = got(1)]
           /\ Written(t, 2) = [conns EXCEPT ![to] = got(2)]
    BY DEF Written
  <1> HIDE DEF got
  <1>7. CASE out[t].pc = "lock" /\ ~Refused(to)
    <2>1. out' = [out EXCEPT ![t].pc = "half"] /\ conns' = Written(t, 1)
      BY <1>7 DEF Write
    <2>2. /\ out'[t].pc = "half" /\ out'[t].frame = out[t].frame
          /\ \A u \in Threads \ {t} : out'[u] = out[u]
      BY <1>2, <1>3, <2>1
    <2>3. \/ (to # "now" \/ My.peer # "up" \/ Refused("now")) /\ My' = My
          \/ to = "now" /\ My.peer = "up" /\ ~Refused("now") /\ My' = got(1)
      BY <1>3, <1>5, <1>6, <2>1 DEF My
    <2> QED BY <1>1, <1>4, <1>7, <2>2, <2>3 DEF got, My
  <1>8. CASE ~(out[t].pc = "lock" /\ ~Refused(to))
    <2>1. /\ out' = [out EXCEPT ![t] = NotSending]
          /\ conns' = IF to = "old" THEN [conns EXCEPT !["old"] = NoConn] ELSE Written(t, 2)
      BY <1>8 DEF Write
    <2>2. NotSending.pc = "idle"
      BY DEF NotSending
    <2>3. out'[t].pc = "idle" /\ \A u \in Threads \ {t} : out'[u] = out[u]
      BY <1>3, <2>1, <2>2
    <2>4. \/ (to # "now" \/ My.peer # "up" \/ Refused("now")) /\ My' = My
          \/ to = "now" /\ My.peer = "up" /\ ~Refused("now") /\ My' = got(2)
      BY <1>3, <1>5, <1>6, <2>1 DEF My, Conns
    <2> QED BY <1>1, <1>4, <2>3, <2>4 DEF got, My
  <1> QED BY <1>7, <1>8

\* A piece of a frame greets LMS, if it is the first that LMS sees.
LEMMA GreetingWrites ==
    ASSUME IInv, Greeting, NEW t \in Threads, Write(t)
    PROVE  Greeting'
  <1>1. /\ out[t].frame \in Ops /\ out[t].pc \in {"lock", "half"}
        /\ UNCHANGED << stream, run, reconnect >>
        /\ out'[t].pc \in {"half", "idle"}
        /\ out'[t].pc = "half" => out'[t].frame = out[t].frame
        /\ \A u \in Threads \ {t} : out'[u] = out[u]
    BY WriteEffect
  <1>2. My \in ConnRec
    BY DEF IInv, Types, Conns, My
  <1>3. \/ /\ My' = My
           /\ Ungreeted(My) => ~(out[t].to = "now")
        \/ ~Ungreeted(My')
    <2>1. CASE out[t].to = "now" /\ My.peer = "up" /\ ~Refused("now")
      BY <1>1, <1>2, <2>1, WriteEffect, ReceivedFirst DEF Ungreeted
    <2>2. CASE ~(out[t].to = "now" /\ My.peer = "up" /\ ~Refused("now"))
      <3>1. My' = My
        BY <2>2, WriteEffect
      <3>2. Ungreeted(My) => My.peer = "up" /\ ~Refused("now")
        BY DEF Ungreeted, Refused, My
      <3> QED BY <2>2, <3>1, <3>2
    <2> QED BY <2>1, <2>2
  <1>4. Connected' /\ Ungreeted(My') =>
           run'.pc = "greet" /\ out'["reader"].pc = "lock" /\ out'["reader"].to = "now"
    <2> SUFFICES ASSUME Connected', Ungreeted(My')
                 PROVE  run'.pc = "greet" /\ out'["reader"].pc = "lock"
                        /\ out'["reader"].to = "now"
      OBVIOUS
    <2>1. Ungreeted(My) /\ out[t].to # "now" /\ Connected
      BY <1>1, <1>3 DEF Connected
    <2>2. run.pc = "greet" /\ out["reader"].pc = "lock" /\ out["reader"].to = "now"
      BY <2>1 DEF Greeting
    <2>3. t # "reader" /\ "reader" \in Threads
      BY <2>1, <2>2 DEF Threads
    <2> QED BY <1>1, <2>2, <2>3
  <1>5. \A u \in Threads : /\ out'[u].pc # "idle" => out'[u].frame \in Ops
                           /\ out'[u].pc # "idle" => out[u].pc # "idle"
                                                     /\ out'[u].frame = out[u].frame
    BY <1>1 DEF Greeting
  <1>6. "stopper" \in Threads /\ "reader" \in Threads
    BY DEF Threads
  <1> QED BY <1>1, <1>4, <1>5, <1>6 DEF Greeting

\* Who is first on a connection, and is no HELO and no goodbye, is a stream that
\* has outlived the connection before.
LEMMA FirstWrites ==
    ASSUME IInv, Greeting, NEW t \in Threads, Write(t), My.first \notin Ops,
           My'.first \in {"STAT", "SETD"}
    PROVE  reconnect /\ out'["stream"] # out["stream"]
  <1>1. /\ out[t].frame \in Ops /\ out[t].pc \in {"lock", "half"}
        /\ out'[t].pc # out[t].pc /\ My \in ConnRec
    BY WriteEffect DEF IInv, Types, Conns, My
  <1>2. "STAT" \in Ops /\ "SETD" \in Ops
    BY DEF Ops, Others
  <1>3. /\ out[t].to = "now" /\ My.peer = "up" /\ ~Refused("now")
        /\ \E piece \in {1, 2} : My' = Received(My, t, piece)
    <2>1. My' # My
      BY <1>2
    <2> QED BY <2>1, WriteEffect
  <1>4. out[t].frame \in {"STAT", "SETD"} /\ Ungreeted(My)
    <2>1. My'.first \in {My.first, out[t].frame}
      BY <1>1, <1>3, ReceivedFirst
    <2> QED BY <1>2, <1>3, <2>1 DEF Ungreeted, Refused, My
  <1>5. out[t].frame \notin Helos /\ out[t].frame # Goodbye
    BY <1>4, Zenon DEF Helos, Goodbye
  <1>6. t # "stopper"
    BY <1>1, <1>5 DEF Greeting
  <1>7. t # "reader"
    <2> SUFFICES ASSUME t = "reader" PROVE FALSE
      OBVIOUS
    <2>1. Connected
      BY <1>1 DEF IInv, Senders, Done
    <2>2. run.pc = "greet"
      BY <1>4, <2>1 DEF Greeting
    <2> QED BY <1>1, <1>5, <2>2 DEF Greeting
  <1>8. t = "stream"
    BY <1>6, <1>7 DEF Threads
  <1>9. stream
    BY <1>1, <1>8 DEF IInv, Senders, Done
  <1> QED BY <1>1, <1>8, <1>9 DEF Greeting

\* No step of anybody breaks it, and only a write lets LMS see something.
LEMMA GreetingStep ==
    ASSUME IInv, Greeting, [Next]_vars
    PROVE  Greeting' /\ ((\E t \in Threads : Write(t))
                         \/ (My'.first \in Ops => My'.first = My.first))
  <1>1. CASE Lms \/ \E c \in Conns : Fill(c) \/ Drain(c) \/ Keepalive(c)
    BY <1>1, GreetingLms DEF Silent
  <1>2. CASE Reader \/ PollTimeout(TRUE)
    <2>1. CASE Connect
      BY <2>1, GreetingConnects
    <2>2. CASE ~Connect
      BY <1>2, <2>2, GreetingReads DEF Reader, Silent
    <2> QED BY <2>1, <2>2
  <1>3. CASE StreamStarts \/ StreamEnds \/ StreamEvent \/ RequestStop \/ Disconnect \/ Joined
    BY <1>3, GreetingStops DEF Silent
  <1>4. CASE \E t \in Threads : Write(t)
    BY <1>4, GreetingWrites
  <1>5. CASE UNCHANGED vars
    <2>1. UNCHANGED << stream, run, conns, out, reconnect >>
      BY <1>5 DEF vars, world
    <2> QED BY <2>1, GreetingKept DEF My, Silent
  <1> QED BY <1>1, <1>2, <1>3, <1>4, <1>5 DEF Next

\* connectOnce() and sendHelo(): of what is no goodbye nothing comes before HELO
\* on a connection, but an event of a stream that has outlived the one before:
\* for every script, timeout, number of outages and cut of the stream.
THEOREM HeloComesFirst == Spec => GreetsFirst
  <1> DEFINE First == My.first = "" /\ My.first' \in {"STAT", "SETD"}
                         => reconnect /\ out'["stream"] # out["stream"]
  <1>1. Init => Greeting
    <2> SUFFICES ASSUME Init PROVE Greeting
      OBVIOUS
    <2>1. run.pc = "start" /\ stream = FALSE /\ \A t \in Threads : out[t].pc = "idle"
      <3>1. At("start").pc = "start" /\ NotSending.pc = "idle"
        BY AtType, Zenon DEF RunPc, NotSending
      <3> QED BY <3>1, Zenon DEF Init
    <2>2. "reader" \in Threads /\ "stopper" \in Threads
      BY DEF Threads
    <2> QED BY <2>1, <2>2 DEF Greeting, Connected
  <1>2. IInv /\ Greeting /\ [Next]_vars => Greeting' /\ First
    <2> SUFFICES ASSUME IInv, Greeting, [Next]_vars PROVE Greeting' /\ First
      BY Zenon
    <2>1. My.first = "" => My.first \notin Ops
      BY Zenon DEF Ops, Helos, Others, Goodbye
    <2>2. "STAT" \in Ops /\ "SETD" \in Ops
      BY DEF Ops, Others
    <2>3. Greeting' /\ ((\E t \in Threads : Write(t))
                        \/ (My'.first \in Ops => My'.first = My.first))
      BY GreetingStep
    <2>4. My.first \notin Ops /\ My.first' \in {"STAT", "SETD"}
             => reconnect /\ out'["stream"] # out["stream"]
      BY <2>2, <2>3, FirstWrites
    <2> QED BY <2>1, <2>3, <2>4, Zenon
  <1>3. Spec => [](IInv /\ Greeting)
    BY <1>1, <1>2, Invariance, PTL DEF Spec
  <1> QED BY <1>2, <1>3, PTL DEF Spec, GreetsFirst

=============================================================================
