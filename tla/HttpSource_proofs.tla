-------------------------- MODULE HttpSource_proofs --------------------------
(* Whatever pieces the answer arrives in, however the connection ends and    *)
(* whoever interrupts or closes the source: the decoder gets the audio of the *)
(* body, and onMeta() its metadata blocks, in order and without a gap; and    *)
(* a stream that ends by itself ends after all that was sent.                *)
(* Proved for every set of answers and every size of buffer and piece.       *)
EXTENDS HttpSource, SharedLemmas

-----------------------------------------------------------------------------
(* The order of the units of an answer.                                     *)

Ticket == Unit("ticket", 0, 0)
Rounds(r) == Len(r.blocks)
NextRound(r, b) == IF b < Rounds(r) THEN b + 1 ELSE 0

\* The audio of round b; round 0 is the audio behind the last block.
Interval(r, b) == IF b = 0 THEN r.tail ELSE r.metaint

InAnswer(r, u) ==
    \/ u.kind = "header" /\ u.of = 0 /\ u.at \in 1 .. r.headers
    \/ u.kind = "end" /\ u.of = 0 /\ u.at = r.metaint
    \/ u.kind = "audio" /\ u.of \in 0 .. Rounds(r) /\ u.at \in 1 .. Interval(r, u.of)
    \/ u.kind = "len" /\ u.of \in 1 .. Rounds(r) /\ u.at = r.blocks[u.of]
    \/ u.kind = "meta" /\ u.of \in 1 .. Rounds(r) /\ u.at \in 1 .. r.blocks[u.of]

Kinds == {"header", "end", "audio", "len", "meta"}
UnitRec == [kind : Kinds, of : Nat, at : Nat]
Units(r) == { u \in UnitRec : InAnswer(r, u) }

\* Where the reader may stand in a body: behind the first `at` units of a
\* round's audio, or of its block.
IsCursor(r, c) ==
    \/ c.kind = "audio" /\ c.of \in 0 .. Rounds(r) /\ c.at \in 0 .. Interval(r, c.of)
    \/ c.kind = "meta" /\ c.of \in 1 .. Rounds(r) /\ c.at \in 0 .. r.blocks[c.of] - 1
Cursors(r) == { c \in UnitRec : IsCursor(r, c) }

\* The unit a reader meets next there, if any.
Ahead(r, c) ==
    IF c.kind = "meta" THEN { Unit("meta", c.of, c.at + 1) }
    ELSE IF c.at < Interval(r, c.of) THEN { Unit("audio", c.of, c.at + 1) }
    ELSE IF c.of = 0 THEN {} ELSE { Unit("len", c.of, r.blocks[c.of]) }

\* Where the reader stands after a unit, and what may follow the unit.
RoundAfter(r, b) == Unit("audio", NextRound(r, b), 0)
Behind(r, u) ==
    CASE u.kind = "end"   -> RoundAfter(r, 0)
      [] u.kind = "audio" -> u
      [] u.kind = "len"   -> IF u.at = 0 THEN RoundAfter(r, u.of) ELSE Unit("meta", u.of, 0)
      [] u.kind = "meta"  -> IF u.at = r.blocks[u.of] THEN RoundAfter(r, u.of) ELSE u
Follow(r, u) ==
    IF u.kind # "header" THEN Ahead(r, Behind(r, u))
    ELSE IF u.at < r.headers THEN { Unit("header", 0, u.at + 1) } ELSE { Unit("end", 0, r.metaint) }

\* Tickets apart, j is the first unit of a sequence, or the next one after i.
Leads(s, j) == s[j] # Ticket /\ \A k \in 1 .. j - 1 : s[k] = Ticket
Succeeds(s, i, j) ==
    i < j /\ s[i] # Ticket /\ s[j] # Ticket /\ \A k \in i + 1 .. j - 1 : s[k] = Ticket

\* Each unit may follow the one before it (without tickets: its neighbour), and
\* the first is one of `first`.
Ordered(r, s) == \A i, j \in 1 .. Len(s) : Succeeds(s, i, j) => s[j] \in Follow(r, s[i])
Linked(r, s) == \A i \in 1 .. Len(s) - 1 : s[i + 1] \in Follow(r, s[i])
StartsIn(first, s) == \A j \in 1 .. Len(s) : Leads(s, j) => s[j] \in first

-----------------------------------------------------------------------------
(* What the reader has at a place of the body.                               *)

AudioOfRounds(r) == [b \in DOMAIN r.blocks |-> Run("audio", b, r.metaint)]
BlockOf(r, b) == IF r.blocks[b] = 0 THEN << >> ELSE << Run("meta", b, r.blocks[b]) >>
BlocksOfRounds(r) == [b \in DOMAIN r.blocks |-> BlockOf(r, b)]

\* The rounds that lie wholly behind it.
Passed(r, c) == IF c.of = 0 THEN Rounds(r) ELSE c.of - 1

Heard(r, c) ==
    IF c.kind = "meta" THEN Flattened(AudioOfRounds(r), c.of)
    ELSE Flattened(AudioOfRounds(r), Passed(r, c)) \o Run("audio", c.of, c.at)
Told(r, c) == Flattened(BlocksOfRounds(r), Passed(r, c))

\* metaInterval_, metaCountdown_, metaBytesLeft_ and metaBuf_ there.
IcyAt(r, c) ==
    IF c.kind = "meta"
    THEN [interval |-> r.metaint, countdown |-> 0, bytesLeft |-> r.blocks[c.of] - c.at,
          metaBuf |-> Run("meta", c.of, c.at)]
    ELSE [interval |-> r.metaint, countdown |-> IF r.metaint = 0 THEN 0 ELSE r.metaint - c.at,
          bytesLeft |-> 0, metaBuf |-> << >>]

-----------------------------------------------------------------------------
(* The inductive invariant.                                                 *)

HeaderPhase == opener \in {"open", "connect", "handshake", "send", "header"}

\* The pump reads a connection that is up (or shut down, but not closed).
Live == published /\ opener \in {"attach", "free"}

OnWire(r) == Units(r) \cup {Ticket}
CallOf(S) == [produced : Seq(S), part : {"", "audio", "len", "meta"}, want : Nat]
Types ==
    /\ header \in Seq(Units(response)) /\ leftover \in Seq(Units(response))
    /\ toSend \in Seq(Units(response)) /\ audio \in Seq(Units(response))
    /\ call \in CallOf(Units(response)) /\ Len(call.produced) < BufferSize
    /\ wire \in Seq(OnWire(response)) /\ (~tls => wire \in Seq(Units(response)))
    /\ tickets \in Nat /\ tickets <= MaxTickets /\ Len(wire) <= WireSize + tickets

\* Who may be where, and what a reader that is not connected has.
Phases ==
    /\ opener # "free" => pump = "none"
    /\ pump = "none" => audio = << >> /\ blocks = << >>
    /\ pump \notin {"pull", "recv"} => call = NoCall
    /\ opener \in {"open", "connect", "handshake", "send"} => header = << >>
    /\ opener \in {"open", "connect", "handshake"} => ~published
    /\ opener \in {"send", "header"} => published
    /\ opener = "handshake" => fd = "up"
    /\ pump = "recv" => leftover = << >> /\ (published \/ fd = "closed")
    /\ ~Live => leftover = << >> /\ icy = NoIcy

\* What is under way continues what the reader has.
InOrder ==
    /\ HeaderPhase => Ordered(response, header \o (wire \o toSend))
    /\ \E c \in Cursors(response) :
        /\ audio \o call.produced = Heard(response, c) /\ blocks = Told(response, c)
        /\ Live => /\ icy = IcyAt(response, c)
                   /\ Ordered(response, leftover \o (wire \o toSend))
                   /\ StartsIn(Ahead(response, c), leftover \o (wire \o toSend))

\* The pull that waits for the transport asked for what the state still says.
Asked == pump = "recv" /\ published => call.part = Part /\ call.want = Want(call.produced)

IInv == TypeOK /\ Types /\ Phases /\ InOrder /\ Asked

-----------------------------------------------------------------------------
(* Nothing is lost, while nobody stops the stream.                          *)

\* What is under way, to a reader that holds the units of s.
UnderWay(s) == (ToSet(s) \cup ToSet(wire)) \cup ToSet(toSend)

\* The audio of the body has been heard or is in `have`, and each block has
\* been told or its last cell, which stands for it, is there.
Owed(r, heard, told, have) ==
    /\ \A u \in Units(r) : u.kind = "audio" => u \in heard \cup have
    /\ \A b \in 1 .. Rounds(r) : r.blocks[b] # 0 =>
          \/ Run("meta", b, r.blocks[b]) \in told
          \/ Unit("meta", b, r.blocks[b]) \in have
Got == ToSet(audio) \cup ToSet(call.produced)
Due(have) == Owed(response, Got, ToSet(blocks), have)

Ended == result \in {"AtEof", "Closed"}
NothingLost ==
    /\ HeaderPhase => Due(UnderWay(header))
    /\ Live => Due(UnderWay(leftover))
    /\ stopper = "away" /\ Ended => Due(ToSet(toSend))

Undisturbed ==
    /\ pump \in {"none", "start"} => result = "none"
    /\ pump \in {"pull", "recv"} => ~Ended
    /\ stopper = "away" =>
        /\ ~stop
        /\ Ended => peer # "up"
        /\ opener \in {"attach", "free"} /\ pump # "over" => published /\ fd = "up"
        /\ opener \in {"send", "header"} => fd = "up"

EInv == NothingLost /\ Undisturbed

-----------------------------------------------------------------------------
(* Answers.                                                                 *)

LEMMA ResponseIs ==
    ASSUME NEW r \in Responses
    PROVE  /\ r.headers \in Nat /\ r.metaint \in Nat /\ r.tail \in Nat
           /\ r.blocks \in Seq(Nat) /\ Rounds(r) \in Nat /\ DOMAIN r.blocks = 1 .. Rounds(r)
           /\ \A b \in 1 .. Rounds(r) : r.blocks[b] \in Nat
           /\ r.metaint = 0 => Rounds(r) = 0
           /\ r.metaint # 0 => r.tail <= r.metaint
           /\ \A b \in 0 .. Rounds(r) : Interval(r, b) \in Nat /\ NextRound(r, b) \in 0 .. Rounds(r)
  <1>1. /\ r.headers \in Nat /\ r.metaint \in Nat /\ r.tail \in Nat /\ r.blocks \in Seq(Nat)
        /\ IF r.metaint = 0 THEN r.blocks = << >> ELSE r.tail <= r.metaint
    BY ResponsesAssumption
  <1>2. /\ Rounds(r) \in Nat /\ DOMAIN r.blocks = 1 .. Rounds(r)
        /\ \A b \in 1 .. Rounds(r) : r.blocks[b] \in Nat
    BY <1>1, LenProperties, ElementOfSeq DEF Rounds
  <1>3. r.metaint = 0 => Rounds(r) = 0
    BY <1>1, EmptySeq DEF Rounds
  <1>4. \A b \in 0 .. Rounds(r) : Interval(r, b) \in Nat /\ NextRound(r, b) \in 0 .. Rounds(r)
    BY <1>1, <1>2 DEF Interval, NextRound
  <1> QED
    BY <1>1, <1>2, <1>3, <1>4

LEMMA RunIs ==
    ASSUME NEW kind, NEW b, NEW n \in Nat
    PROVE  /\ Len(Run(kind, b, n)) = n
           /\ \A i \in 1 .. n : Run(kind, b, n)[i] = Unit(kind, b, i)
           /\ \A S : (\A i \in 1 .. n : Unit(kind, b, i) \in S) => Run(kind, b, n) \in Seq(S)
  <1>1. Run(kind, b, n) = [i \in 1 .. n |-> Unit(kind, b, i)]
    BY Zenon DEF Run
  <1>2. ASSUME NEW S, \A i \in 1 .. n : Unit(kind, b, i) \in S
        PROVE  Run(kind, b, n) \in Seq(S)
    BY <1>1, <1>2
  <1> QED
    BY <1>1, <1>2

\* The units of p are numbered on from m.
IsRun(kind, b, m, p) == \A i \in 1 .. Len(p) : p[i] = Unit(kind, b, m + i)

\* A piece that goes on where a run ends makes it longer.
LEMMA RunGrows ==
    ASSUME NEW kind, NEW b, NEW n \in Nat, NEW S, NEW p \in Seq(S), IsRun(kind, b, n, p),
           Run(kind, b, n) \in Seq(S), Run(kind, b, n + Len(p)) \in Seq(S)
    PROVE  Run(kind, b, n) \o p = Run(kind, b, n + Len(p))
  <1> DEFINE s == Run(kind, b, n)
             t == Run(kind, b, n + Len(p))
  <1>1. Len(p) \in Nat /\ n + Len(p) \in Nat
    BY LenProperties
  <1>2. s \in Seq(S) /\ Len(s) = n /\ \A i \in 1 .. n : s[i] = Unit(kind, b, i)
    BY <1>1, RunIs
  <1>3. /\ t \in Seq(S) /\ Len(t) = n + Len(p)
        /\ \A i \in 1 .. n + Len(p) : t[i] = Unit(kind, b, i)
    BY <1>1, RunIs
  <1> HIDE DEF s, t
  <1>4. /\ s \o p \in Seq(S) /\ Len(s \o p) = n + Len(p)
        /\ \A i \in 1 .. n + Len(p) : (s \o p)[i] = IF i <= n THEN s[i] ELSE p[i - n]
    BY <1>2, ConcatProperties
  <1>5. ASSUME NEW i \in 1 .. n + Len(p)
        PROVE  (s \o p)[i] = t[i]
    <2>1. CASE i <= n
      <3>1. i \in 1 .. n
        BY <1>1, <2>1
      <3> QED
        BY <1>2, <1>3, <1>4, <2>1, <3>1
    <2>2. CASE ~ (i <= n)
      <3>1. i - n \in 1 .. Len(p) /\ n + (i - n) = i
        BY <1>1, <2>2
      <3>2. p[i - n] = Unit(kind, b, n + (i - n))
        BY <3>1 DEF IsRun
      <3> QED
        BY <1>3, <1>4, <2>2, <3>1, <3>2
    <2> QED
      BY <2>1, <2>2
  <1> QED
    BY <1>3, <1>4, <1>5, SeqEqual DEF s, t

-----------------------------------------------------------------------------
(* Order.                                                                   *)

\* The places of s \o t.
LEMMA PlacesOf ==
    ASSUME NEW S, NEW s \in Seq(S), NEW t \in Seq(S)
    PROVE  /\ s \o t \in Seq(S) /\ Len(s \o t) = Len(s) + Len(t)
           /\ Len(s) \in Nat /\ Len(t) \in Nat
           /\ \A i \in 1 .. Len(s) : (s \o t)[i] = s[i]
           /\ \A i \in 1 .. Len(t) : (s \o t)[Len(s) + i] = t[i]
  <1>1. Len(s) \in Nat /\ Len(t) \in Nat
    BY LenProperties
  <1>2. /\ s \o t \in Seq(S) /\ Len(s \o t) = Len(s) + Len(t)
        /\ \A i \in 1 .. Len(s) + Len(t) :
              (s \o t)[i] = IF i <= Len(s) THEN s[i] ELSE t[i - Len(s)]
    BY ConcatProperties
  <1>3. \A i \in 1 .. Len(s) : i \in 1 .. Len(s) + Len(t) /\ i <= Len(s)
    BY <1>1
  <1>4. \A i \in 1 .. Len(t) : /\ Len(s) + i \in 1 .. Len(s) + Len(t) /\ ~ (Len(s) + i <= Len(s))
                               /\ (Len(s) + i) - Len(s) = i
    BY <1>1
  <1> QED
    BY <1>1, <1>2, <1>3, <1>4

\* Tickets may be put in, or taken out, anywhere.
LEMMA TicketsAside ==
    ASSUME NEW S, NEW s \in Seq(S), NEW q \in Seq(S), NEW t \in Seq(S), NEW r, NEW first,
           \A i \in 1 .. Len(q) : q[i] = Ticket
    PROVE  /\ Ordered(r, s \o (q \o t)) <=> Ordered(r, s \o t)
           /\ StartsIn(first, s \o (q \o t)) <=> StartsIn(first, s \o t)
  <1> DEFINE x == s \o (q \o t)
             y == s \o t
             a == Len(s)
             d == Len(q)
             n == Len(t)
  <1>1. /\ a \in Nat /\ d \in Nat /\ n \in Nat
        /\ Len(x) = a + (d + n) /\ Len(y) = a + n
        /\ \A i \in 1 .. a : x[i] = y[i]
        /\ \A i \in 1 .. d : x[a + i] = Ticket
        /\ \A i \in 1 .. n : x[a + (d + i)] = y[a + i]
    <2> DEFINE u == q \o t
    <2>1. /\ u \in Seq(S) /\ Len(u) = d + n /\ d \in Nat /\ n \in Nat
          /\ \A i \in 1 .. d : u[i] = Ticket
          /\ \A i \in 1 .. n : u[d + i] = t[i]
      BY PlacesOf
    <2> HIDE DEF u
    <2>2. /\ a \in Nat /\ Len(s \o u) = a + (d + n)
          /\ \A i \in 1 .. a : (s \o u)[i] = s[i]
          /\ \A i \in 1 .. d + n : (s \o u)[a + i] = u[i]
      <3>1. u \in Seq(S)
        BY <2>1
      <3>2. /\ Len(s) \in Nat /\ Len(s \o u) = Len(s) + Len(u)
            /\ \A i \in 1 .. Len(s) : (s \o u)[i] = s[i]
            /\ \A i \in 1 .. Len(u) : (s \o u)[Len(s) + i] = u[i]
        BY <3>1, PlacesOf
      <3> QED
        BY <2>1, <3>2
    <2>3. /\ Len(y) = a + n
          /\ \A i \in 1 .. a : y[i] = s[i]
          /\ \A i \in 1 .. n : y[a + i] = t[i]
      BY PlacesOf
    <2>4. \A i \in 1 .. d : i \in 1 .. d + n
      BY <2>1
    <2>5. \A i \in 1 .. n : d + i \in 1 .. d + n
      BY <2>1
    <2> QED
      BY <2>1, <2>2, <2>3, <2>4, <2>5 DEF u
  <1> DEFINE Up(i) == IF i <= a THEN i ELSE i + d
             Down(i) == IF i <= a THEN i ELSE i - d
  <1> HIDE DEF x, y, a, d, n
  <1>2. \A i \in 1 .. a + n : Up(i) \in 1 .. a + (d + n) /\ x[Up(i)] = y[i]
    <2> SUFFICES ASSUME NEW i \in 1 .. a + n
                 PROVE  Up(i) \in 1 .. a + (d + n) /\ x[Up(i)] = y[i]
      OBVIOUS
    <2>1. CASE i <= a
      BY <1>1, <2>1
    <2>2. CASE ~ (i <= a)
      <3>1. /\ i - a \in 1 .. n /\ a + (i - a) = i /\ a + (d + (i - a)) = i + d
            /\ Up(i) = i + d /\ i + d \in 1 .. a + (d + n)
        BY <1>1, <2>2
      <3> QED
        BY <1>1, <3>1
    <2> QED
      BY <2>1, <2>2
  <1>3. \A i \in 1 .. a + (d + n) : x[i] # Ticket =>
            Down(i) \in 1 .. a + n /\ x[i] = y[Down(i)] /\ (i <= a \/ i > a + d)
    <2> SUFFICES ASSUME NEW i \in 1 .. a + (d + n), x[i] # Ticket
                 PROVE  Down(i) \in 1 .. a + n /\ x[i] = y[Down(i)] /\ (i <= a \/ i > a + d)
      OBVIOUS
    <2>1. CASE i <= a
      BY <1>1, <2>1
    <2>2. CASE ~ (i <= a) /\ i <= a + d
      <3>1. i - a \in 1 .. d /\ a + (i - a) = i
        BY <1>1, <2>2
      <3> QED
        BY <1>1, <3>1
    <2>3. CASE i > a + d
      <3>1. /\ i - (a + d) \in 1 .. n /\ a + (d + (i - (a + d))) = i /\ a + (i - (a + d)) = i - d
            /\ Down(i) = i - d /\ i - d \in 1 .. a + n
        BY <1>1, <2>3
      <3> QED
        BY <1>1, <2>3, <3>1
    <2> QED
      BY <1>1, <2>1, <2>2, <2>3
  <1>4. ASSUME NEW i \in 1 .. a + n, NEW j \in 1 .. a + n, Succeeds(y, i, j)
        PROVE  Succeeds(x, Up(i), Up(j))
    <2>1. Up(i) < Up(j) /\ x[Up(i)] # Ticket /\ x[Up(j)] # Ticket
      BY <1>1, <1>2, <1>4 DEF Succeeds
    <2>2. ASSUME NEW k \in Up(i) + 1 .. Up(j) - 1, x[k] # Ticket
          PROVE  FALSE
      <3>1. k \in 1 .. a + (d + n)
        <4>1. Up(i) \in 1 .. a + (d + n) /\ Up(j) \in 1 .. a + (d + n)
          BY <1>2
        <4> HIDE DEF Up
        <4> QED
          BY <1>1, <4>1, SMTT(120)
      <3>2. x[k] = y[Down(k)] /\ (k <= a \/ k > a + d)
        BY <1>3, <2>2, <3>1
      <3>3. Down(k) \in i + 1 .. j - 1
        BY <1>1, <3>1, <3>2
      <3> QED
        BY <1>4, <2>2, <3>2, <3>3 DEF Succeeds
    <2> QED
      BY <2>1, <2>2 DEF Succeeds
  <1>5. ASSUME NEW i \in 1 .. a + (d + n), NEW j \in 1 .. a + (d + n), Succeeds(x, i, j)
        PROVE  Down(i) \in 1 .. a + n /\ Down(j) \in 1 .. a + n /\ Succeeds(y, Down(i), Down(j))
               /\ x[i] = y[Down(i)] /\ x[j] = y[Down(j)]
    <2>1. x[i] # Ticket /\ x[j] # Ticket /\ i < j
      BY <1>5 DEF Succeeds
    <2>2. /\ Down(i) \in 1 .. a + n /\ Down(j) \in 1 .. a + n
          /\ x[i] = y[Down(i)] /\ x[j] = y[Down(j)]
          /\ (i <= a \/ i > a + d) /\ (j <= a \/ j > a + d)
      BY <1>3, <2>1
    <2>3. Down(i) < Down(j)
      BY <1>1, <2>1, <2>2
    <2>4. ASSUME NEW k \in Down(i) + 1 .. Down(j) - 1
          PROVE  y[k] = Ticket
      <3>1. k \in 1 .. a + n
        BY <1>1, <2>2
      <3>2. x[Up(k)] = y[k]
        BY <1>2, <3>1
      <3>3. Up(k) \in i + 1 .. j - 1
        BY <1>1, <2>1, <2>2, <3>1
      <3> QED
        BY <1>5, <3>2, <3>3 DEF Succeeds
    <2> QED
      BY <2>1, <2>2, <2>3, <2>4 DEF Succeeds
  <1>6. ASSUME NEW j \in 1 .. a + n, Leads(y, j)
        PROVE  Leads(x, Up(j))
    <2>1. x[Up(j)] # Ticket
      BY <1>2, <1>6 DEF Leads
    <2>2. ASSUME NEW k \in 1 .. Up(j) - 1, x[k] # Ticket
          PROVE  FALSE
      <3>1. k \in 1 .. a + (d + n)
        <4>1. Up(j) \in 1 .. a + (d + n)
          BY <1>2
        <4> HIDE DEF Up
        <4> QED
          BY <1>1, <4>1
      <3>2. x[k] = y[Down(k)] /\ (k <= a \/ k > a + d)
        BY <1>3, <2>2, <3>1
      <3>3. Down(k) \in 1 .. j - 1
        BY <1>1, <3>1, <3>2
      <3> QED
        BY <1>6, <2>2, <3>2, <3>3 DEF Leads
    <2> QED
      BY <2>1, <2>2 DEF Leads
  <1>7. ASSUME NEW j \in 1 .. a + (d + n), Leads(x, j)
        PROVE  Down(j) \in 1 .. a + n /\ Leads(y, Down(j)) /\ x[j] = y[Down(j)]
    <2>1. x[j] # Ticket
      BY <1>7 DEF Leads
    <2>2. Down(j) \in 1 .. a + n /\ x[j] = y[Down(j)] /\ (j <= a \/ j > a + d)
      BY <1>3, <2>1
    <2>3. ASSUME NEW k \in 1 .. Down(j) - 1
          PROVE  y[k] = Ticket
      <3>1. k \in 1 .. a + n
        BY <1>1, <2>2
      <3>2. x[Up(k)] = y[k]
        BY <1>2, <3>1
      <3>3. Up(k) \in 1 .. j - 1
        BY <1>1, <2>2, <3>1
      <3> QED
        BY <1>7, <3>2, <3>3 DEF Leads
    <2> QED
      BY <2>1, <2>2, <2>3 DEF Leads
  <1> HIDE DEF Up, Down
  <1>8. Ordered(r, x) => Ordered(r, y)
    BY <1>1, <1>2, <1>4 DEF Ordered
  <1>9. Ordered(r, y) => Ordered(r, x)
    BY <1>1, <1>5 DEF Ordered
  <1>10. StartsIn(first, x) => StartsIn(first, y)
    BY <1>1, <1>2, <1>6 DEF StartsIn
  <1>11. StartsIn(first, y) => StartsIn(first, x)
    BY <1>1, <1>7 DEF StartsIn
  <1> QED
    BY <1>8, <1>9, <1>10, <1>11 DEF x, y

LEMMA UnitsAreNoTickets ==
    ASSUME NEW r
    PROVE  \A u \in Units(r) : u # Ticket
  BY DEF Units, InAnswer, Ticket, Unit

\* Without tickets, order is what neighbours keep.
LEMMA OrderedIfNeighbours ==
    ASSUME NEW r, NEW s, Len(s) \in Nat, \A i \in 1 .. Len(s) : s[i] # Ticket,
           Linked(r, s)
    PROVE  Ordered(r, s)
  <1> SUFFICES ASSUME NEW i \in 1 .. Len(s), NEW j \in 1 .. Len(s), Succeeds(s, i, j)
               PROVE  s[j] \in Follow(r, s[i])
    BY DEF Ordered
  <1>1. i < j /\ \A k \in i + 1 .. j - 1 : s[k] = Ticket
    BY DEF Succeeds
  <1>2. j = i + 1
    <2> SUFFICES ASSUME j # i + 1 PROVE FALSE
      OBVIOUS
    <2>1. i + 1 \in i + 1 .. j - 1 /\ i + 1 \in 1 .. Len(s)
      BY <1>1
    <2> QED
      BY <1>1, <2>1
  <1>3. i \in 1 .. Len(s) - 1
    BY <1>1, <1>2
  <1> QED
    BY <1>2, <1>3 DEF Linked

\* A piece is read off the front of what is under way.
LEMMA PieceInOrder ==
    ASSUME NEW r, NEW S, NEW p \in Seq(S), NEW t \in Seq(S), Len(p) > 0,
           \A i \in 1 .. Len(p) : p[i] # Ticket, Ordered(r, p \o t)
    PROVE  /\ \A first : StartsIn(first, p \o t) => p[1] \in first
           /\ Linked(r, p)
           /\ Ordered(r, t) /\ StartsIn(Follow(r, p[Len(p)]), t)
  <1> DEFINE s == p \o t
             a == Len(p)
  <1>1. /\ a \in Nat /\ Len(t) \in Nat /\ Len(s) = a + Len(t)
        /\ \A i \in 1 .. a : s[i] = p[i] /\ s[i] # Ticket
        /\ \A i \in 1 .. Len(t) : s[a + i] = t[i]
    BY PlacesOf
  <1>2. a > 0 /\ Ordered(r, s)
    OBVIOUS
  <1> HIDE DEF s, a
  <1>3. ASSUME NEW first, StartsIn(first, s)
        PROVE  p[1] \in first
    <2>1. 1 \in 1 .. Len(s) /\ 1 \in 1 .. a
      BY <1>1, <1>2
    <2>2. Leads(s, 1)
      BY <1>1, <2>1 DEF Leads
    <2> QED
      BY <1>1, <1>3, <2>1, <2>2 DEF StartsIn
  <1>4. ASSUME NEW i \in 1 .. a - 1
        PROVE  p[i + 1] \in Follow(r, p[i])
    <2>1. i \in 1 .. Len(s) /\ i + 1 \in 1 .. Len(s) /\ i \in 1 .. a /\ i + 1 \in 1 .. a
      BY <1>1
    <2>2. Succeeds(s, i, i + 1)
      BY <1>1, <2>1 DEF Succeeds
    <2>3. s[i + 1] \in Follow(r, s[i])
      BY <1>2, <2>1, <2>2 DEF Ordered
    <2> QED
      BY <1>1, <2>1, <2>3
  <1>5. Ordered(r, t)
    <2> SUFFICES ASSUME NEW i \in 1 .. Len(t), NEW j \in 1 .. Len(t), Succeeds(t, i, j)
                 PROVE  t[j] \in Follow(r, t[i])
      BY DEF Ordered
    <2>1. a + i \in 1 .. Len(s) /\ a + j \in 1 .. Len(s) /\ s[a + i] = t[i] /\ s[a + j] = t[j]
      BY <1>1
    <2>2. \A k \in (a + i) + 1 .. (a + j) - 1 : s[k] = Ticket
      <3> SUFFICES ASSUME NEW k \in (a + i) + 1 .. (a + j) - 1 PROVE s[k] = Ticket
        OBVIOUS
      <3>1. k - a \in i + 1 .. j - 1 /\ k - a \in 1 .. Len(t) /\ a + (k - a) = k
        BY <1>1
      <3> QED
        BY <1>1, <3>1 DEF Succeeds
    <2>3. Succeeds(s, a + i, a + j)
      BY <1>1, <2>1, <2>2 DEF Succeeds
    <2> QED
      BY <1>2, <2>1, <2>3 DEF Ordered
  <1>6. StartsIn(Follow(r, p[a]), t)
    <2> SUFFICES ASSUME NEW j \in 1 .. Len(t), Leads(t, j)
                 PROVE  t[j] \in Follow(r, p[a])
      BY DEF StartsIn
    <2>1. a \in 1 .. Len(s) /\ a + j \in 1 .. Len(s) /\ s[a] = p[a] /\ s[a + j] = t[j] /\ s[a] # Ticket
      BY <1>1, <1>2
    <2>2. \A k \in a + 1 .. (a + j) - 1 : s[k] = Ticket
      <3> SUFFICES ASSUME NEW k \in a + 1 .. (a + j) - 1 PROVE s[k] = Ticket
        OBVIOUS
      <3>1. k - a \in 1 .. j - 1 /\ k - a \in 1 .. Len(t) /\ a + (k - a) = k
        BY <1>1
      <3> QED
        BY <1>1, <3>1 DEF Leads
    <2>3. Succeeds(s, a, a + j)
      BY <1>1, <2>1, <2>2 DEF Succeeds, Leads
    <2> QED
      BY <1>2, <2>1, <2>3 DEF Ordered
  <1> QED
    BY <1>3, <1>4, <1>5, <1>6 DEF Linked, s, a

-----------------------------------------------------------------------------
(* What the server means to send is in order.                               *)

\* Neighbours in s \o t are neighbours in one of the two, or the last of s and
\* the first of t.
LEMMA NeighboursOf ==
    ASSUME NEW r, NEW S, NEW s \in Seq(S), NEW t \in Seq(S), Len(s) > 0,
           Linked(r, s),
           Linked(r, t),
           Len(t) > 0 => t[1] \in Follow(r, s[Len(s)])
    PROVE  /\ Linked(r, s \o t)
           /\ Len(t) > 0 => (s \o t)[Len(s \o t)] = t[Len(t)]
           /\ Len(t) = 0 => (s \o t)[Len(s \o t)] = s[Len(s)]
           /\ s \o t \in Seq(S) /\ Len(s \o t) = Len(s) + Len(t) /\ Len(s \o t) > 0
  <1> DEFINE x == s \o t
             a == Len(s)
             n == Len(t)
  <1>1. /\ x \in Seq(S) /\ a \in Nat /\ n \in Nat /\ Len(x) = a + n
        /\ \A i \in 1 .. a : x[i] = s[i]
        /\ \A i \in 1 .. n : x[a + i] = t[i]
    BY PlacesOf
  <1>2. a > 0
    OBVIOUS
  <1> HIDE DEF x, a, n
  <1>3. n > 0 => x[a + n] = t[n]
    BY <1>1
  <1>4. n = 0 => x[a + n] = s[a]
    BY <1>1, <1>2
  <1>5. ASSUME NEW i \in 1 .. a + n - 1
        PROVE  x[i + 1] \in Follow(r, x[i])
    <2>1. CASE i < a
      <3>1. i \in 1 .. a /\ i + 1 \in 1 .. a /\ i \in 1 .. a - 1
        BY <1>1, <2>1
      <3>2. x[i] = s[i] /\ x[i + 1] = s[i + 1]
        BY <1>1, <3>1
      <3>3. s[i + 1] \in Follow(r, s[i])
        BY <3>1 DEF Linked, a
      <3> QED
        BY <3>2, <3>3
    <2>2. CASE i = a
      <3>1. 1 \in 1 .. n /\ a \in 1 .. a /\ n > 0
        BY <1>1, <1>2, <2>2
      <3>2. x[i] = s[a] /\ x[i + 1] = t[1]
        BY <1>1, <2>2, <3>1
      <3>3. t[1] \in Follow(r, s[a])
        BY <3>1 DEF a, n
      <3> QED
        BY <3>2, <3>3
    <2>3. CASE i > a
      <3>1. i - a \in 1 .. n /\ (i - a) + 1 \in 1 .. n /\ i - a \in 1 .. n - 1
            /\ a + (i - a) = i /\ a + ((i - a) + 1) = i + 1
        BY <1>1, <2>3
      <3>2. x[i] = t[i - a] /\ x[i + 1] = t[(i - a) + 1]
        BY <1>1, <3>1
      <3>3. t[(i - a) + 1] \in Follow(r, t[i - a])
        BY <3>1 DEF Linked, n
      <3> QED
        BY <3>2, <3>3
    <2> QED
      BY <1>1, <2>1, <2>2, <2>3
  <1> QED
    BY <1>1, <1>2, <1>3, <1>4, <1>5 DEF Linked, x, a, n

\* What may follow each unit.
LEMMA FollowIs ==
    ASSUME NEW r \in Responses
    PROVE  /\ \A i \in 1 .. r.headers :
                Follow(r, Unit("header", 0, i)) =
                    { IF i < r.headers THEN Unit("header", 0, i + 1) ELSE Unit("end", 0, r.metaint) }
           /\ Follow(r, Unit("end", 0, r.metaint)) = Ahead(r, RoundAfter(r, 0))
           /\ \A b \in 0 .. Rounds(r) : \A j \in 0 .. Interval(r, b) :
                Ahead(r, Unit("audio", b, j)) =
                    IF j < Interval(r, b) THEN { Unit("audio", b, j + 1) }
                    ELSE IF b = 0 THEN {} ELSE { Unit("len", b, r.blocks[b]) }
           /\ \A b \in 0 .. Rounds(r), j \in Nat :
                Follow(r, Unit("audio", b, j)) = Ahead(r, Unit("audio", b, j))
           /\ \A b \in 1 .. Rounds(r) : Follow(r, Unit("len", b, r.blocks[b])) =
                    IF r.blocks[b] = 0 THEN Ahead(r, RoundAfter(r, b)) ELSE { Unit("meta", b, 1) }
           /\ \A b \in 1 .. Rounds(r), k \in Nat :
                Follow(r, Unit("meta", b, k)) =
                    IF k = r.blocks[b] THEN Ahead(r, RoundAfter(r, b)) ELSE { Unit("meta", b, k + 1) }
           /\ \A b \in 0 .. Rounds(r) :
                Ahead(r, RoundAfter(r, b)) =
                    IF b < Rounds(r) THEN { Unit("audio", b + 1, 1) }
                    ELSE IF r.tail > 0 THEN { Unit("audio", 0, 1) } ELSE {}
  <1>1. \A i \in 1 .. r.headers :
            Follow(r, Unit("header", 0, i)) =
                { IF i < r.headers THEN Unit("header", 0, i + 1) ELSE Unit("end", 0, r.metaint) }
    BY DEF Follow, Unit
  <1>2. Follow(r, Unit("end", 0, r.metaint)) = Ahead(r, RoundAfter(r, 0))
    BY DEF Follow, Behind, Unit
  <1>3. \A b \in 0 .. Rounds(r) : \A j \in 0 .. Interval(r, b) :
            Ahead(r, Unit("audio", b, j)) =
                IF j < Interval(r, b) THEN { Unit("audio", b, j + 1) }
                ELSE IF b = 0 THEN {} ELSE { Unit("len", b, r.blocks[b]) }
    BY DEF Ahead, Unit
  <1>4. \A b \in 0 .. Rounds(r), j \in Nat :
            Follow(r, Unit("audio", b, j)) = Ahead(r, Unit("audio", b, j))
    BY DEF Follow, Behind, Unit
  <1>5. \A b \in 1 .. Rounds(r) : Follow(r, Unit("len", b, r.blocks[b])) =
            IF r.blocks[b] = 0 THEN Ahead(r, RoundAfter(r, b)) ELSE { Unit("meta", b, 1) }
    <2>1. \A b : Ahead(r, Unit("meta", b, 0)) = { Unit("meta", b, 1) }
      BY DEF Ahead, Unit
    <2> QED
      BY <2>1 DEF Follow, Behind, Unit
  <1>6. \A b \in 1 .. Rounds(r), k \in Nat :
            Follow(r, Unit("meta", b, k)) =
                IF k = r.blocks[b] THEN Ahead(r, RoundAfter(r, b)) ELSE { Unit("meta", b, k + 1) }
    <2>1. \A b, k : Ahead(r, Unit("meta", b, k)) = { Unit("meta", b, k + 1) }
      BY DEF Ahead, Unit
    <2> QED
      BY <2>1 DEF Follow, Behind, Unit
  <1>7. \A b \in 0 .. Rounds(r) :
            Ahead(r, RoundAfter(r, b)) =
                IF b < Rounds(r) THEN { Unit("audio", b + 1, 1) }
                ELSE IF r.tail > 0 THEN { Unit("audio", 0, 1) } ELSE {}
    <2> SUFFICES ASSUME NEW b \in 0 .. Rounds(r)
                 PROVE  Ahead(r, RoundAfter(r, b)) =
                            IF b < Rounds(r) THEN { Unit("audio", b + 1, 1) }
                            ELSE IF r.tail > 0 THEN { Unit("audio", 0, 1) } ELSE {}
      OBVIOUS
    <2>1. /\ Rounds(r) \in Nat /\ r.metaint \in Nat /\ r.tail \in Nat
          /\ r.metaint = 0 => Rounds(r) = 0
      BY ResponseIs
    <2>2. CASE b < Rounds(r)
      <3>1. b + 1 \in 0 .. Rounds(r) /\ Interval(r, b + 1) = r.metaint /\ 0 < r.metaint
        BY <2>1, <2>2 DEF Interval
      <3>2. Ahead(r, Unit("audio", b + 1, 0)) = { Unit("audio", b + 1, 0 + 1) }
        BY <1>3, <2>1, <3>1
      <3> QED
        BY <2>2, <3>2 DEF RoundAfter, NextRound
    <2>3. CASE ~ (b < Rounds(r))
      <3>1. 0 \in 0 .. Rounds(r) /\ Interval(r, 0) = r.tail /\ 0 \in 0 .. Interval(r, 0)
        BY <2>1 DEF Interval
      <3>2. Ahead(r, Unit("audio", 0, 0)) = IF 0 < r.tail THEN { Unit("audio", 0, 0 + 1) } ELSE {}
        BY <1>3, <2>1, <3>1
      <3> QED
        BY <2>1, <2>3, <3>2 DEF RoundAfter, NextRound
    <2> QED
      BY <2>2, <2>3
  <1> QED
    BY <1>1, <1>2, <1>3, <1>4, <1>5, <1>6, <1>7

LEMMA UnitsOf ==
    ASSUME NEW r \in Responses
    PROVE  /\ \A i \in 1 .. r.headers : Unit("header", 0, i) \in Units(r)
           /\ Unit("end", 0, r.metaint) \in Units(r)
           /\ \A b \in 0 .. Rounds(r) : \A j \in 1 .. Interval(r, b) : Unit("audio", b, j) \in Units(r)
           /\ \A b \in 1 .. Rounds(r) : Unit("len", b, r.blocks[b]) \in Units(r)
           /\ \A b \in 1 .. Rounds(r) : \A k \in 1 .. r.blocks[b] : Unit("meta", b, k) \in Units(r)
  <1>1. /\ r.headers \in Nat /\ r.metaint \in Nat /\ r.tail \in Nat /\ Rounds(r) \in Nat
        /\ \A b \in 1 .. Rounds(r) : r.blocks[b] \in Nat
        /\ \A b \in 0 .. Rounds(r) : Interval(r, b) \in Nat
    BY ResponseIs
  <1>2. ASSUME NEW kind \in Kinds, NEW b \in Nat, NEW n \in Nat, InAnswer(r, Unit(kind, b, n))
        PROVE  Unit(kind, b, n) \in Units(r)
    BY <1>2, Zenon DEF Units, UnitRec, Unit
  <1>3. \A kind, b, n : /\ Unit(kind, b, n).kind = kind /\ Unit(kind, b, n).of = b
                        /\ Unit(kind, b, n).at = n
    BY DEF Unit
  <1>4. /\ "header" \in Kinds /\ "end" \in Kinds /\ "audio" \in Kinds
        /\ "len" \in Kinds /\ "meta" \in Kinds
    BY DEF Kinds
  <1>5. ASSUME NEW i \in 1 .. r.headers
        PROVE  Unit("header", 0, i) \in Units(r)
    <2>1. i \in Nat /\ InAnswer(r, Unit("header", 0, i))
      BY <1>1, <1>3 DEF InAnswer
    <2> QED
      BY <1>2, <1>4, <2>1
  <1>6. Unit("end", 0, r.metaint) \in Units(r)
    <2>1. InAnswer(r, Unit("end", 0, r.metaint))
      BY <1>3 DEF InAnswer
    <2> QED
      BY <1>1, <1>2, <1>4, <2>1
  <1>7. ASSUME NEW b \in 0 .. Rounds(r), NEW j \in 1 .. Interval(r, b)
        PROVE  Unit("audio", b, j) \in Units(r)
    <2>1. b \in Nat /\ j \in Nat /\ InAnswer(r, Unit("audio", b, j))
      BY <1>1, <1>3 DEF InAnswer
    <2> QED
      BY <1>2, <1>4, <2>1
  <1>8. ASSUME NEW b \in 1 .. Rounds(r)
        PROVE  Unit("len", b, r.blocks[b]) \in Units(r)
    <2>1. b \in Nat /\ InAnswer(r, Unit("len", b, r.blocks[b]))
      BY <1>1, <1>3 DEF InAnswer
    <2> QED
      BY <1>1, <1>2, <1>4, <2>1
  <1>9. ASSUME NEW b \in 1 .. Rounds(r), NEW k \in 1 .. r.blocks[b]
        PROVE  Unit("meta", b, k) \in Units(r)
    <2>1. b \in Nat /\ k \in Nat /\ InAnswer(r, Unit("meta", b, k))
      BY <1>1, <1>3 DEF InAnswer
    <2> QED
      BY <1>2, <1>4, <2>1
  <1> QED
    BY <1>5, <1>6, <1>7, <1>8, <1>9

\* A run is in order if each of its units may follow the one before.
LEMMA RunInOrder ==
    ASSUME NEW r, NEW kind, NEW b, NEW n \in Nat,
           \A i \in 1 .. n - 1 : Unit(kind, b, i + 1) \in Follow(r, Unit(kind, b, i))
    PROVE  Linked(r, Run(kind, b, n))
  <1>1. Len(Run(kind, b, n)) = n /\ \A i \in 1 .. n : Run(kind, b, n)[i] = Unit(kind, b, i)
    BY RunIs
  <1>2. \A i \in 1 .. n - 1 : i \in 1 .. n /\ i + 1 \in 1 .. n
    OBVIOUS
  <1> QED
    BY <1>1, <1>2 DEF Linked

\* A round: its audio comes first, and what follows it begins the next.
LEMMA RoundInOrder ==
    ASSUME NEW r \in Responses, NEW b \in 1 .. Rounds(r)
    PROVE  LET s == Round(r, b)
           IN  /\ s \in Seq(Units(r)) /\ Len(s) > 0
               /\ Linked(r, s)
               /\ s[1] = Unit("audio", b, 1)
               /\ Follow(r, s[Len(s)]) = Ahead(r, RoundAfter(r, b))
  <1> DEFINE S == Units(r)
             n == r.metaint
             k == r.blocks[b]
             a == Run("audio", b, n)
             l == << Unit("len", b, k) >>
             m == Run("meta", b, k)
             x == a \o l
  <1>1. /\ n \in Nat /\ n > 0 /\ k \in Nat /\ Rounds(r) \in Nat
        /\ Interval(r, b) = n /\ b \in 0 .. Rounds(r)
    BY ResponseIs DEF Interval
  <1>2. /\ a \in Seq(S) /\ Len(a) = n /\ \A i \in 1 .. n : a[i] = Unit("audio", b, i)
        /\ m \in Seq(S) /\ Len(m) = k /\ \A i \in 1 .. k : m[i] = Unit("meta", b, i)
        /\ l \in Seq(S) /\ Len(l) = 1 /\ l[1] = Unit("len", b, k)
    <2>1. /\ \A i \in 1 .. n : Unit("audio", b, i) \in S
          /\ \A i \in 1 .. k : Unit("meta", b, i) \in S
          /\ Unit("len", b, k) \in S
      BY <1>1, UnitsOf
    <2>2. a \in Seq(S) /\ Len(a) = n /\ \A i \in 1 .. n : a[i] = Unit("audio", b, i)
      <3> HIDE DEF S, n
      <3> QED
        BY <1>1, <2>1, RunIs
    <2>3. m \in Seq(S) /\ Len(m) = k /\ \A i \in 1 .. k : m[i] = Unit("meta", b, i)
      <3> HIDE DEF S, k
      <3> QED
        BY <1>1, <2>1, RunIs
    <2>4. l \in Seq(S) /\ Len(l) = 1 /\ l[1] = Unit("len", b, k)
      <3> HIDE DEF S, k
      <3> QED
        BY <2>1
    <2> QED
      BY <2>2, <2>3, <2>4
  <1>3. /\ \A i \in 1 .. n : Follow(r, Unit("audio", b, i)) =
              IF i < n THEN { Unit("audio", b, i + 1) } ELSE { Unit("len", b, k) }
        /\ Follow(r, Unit("len", b, k)) =
              IF k = 0 THEN Ahead(r, RoundAfter(r, b)) ELSE { Unit("meta", b, 1) }
        /\ \A i \in 1 .. k : Follow(r, Unit("meta", b, i)) =
              IF i = k THEN Ahead(r, RoundAfter(r, b)) ELSE { Unit("meta", b, i + 1) }
    <2>1. \A i \in 1 .. n : /\ i \in Nat /\ i \in 0 .. Interval(r, b) /\ b # 0
      BY <1>1
    <2>2. ASSUME NEW i \in 1 .. n
          PROVE  Follow(r, Unit("audio", b, i)) =
                     IF i < n THEN { Unit("audio", b, i + 1) } ELSE { Unit("len", b, k) }
      <3>1. Follow(r, Unit("audio", b, i)) = Ahead(r, Unit("audio", b, i))
        BY <1>1, <2>1, FollowIs
      <3>2. Ahead(r, Unit("audio", b, i)) =
                IF i < Interval(r, b) THEN { Unit("audio", b, i + 1) }
                ELSE IF b = 0 THEN {} ELSE { Unit("len", b, r.blocks[b]) }
        BY <1>1, <2>1, FollowIs
      <3> QED
        BY <1>1, <2>1, <3>1, <3>2
    <2>3. Follow(r, Unit("len", b, k)) =
              IF k = 0 THEN Ahead(r, RoundAfter(r, b)) ELSE { Unit("meta", b, 1) }
      BY FollowIs
    <2>4. \A i \in 1 .. k : Follow(r, Unit("meta", b, i)) =
              IF i = k THEN Ahead(r, RoundAfter(r, b)) ELSE { Unit("meta", b, i + 1) }
      <3>1. \A i \in 1 .. k : i \in Nat
        BY <1>1
      <3> QED
        BY <3>1, FollowIs
    <2> QED
      BY <2>2, <2>3, <2>4
  <1> HIDE DEF S, n, k
  <1>4. Linked(r, a)
    <2>1. \A i \in 1 .. n - 1 : Unit("audio", b, i + 1) \in Follow(r, Unit("audio", b, i))
      <3>1. \A i \in 1 .. n - 1 : i \in 1 .. n /\ i < n
        BY <1>1
      <3> QED
        BY <1>3, <3>1
    <2> QED
      BY <1>1, <2>1, RunInOrder
  <1>5. Linked(r, m)
    <2>1. \A i \in 1 .. k - 1 : Unit("meta", b, i + 1) \in Follow(r, Unit("meta", b, i))
      <3>1. \A i \in 1 .. k - 1 : i \in 1 .. k /\ i # k
        BY <1>1
      <3> QED
        BY <1>3, <3>1
    <2> QED
      BY <1>1, <2>1, RunInOrder
  <1> HIDE DEF a, l, m
  <1>6. /\ Linked(r, x)
        /\ x[Len(x)] = Unit("len", b, k) /\ x \in Seq(S) /\ Len(x) > 0
    <2>1. l[1] \in Follow(r, a[Len(a)])
      <3>1. n \in 1 .. n /\ ~ (n < n)
        BY <1>1
      <3> QED
        BY <1>2, <1>3, <3>1
    <2>2. Len(a) > 0 /\ Linked(r, l)
      BY <1>1, <1>2 DEF Linked
    <2>3. Len(l) > 0
      BY <1>2
    <2>4. /\ a \in Seq(S) /\ l \in Seq(S) /\ (Len(l) > 0 => l[1] \in Follow(r, a[Len(a)]))
      BY <1>2, <2>1
    <2>5. /\ Linked(r, x)
          /\ Len(l) > 0 => x[Len(x)] = l[Len(l)]
          /\ x \in Seq(S) /\ Len(x) > 0
      BY <1>4, <2>2, <2>4, NeighboursOf
    <2> QED
      BY <1>2, <2>3, <2>5
  <1>7. x[1] = Unit("audio", b, 1)
    <2>1. 1 \in 1 .. Len(a) /\ 1 \in 1 .. n
      BY <1>1, <1>2
    <2>2. x[1] = a[1]
      BY <1>2, <2>1, PlacesOf
    <2> QED
      BY <1>2, <2>1, <2>2
  <1> HIDE DEF x
  <1>8. Len(m) > 0 => m[1] \in Follow(r, x[Len(x)])
    <2> SUFFICES ASSUME Len(m) > 0 PROVE m[1] \in Follow(r, x[Len(x)])
      OBVIOUS
    <2>1. 1 \in 1 .. k /\ k # 0
      BY <1>1, <1>2
    <2> QED
      BY <1>2, <1>3, <1>6, <2>1
  <1> DEFINE s == x \o m
  <1>9. /\ Linked(r, s)
        /\ s \in Seq(S) /\ Len(s) > 0
        /\ Len(m) > 0 => s[Len(s)] = m[Len(m)]
        /\ Len(m) = 0 => s[Len(s)] = x[Len(x)]
    <2>1. m \in Seq(S) /\ x \in Seq(S) /\ Len(x) > 0
      BY <1>2, <1>6
    <2>2. Linked(r, x)
      BY <1>6
    <2> QED
      BY <1>5, <1>8, <2>1, <2>2, NeighboursOf
  <1>10. s[1] = Unit("audio", b, 1)
    <2>1. Len(x) \in Nat /\ 1 \in 1 .. Len(x)
      BY <1>6, LenProperties
    <2>2. s[1] = x[1]
      BY <1>2, <1>6, <2>1, PlacesOf
    <2> QED
      BY <1>7, <2>2
  <1> HIDE DEF s
  <1>11. Follow(r, s[Len(s)]) = Ahead(r, RoundAfter(r, b))
    <2>1. CASE k = 0
      BY <1>2, <1>3, <1>6, <1>9, <2>1
    <2>2. CASE k # 0
      <3>1. k \in 1 .. k /\ Len(m) > 0
        BY <1>1, <1>2, <2>2
      <3> QED
        BY <1>2, <1>3, <1>9, <3>1
    <2> QED
      BY <2>1, <2>2
  <1>12. s = Round(r, b)
    BY DEF s, x, a, l, m, n, k, Round
  <1> QED
    BY <1>9, <1>10, <1>11, <1>12 DEF S

RoundsOf(r) == [b \in DOMAIN r.blocks |-> Round(r, b)]
End(r) == << Unit("end", 0, r.metaint) >>

LEMMA RoundsAre ==
    ASSUME NEW r \in Responses
    PROVE  /\ RoundsOf(r) \in Seq(Seq(Units(r))) /\ Len(RoundsOf(r)) = Rounds(r)
           /\ \A b \in 1 .. Rounds(r) : RoundsOf(r)[b] = Round(r, b)
  <1>1. DOMAIN r.blocks = 1 .. Rounds(r) /\ Rounds(r) \in Nat
    BY ResponseIs
  <1>2. RoundsOf(r) = [b \in 1 .. Rounds(r) |-> Round(r, b)]
    BY <1>1 DEF RoundsOf
  <1>3. \A b \in 1 .. Rounds(r) : Round(r, b) \in Seq(Units(r))
    BY RoundInOrder
  <1> QED
    BY <1>1, <1>2, <1>3

\* The end of the header and the first rounds are in order, and whatever
\* follows them begins the next round.
LEMMA RoundsInOrder ==
    ASSUME NEW r \in Responses
    PROVE  \A n \in 0 .. Rounds(r) :
              LET s == End(r) \o Flattened(RoundsOf(r), n)
              IN  /\ s \in Seq(Units(r)) /\ Len(s) > 0 /\ Linked(r, s)
                  /\ s[1] = Unit("end", 0, r.metaint)
                  /\ Follow(r, s[Len(s)]) = Ahead(r, RoundAfter(r, n))
  <1> DEFINE S == Units(r)
             f(n) == Flattened(RoundsOf(r), n)
             e(n) == End(r) \o f(n)
             OK(n) == /\ e(n) \in Seq(S) /\ Len(e(n)) > 0 /\ Linked(r, e(n))
                      /\ e(n)[1] = Unit("end", 0, r.metaint)
                      /\ Follow(r, e(n)[Len(e(n))]) = Ahead(r, RoundAfter(r, n))
             G == { n \in Nat : n <= Rounds(r) => OK(n) }
  <1>1. Rounds(r) \in Nat
    BY ResponseIs
  <1>2. /\ f(0) = << >>
        /\ \A n \in 1 .. Rounds(r) : f(n) = f(n - 1) \o Round(r, n)
        /\ \A n \in 0 .. Rounds(r) : f(n) \in Seq(S)
    <2>1. /\ f(0) = << >>
          /\ \A n \in 1 .. Len(RoundsOf(r)) : f(n) = f(n - 1) \o RoundsOf(r)[n]
          /\ \A n \in 0 .. Len(RoundsOf(r)) : f(n) \in Seq(S)
      BY RoundsAre, FlattenedGrows
    <2> QED
      BY <2>1, RoundsAre
  <1>3. End(r) \in Seq(S) /\ Len(End(r)) = 1 /\ End(r)[1] = Unit("end", 0, r.metaint)
    <2>1. Unit("end", 0, r.metaint) \in S
      BY UnitsOf
    <2> HIDE DEF S
    <2> QED
      BY <2>1 DEF End
  <1> HIDE DEF S, f
  <1>4. 0 \in G
    <2>1. e(0) = End(r)
      BY <1>2, <1>3, ConcatEmptySeq
    <2>2. Linked(r, End(r))
      BY <1>3 DEF Linked
    <2>3. Follow(r, Unit("end", 0, r.metaint)) = Ahead(r, RoundAfter(r, 0))
      BY FollowIs
    <2> HIDE DEF e
    <2> QED
      BY <1>3, <2>1, <2>2, <2>3
  <1>5. ASSUME NEW n \in Nat, n \in G
        PROVE  n + 1 \in G
    <2> SUFFICES ASSUME n + 1 <= Rounds(r) PROVE OK(n + 1)
      OBVIOUS
    <2>1. /\ n + 1 \in 1 .. Rounds(r) /\ (n + 1) - 1 = n /\ n \in 0 .. Rounds(r)
          /\ n < Rounds(r)
      BY <1>1
    <2>2. OK(n)
      BY <1>5, <2>1
    <2> DEFINE d == Round(r, n + 1)
               x == e(n)
    <2>3. /\ d \in Seq(S) /\ Len(d) > 0 /\ Linked(r, d) /\ d[1] = Unit("audio", n + 1, 1)
          /\ Follow(r, d[Len(d)]) = Ahead(r, RoundAfter(r, n + 1))
      BY <2>1, RoundInOrder DEF S
    <2>4. e(n + 1) = x \o d
      <3>1. f(n + 1) = f(n) \o d /\ f(n) \in Seq(S)
        BY <1>2, <2>1
      <3>2. (End(r) \o f(n)) \o d = End(r) \o (f(n) \o d)
        <4>1. End(r) \in Seq(S) /\ f(n) \in Seq(S) /\ d \in Seq(S)
          BY <1>3, <2>3, <3>1
        <4> HIDE DEF d
        <4> QED
          <5>1. Associates(End(r), f(n), d)
            BY <4>1, Associated
          <5> QED
            BY <5>1, Zenon DEF Associates
      <3> QED
        BY <3>1, <3>2
    <2>5. /\ x \in Seq(S) /\ Len(x) > 0 /\ Linked(r, x) /\ x[1] = Unit("end", 0, r.metaint)
          /\ Follow(r, x[Len(x)]) = Ahead(r, RoundAfter(r, n))
      BY <2>2
    <2> HIDE DEF d, x, e
    <2>6. d[1] \in Follow(r, x[Len(x)])
      <3>1. Ahead(r, RoundAfter(r, n)) = { Unit("audio", n + 1, 1) }
        BY <2>1, FollowIs
      <3> QED
        BY <2>3, <2>5, <3>1
    <2>7. /\ Linked(r, x \o d)
          /\ Len(d) > 0 => (x \o d)[Len(x \o d)] = d[Len(d)]
          /\ x \o d \in Seq(S) /\ Len(x \o d) > 0
      BY <2>3, <2>5, <2>6, NeighboursOf
    <2>8. (x \o d)[1] = x[1]
      <3>1. Len(x) \in Nat /\ 1 \in 1 .. Len(x)
        BY <2>5, LenProperties
      <3> QED
        BY <2>3, <2>5, <3>1, PlacesOf
    <2> QED
      BY <2>3, <2>4, <2>5, <2>7, <2>8
  <1>6. Nat \subseteq G
    <2> HIDE DEF G
    <2> QED
      BY <1>4, <1>5, Induction
  <1>7. ASSUME NEW n \in 0 .. Rounds(r)
        PROVE  OK(n)
    BY <1>1, <1>6
  <1> QED
    BY <1>7 DEF S, f

\* The answer is in order.
LEMMA AnswerInOrder ==
    ASSUME NEW r \in Responses
    PROVE  Answer(r) \in Seq(Units(r)) /\ Ordered(r, Answer(r))
  <1> DEFINE S == Units(r)
             h == Run("header", 0, r.headers)
             e == End(r)
             f == Flattened(RoundsOf(r), Rounds(r))
             t == Run("audio", 0, r.tail)
             x == e \o f
             y == x \o t
  <1>1. /\ r.headers \in Nat /\ r.tail \in Nat /\ Rounds(r) \in Nat /\ Interval(r, 0) = r.tail
        /\ r.metaint = 0 => Rounds(r) = 0
    BY ResponseIs DEF Interval
  <1>2. /\ \A i \in 1 .. r.headers : Unit("header", 0, i) \in S
        /\ \A j \in 1 .. r.tail : Unit("audio", 0, j) \in S
    <2>1. 0 \in 0 .. Rounds(r)
      BY <1>1
    <2> QED
      BY <1>1, <2>1, UnitsOf
  <1>3. /\ h \in Seq(S) /\ Len(h) = r.headers
        /\ \A i \in 1 .. r.headers : h[i] = Unit("header", 0, i)
    <2> HIDE DEF S
    <2> QED
      BY <1>1, <1>2, RunIs
  <1>4. t \in Seq(S) /\ Len(t) = r.tail /\ \A i \in 1 .. r.tail : t[i] = Unit("audio", 0, i)
    <2> HIDE DEF S
    <2> QED
      BY <1>1, <1>2, RunIs
  <1>5. /\ x \in Seq(S) /\ Len(x) > 0 /\ Linked(r, x) /\ x[1] = Unit("end", 0, r.metaint)
        /\ Follow(r, x[Len(x)]) = Ahead(r, RoundAfter(r, Rounds(r)))
    <2>1. Rounds(r) \in 0 .. Rounds(r)
      BY <1>1
    <2> QED
      BY <2>1, RoundsInOrder
  <1>6. f \in Seq(S) /\ e \in Seq(S) /\ Len(e) = 1
    <2>1. Rounds(r) \in 0 .. Len(RoundsOf(r))
      BY <1>1, RoundsAre
    <2>2. f \in Seq(S)
      BY <2>1, RoundsAre, FlattenedGrows
    <2>3. Unit("end", 0, r.metaint) \in S
      BY UnitsOf
    <2> HIDE DEF S
    <2> QED
      BY <2>2, <2>3 DEF End
  <1>7. Body(r) = f \o t
    <2>1. FlattenSeq(RoundsOf(r)) = f
      BY RoundsAre, FlattenedGrows
    <2>2. r.metaint = 0 => f = << >>
      BY <1>1, RoundsAre, FlattenedGrows
    <2> QED
      BY <2>1, <2>2 DEF Body, RoundsOf
  <1>8. Answer(r) = h \o y
    <2>1. Answer(r) = (h \o e) \o (f \o t)
      BY <1>7 DEF Answer, End
    <2> HIDE DEF h, e, f, t, S
    <2>2. (h \o e) \o (f \o t) = h \o (e \o (f \o t))
      <3> DEFINE v == f \o t
      <3>1. v \in Seq(S)
        BY <1>4, <1>6, ConcatProperties
      <3> HIDE DEF v
      <3>2. (h \o e) \o v = h \o (e \o v)
        <4>1. Associates(h, e, v)
          BY <1>3, <1>6, <3>1, Associated
        <4> QED
          BY <4>1, Zenon DEF Associates
      <3> QED
        BY <3>2 DEF v
    <2>3. e \o (f \o t) = (e \o f) \o t
      BY <1>4, <1>6, ConcatAssociative
    <2> QED
      BY <2>1, <2>2, <2>3
  <1>9. Linked(r, t) /\ (Len(t) > 0 => t[1] \in Follow(r, x[Len(x)]))
    <2>1. \A i \in 1 .. r.tail - 1 : Unit("audio", 0, i + 1) \in Follow(r, Unit("audio", 0, i))
      <3>1. \A i \in 1 .. r.tail - 1 : i \in Nat /\ i \in 0 .. Interval(r, 0) /\ i < Interval(r, 0)
        BY <1>1
      <3>2. 0 \in 0 .. Rounds(r)
        BY <1>1
      <3>3. \A i \in 1 .. r.tail - 1 :
                /\ Follow(r, Unit("audio", 0, i)) = Ahead(r, Unit("audio", 0, i))
                /\ Ahead(r, Unit("audio", 0, i)) = { Unit("audio", 0, i + 1) }
        BY <3>1, <3>2, FollowIs
      <3> QED
        BY <3>3
    <2>2. Linked(r, t)
      BY <1>1, <2>1, RunInOrder
    <2>3. ASSUME r.tail > 0
          PROVE  t[1] \in Follow(r, x[Len(x)])
      <3>1. Rounds(r) \in 0 .. Rounds(r) /\ ~ (Rounds(r) < Rounds(r)) /\ 1 \in 1 .. r.tail
        BY <1>1, <2>3
      <3>2. Ahead(r, RoundAfter(r, Rounds(r))) = { Unit("audio", 0, 1) }
        BY <2>3, <3>1, FollowIs
      <3> HIDE DEF t, x
      <3> QED
        BY <1>4, <1>5, <3>1, <3>2
    <2> HIDE DEF t, x
    <2> QED
      BY <1>4, <2>2, <2>3
  <1> HIDE DEF S, h, t, x
  <1>10. y \in Seq(S) /\ Len(y) > 0 /\ Linked(r, y)
    BY <1>4, <1>5, <1>9, NeighboursOf
  <1>11. y[1] = Unit("end", 0, r.metaint)
    <2>1. Len(x) \in Nat /\ 1 \in 1 .. Len(x)
      BY <1>5, LenProperties
    <2>2. y[1] = x[1]
      BY <1>4, <1>5, <2>1, PlacesOf
    <2> QED
      BY <1>5, <2>2
  <1> HIDE DEF y
  <1>12. h \o y \in Seq(S) /\ Linked(r, h \o y)
    <2>1. CASE r.headers = 0
      <3>1. h = << >>
        BY <1>3, <2>1, EmptySeq
      <3>2. h \o y = y
        BY <1>10, <3>1, ConcatEmptySeq
      <3> QED
        BY <1>10, <3>2
    <2>2. CASE r.headers # 0
      <3>1. \A i \in 1 .. r.headers - 1 :
                Unit("header", 0, i + 1) \in Follow(r, Unit("header", 0, i))
        <4>1. \A i \in 1 .. r.headers - 1 : i \in 1 .. r.headers /\ i < r.headers
          BY <1>1
        <4> QED
          BY <4>1, FollowIs
      <3>2. Linked(r, h)
        BY <1>1, <3>1, RunInOrder DEF h
      <3>3. r.headers \in 1 .. r.headers /\ ~ (r.headers < r.headers)
        BY <1>1, <2>2
      <3>4. Follow(r, h[Len(h)]) = { Unit("end", 0, r.metaint) }
        BY <1>3, <3>3, FollowIs
      <3>5. Len(h) > 0 /\ y[1] \in Follow(r, h[Len(h)])
        BY <1>1, <1>3, <1>11, <2>2, <3>4
      <3> QED
        BY <1>3, <1>10, <3>2, <3>5, NeighboursOf
    <2> QED
      BY <2>1, <2>2
  <1>13. Ordered(r, h \o y)
    <2> DEFINE a == h \o y
    <2>1. a \in Seq(S) /\ Linked(r, a)
      BY <1>12
    <2> HIDE DEF a
    <2>2. Len(a) \in Nat /\ \A i \in 1 .. Len(a) : a[i] \in S
      BY <2>1, LenProperties, ElementOfSeq
    <2>3. \A i \in 1 .. Len(a) : a[i] # Ticket
      BY <2>2, UnitsAreNoTickets DEF S
    <2>4. Ordered(r, a)
      BY <2>1, <2>2, <2>3, OrderedIfNeighbours DEF Linked
    <2> QED
      BY <2>4 DEF a
  <1> QED
    BY <1>8, <1>12, <1>13 DEF S

-----------------------------------------------------------------------------
(* A piece brings the reader from one place of the body to another.          *)

\* Units of one kind follow each other by number.
Chained(r, kind, b, m, n) ==
    \A i \in 1 .. n - 1 : Follow(r, Unit(kind, b, m + i)) \subseteq { Unit(kind, b, (m + i) + 1) }

LEMMA PieceIsRun ==
    ASSUME NEW r, NEW kind, NEW b, NEW m \in Nat, NEW p, Len(p) \in Nat, Linked(r, p),
           p[1] = Unit(kind, b, m + 1),
           Chained(r, kind, b, m, Len(p))
    PROVE  IsRun(kind, b, m, p)
  <1> DEFINE n == Len(p)
             G == { i \in Nat : i + 1 <= n => p[i + 1] = Unit(kind, b, m + (i + 1)) }
  <1>1. n \in Nat
    OBVIOUS
  <1>2. 0 \in G
    OBVIOUS
  <1>3. ASSUME NEW i \in Nat, i \in G
        PROVE  i + 1 \in G
    <2> SUFFICES ASSUME (i + 1) + 1 <= n
                 PROVE  p[(i + 1) + 1] = Unit(kind, b, m + ((i + 1) + 1))
      OBVIOUS
    <2>1. /\ i + 1 \in 1 .. n - 1 /\ i + 1 <= n
          /\ (m + (i + 1)) + 1 = m + ((i + 1) + 1)
      BY <1>1
    <2>2. p[i + 1] = Unit(kind, b, m + (i + 1))
      BY <1>3, <2>1
    <2>3. p[(i + 1) + 1] \in Follow(r, p[i + 1])
      BY <2>1 DEF Linked
    <2>4. Follow(r, Unit(kind, b, m + (i + 1))) \subseteq { Unit(kind, b, (m + (i + 1)) + 1) }
      BY <2>1 DEF Chained
    <2> QED
      BY <2>1, <2>2, <2>3, <2>4
  <1>4. Nat \subseteq G
    <2> HIDE DEF G
    <2> QED
      BY <1>2, <1>3, Induction
  <1> SUFFICES ASSUME NEW i \in 1 .. n
               PROVE  p[i] = Unit(kind, b, m + i)
    BY DEF IsRun
  <1>5. i - 1 \in Nat /\ (i - 1) + 1 = i /\ i <= n
    BY <1>1
  <1>6. i - 1 \in G
    <2> HIDE DEF G
    <2> QED
      BY <1>4, <1>5
  <1> QED
    BY <1>5, <1>6

LEMMA RoundsHave ==
    ASSUME NEW r \in Responses
    PROVE  /\ AudioOfRounds(r) \in Seq(Seq(Units(r))) /\ Len(AudioOfRounds(r)) = Rounds(r)
           /\ \A b \in 1 .. Rounds(r) : AudioOfRounds(r)[b] = Run("audio", b, r.metaint)
           /\ BlocksOfRounds(r) \in Seq(Seq(Seq(Units(r)))) /\ Len(BlocksOfRounds(r)) = Rounds(r)
           /\ \A b \in 1 .. Rounds(r) : BlocksOfRounds(r)[b] = BlockOf(r, b)
           /\ \A b \in 1 .. Rounds(r) : \A j \in 0 .. r.blocks[b] :
                Run("meta", b, j) \in Seq(Units(r))
           /\ \A b \in 0 .. Rounds(r) : \A j \in 0 .. Interval(r, b) :
                Run("audio", b, j) \in Seq(Units(r))
  <1>1. /\ DOMAIN r.blocks = 1 .. Rounds(r) /\ Rounds(r) \in Nat /\ r.metaint \in Nat
        /\ \A b \in 1 .. Rounds(r) : r.blocks[b] \in Nat
        /\ \A b \in 0 .. Rounds(r) : Interval(r, b) \in Nat
    BY ResponseIs
  <1>2. ASSUME NEW b \in 0 .. Rounds(r), NEW j \in 0 .. Interval(r, b)
        PROVE  Run("audio", b, j) \in Seq(Units(r))
    <2>1. j \in Nat /\ \A i \in 1 .. j : i \in 1 .. Interval(r, b)
      BY <1>1
    <2>2. \A i \in 1 .. j : Unit("audio", b, i) \in Units(r)
      BY <2>1, UnitsOf
    <2> QED
      BY <2>1, <2>2, RunIs
  <1>3. ASSUME NEW b \in 1 .. Rounds(r)
        PROVE  /\ Run("audio", b, r.metaint) \in Seq(Units(r))
               /\ \A j \in 0 .. r.blocks[b] : Run("meta", b, j) \in Seq(Units(r))
               /\ BlockOf(r, b) \in Seq(Seq(Units(r)))
    <2>1. b \in 0 .. Rounds(r) /\ r.metaint \in 0 .. Interval(r, b)
      BY <1>1 DEF Interval
    <2>2. \A i \in 1 .. r.blocks[b] : Unit("meta", b, i) \in Units(r)
      BY UnitsOf
    <2>3. ASSUME NEW j \in 0 .. r.blocks[b]
          PROVE  Run("meta", b, j) \in Seq(Units(r))
      <3>1. j \in Nat /\ \A i \in 1 .. j : i \in 1 .. r.blocks[b]
        BY <1>1
      <3>2. \A i \in 1 .. j : Unit("meta", b, i) \in Units(r)
        BY <2>2, <3>1
      <3> QED
        BY <3>1, <3>2, RunIs
    <2>4. BlockOf(r, b) \in Seq(Seq(Units(r)))
      <3> DEFINE T == Seq(Units(r))
                 m == Run("meta", b, r.blocks[b])
      <3>1. m \in T
        <4>1. r.blocks[b] \in 0 .. r.blocks[b]
          BY <1>1
        <4> QED
          BY <2>3, <4>1
      <3> HIDE DEF T, m
      <3>2. << m >> \in Seq(T) /\ << >> \in Seq(T)
        BY <3>1
      <3> QED
        BY <3>2 DEF BlockOf, T, m
    <2> QED
      BY <1>2, <2>1, <2>3, <2>4
  <1>4. /\ AudioOfRounds(r) = [b \in 1 .. Rounds(r) |-> Run("audio", b, r.metaint)]
        /\ BlocksOfRounds(r) = [b \in 1 .. Rounds(r) |-> BlockOf(r, b)]
    BY <1>1 DEF AudioOfRounds, BlocksOfRounds
  <1>5. /\ AudioOfRounds(r) \in Seq(Seq(Units(r))) /\ Len(AudioOfRounds(r)) = Rounds(r)
        /\ \A b \in 1 .. Rounds(r) : AudioOfRounds(r)[b] = Run("audio", b, r.metaint)
    <2> DEFINE T == Seq(Units(r))
    <2>1. \A b \in 1 .. Rounds(r) : Run("audio", b, r.metaint) \in T
      BY <1>3
    <2> HIDE DEF T
    <2>2. AudioOfRounds(r) \in Seq(T)
      BY <1>1, <1>4, <2>1
    <2> QED
      BY <1>1, <1>4, <2>2 DEF T
  <1>6. /\ BlocksOfRounds(r) \in Seq(Seq(Seq(Units(r)))) /\ Len(BlocksOfRounds(r)) = Rounds(r)
        /\ \A b \in 1 .. Rounds(r) : BlocksOfRounds(r)[b] = BlockOf(r, b)
    <2> DEFINE T == Seq(Seq(Units(r)))
    <2>1. \A b \in 1 .. Rounds(r) : BlockOf(r, b) \in T
      BY <1>3
    <2> HIDE DEF T
    <2>2. BlocksOfRounds(r) \in Seq(T)
      BY <1>1, <1>4, <2>1
    <2> QED
      BY <1>1, <1>4, <2>2 DEF T
  <1> QED
    BY <1>2, <1>3, <1>5, <1>6

\* What is heard and told grows with the rounds.
LEMMA HeardGrows ==
    ASSUME NEW r \in Responses
    PROVE  /\ \A b \in 1 .. Rounds(r) :
                /\ Flattened(AudioOfRounds(r), b) =
                      Flattened(AudioOfRounds(r), b - 1) \o Run("audio", b, r.metaint)
                /\ Flattened(BlocksOfRounds(r), b) =
                      Flattened(BlocksOfRounds(r), b - 1) \o BlockOf(r, b)
           /\ \A b \in 0 .. Rounds(r) :
                /\ Flattened(AudioOfRounds(r), b) \in Seq(Units(r))
                /\ Flattened(BlocksOfRounds(r), b) \in Seq(Seq(Units(r)))
  <1>1. /\ \A b \in 1 .. Len(AudioOfRounds(r)) :
             Flattened(AudioOfRounds(r), b) =
                  Flattened(AudioOfRounds(r), b - 1) \o AudioOfRounds(r)[b]
        /\ \A b \in 0 .. Len(AudioOfRounds(r)) :
             Flattened(AudioOfRounds(r), b) \in Seq(Units(r))
    BY RoundsHave, FlattenedGrows
  <1>2. /\ \A b \in 1 .. Len(BlocksOfRounds(r)) :
             Flattened(BlocksOfRounds(r), b) =
                  Flattened(BlocksOfRounds(r), b - 1) \o BlocksOfRounds(r)[b]
        /\ \A b \in 0 .. Len(BlocksOfRounds(r)) :
             Flattened(BlocksOfRounds(r), b) \in Seq(Seq(Units(r)))
    <2> DEFINE T == Seq(Units(r))
    <2>1. BlocksOfRounds(r) \in Seq(Seq(T))
      BY RoundsHave
    <2> HIDE DEF T
    <2>2. /\ \A b \in 1 .. Len(BlocksOfRounds(r)) :
               Flattened(BlocksOfRounds(r), b) =
                    Flattened(BlocksOfRounds(r), b - 1) \o BlocksOfRounds(r)[b]
          /\ \A b \in 0 .. Len(BlocksOfRounds(r)) :
               Flattened(BlocksOfRounds(r), b) \in Seq(T)
      BY <2>1, FlattenedGrows
    <2> QED
      BY <2>2 DEF T
  <1> QED
    BY <1>1, <1>2, RoundsHave

\* At the beginning of a round nothing of it is heard yet.
LEMMA AtRound ==
    ASSUME NEW r \in Responses, NEW b \in 0 .. Rounds(r)
    PROVE  LET d == RoundAfter(r, b)
           IN  /\ d \in Cursors(r)
               /\ Heard(r, d) = Flattened(AudioOfRounds(r), b)
               /\ Told(r, d) = Flattened(BlocksOfRounds(r), b)
               /\ IcyAt(r, d) = [interval |-> r.metaint, countdown |-> r.metaint,
                                 bytesLeft |-> 0, metaBuf |-> << >>]
  <1> DEFINE d == RoundAfter(r, b)
  <1>1. /\ Rounds(r) \in Nat /\ r.metaint \in Nat /\ b \in Nat
        /\ NextRound(r, b) \in 0 .. Rounds(r) /\ Interval(r, NextRound(r, b)) \in Nat
    BY ResponseIs
  <1>2. d.kind = "audio" /\ d.of = NextRound(r, b) /\ d.at = 0
    BY DEF RoundAfter, Unit
  <1>3. d \in UnitRec
    BY <1>1 DEF RoundAfter, Unit, UnitRec, Kinds
  <1>4. Passed(r, d) = b
    BY <1>1, <1>2 DEF Passed, NextRound
  <1>5. IsCursor(r, d)
    BY <1>1, <1>2 DEF IsCursor
  <1>6. Heard(r, d) = Flattened(AudioOfRounds(r), b)
    <2>1. Run("audio", d.of, d.at) = << >>
      BY <1>2, RunIs, EmptySeq
    <2>2. Flattened(AudioOfRounds(r), b) \in Seq(Units(r))
      BY HeardGrows
    <2> HIDE DEF d
    <2> QED
      BY <1>2, <1>4, <2>1, <2>2, ConcatEmptySeq DEF Heard
  <1>7. Told(r, d) = Flattened(BlocksOfRounds(r), b)
    BY <1>4 DEF Told
  <1>8. IcyAt(r, d) = [interval |-> r.metaint, countdown |-> r.metaint,
                       bytesLeft |-> 0, metaBuf |-> << >>]
    BY <1>1, <1>2 DEF IcyAt
  <1> QED
    BY <1>3, <1>5, <1>6, <1>7, <1>8 DEF Cursors

LEMMA CursorIs ==
    ASSUME NEW r \in Responses, NEW c \in Cursors(r)
    PROVE  /\ c = Unit(c.kind, c.of, c.at) /\ c.of \in Nat /\ c.at \in Nat
           /\ \/ c.kind = "audio" /\ c.of \in 0 .. Rounds(r) /\ c.at \in 0 .. Interval(r, c.of)
              \/ c.kind = "meta" /\ c.of \in 1 .. Rounds(r) /\ c.at \in 0 .. r.blocks[c.of] - 1
  <1>1. c \in UnitRec /\ IsCursor(r, c)
    BY Zenon DEF Cursors
  <1>2. c = Unit(c.kind, c.of, c.at) /\ c.of \in Nat /\ c.at \in Nat
    BY <1>1 DEF UnitRec, Unit
  <1> QED
    BY <1>1, <1>2 DEF IsCursor

LEMMA IsInCursors ==
    ASSUME NEW r, NEW kind \in {"audio", "meta"}, NEW b \in Nat, NEW j \in Nat,
           IsCursor(r, Unit(kind, b, j))
    PROVE  Unit(kind, b, j) \in Cursors(r)
  <1>1. Unit(kind, b, j) \in UnitRec
    BY DEF Unit, UnitRec, Kinds
  <1> QED
    BY <1>1, Zenon DEF Cursors

LEMMA UnitIs ==
    ASSUME NEW kind, NEW b, NEW j
    PROVE  /\ Unit(kind, b, j).kind = kind /\ Unit(kind, b, j).of = b /\ Unit(kind, b, j).at = j
           /\ \A k2, b2, j2 : Unit(kind, b, j) = Unit(k2, b2, j2) => kind = k2 /\ b = b2 /\ j = j2
  BY DEF Unit

\* A piece of audio, no longer than the rest of the interval.
LEMMA AudioPiece ==
    ASSUME NEW r \in Responses, NEW c \in Cursors(r), c.kind = "audio",
           NEW p \in Seq(Units(r)), Len(p) > 0, Linked(r, p), p[1] \in Ahead(r, c),
           r.metaint # 0 => c.at + Len(p) <= r.metaint
    PROVE  LET d == Unit("audio", c.of, c.at + Len(p))
           IN  /\ d \in Cursors(r) /\ Follow(r, p[Len(p)]) = Ahead(r, d)
               /\ Heard(r, d) = Heard(r, c) \o p /\ Told(r, d) = Told(r, c)
               /\ IcyAt(r, d) = [interval |-> r.metaint,
                                 countdown |-> IF IcyAt(r, c).countdown = 0 THEN 0
                                               ELSE IcyAt(r, c).countdown - Len(p),
                                 bytesLeft |-> 0, metaBuf |-> << >>]
               /\ IsRun("audio", c.of, c.at, p)
  <1> DEFINE b == c.of
             m == c.at
             n == Len(p)
             d == Unit("audio", b, m + n)
  <1>1. /\ c = Unit("audio", b, m) /\ b \in 0 .. Rounds(r) /\ m \in 0 .. Interval(r, b)
        /\ b \in Nat /\ m \in Nat
    BY CursorIs
  <1>2. /\ Rounds(r) \in Nat /\ r.metaint \in Nat /\ Interval(r, b) \in Nat
        /\ r.metaint = 0 => Rounds(r) = 0
        /\ b # 0 => Interval(r, b) = r.metaint /\ r.metaint # 0
    BY <1>1, ResponseIs DEF Interval
  <1>3. n \in Nat /\ n > 0 /\ \A i \in 1 .. n : p[i] \in Units(r)
    BY LenProperties, ElementOfSeq
  <1>4. r.metaint # 0 => m + n <= r.metaint
    OBVIOUS
  <1>5. \A j \in 0 .. Interval(r, b) :
            /\ Follow(r, Unit("audio", b, j)) = Ahead(r, Unit("audio", b, j))
            /\ Ahead(r, Unit("audio", b, j)) =
                  IF j < Interval(r, b) THEN { Unit("audio", b, j + 1) }
                  ELSE IF b = 0 THEN {} ELSE { Unit("len", b, r.blocks[b]) }
    <2> HIDE DEF b
    <2>1. \A j \in 0 .. Interval(r, b) : j \in Nat
      BY <1>2
    <2>2. \A j \in Nat : Follow(r, Unit("audio", b, j)) = Ahead(r, Unit("audio", b, j))
      BY <1>1, FollowIs
    <2>3. \A j \in 0 .. Interval(r, b) :
              Ahead(r, Unit("audio", b, j)) =
                  IF j < Interval(r, b) THEN { Unit("audio", b, j + 1) }
                  ELSE IF b = 0 THEN {} ELSE { Unit("len", b, r.blocks[b]) }
      BY <1>1, FollowIs
    <2> QED
      BY <2>1, <2>2, <2>3
  <1> HIDE DEF b, m, n
  <1>6. m < Interval(r, b) /\ p[1] = Unit("audio", b, m + 1)
    <2>1. p[1] \in Ahead(r, Unit("audio", b, m))
      BY <1>1
    <2> QED
      BY <1>1, <1>2, <1>3, <1>4, <1>5, <2>1
  <1>7. IsRun("audio", b, m, p)
    <2>1. ASSUME NEW i \in 1 .. n - 1
          PROVE  Follow(r, Unit("audio", b, m + i)) \subseteq { Unit("audio", b, (m + i) + 1) }
      <3>1. m + i \in Nat /\ (r.metaint # 0 => m + i < r.metaint)
        BY <1>1, <1>2, <1>3, <1>4
      <3>2. Follow(r, Unit("audio", b, m + i)) = Ahead(r, Unit("audio", b, m + i))
        BY <1>1, <3>1, FollowIs
      <3>3. b = 0 \/ m + i < Interval(r, b)
        BY <1>2, <3>1
      <3>4. Ahead(r, Unit("audio", b, m + i)) \subseteq { Unit("audio", b, (m + i) + 1) }
        BY <3>3 DEF Ahead, Unit
      <3> QED
        BY <3>2, <3>4
    <2>2. Chained(r, "audio", b, m, n)
      BY <2>1 DEF Chained
    <2> QED
      BY <1>1, <1>3, <1>6, <2>2, PieceIsRun DEF n
  <1>8. m + n \in 1 .. Interval(r, b) /\ p[n] = Unit("audio", b, m + n)
    <2>1. n \in 1 .. n
      BY <1>3
    <2>2. p[n] = Unit("audio", b, m + n) /\ p[n] \in Units(r)
      BY <1>3, <1>7, <2>1 DEF IsRun, n
    <2>3. InAnswer(r, Unit("audio", b, m + n))
      BY <2>2, Zenon DEF Units
    <2> QED
      BY <2>2, <2>3, UnitIs DEF InAnswer
  <1>9. d.kind = "audio" /\ d.of = b /\ d.at = m + n
    BY UnitIs
  <1>10. d \in Cursors(r)
    <2>1. m + n \in Nat /\ m + n \in 0 .. Interval(r, b)
      BY <1>1, <1>2, <1>3, <1>8
    <2>2. IsCursor(r, d)
      BY <1>1, <1>9, <2>1 DEF IsCursor
    <2> QED
      BY <1>1, <2>1, <2>2, IsInCursors
  <1>11. Follow(r, p[n]) = Ahead(r, d)
    BY <1>2, <1>5, <1>8
  <1>12. Passed(r, d) = Passed(r, c) /\ Passed(r, c) \in 0 .. Rounds(r)
    BY <1>1, <1>2, <1>9 DEF Passed, b
  <1>13. Heard(r, d) = Heard(r, c) \o p
    <2> DEFINE f == Flattened(AudioOfRounds(r), Passed(r, c))
               a == Run("audio", b, m)
    <2>1. f \in Seq(Units(r)) /\ a \in Seq(Units(r))
      BY <1>1, <1>2, <1>12, HeardGrows, RoundsHave
    <2>2. a \o p = Run("audio", b, m + n)
      <3> DEFINE T == Units(r)
      <3>1. m + n \in 0 .. Interval(r, b)
        BY <1>1, <1>2, <1>3, <1>8
      <3>2. a \in Seq(T) /\ Run("audio", b, m + n) \in Seq(T) /\ p \in Seq(T)
        BY <1>1, <3>1, RoundsHave
      <3> HIDE DEF T
      <3> QED
        BY <1>1, <1>7, <3>2, RunGrows DEF n
    <2>3. Heard(r, c) = f \o a
      BY DEF Heard, b, m
    <2>4. Heard(r, d) = f \o (a \o p)
      BY <1>9, <1>12, <2>2 DEF Heard
    <2> HIDE DEF f, a, d
    <2>5. (f \o a) \o p = f \o (a \o p)
      BY <2>1, ConcatAssociative
    <2> QED
      BY <2>3, <2>4, <2>5
  <1>14. Told(r, d) = Told(r, c)
    BY <1>12 DEF Told
  <1>15. IcyAt(r, d) = [interval |-> r.metaint,
                        countdown |-> IF IcyAt(r, c).countdown = 0 THEN 0
                                      ELSE IcyAt(r, c).countdown - n,
                        bytesLeft |-> 0, metaBuf |-> << >>]
    <2>1. IcyAt(r, c).countdown = IF r.metaint = 0 THEN 0 ELSE r.metaint - m
      BY DEF IcyAt, m
    <2>2. (IF r.metaint = 0 THEN 0 ELSE r.metaint - (m + n)) =
              IF IcyAt(r, c).countdown = 0 THEN 0 ELSE IcyAt(r, c).countdown - n
      BY <1>1, <1>2, <1>3, <1>4, <2>1
    <2>3. IcyAt(r, d) = [interval |-> r.metaint,
                         countdown |-> IF r.metaint = 0 THEN 0 ELSE r.metaint - (m + n),
                         bytesLeft |-> 0, metaBuf |-> << >>]
      BY <1>9 DEF IcyAt
    <2> QED
      BY <2>2, <2>3
  <1> QED
    BY <1>7, <1>10, <1>11, <1>13, <1>14, <1>15 DEF b, m, n

\* The length byte of a block, behind the audio of its round.
LEMMA LengthUnit ==
    ASSUME NEW r \in Responses, NEW c \in Cursors(r), c.kind = "audio",
           r.metaint # 0, c.at = r.metaint, NEW u \in Ahead(r, c)
    PROVE  LET d == Behind(r, u)
           IN  /\ u.at \in Nat
               /\ d \in Cursors(r) /\ Follow(r, u) = Ahead(r, d)
               /\ Heard(r, d) = Heard(r, c) /\ Told(r, d) = Told(r, c)
               /\ IcyAt(r, d) = [interval |-> r.metaint,
                                 countdown |-> IF u.at = 0 THEN r.metaint ELSE 0,
                                 bytesLeft |-> u.at, metaBuf |-> << >>]
  <1> DEFINE b == c.of
             k == r.blocks[b]
             d == Behind(r, u)
  <1>1. /\ c = Unit("audio", b, r.metaint) /\ b \in 0 .. Rounds(r)
        /\ r.metaint \in 0 .. Interval(r, b) /\ b \in Nat
    BY CursorIs
  <1>2. /\ Rounds(r) \in Nat /\ r.metaint \in Nat /\ r.tail \in Nat /\ r.tail <= r.metaint
        /\ Interval(r, b) \in Nat
    BY <1>1, ResponseIs
  <1>3. /\ b # 0 /\ u = Unit("len", b, k)
    <2>1. Ahead(r, c) = IF r.metaint < Interval(r, b) THEN { Unit("audio", b, r.metaint + 1) }
                        ELSE IF b = 0 THEN {} ELSE { Unit("len", b, k) }
      <3>1. \A j \in 0 .. Interval(r, b) :
                Ahead(r, Unit("audio", b, j)) =
                    IF j < Interval(r, b) THEN { Unit("audio", b, j + 1) }
                    ELSE IF b = 0 THEN {} ELSE { Unit("len", b, r.blocks[b]) }
        BY <1>1, FollowIs
      <3> QED
        BY <1>1, <3>1
    <2>2. ~ (r.metaint < Interval(r, b))
      BY <1>2 DEF Interval
    <2> QED
      BY <2>1, <2>2
  <1>4. /\ b \in 1 .. Rounds(r) /\ k \in Nat /\ Interval(r, b) = r.metaint
        /\ Passed(r, c) = b - 1
    BY <1>1, <1>2, <1>3, ResponseIs DEF Interval, Passed
  <1>5. u.kind = "len" /\ u.of = b /\ u.at = k
    BY <1>3, UnitIs
  <1>6. Follow(r, u) = Ahead(r, d)
    BY <1>5 DEF Follow
  <1>7. /\ Heard(r, c) = Flattened(AudioOfRounds(r), b)
        /\ Told(r, c) = Flattened(BlocksOfRounds(r), b - 1)
    <2>1. Heard(r, c) = Flattened(AudioOfRounds(r), b - 1) \o Run("audio", b, r.metaint)
      BY <1>4 DEF Heard
    <2> QED
      BY <1>4, <2>1, HeardGrows DEF Told
  <1>8. /\ Flattened(BlocksOfRounds(r), b) =
              Flattened(BlocksOfRounds(r), b - 1) \o BlockOf(r, b)
        /\ Flattened(BlocksOfRounds(r), b - 1) \in Seq(Seq(Units(r)))
    <2>1. b - 1 \in 0 .. Rounds(r)
      BY <1>2, <1>4
    <2> QED
      BY <1>4, <2>1, HeardGrows
  <1>9. CASE k = 0
    <2>1. d = RoundAfter(r, b)
      BY <1>5, <1>9 DEF Behind
    <2>2. /\ d \in Cursors(r) /\ Heard(r, d) = Flattened(AudioOfRounds(r), b)
          /\ Told(r, d) = Flattened(BlocksOfRounds(r), b)
          /\ IcyAt(r, d) = [interval |-> r.metaint, countdown |-> r.metaint,
                            bytesLeft |-> 0, metaBuf |-> << >>]
      BY <1>1, <2>1, AtRound
    <2>3. Flattened(BlocksOfRounds(r), b) = Flattened(BlocksOfRounds(r), b - 1)
      <3> DEFINE f == Flattened(BlocksOfRounds(r), b - 1)
                 T == Seq(Units(r))
      <3>1. f \in Seq(T) /\ BlockOf(r, b) = << >> /\ Flattened(BlocksOfRounds(r), b) = f \o BlockOf(r, b)
        BY <1>8, <1>9 DEF BlockOf
      <3> HIDE DEF f, T
      <3>2. f \o << >> = f
        BY <3>1, ConcatEmptySeq
      <3> QED
        BY <3>1, <3>2 DEF f
    <2> HIDE DEF d, b, k
    <2> QED
      BY <1>4, <1>5, <1>6, <1>7, <1>9, <2>2, <2>3 DEF d
  <1>10. CASE k # 0
    <2>1. d = Unit("meta", b, 0)
      BY <1>5, <1>10 DEF Behind
    <2>2. d.kind = "meta" /\ d.of = b /\ d.at = 0
      BY <2>1, UnitIs
    <2>3. d \in Cursors(r)
      <3>1. IsCursor(r, d)
        BY <1>4, <1>10, <2>2 DEF IsCursor
      <3> QED
        BY <1>1, <2>1, <3>1, IsInCursors
    <2>4. Heard(r, d) = Heard(r, c) /\ Told(r, d) = Told(r, c)
      BY <1>3, <1>7, <2>2 DEF Heard, Told, Passed
    <2>5. IcyAt(r, d) = [interval |-> r.metaint, countdown |-> 0,
                         bytesLeft |-> k, metaBuf |-> << >>]
      <3>1. Run("meta", b, 0) = << >>
        BY RunIs, EmptySeq
      <3>2. IcyAt(r, d) = [interval |-> r.metaint, countdown |-> 0, bytesLeft |-> k - 0,
                           metaBuf |-> Run("meta", b, 0)]
        BY <2>2 DEF IcyAt
      <3>3. k - 0 = k
        <4>1. \A x \in Nat : x - 0 = x
          OBVIOUS
        <4> HIDE DEF k
        <4> QED
          BY <1>4, <4>1
      <3> QED
        BY <3>1, <3>2, <3>3
    <2> HIDE DEF d, b, k
    <2> QED
      BY <1>4, <1>5, <1>6, <1>10, <2>3, <2>4, <2>5 DEF d
  <1> QED
    BY <1>9, <1>10

\* A piece of a block's metadata, no longer than the rest of the block: the
\* last one completes the block.
LEMMA MetaPiece ==
    ASSUME NEW r \in Responses, NEW c \in Cursors(r), c.kind = "meta",
           NEW p \in Seq(Units(r)), Len(p) > 0, Linked(r, p), p[1] \in Ahead(r, c),
           c.at + Len(p) <= r.blocks[c.of]
    PROVE  LET done == Len(p) = r.blocks[c.of] - c.at
               buf  == Run("meta", c.of, c.at) \o p
               d    == IF done THEN RoundAfter(r, c.of) ELSE Unit("meta", c.of, c.at + Len(p))
           IN  /\ d \in Cursors(r) /\ Follow(r, p[Len(p)]) = Ahead(r, d)
               /\ Heard(r, d) = Heard(r, c)
               /\ Told(r, d) = IF done THEN Append(Told(r, c), buf) ELSE Told(r, c)
               /\ IcyAt(r, d) =
                    IF done
                    THEN [interval |-> r.metaint, countdown |-> r.metaint,
                          bytesLeft |-> 0, metaBuf |-> << >>]
                    ELSE [interval |-> r.metaint, countdown |-> 0,
                          bytesLeft |-> (r.blocks[c.of] - c.at) - Len(p), metaBuf |-> buf]
               /\ IsRun("meta", c.of, c.at, p)
               /\ done => buf = Run("meta", c.of, r.blocks[c.of])
  <1> DEFINE b == c.of
             m == c.at
             n == Len(p)
             k == r.blocks[b]
             buf == Run("meta", b, m) \o p
  <1>1. /\ c = Unit("meta", b, m) /\ b \in 1 .. Rounds(r) /\ m \in 0 .. k - 1
        /\ b \in Nat /\ m \in Nat
    BY CursorIs
  <1>2. /\ Rounds(r) \in Nat /\ r.metaint \in Nat /\ k \in Nat /\ b \in 0 .. Rounds(r)
    <2>1. /\ Rounds(r) \in Nat /\ r.metaint \in Nat
          /\ \A j \in 1 .. Rounds(r) : r.blocks[j] \in Nat
      BY ResponseIs
    <2> HIDE DEF b
    <2> QED
      BY <1>1, <2>1
  <1>3. n \in Nat /\ n > 0 /\ m + n <= k
    BY LenProperties
  <1>4. \A j \in Nat : Follow(r, Unit("meta", b, j)) =
            IF j = k THEN Ahead(r, RoundAfter(r, b)) ELSE { Unit("meta", b, j + 1) }
    <2> HIDE DEF b
    <2> QED
      BY <1>1, FollowIs
  <1>5. p[1] = Unit("meta", b, m + 1)
    BY DEF Ahead
  <1> HIDE DEF b, m, n, k
  <1>6. IsRun("meta", b, m, p)
    <2>1. ASSUME NEW i \in 1 .. n - 1
          PROVE  Follow(r, Unit("meta", b, m + i)) \subseteq { Unit("meta", b, (m + i) + 1) }
      <3>1. m + i \in Nat /\ m + i # k
        BY <1>1, <1>2, <1>3
      <3> QED
        BY <1>4, <3>1
    <2>2. Chained(r, "meta", b, m, n)
      BY <2>1 DEF Chained
    <2> QED
      BY <1>1, <1>3, <1>5, <2>2, PieceIsRun DEF n
  <1>7. buf = Run("meta", b, m + n) /\ m + n \in Nat
    <2> DEFINE T == Units(r)
    <2>1. m \in 0 .. r.blocks[b] /\ m + n \in 0 .. r.blocks[b]
      BY <1>1, <1>2, <1>3 DEF k
    <2>2. \A j \in 0 .. r.blocks[b] : Run("meta", b, j) \in Seq(T)
      BY <1>1, RoundsHave
    <2>3. p \in Seq(T) /\ Run("meta", b, m) \in Seq(T) /\ Run("meta", b, m + n) \in Seq(T)
      BY <2>1, <2>2
    <2> HIDE DEF T
    <2>4. m + n \in Nat
      BY <1>1, <1>3
    <2> QED
      BY <1>1, <1>6, <2>3, <2>4, RunGrows DEF n
  <1>8. p[n] = Unit("meta", b, m + n)
    <2>1. n \in 1 .. n
      BY <1>3
    <2> QED
      BY <1>6, <2>1 DEF IsRun, n
  <1>9. /\ Heard(r, c) = Flattened(AudioOfRounds(r), b)
        /\ Told(r, c) = Flattened(BlocksOfRounds(r), b - 1)
        /\ b # 0
    BY <1>1, <1>2 DEF Heard, Told, Passed, b
  <1> HIDE DEF buf
  <1>10. CASE n = k - m
    <2> DEFINE d == RoundAfter(r, b)
    <2>1. /\ d \in Cursors(r) /\ Heard(r, d) = Flattened(AudioOfRounds(r), b)
          /\ Told(r, d) = Flattened(BlocksOfRounds(r), b)
          /\ IcyAt(r, d) = [interval |-> r.metaint, countdown |-> r.metaint,
                            bytesLeft |-> 0, metaBuf |-> << >>]
      BY <1>2, AtRound
    <2>2. m + n = k /\ k # 0
      BY <1>1, <1>2, <1>3, <1>10
    <2>3. Follow(r, p[n]) = Ahead(r, d)
      BY <1>4, <1>7, <1>8, <2>2
    <2>4. Told(r, d) = Append(Told(r, c), buf)
      <3> DEFINE f == Flattened(BlocksOfRounds(r), b - 1)
                 T == Seq(Units(r))
      <3>1. /\ Flattened(BlocksOfRounds(r), b) = f \o BlockOf(r, b) /\ f \in Seq(T)
        <4>1. b - 1 \in 0 .. Rounds(r)
          BY <1>1, <1>2
        <4> QED
          BY <1>1, <4>1, HeardGrows
      <3>2. BlockOf(r, b) = << buf >>
        BY <1>7, <2>2 DEF BlockOf, k
      <3>3. buf \in T
        <4>1. m + n \in 0 .. r.blocks[b]
          BY <1>2, <2>2 DEF k
        <4> QED
          BY <1>1, <1>7, <4>1, RoundsHave
      <3> HIDE DEF f, T, d
      <3>4. Append(f, buf) = f \o << buf >>
        BY <3>1, <3>3, AppendIsConcat
      <3> QED
        BY <1>9, <2>1, <3>1, <3>2, <3>4 DEF f
    <2> HIDE DEF d
    <2> QED
      BY <1>6, <1>7, <1>9, <1>10, <2>1, <2>2, <2>3, <2>4 DEF d, b, m, n, k, buf
  <1>11. CASE n # k - m
    <2> DEFINE d == Unit("meta", b, m + n)
    <2>1. d.kind = "meta" /\ d.of = b /\ d.at = m + n
      BY UnitIs
    <2>2. m + n # k /\ m + n \in 0 .. k - 1
      BY <1>1, <1>2, <1>3, <1>11
    <2>3. d \in Cursors(r)
      <3>1. IsCursor(r, d)
        BY <1>1, <2>1, <2>2 DEF IsCursor, k
      <3> QED
        BY <1>1, <1>7, <3>1, IsInCursors
    <2>4. Follow(r, p[n]) = Ahead(r, d)
      <3>1. Ahead(r, d) = { Unit("meta", b, (m + n) + 1) }
        BY <2>1 DEF Ahead
      <3> QED
        BY <1>4, <1>7, <1>8, <2>2, <3>1
    <2>5. Heard(r, d) = Heard(r, c) /\ Told(r, d) = Told(r, c)
      BY <1>9, <2>1 DEF Heard, Told, Passed
    <2>6. IcyAt(r, d) = [interval |-> r.metaint, countdown |-> 0,
                         bytesLeft |-> (k - m) - n, metaBuf |-> buf]
      <3>1. IcyAt(r, d) = [interval |-> r.metaint, countdown |-> 0, bytesLeft |-> k - (m + n),
                           metaBuf |-> Run("meta", b, m + n)]
        BY <2>1 DEF IcyAt, k
      <3>2. k - (m + n) = (k - m) - n
        BY <1>1, <1>2, <1>3
      <3> QED
        BY <1>7, <3>1, <3>2
    <2> HIDE DEF d
    <2> QED
      BY <1>6, <1>11, <2>3, <2>4, <2>5, <2>6 DEF d, b, m, n, k, buf
  <1> QED
    BY <1>10, <1>11

\* The units of a run.
LEMMA RunHas ==
    ASSUME NEW kind, NEW b, NEW n \in Nat, NEW i \in 1 .. n
    PROVE  Unit(kind, b, i) \in ToSet(Run(kind, b, n))
  <1>1. Run(kind, b, n)[i] = Unit(kind, b, i) /\ DOMAIN Run(kind, b, n) = 1 .. n
    BY RunIs DEF Run
  <1> QED
    BY <1>1 DEF ToSet

\* A round has its audio and its cells of metadata.
LEMMA RoundHas ==
    ASSUME NEW r \in Responses, NEW b \in 1 .. Rounds(r)
    PROVE  /\ \A i \in 1 .. r.metaint : Unit("audio", b, i) \in ToSet(Round(r, b))
           /\ \A i \in 1 .. r.blocks[b] : Unit("meta", b, i) \in ToSet(Round(r, b))
  <1> DEFINE S == Units(r)
             k == r.blocks[b]
             a == Run("audio", b, r.metaint)
             l == << Unit("len", b, k) >>
             m == Run("meta", b, k)
             x == a \o l
  <1>1. r.metaint \in Nat /\ k \in Nat /\ Interval(r, b) = r.metaint /\ b \in 0 .. Rounds(r)
    <2>1. r.metaint \in Nat /\ Rounds(r) \in Nat /\ \A j \in 1 .. Rounds(r) : r.blocks[j] \in Nat
      BY ResponseIs
    <2> QED
      BY <2>1 DEF Interval
  <1>2. a \in Seq(S) /\ m \in Seq(S)
    <2>1. r.metaint \in 0 .. Interval(r, b) /\ k \in 0 .. k
      BY <1>1
    <2>2. /\ \A j \in 0 .. Interval(r, b) : Run("audio", b, j) \in Seq(S)
          /\ \A j \in 0 .. k : Run("meta", b, j) \in Seq(S)
      BY <1>1, RoundsHave
    <2> QED
      BY <2>1, <2>2
  <1>3. l \in Seq(S)
    <2> DEFINE u == Unit("len", b, k)
    <2>1. u \in S
      BY UnitsOf
    <2> HIDE DEF u, S
    <2> QED
      BY <2>1 DEF u
  <1>4. /\ \A i \in 1 .. r.metaint : Unit("audio", b, i) \in ToSet(a)
        /\ \A i \in 1 .. k : Unit("meta", b, i) \in ToSet(m)
    <2> HIDE DEF k
    <2> QED
      BY <1>1, RunHas
  <1>5. Round(r, b) = x \o m
    BY DEF Round
  <1> HIDE DEF S, a, l, m, k
  <1>6. x \in Seq(S) /\ ToSet(x) = ToSet(a) \cup ToSet(l)
    BY <1>2, <1>3, ElementsOfConcat, ConcatProperties
  <1> HIDE DEF x
  <1>7. ToSet(Round(r, b)) = ToSet(x) \cup ToSet(m)
    BY <1>2, <1>5, <1>6, ElementsOfConcat
  <1> QED
    BY <1>4, <1>6, <1>7 DEF k

\* The answer has all the audio and all the blocks of the body.
LEMMA AnswerHas ==
    ASSUME NEW r \in Responses
    PROVE  /\ \A u \in Units(r) : u.kind = "audio" => u \in ToSet(Answer(r))
           /\ \A b \in 1 .. Rounds(r) : r.blocks[b] # 0 =>
                Unit("meta", b, r.blocks[b]) \in ToSet(Answer(r))
  <1> DEFINE S == Units(r)
             h == Run("header", 0, r.headers)
             e == End(r)
             f == FlattenSeq(RoundsOf(r))
             t == Run("audio", 0, r.tail)
             g == IF r.metaint = 0 THEN << >> ELSE f
             y == g \o t
             x == h \o e
  <1>1. /\ r.headers \in Nat /\ r.metaint \in Nat /\ r.tail \in Nat /\ Rounds(r) \in Nat
        /\ Interval(r, 0) = r.tail /\ (r.metaint = 0 => Rounds(r) = 0)
        /\ \A b \in 1 .. Rounds(r) : r.blocks[b] \in Nat
    BY ResponseIs DEF Interval
  <1>2. h \in Seq(S) /\ t \in Seq(S) /\ e \in Seq(S)
    <2>1. /\ \A i \in 1 .. r.headers : Unit("header", 0, i) \in S
          /\ Unit("end", 0, r.metaint) \in S
      BY UnitsOf
    <2>2. h \in Seq(S)
      BY <1>1, <2>1, RunIs
    <2>3. t \in Seq(S)
      <3>1. 0 \in 0 .. Rounds(r) /\ r.tail \in 0 .. Interval(r, 0)
        BY <1>1
      <3> QED
        BY <3>1, RoundsHave
    <2>4. e \in Seq(S)
      <3> DEFINE u == Unit("end", 0, r.metaint)
      <3>1. u \in S
        BY <2>1
      <3> HIDE DEF u, S
      <3> QED
        BY <3>1 DEF End, u
    <2> QED
      BY <2>2, <2>3, <2>4
  <1>3. /\ f \in Seq(S)
        /\ \A b \in 1 .. Rounds(r) : ToSet(Round(r, b)) \subseteq ToSet(f)
    <2> HIDE DEF S
    <2>1. /\ RoundsOf(r) \in Seq(Seq(S)) /\ Len(RoundsOf(r)) = Rounds(r)
          /\ \A b \in 1 .. Rounds(r) : RoundsOf(r)[b] = Round(r, b)
      BY RoundsAre DEF S
    <2>2. f \in Seq(S)
      <3>1. Rounds(r) \in 0 .. Len(RoundsOf(r))
        BY <1>1, <2>1
      <3>2. /\ f = Flattened(RoundsOf(r), Len(RoundsOf(r)))
            /\ \A n \in 0 .. Len(RoundsOf(r)) : Flattened(RoundsOf(r), n) \in Seq(S)
        BY <2>1, FlattenedGrows
      <3> QED
        BY <2>1, <3>1, <3>2
    <2>3. \A b \in 1 .. Rounds(r) : ToSet(RoundsOf(r)[b]) \subseteq ToSet(f)
      BY <2>1, ElementsOfFlatten
    <2> QED
      BY <2>1, <2>2, <2>3
  <1>4. Answer(r) = x \o y
    BY DEF Answer, Body, End, RoundsOf
  <1> HIDE DEF S, h, e, f, t
  <1>5. g \in Seq(S) /\ (r.metaint # 0 => g = f)
    BY <1>3, EmptySeq
  <1> HIDE DEF g
  <1>6. /\ x \in Seq(S) /\ y \in Seq(S) /\ ToSet(y) = ToSet(g) \cup ToSet(t)
    BY <1>2, <1>5, ElementsOfConcat, ConcatProperties
  <1> HIDE DEF x, y
  <1>7. ToSet(g) \cup ToSet(t) \subseteq ToSet(Answer(r))
    BY <1>4, <1>6, ElementsOfConcat
  <1>8. ASSUME NEW b \in 1 .. Rounds(r)
        PROVE  ToSet(Round(r, b)) \subseteq ToSet(Answer(r))
    BY <1>1, <1>3, <1>5, <1>7
  <1>9. ASSUME NEW u \in Units(r), u.kind = "audio"
        PROVE  u \in ToSet(Answer(r))
    <2>1. /\ u = Unit("audio", u.of, u.at) /\ u.of \in 0 .. Rounds(r) /\ u.at \in 1 .. Interval(r, u.of)
      <3>1. u \in UnitRec /\ InAnswer(r, u)
        BY <1>9, Zenon DEF Units
      <3>2. u = [kind |-> u.kind, of |-> u.of, at |-> u.at]
        BY <3>1 DEF UnitRec
      <3> QED
        BY <1>9, <3>1, <3>2 DEF InAnswer, Unit
    <2>2. CASE u.of = 0
      <3>1. Unit("audio", 0, u.at) \in ToSet(t)
        BY <1>1, <2>1, <2>2, RunHas DEF t
      <3> QED
        BY <1>7, <2>1, <2>2, <3>1
    <2>3. CASE u.of # 0
      <3>1. u.of \in 1 .. Rounds(r) /\ u.at \in 1 .. r.metaint
        BY <1>1, <2>1, <2>3 DEF Interval
      <3> QED
        BY <1>8, <2>1, <3>1, RoundHas
    <2> QED
      BY <2>2, <2>3
  <1>10. ASSUME NEW b \in 1 .. Rounds(r), r.blocks[b] # 0
         PROVE  Unit("meta", b, r.blocks[b]) \in ToSet(Answer(r))
    <2> DEFINE k == r.blocks[b]
    <2>1. k \in 1 .. k
      BY <1>1, <1>10
    <2> QED
      BY <1>8, <2>1, RoundHas
  <1> QED
    BY <1>9, <1>10

\* The audio and the blocks in front of a place are the first of the body's.
LEMMA HeardIsPrefix ==
    ASSUME NEW r \in Responses, NEW c \in Cursors(r)
    PROVE  /\ Heard(r, c) \in Seq(Units(r)) /\ Told(r, c) \in Seq(Seq(Units(r)))
           /\ AudioIn(r) \in Seq(Units(r)) /\ IsPrefix(Heard(r, c), AudioIn(r))
           /\ IsPrefix(Told(r, c), BlocksIn(r))
  <1> DEFINE S == Units(r)
             f(n) == Flattened(AudioOfRounds(r), n)
             g(n) == Flattened(BlocksOfRounds(r), n)
             N == Rounds(r)
             b == c.of
             a == Run("audio", b, c.at)
             t == Run("audio", 0, r.tail)
  <1>1. /\ N \in Nat /\ r.metaint \in Nat /\ r.tail \in Nat /\ Interval(r, 0) = r.tail
        /\ \A j \in 0 .. N : Interval(r, j) \in Nat
        /\ \A j \in 1 .. N : Interval(r, j) = r.metaint
    BY ResponseIs DEF Interval
  <1>2. /\ b \in Nat /\ c.at \in Nat
        /\ \/ c.kind = "audio" /\ b \in 0 .. N /\ c.at \in 0 .. Interval(r, b)
           \/ c.kind = "meta" /\ b \in 1 .. N
    BY CursorIs
  <1>3. /\ \A n \in 0 .. N : f(n) \in Seq(S)
        /\ \A n \in 1 .. N : f(n) = f(n - 1) \o Run("audio", n, r.metaint)
        /\ \A n \in 0 .. N : g(n) \in Seq(Seq(S))
    BY HeardGrows
  <1>4. /\ \A j \in 0 .. N : \A k \in 0 .. Interval(r, j) : Run("audio", j, k) \in Seq(S)
    BY RoundsHave
  <1>5. /\ AudioIn(r) = f(N) \o t /\ BlocksIn(r) = g(N)
    <2>1. FlattenSeq(AudioOfRounds(r)) = f(N)
      BY RoundsHave, FlattenedGrows
    <2>2. FlattenSeq(BlocksOfRounds(r)) = g(N)
      <3> DEFINE T == Seq(S)
      <3>1. BlocksOfRounds(r) \in Seq(Seq(T)) /\ Len(BlocksOfRounds(r)) = N
        BY RoundsHave
      <3> HIDE DEF T
      <3> QED
        BY <3>1, FlattenedGrows
    <2>3. AudioIn(r) = FlattenSeq(AudioOfRounds(r)) \o t
      BY DEF AudioIn, AudioOfRounds
    <2>4. BlocksIn(r) = FlattenSeq(BlocksOfRounds(r))
      BY DEF BlocksIn, BlocksOfRounds, BlockOf
    <2> QED
      BY <2>1, <2>2, <2>3, <2>4
  <1>6. \A m \in 0 .. N : IsPrefix(f(m), f(N)) /\ IsPrefix(g(m), g(N))
    <2> SUFFICES ASSUME NEW m \in 0 .. N PROVE IsPrefix(f(m), f(N)) /\ IsPrefix(g(m), g(N))
      OBVIOUS
    <2>1. N \in m .. N
      BY <1>1
    <2>2. IsPrefix(f(m), f(N))
      BY <2>1, RoundsHave, FlattenedIsPrefix
    <2>3. IsPrefix(g(m), g(N))
      <3> DEFINE T == Seq(S)
      <3>1. BlocksOfRounds(r) \in Seq(Seq(T)) /\ Len(BlocksOfRounds(r)) = N
        BY RoundsHave
      <3> HIDE DEF T
      <3> QED
        BY <2>1, <3>1, FlattenedIsPrefix
    <2> QED
      BY <2>2, <2>3
  <1>7. /\ t \in Seq(S) /\ f(N) \in Seq(S) /\ f(N) \o t \in Seq(S) /\ IsPrefix(f(N), f(N) \o t)
    <2>1. 0 \in 0 .. N /\ N \in 0 .. N /\ r.tail \in 0 .. Interval(r, 0)
      BY <1>1
    <2>2. t \in Seq(S) /\ f(N) \in Seq(S)
      BY <1>3, <1>4, <2>1
    <2> HIDE DEF t, f, S
    <2> QED
      BY <2>2, ConcatProperties, PrefixOfConcat
  <1>8. \A n \in 0 .. N : f(n) \in Seq(S) /\ IsPrefix(f(n), f(N) \o t)
    <2> HIDE DEF t, f, S, N
    <2> QED
      BY <1>3, <1>6, <1>7, PrefixOfPrefix
  <1>9. Heard(r, c) \in Seq(S) /\ IsPrefix(Heard(r, c), f(N) \o t)
    <2>1. CASE c.kind = "meta"
      <3>1. Heard(r, c) = f(b) /\ b \in 0 .. N
        BY <1>1, <1>2, <2>1 DEF Heard
      <3> QED
        BY <1>8, <3>1
    <2>2. CASE c.kind = "audio" /\ b = 0
      <3>1. Heard(r, c) = f(N) \o a
        BY <2>2 DEF Heard, Passed
      <3>2. a \in Seq(S) /\ c.at \in 0 .. r.tail
        BY <1>1, <1>2, <1>4, <2>2
      <3>3. IsPrefix(a, t)
        <4>1. Len(a) = c.at /\ \A i \in 1 .. c.at : a[i] = Unit("audio", 0, i)
          BY <1>2, <2>2, RunIs
        <4>2. Len(t) = r.tail /\ \A i \in 1 .. r.tail : t[i] = Unit("audio", 0, i)
          BY <1>1, RunIs
        <4>3. \A i \in 1 .. c.at : i \in 1 .. r.tail
          BY <1>1, <3>2
        <4> HIDE DEF a, t, S, f
        <4>4. Len(a) <= Len(t) /\ \A i \in 1 .. Len(a) : t[i] = a[i]
          BY <1>1, <3>2, <4>1, <4>2, <4>3
        <4> QED
          BY <1>7, <3>2, <4>4, PrefixMeans
      <3> HIDE DEF a, t, S, f
      <3> QED
        BY <1>7, <3>1, <3>2, <3>3, PrefixOfConcat, ConcatProperties
    <2>3. CASE c.kind = "audio" /\ b # 0
      <3> DEFINE m == Run("audio", b, r.metaint)
      <3>1. Heard(r, c) = f(b - 1) \o a
        BY <2>3 DEF Heard, Passed
      <3>2. /\ b \in 0 .. N /\ b \in 1 .. N /\ c.at \in 0 .. r.metaint /\ b - 1 \in 0 .. N
            /\ Interval(r, b) = r.metaint /\ r.metaint \in 0 .. Interval(r, b)
        BY <1>1, <1>2, <2>3
      <3>3. a \in Seq(S) /\ m \in Seq(S) /\ f(b - 1) \in Seq(S) /\ f(b) = f(b - 1) \o m
        BY <1>2, <1>3, <1>4, <3>2
      <3>4. IsPrefix(a, m)
        <4>1. Len(a) = c.at /\ \A i \in 1 .. c.at : a[i] = Unit("audio", b, i)
          BY <1>2, RunIs
        <4>2. Len(m) = r.metaint /\ \A i \in 1 .. r.metaint : m[i] = Unit("audio", b, i)
          BY <1>1, RunIs
        <4>3. \A i \in 1 .. c.at : i \in 1 .. r.metaint
          BY <1>1, <3>2
        <4> HIDE DEF a, m, S, f
        <4>4. Len(a) <= Len(m) /\ \A i \in 1 .. Len(a) : m[i] = a[i]
          BY <1>1, <3>2, <4>1, <4>2, <4>3
        <4> QED
          BY <3>3, <4>4, PrefixMeans
      <3> HIDE DEF a, t, S, f, m
      <3>5. f(b - 1) \o a \in Seq(S) /\ IsPrefix(f(b - 1) \o a, f(b))
        <4> DEFINE x == f(b - 1)
        <4>1. x \in Seq(S) /\ f(b) = x \o m
          BY <3>3
        <4> HIDE DEF x
        <4> QED
          BY <3>3, <3>4, <4>1, PrefixOfConcat, ConcatProperties DEF x
      <3>6. f(b) \in Seq(S) /\ IsPrefix(f(b), f(N) \o t)
        BY <1>8, <3>2
      <3> QED
        BY <1>7, <3>1, <3>5, <3>6, PrefixOfPrefix
    <2> QED
      BY <1>2, <2>1, <2>2, <2>3
  <1>10. Told(r, c) \in Seq(Seq(S)) /\ IsPrefix(Told(r, c), g(N))
    <2>1. Passed(r, c) \in 0 .. N
      BY <1>1, <1>2 DEF Passed
    <2> QED
      BY <1>3, <1>6, <2>1 DEF Told
  <1> QED
    BY <1>5, <1>7, <1>9, <1>10

-----------------------------------------------------------------------------
(* Transport::read().                                                       *)

LEMMA OnWireIs ==
    ASSUME NEW r
    PROVE  /\ \A u \in OnWire(r) : u.kind = "ticket" <=> u = Ticket
           /\ \A u \in OnWire(r) : u # Ticket => u \in Units(r)
           /\ Ticket \in OnWire(r) /\ Units(r) \subseteq OnWire(r)
           /\ Seq(Units(r)) \subseteq Seq(OnWire(r))
  <1>1. Ticket.kind = "ticket"
    BY DEF Ticket, Unit
  <1>2. \A u \in Units(r) : u.kind # "ticket"
    BY DEF Units, InAnswer
  <1>3. /\ Ticket \in OnWire(r) /\ Units(r) \subseteq OnWire(r)
        /\ \A u \in OnWire(r) : u \in Units(r) \/ u = Ticket
    BY DEF OnWire
  <1>4. Seq(Units(r)) \subseteq Seq(OnWire(r))
    BY <1>3, SeqMonotonic
  <1> QED
    BY <1>1, <1>2, <1>3, <1>4

\* What is read lies behind some tickets, and begins with a unit.
LEMMA ReadableIs ==
    ASSUME NEW r, NEW w \in Seq(OnWire(r)), ~tls => w \in Seq(Units(r))
    PROVE  LET v == Readable(w)
           IN  /\ v \in Seq(OnWire(r)) /\ Len(v) <= Len(w) /\ (~tls => v \in Seq(Units(r)))
               /\ v # << >> => Len(v) > 0 /\ v[1] # Ticket
               /\ \E q \in Seq(OnWire(r)) : w = q \o v /\ \A i \in 1 .. Len(q) : q[i] = Ticket
  <1> DEFINE S == OnWire(r)
             v == Readable(w)
             I == { i \in 1 .. Len(w) : w[i].kind # "ticket" }
             OK(q) == q \in Seq(S) /\ w = q \o v /\ \A i \in 1 .. Len(q) : q[i] = Ticket
  <1>1. Len(w) \in Nat /\ \A i \in 1 .. Len(w) : w[i] \in S
    BY LenProperties, ElementOfSeq
  <1>2. \A i \in 1 .. Len(w) : w[i].kind = "ticket" <=> w[i] = Ticket
    BY <1>1, OnWireIs
  <1>3. v = IF ~tls THEN w
            ELSE LET first == IF I # {} THEN Min(I) ELSE 0
                 IN  IF first = 0 THEN << >> ELSE SubSeq(w, first, Len(w))
    BY DEF Readable, SelectInSeq
  <1> HIDE DEF v
  <1>4. CASE ~tls
    <2>1. v = w
      BY <1>3, <1>4
    <2>2. w # << >> => Len(w) > 0 /\ w[1] # Ticket
      <3> SUFFICES ASSUME w # << >> PROVE Len(w) > 0 /\ w[1] # Ticket
        OBVIOUS
      <3>1. Len(w) > 0 /\ 1 \in 1 .. Len(w)
        BY <1>1, EmptySeq
      <3>2. w[1] \in Units(r)
        BY <1>4, <3>1, ElementOfSeq
      <3> QED
        BY <3>1, <3>2, UnitsAreNoTickets
    <2>3. OK(<< >>)
      <3>1. << >> \in Seq(S) /\ Len(<< >>) = 0 /\ << >> \o w = w
        BY EmptySeq, ConcatEmptySeq
      <3> QED
        BY <2>1, <3>1
    <2> HIDE DEF OK
    <2>4. \E q : OK(q)
      BY <2>3
    <2> QED
      BY <1>1, <1>4, <2>1, <2>2, <2>4 DEF OK, v
  <1>5. CASE tls /\ I = {}
    <2>1. v = << >>
      BY <1>3, <1>5
    <2>2. \A i \in 1 .. Len(w) : w[i] = Ticket
      BY <1>2, <1>5
    <2>3. OK(w) /\ Len(v) = 0 /\ v \in Seq(S)
      <3>1. w \o << >> = w /\ << >> \in Seq(S) /\ Len(<< >>) = 0
        BY EmptySeq, ConcatEmptySeq
      <3> QED
        BY <2>1, <2>2, <3>1
    <2> HIDE DEF OK, I
    <2>4. \E q : OK(q)
      BY <2>3
    <2> QED
      BY <1>1, <1>5, <2>1, <2>3, <2>4 DEF OK, v
  <1>6. CASE tls /\ I # {}
    <2> DEFINE f == Min(I)
               q == SubSeq(w, 1, f - 1)
    <2>1. I \subseteq Nat
      BY <1>1
    <2>2. f \in I /\ \A i \in I : f <= i
      <3> HIDE DEF I
      <3> QED
        BY <1>6, <2>1, MinIsLeast
    <2>3. f \in 1 .. Len(w) /\ w[f] # Ticket /\ \A i \in 1 .. Len(w) : i < f => w[i] = Ticket
      <3>1. f \in 1 .. Len(w) /\ w[f].kind # "ticket"
        BY <2>2
      <3>2. \A i \in 1 .. Len(w) : w[i].kind # "ticket" => f <= i
        BY <2>2
      <3> HIDE DEF f
      <3> QED
        BY <1>1, <1>2, <3>1, <3>2
    <2>4. v = SubSeq(w, f, Len(w))
      <3>1. f # 0
        <4> HIDE DEF f
        <4> QED
          BY <2>3
      <3> HIDE DEF I
      <3> QED
        BY <1>3, <1>6, <3>1
    <2> HIDE DEF f, I
    <2>5. f - 1 \in 0 .. Len(w) /\ (f - 1) + 1 = f
      BY <1>1, <2>3
    <2>6. /\ w = q \o v /\ q \in Seq(S) /\ Len(q) = f - 1
          /\ \A i \in 1 .. f - 1 : q[i] = w[i]
          /\ v \in Seq(S) /\ Len(v) = Len(w) - (f - 1)
      <3>1. /\ w = SubSeq(w, 1, f - 1) \o SubSeq(w, (f - 1) + 1, Len(w))
            /\ SubSeq(w, 1, f - 1) \in Seq(S) /\ Len(SubSeq(w, 1, f - 1)) = f - 1
            /\ SubSeq(w, (f - 1) + 1, Len(w)) \in Seq(S)
            /\ Len(SubSeq(w, (f - 1) + 1, Len(w))) = Len(w) - (f - 1)
            /\ \A i \in 1 .. f - 1 : SubSeq(w, 1, f - 1)[i] = w[i]
        BY <2>5, CutInTwo
      <3> QED
        BY <2>4, <2>5, <3>1
    <2> HIDE DEF q
    <2>7. Len(v) > 0 /\ v[1] # Ticket
      <3>1. 1 \in 1 .. Len(v) /\ Len(q) + 1 = f
        BY <1>1, <2>3, <2>5, <2>6
      <3>2. \A i \in 1 .. Len(v) : (q \o v)[Len(q) + i] = v[i]
        <4> HIDE DEF S
        <4> QED
          BY <2>6, PlacesOf
      <3>3. (q \o v)[f] = v[1]
        BY <3>1, <3>2
      <3> QED
        BY <1>1, <2>3, <2>6, <3>1, <3>3
    <2>8. \A i \in 1 .. Len(q) : q[i] = Ticket
      <3>1. \A i \in 1 .. f - 1 : i \in 1 .. Len(w) /\ i < f
        BY <1>1, <2>3
      <3> QED
        BY <2>3, <2>6, <3>1
    <2>9. OK(q)
      BY <2>6, <2>8
    <2> HIDE DEF OK
    <2>10. \E x : OK(x)
      BY <2>9
    <2>11. Len(v) <= Len(w)
      BY <1>1, <2>5, <2>6
    <2> QED
      BY <1>6, <2>6, <2>7, <2>10, <2>11 DEF OK, v
  <1> QED
    BY <1>4, <1>5, <1>6

\* A piece has no tickets in it.
LEMMA PieceIs ==
    ASSUME NEW r, NEW w \in Seq(OnWire(r)), Len(w) > 0, w[1] # Ticket, NEW size \in Nat \ {0}
    PROVE  LET p == Piece(w, size)
               t == SubSeq(w, Len(p) + 1, Len(w))
           IN  /\ p \in Seq(Units(r)) /\ Len(p) \in 1 .. size
               /\ t \in Seq(OnWire(r)) /\ w = p \o t /\ Len(t) <= Len(w)
               /\ w \in Seq(Units(r)) => t \in Seq(Units(r))
  <1> DEFINE S == OnWire(r)
             I == { i \in 1 .. Len(w) : w[i].kind = "ticket" }
             next == IF I # {} THEN Min(I) ELSE 0
             have == IF next = 0 THEN Len(w) ELSE next - 1
             n == IF have < size THEN have ELSE size
             p == SubSeq(w, 1, n)
             t == SubSeq(w, n + 1, Len(w))
  <1>1. Len(w) \in Nat /\ \A i \in 1 .. Len(w) : w[i] \in S
    BY LenProperties, ElementOfSeq
  <1>2. \A i \in 1 .. Len(w) : w[i].kind = "ticket" <=> w[i] = Ticket
    BY <1>1, OnWireIs
  <1>3. Piece(w, size) = p
    BY DEF Piece, SelectInSeq
  <1>4. have \in 1 .. Len(w) /\ \A i \in 1 .. have : w[i] # Ticket
    <2>1. CASE I = {}
      <3>1. have = Len(w)
        BY <2>1
      <3> HIDE DEF have
      <3> QED
        BY <1>1, <1>2, <2>1, <3>1
    <2>2. CASE I # {}
      <3> DEFINE f == Min(I)
      <3>1. I \subseteq Nat
        BY <1>1
      <3>2. f \in I /\ \A i \in I : f <= i
        <4> HIDE DEF I
        <4> QED
          BY <2>2, <3>1, MinIsLeast
      <3>3. f \in 1 .. Len(w) /\ w[f] = Ticket /\ \A i \in 1 .. Len(w) : i < f => w[i] # Ticket
        <4>1. f \in 1 .. Len(w) /\ w[f].kind = "ticket"
          BY <3>2
        <4>2. \A i \in 1 .. Len(w) : w[i].kind = "ticket" => f <= i
          BY <3>2
        <4> HIDE DEF f
        <4> QED
          BY <1>1, <1>2, <4>1, <4>2
      <3>4. next = f
        BY <2>2
      <3> HIDE DEF f, next
      <3>5. f # 1 /\ f # 0
        BY <3>3
      <3>6. have = f - 1
        BY <3>4, <3>5
      <3> HIDE DEF have
      <3> QED
        BY <1>1, <3>3, <3>5, <3>6
    <2> QED
      BY <2>1, <2>2
  <1> HIDE DEF have
  <1>5. /\ n \in 1 .. size /\ n \in 0 .. Len(w) /\ n \in Nat
        /\ \A i \in 1 .. n : w[i] # Ticket /\ i \in 1 .. Len(w)
    BY <1>1, <1>4
  <1> HIDE DEF n
  <1>6. /\ w = p \o t /\ p \in Seq(S) /\ Len(p) = n /\ t \in Seq(S) /\ Len(t) = Len(w) - n
        /\ \A i \in 1 .. n : p[i] = w[i]
    BY <1>5, CutInTwo
  <1>7. w \in Seq(Units(r)) => t \in Seq(Units(r))
    BY <1>5, CutInTwo
  <1> HIDE DEF p, t
  <1>8. \A i \in 1 .. n : p[i] \in Units(r)
    BY <1>1, <1>5, <1>6, OnWireIs
  <1>9. p \in Seq(Units(r))
    <2> DEFINE T == Units(r)
    <2>1. p \in [1 .. n -> S]
      BY <1>6, LenProperties
    <2>2. \A i \in 1 .. n : p[i] \in T
      BY <1>8
    <2> HIDE DEF S, T
    <2>3. p \in [1 .. n -> T]
      BY <2>1, <2>2
    <2>4. p \in Seq(T)
      BY <1>5, <2>3, SeqDef
    <2> QED
      BY <2>4 DEF T
  <1>10. Len(t) <= Len(w)
    BY <1>1, <1>5, <1>6
  <1>11. t = SubSeq(w, Len(p) + 1, Len(w))
    BY <1>6 DEF t
  <1> QED
    BY <1>3, <1>5, <1>6, <1>7, <1>9, <1>10, <1>11

\* What a read can bring: nothing, or the next units behind some tickets.
IsRead(r, x, size) ==
    /\ x.units \in Seq(Units(r)) /\ x.rest \in Seq(OnWire(r)) /\ Len(x.rest) <= Len(wire)
    /\ ~tls => x.rest \in Seq(Units(r))
    /\ \E q \in Seq(OnWire(r)) :
            wire = q \o (x.units \o x.rest) /\ \A i \in 1 .. Len(q) : q[i] = Ticket
    /\ IF x.result = "Data" THEN Len(x.units) \in 1 .. size /\ fd # "closed" ELSE x.units = << >>

LEMMA ReadsAre ==
    ASSUME NEW r, wire \in Seq(OnWire(r)), ~tls => wire \in Seq(Units(r)),
           fd \in {"up", "shut", "closed"}, NEW size \in Nat, fd # "closed" => size # 0,
           NEW x \in Reads(size)
    PROVE  IsRead(r, x, size)
  <1> DEFINE w == Readable(wire)
             p == Piece(w, size)
             t == SubSeq(w, Len(p) + 1, Len(w))
             data == [result |-> "Data", units |-> p, rest |-> t]
             none(end) == [result |-> end, units |-> << >>, rest |-> w]
  <1>1. /\ w \in Seq(OnWire(r)) /\ Len(w) <= Len(wire) /\ (~tls => w \in Seq(Units(r)))
        /\ w # << >> => Len(w) > 0 /\ w[1] # Ticket
        /\ \E q \in Seq(OnWire(r)) : wire = q \o w /\ \A i \in 1 .. Len(q) : q[i] = Ticket
    BY ReadableIs
  <1>2. x \in IF w # << >> /\ fd # "closed" THEN {data} ELSE {none(end) : end \in NoData}
    BY Zenon DEF Reads
  <1>3. "Data" \notin NoData
    BY DEF NoData
  <1>4. Len(w) \in Nat /\ Len(wire) \in Nat
    BY <1>1, LenProperties
  <1> HIDE DEF w
  <1>5. CASE w # << >> /\ fd # "closed"
    <2>1. x = data
      BY <1>2, <1>5
    <2>2. x.result = "Data" /\ x.units = p /\ x.rest = t
      BY <2>1
    <2>3. /\ p \in Seq(Units(r)) /\ Len(p) \in 1 .. size
          /\ t \in Seq(OnWire(r)) /\ w = p \o t /\ Len(t) <= Len(w)
          /\ w \in Seq(Units(r)) => t \in Seq(Units(r))
      <3>1. size \in Nat \ {0}
        BY <1>5
      <3> QED
        BY <1>1, <1>5, <3>1, PieceIs
    <2>4. Len(t) \in Nat
      BY <2>3, LenProperties
    <2> HIDE DEF p, t
    <2>5. Len(t) <= Len(wire)
      BY <1>1, <1>4, <2>3, <2>4
    <2> QED
      BY <1>1, <1>5, <2>2, <2>3, <2>5 DEF IsRead
  <1>6. CASE ~ (w # << >> /\ fd # "closed")
    <2>1. PICK end \in NoData : x = none(end)
      BY <1>2, <1>6
    <2>2. x.result = end /\ x.units = << >> /\ x.rest = w /\ end # "Data"
      BY <1>3, <2>1
    <2>3. << >> \in Seq(Units(r)) /\ << >> \o w = w
      BY <1>1, EmptySeq, ConcatEmptySeq
    <2> QED
      BY <1>1, <2>2, <2>3 DEF IsRead
  <1> QED
    BY <1>5, <1>6

\* What is under way stays in order when its tickets are swallowed.
LEMMA TicketsRead ==
    ASSUME NEW S, NEW s \in Seq(S), NEW q \in Seq(S), NEW v \in Seq(S), NEW u \in Seq(S), NEW r,
           NEW first, \A i \in 1 .. Len(q) : q[i] = Ticket
    PROVE  /\ Ordered(r, s \o ((q \o v) \o u)) <=> Ordered(r, s \o (v \o u))
           /\ StartsIn(first, s \o ((q \o v) \o u)) <=> StartsIn(first, s \o (v \o u))
  <1> DEFINE t == v \o u
  <1>1. (q \o v) \o u = q \o t
    BY ConcatAssociative
  <1>2. t \in Seq(S)
    BY ConcatProperties
  <1> HIDE DEF t
  <1>3. /\ Ordered(r, s \o (q \o t)) <=> Ordered(r, s \o t)
        /\ StartsIn(first, s \o (q \o t)) <=> StartsIn(first, s \o t)
    BY <1>2, TicketsAside
  <1> QED
    BY <1>1, <1>3 DEF t

-----------------------------------------------------------------------------
(* A pull.                                                                  *)

\* What is asked for is what comes next, and no more than there is of it.
LEMMA PartIs ==
    ASSUME NEW r \in Responses, NEW c \in Cursors(r), icy = IcyAt(r, c),
           NEW produced, Len(produced) \in Nat, Len(produced) < BufferSize
    PROVE  LET n == Want(produced)
           IN  /\ n \in Nat \ {0} /\ icy.interval = r.metaint
               /\ \/ /\ Part = "meta" /\ c.kind = "meta"
                     /\ n <= r.blocks[c.of] - c.at /\ c.at \in Nat /\ r.blocks[c.of] \in Nat
                  \/ Part = "len" /\ c.kind = "audio" /\ r.metaint # 0 /\ c.at = r.metaint /\ n = 1
                  \/ /\ Part = "audio" /\ c.kind = "audio" /\ n <= BufferSize - Len(produced)
                     /\ c.at \in Nat /\ (r.metaint # 0 => c.at + n <= r.metaint)
  <1> DEFINE k == r.blocks[c.of]
             room == BufferSize - Len(produced)
             n == Want(produced)
  <1>1. /\ r.metaint \in Nat /\ r.tail \in Nat /\ (r.metaint # 0 => r.tail <= r.metaint)
        /\ r.metaint = 0 => Rounds(r) = 0
        /\ Rounds(r) \in Nat
        /\ \A b \in 1 .. Rounds(r) : r.blocks[b] \in Nat
    BY ResponseIs
  <1>2. /\ c.of \in Nat /\ c.at \in Nat
        /\ \/ c.kind = "audio" /\ c.of \in 0 .. Rounds(r) /\ c.at \in 0 .. Interval(r, c.of)
           \/ c.kind = "meta" /\ c.of \in 1 .. Rounds(r) /\ c.at \in 0 .. k - 1
    BY CursorIs
  <1>3. /\ BufferSize \in Nat /\ MetaChunk \in Nat \ {0} /\ room \in Nat \ {0}
    BY SizesAssumption
  <1>4. CASE c.kind = "meta"
    <2>1. k \in Nat /\ c.at <= k - 1
      <3>1. k \in Nat
        BY <1>1, <1>2, <1>4
      <3> HIDE DEF k
      <3> QED
        BY <1>2, <1>4, <3>1
    <2>2. icy.bytesLeft = k - c.at /\ icy.interval = r.metaint
      BY <1>4 DEF IcyAt
    <2> HIDE DEF k
    <2>3. Part = "meta"
      BY <1>2, <2>1, <2>2 DEF Part
    <2>4. n = Smaller(k - c.at, MetaChunk)
      BY <2>2, <2>3 DEF Want
    <2>5. n \in Nat \ {0} /\ n <= k - c.at
      BY <1>2, <1>3, <2>1, <2>4 DEF Smaller
    <2> QED
      BY <1>2, <1>4, <2>1, <2>2, <2>3, <2>5 DEF k
  <1>5. CASE c.kind = "audio"
    <2> DEFINE d == IF r.metaint = 0 THEN 0 ELSE r.metaint - c.at
    <2>1. icy.bytesLeft = 0 /\ icy.interval = r.metaint /\ icy.countdown = d
      BY <1>5 DEF IcyAt
    <2>2. r.metaint # 0 => c.at <= r.metaint
      BY <1>1, <1>2, <1>5 DEF Interval
    <2>3. d \in Nat
      BY <1>1, <1>2, <2>2
    <2>4. Part = IF r.metaint # 0 /\ d = 0 THEN "len" ELSE "audio"
      BY <2>1 DEF Part
    <2>5. CASE r.metaint # 0 /\ d = 0
      <3>1. n = 1
        BY <2>4, <2>5 DEF Want
      <3>2. c.at = r.metaint
        BY <1>1, <1>2, <2>5
      <3> QED
        BY <1>5, <2>1, <2>4, <2>5, <3>1, <3>2
    <2>6. CASE ~ (r.metaint # 0 /\ d = 0)
      <3>1. n = IF d = 0 THEN room ELSE Smaller(room, d)
        <4> HIDE DEF d
        <4> QED
          BY <2>1, <2>4, <2>6 DEF Want
      <3>2. n \in Nat \ {0} /\ n <= room /\ (d # 0 => n <= d)
        <4> HIDE DEF d, n, room
        <4> QED
          BY <1>3, <2>3, <3>1 DEF Smaller
      <3>3. r.metaint # 0 => c.at + n <= r.metaint
        <4> HIDE DEF n, room
        <4> QED
          BY <1>1, <1>2, <2>6, <3>2
      <3> QED
        BY <1>2, <1>5, <2>1, <2>4, <2>6, <3>2, <3>3
    <2> QED
      BY <2>5, <2>6
  <1> QED
    BY <1>2, <1>4, <1>5

LEMMA NoCallIs ==
    ASSUME NEW S
    PROVE  NoCall \in CallOf(S) /\ NoCall.produced = << >> /\ Len(<< >>) = 0 /\ << >> \in Seq(S)
  <1>1. << >> \in Seq(S) /\ Len(<< >>) = 0
    BY EmptySeq
  <1> QED
    BY <1>1 DEF NoCall, CallOf

\* A read() returns what it produced.
LEMMA Returned ==
    ASSUME NEW S, NEW produced \in Seq(S), audio \in Seq(S), NEW outcome, Return(produced, outcome)
    PROVE  /\ audio' \in Seq(S) /\ call' \in CallOf(S) /\ call' = NoCall
           /\ Len(call'.produced) < BufferSize /\ pump' = "loop"
           /\ audio' \o call'.produced = audio \o produced
  <1>1. call' = NoCall /\ pump' = "loop" /\ audio' = audio \o produced
    BY DEF Return
  <1>2. audio \o produced \in Seq(S)
    BY ConcatProperties
  <1>3. BufferSize \in Nat /\ BufferSize > 0
    BY SizesAssumption
  <1> DEFINE t == audio \o produced
  <1>4. t \in Seq(S) /\ audio' = t
    BY <1>1, <1>2
  <1> HIDE DEF t
  <1>5. audio' \o << >> = t
    BY <1>4, ConcatEmptySeq
  <1>6. call' \in CallOf(S) /\ call'.produced = << >> /\ Len(<< >>) = 0
    BY <1>1, NoCallIs
  <1> QED
    BY <1>1, <1>3, <1>4, <1>5, <1>6 DEF t

\* A piece that does not fill the buffer is kept for the next pull.
LEMMA Kept ==
    ASSUME NEW S, NEW produced \in Seq(S), audio \in Seq(S), Len(produced) <= BufferSize,
           IF Len(produced) = BufferSize
           THEN Return(produced, "Data")
           ELSE /\ pump' = "pull" /\ call' = [NoCall EXCEPT !.produced = produced]
                /\ UNCHANGED << result, audio >>
    PROVE  /\ audio' \in Seq(S) /\ call' \in CallOf(S) /\ pump' \in {"pull", "loop"}
           /\ Len(call'.produced) < BufferSize /\ (pump' # "pull" => call' = NoCall)
           /\ audio' \o call'.produced = audio \o produced
  <1>1. CASE Len(produced) = BufferSize
    BY <1>1, Returned
  <1>2. CASE Len(produced) # BufferSize
    <2>1. Len(produced) \in Nat /\ BufferSize \in Nat
      BY LenProperties, SizesAssumption
    <2>2. pump' = "pull" /\ call' = [NoCall EXCEPT !.produced = produced] /\ audio' = audio
      BY <1>2
    <2>3. call' = [produced |-> produced, part |-> "", want |-> 0]
      BY <2>2 DEF NoCall
    <2>4. call' \in CallOf(S) /\ call'.produced = produced
      BY <2>3 DEF CallOf
    <2> QED
      BY <1>2, <2>1, <2>2, <2>4
  <1> QED
    BY <1>1, <1>2

\* The three ways a part changes what is known of the interval.
LEMMA IcyBecomes ==
    ASSUME icy = [interval |-> icy.interval, countdown |-> icy.countdown,
                  bytesLeft |-> icy.bytesLeft, metaBuf |-> icy.metaBuf]
    PROVE  /\ \A x, y : [icy EXCEPT !.bytesLeft = x, !.metaBuf = y,
                                    !.countdown = IF x = 0 THEN icy.interval ELSE @] =
                    [interval |-> icy.interval,
                     countdown |-> IF x = 0 THEN icy.interval ELSE icy.countdown,
                     bytesLeft |-> x, metaBuf |-> y]
           /\ \A x, y : [icy EXCEPT !.bytesLeft = x, !.metaBuf = y, !.countdown = icy.interval] =
                    [interval |-> icy.interval, countdown |-> icy.interval,
                     bytesLeft |-> x, metaBuf |-> y]
           /\ \A x, y : [icy EXCEPT !.bytesLeft = @ - x, !.metaBuf = y] =
                    [interval |-> icy.interval, countdown |-> icy.countdown,
                     bytesLeft |-> icy.bytesLeft - x, metaBuf |-> y]
  <1> DEFINE i == icy.interval
             k == icy.countdown
             n == icy.bytesLeft
             buf == icy.metaBuf
  <1> HIDE DEF i, k, n, buf
  <1>0. icy = [interval |-> i, countdown |-> k, bytesLeft |-> n, metaBuf |-> buf]
        /\ i = icy.interval /\ k = icy.countdown /\ n = icy.bytesLeft
    BY DEF i, k, n, buf
  <1>1. ASSUME NEW x, NEW y
        PROVE  [icy EXCEPT !.bytesLeft = x, !.metaBuf = y,
                           !.countdown = IF x = 0 THEN icy.interval ELSE @] =
                    [interval |-> i, countdown |-> IF x = 0 THEN i ELSE k,
                     bytesLeft |-> x, metaBuf |-> y]
    <2> DEFINE f == [icy EXCEPT !.bytesLeft = x]
               g == [f EXCEPT !.metaBuf = y]
               h == [g EXCEPT !.countdown = IF x = 0 THEN icy.interval ELSE @]
    <2>1. f = [interval |-> i, countdown |-> k, bytesLeft |-> x, metaBuf |-> buf]
      BY <1>0
    <2>2. [icy EXCEPT !.bytesLeft = x, !.metaBuf = y,
                      !.countdown = IF x = 0 THEN icy.interval ELSE @] = h
      OBVIOUS
    <2> HIDE DEF f
    <2>3. g = [interval |-> i, countdown |-> k, bytesLeft |-> x, metaBuf |-> y]
      BY <2>1
    <2> HIDE DEF g
    <2>4. h = [interval |-> i, countdown |-> IF x = 0 THEN i ELSE k,
               bytesLeft |-> x, metaBuf |-> y]
      BY <1>0, <2>3
    <2> HIDE DEF h
    <2> QED
      BY <2>2, <2>4
  <1>2. ASSUME NEW x, NEW y
        PROVE  [icy EXCEPT !.bytesLeft = x, !.metaBuf = y, !.countdown = icy.interval] =
                    [interval |-> i, countdown |-> i, bytesLeft |-> x, metaBuf |-> y]
    <2> DEFINE f == [icy EXCEPT !.bytesLeft = x]
               g == [f EXCEPT !.metaBuf = y]
               h == [g EXCEPT !.countdown = icy.interval]
    <2>1. f = [interval |-> i, countdown |-> k, bytesLeft |-> x, metaBuf |-> buf]
      BY <1>0
    <2>2. [icy EXCEPT !.bytesLeft = x, !.metaBuf = y, !.countdown = icy.interval] = h
      OBVIOUS
    <2> HIDE DEF f
    <2>3. g = [interval |-> i, countdown |-> k, bytesLeft |-> x, metaBuf |-> y]
      BY <2>1
    <2> HIDE DEF g
    <2>4. h = [interval |-> i, countdown |-> i, bytesLeft |-> x, metaBuf |-> y]
      BY <1>0, <2>3
    <2> HIDE DEF h
    <2> QED
      BY <2>2, <2>4
  <1>3. ASSUME NEW x, NEW y
        PROVE  [icy EXCEPT !.bytesLeft = @ - x, !.metaBuf = y] =
                    [interval |-> i, countdown |-> k, bytesLeft |-> n - x, metaBuf |-> y]
    <2> DEFINE f == [icy EXCEPT !.bytesLeft = @ - x]
               g == [f EXCEPT !.metaBuf = y]
    <2>1. f = [interval |-> i, countdown |-> k, bytesLeft |-> n - x, metaBuf |-> buf]
      BY <1>0
    <2>2. [icy EXCEPT !.bytesLeft = @ - x, !.metaBuf = y] = g
      OBVIOUS
    <2> HIDE DEF f
    <2>3. g = [interval |-> i, countdown |-> k, bytesLeft |-> n - x, metaBuf |-> y]
      BY <2>1
    <2> QED
      BY <2>2, <2>3
  <1> QED
    BY <1>1, <1>2, <1>3 DEF i, k, n

\* A piece taken for the part it was asked for: the reader stands behind it,
\* with what is heard and told up to there.
LEMMA PieceTaken ==
    ASSUME NEW r \in Responses, NEW c \in Cursors(r), icy = IcyAt(r, c),
           audio \in Seq(Units(r)), call.produced \in Seq(Units(r)),
           Len(call.produced) < BufferSize,
           audio \o call.produced = Heard(r, c), blocks = Told(r, c),
           NEW p \in Seq(Units(r)), Len(p) \in 1 .. Want(call.produced),
           Linked(r, p), p[1] \in Ahead(r, c), Take(Part, p)
    PROVE  /\ audio' \in Seq(Units(r)) /\ call' \in CallOf(Units(r)) /\ pump' \in {"pull", "loop"}
           /\ Len(call'.produced) < BufferSize /\ (pump' # "pull" => call' = NoCall)
           /\ \E d \in Cursors(r) :
                /\ audio' \o call'.produced = Heard(r, d) /\ blocks' = Told(r, d)
                /\ icy' = IcyAt(r, d) /\ Follow(r, p[Len(p)]) = Ahead(r, d)
  <1> DEFINE S == Units(r)
             n == Len(p)
             old == call.produced
             produced == IF Part = "audio" THEN old \o p ELSE old
  <1>1. /\ IF Part = "meta" THEN TakeMeta(p)
           ELSE IF Part = "len" THEN TakeLength(p[1]) /\ UNCHANGED blocks
           ELSE /\ icy' = [icy EXCEPT !.countdown = IF @ = 0 THEN 0 ELSE @ - n]
                /\ UNCHANGED blocks
        /\ IF Len(produced) = BufferSize
           THEN Return(produced, "Data")
           ELSE /\ pump' = "pull" /\ call' = [NoCall EXCEPT !.produced = produced]
                /\ UNCHANGED << result, audio >>
    <2>1. Part \in {"meta", "len", "audio"}
      BY DEF Part
    <2> QED
      BY <2>1 DEF Take
  <1>2. Len(old) \in Nat /\ n \in Nat /\ n > 0 /\ n <= Want(old) /\ BufferSize \in Nat
    <2>1. Len(old) \in Nat /\ n \in Nat
      BY LenProperties
    <2>2. Want(old) \in Nat \ {0}
      BY <2>1, PartIs
    <2> QED
      BY <2>1, <2>2, SizesAssumption
  <1>3. /\ Want(old) \in Nat /\ icy.interval = r.metaint
        /\ \/ /\ Part = "meta" /\ c.kind = "meta"
              /\ Want(old) <= r.blocks[c.of] - c.at /\ c.at \in Nat /\ r.blocks[c.of] \in Nat
           \/ Part = "len" /\ c.kind = "audio" /\ r.metaint # 0 /\ c.at = r.metaint /\ Want(old) = 1
           \/ /\ Part = "audio" /\ c.kind = "audio" /\ Want(old) <= BufferSize - Len(old)
              /\ c.at \in Nat /\ (r.metaint # 0 => c.at + Want(old) <= r.metaint)
    <2>1. Want(old) \in Nat \ {0}
      BY <1>2, PartIs
    <2> QED
      BY <1>2, <2>1, PartIs
  <1>4. produced \in Seq(S) /\ Len(produced) <= BufferSize
    <2>1. CASE Part = "audio"
      <3>1. Want(old) <= BufferSize - Len(old)
        BY <1>3, <2>1
      <3>2. Len(old \o p) = Len(old) + n /\ old \o p \in Seq(S)
        BY ConcatProperties
      <3> HIDE DEF n, old, S
      <3>3. Len(old) + n <= BufferSize
        BY <1>2, <1>3, <3>1
      <3> QED
        BY <2>1, <3>2, <3>3
    <2>2. CASE Part # "audio"
      BY <1>2, <2>2
    <2> QED
      BY <2>1, <2>2
  <1> HIDE DEF produced
  <1>5. /\ audio' \in Seq(S) /\ call' \in CallOf(S) /\ pump' \in {"pull", "loop"}
        /\ Len(call'.produced) < BufferSize /\ (pump' # "pull" => call' = NoCall)
        /\ audio' \o call'.produced = audio \o produced
    <2>1. audio \in Seq(S)
      OBVIOUS
    <2> HIDE DEF S
    <2> QED
      BY <1>1, <1>4, <2>1, Kept
  <1> DEFINE OK(d) == /\ d \in Cursors(r)
                      /\ audio' \o call'.produced = Heard(r, d) /\ blocks' = Told(r, d)
                      /\ icy' = IcyAt(r, d) /\ Follow(r, p[n]) = Ahead(r, d)
  <1>6. \E d : OK(d)
    <2>1. CASE Part = "audio"
      <3> DEFINE d == Unit("audio", c.of, c.at + n)
      <3>1. r.metaint # 0 => c.at + n <= r.metaint
        <4>1. r.metaint \in Nat
          BY ResponseIs
        <4> QED
          BY <1>2, <1>3, <2>1, <4>1
      <3>2. /\ d \in Cursors(r) /\ Follow(r, p[n]) = Ahead(r, d)
            /\ Heard(r, d) = Heard(r, c) \o p /\ Told(r, d) = Told(r, c)
            /\ IcyAt(r, d) = [interval |-> r.metaint,
                              countdown |-> IF icy.countdown = 0 THEN 0 ELSE icy.countdown - n,
                              bytesLeft |-> 0, metaBuf |-> << >>]
        BY <1>2, <1>3, <2>1, <3>1, AudioPiece
      <3>3. icy' = [icy EXCEPT !.countdown = IF @ = 0 THEN 0 ELSE @ - n] /\ blocks' = blocks
        BY <1>1, <2>1
      <3>4. icy = [interval |-> r.metaint, countdown |-> icy.countdown,
                   bytesLeft |-> 0, metaBuf |-> << >>]
        BY <1>3, <2>1 DEF IcyAt
      <3>5. icy' = IcyAt(r, d)
        <4> DEFINE k == icy.countdown
                   g == IF k = 0 THEN 0 ELSE k - n
        <4>1. icy = [interval |-> r.metaint, countdown |-> k,
                     bytesLeft |-> 0, metaBuf |-> << >>]
          BY <3>4
        <4>2. icy' = [icy EXCEPT !.countdown = g]
          BY <3>3
        <4> HIDE DEF k, g, n
        <4>3. icy' = [interval |-> r.metaint, countdown |-> g,
                      bytesLeft |-> 0, metaBuf |-> << >>]
          BY <4>1, <4>2
        <4> QED
          BY <3>2, <4>3 DEF g, k
      <3>6. audio \o produced = Heard(r, d)
        <4>1. produced = old \o p
          BY <2>1 DEF produced
        <4>2. audio \o (old \o p) = (audio \o old) \o p
          <5>1. audio \in Seq(S) /\ old \in Seq(S) /\ p \in Seq(S)
            OBVIOUS
          <5> HIDE DEF S, old
          <5>2. Associates(audio, old, p)
            BY <5>1, Associated
          <5> QED
            BY <5>2, Zenon DEF Associates
        <4> QED
          BY <3>2, <4>1, <4>2
      <3> HIDE DEF d, n
      <3>7. OK(d)
        BY <1>5, <3>2, <3>3, <3>5, <3>6
      <3> HIDE DEF OK
      <3> QED
        BY <3>7
    <2>2. CASE Part = "len"
      <3> DEFINE u == p[1]
                 d == Behind(r, u)
      <3>1. n = 1
        <4>1. Want(old) = 1
          BY <1>3, <2>2
        <4> QED
          BY <1>2, <4>1
      <3>2. /\ c.kind = "audio" /\ r.metaint # 0 /\ c.at = r.metaint /\ u \in Ahead(r, c)
        BY <1>3, <2>2
      <3>3. /\ u.at \in Nat
            /\ d \in Cursors(r) /\ Follow(r, u) = Ahead(r, d)
            /\ Heard(r, d) = Heard(r, c) /\ Told(r, d) = Told(r, c)
            /\ IcyAt(r, d) = [interval |-> r.metaint,
                              countdown |-> IF u.at = 0 THEN r.metaint ELSE 0,
                              bytesLeft |-> u.at, metaBuf |-> << >>]
        BY <3>2, LengthUnit
      <3>4. /\ icy' = [icy EXCEPT !.bytesLeft = u.at, !.metaBuf = << >>,
                                  !.countdown = IF u.at = 0 THEN icy.interval ELSE @]
            /\ blocks' = blocks
        BY <1>1, <2>2 DEF TakeLength
      <3>5. icy = [interval |-> r.metaint, countdown |-> 0, bytesLeft |-> 0, metaBuf |-> << >>]
        <4>1. icy = [interval |-> r.metaint, countdown |-> r.metaint - c.at,
                     bytesLeft |-> 0, metaBuf |-> << >>]
          BY <3>2 DEF IcyAt
        <4>2. r.metaint - c.at = 0
          BY <3>2, ResponseIs
        <4> QED
          BY <4>1, <4>2
      <3>6. icy' = IcyAt(r, d)
        <4> HIDE DEF u, d
        <4>1. icy.interval = r.metaint
          BY <1>3
        <4> DEFINE x == u.at
                   g == [icy EXCEPT !.bytesLeft = x, !.metaBuf = << >>,
                                    !.countdown = IF x = 0 THEN icy.interval ELSE @]
        <4>2. icy' = g
          BY <3>4
        <4>3. g = [interval |-> r.metaint, countdown |-> IF x = 0 THEN r.metaint ELSE 0,
                   bytesLeft |-> x, metaBuf |-> << >>]
          <5> HIDE DEF x
          <5>1. /\ icy = [interval |-> icy.interval, countdown |-> icy.countdown,
                          bytesLeft |-> icy.bytesLeft, metaBuf |-> icy.metaBuf]
                /\ icy.interval = r.metaint /\ icy.countdown = 0
            BY <3>5
          <5>2. g = [interval |-> icy.interval,
                     countdown |-> IF x = 0 THEN icy.interval ELSE icy.countdown,
                     bytesLeft |-> x, metaBuf |-> << >>]
            BY <5>1, IcyBecomes
          <5> QED
            BY <5>1, <5>2
        <4> HIDE DEF g
        <4> QED
          BY <3>3, <4>2, <4>3
      <3>7. produced = old /\ p[n] = u
        BY <2>2, <3>1 DEF produced
      <3> HIDE DEF d, n, u
      <3>8. OK(d)
        BY <1>5, <3>3, <3>4, <3>6, <3>7
      <3> HIDE DEF OK
      <3> QED
        BY <3>8
    <2>3. CASE Part = "meta"
      <3> DEFINE k == r.blocks[c.of]
                 done == n = k - c.at
                 buf == Run("meta", c.of, c.at) \o p
                 d == IF done THEN RoundAfter(r, c.of) ELSE Unit("meta", c.of, c.at + n)
      <3>1. c.at + n <= k /\ c.kind = "meta"
        <4>1. Want(old) <= k - c.at /\ c.at \in Nat /\ k \in Nat /\ c.kind = "meta"
          BY <1>3, <2>3
        <4> HIDE DEF k, n, old
        <4> QED
          BY <1>2, <1>3, <4>1
      <3>2. /\ d \in Cursors(r) /\ Follow(r, p[n]) = Ahead(r, d)
            /\ Heard(r, d) = Heard(r, c)
            /\ Told(r, d) = IF done THEN Append(Told(r, c), buf) ELSE Told(r, c)
            /\ IcyAt(r, d) =
                 IF done
                 THEN [interval |-> r.metaint, countdown |-> r.metaint,
                       bytesLeft |-> 0, metaBuf |-> << >>]
                 ELSE [interval |-> r.metaint, countdown |-> 0,
                       bytesLeft |-> (k - c.at) - n, metaBuf |-> buf]
        BY <1>2, <3>1, MetaPiece
      <3>3. icy = [interval |-> r.metaint, countdown |-> 0, bytesLeft |-> k - c.at,
                   metaBuf |-> Run("meta", c.of, c.at)]
        BY <3>1 DEF IcyAt
      <3>4. icy.bytesLeft = k - c.at /\ icy.metaBuf = Run("meta", c.of, c.at) /\ icy.interval = r.metaint
        BY <3>3
      <3>5. /\ icy' = IF done
                      THEN [icy EXCEPT !.bytesLeft = 0, !.metaBuf = << >>, !.countdown = icy.interval]
                      ELSE [icy EXCEPT !.bytesLeft = @ - n, !.metaBuf = buf]
            /\ blocks' = IF done THEN Append(blocks, buf) ELSE blocks
        BY <1>1, <2>3, <3>4 DEF TakeMeta
      <3> HIDE DEF d, k, n
      <3>6. icy' = IcyAt(r, d)
        <4> DEFINE x == k - c.at
                   a == Run("meta", c.of, c.at)
        <4>1. icy = [interval |-> r.metaint, countdown |-> 0, bytesLeft |-> x, metaBuf |-> a]
          BY <3>3
        <4> HIDE DEF x, a, buf, done
        <4>4. /\ icy = [interval |-> icy.interval, countdown |-> icy.countdown,
                        bytesLeft |-> icy.bytesLeft, metaBuf |-> icy.metaBuf]
              /\ icy.interval = r.metaint /\ icy.countdown = 0 /\ icy.bytesLeft = x
          BY <4>1
        <4>2. CASE done
          <5>1. icy' = [icy EXCEPT !.bytesLeft = 0, !.metaBuf = << >>, !.countdown = icy.interval]
            BY <3>5, <4>2
          <5>2. icy' = [interval |-> r.metaint, countdown |-> r.metaint,
                        bytesLeft |-> 0, metaBuf |-> << >>]
            <6>1. [icy EXCEPT !.bytesLeft = 0, !.metaBuf = << >>, !.countdown = icy.interval] =
                    [interval |-> icy.interval, countdown |-> icy.interval,
                     bytesLeft |-> 0, metaBuf |-> << >>]
              BY <4>4, IcyBecomes
            <6> QED
              BY <4>4, <5>1, <6>1
          <5> QED
            BY <3>2, <4>2, <5>2
        <4>3. CASE ~ done
          <5>1. icy' = [icy EXCEPT !.bytesLeft = @ - n, !.metaBuf = buf]
            BY <3>5, <4>3
          <5>2. icy' = [interval |-> r.metaint, countdown |-> 0,
                        bytesLeft |-> x - n, metaBuf |-> buf]
            <6>1. [icy EXCEPT !.bytesLeft = @ - n, !.metaBuf = buf] =
                    [interval |-> icy.interval, countdown |-> icy.countdown,
                     bytesLeft |-> icy.bytesLeft - n, metaBuf |-> buf]
              BY <4>4, IcyBecomes
            <6> QED
              BY <4>4, <5>1, <6>1
          <5> QED
            BY <3>2, <4>3, <5>2 DEF x
        <4> QED
          BY <4>2, <4>3
      <3>7. produced = old
        BY <2>3 DEF produced
      <3> HIDE DEF done, buf
      <3>8. blocks' = Told(r, d)
        BY <3>2, <3>5
      <3>9. OK(d)
        BY <1>5, <3>2, <3>6, <3>7, <3>8
      <3> HIDE DEF OK
      <3> QED
        BY <3>9
    <2> QED
      BY <1>3, <2>1, <2>2, <2>3
  <1> QED
    BY <1>5, <1>6

-----------------------------------------------------------------------------
(* The steps.                                                               *)

\* A step that moves the reader nowhere, and keeps what is under way.
LEMMA OrderStays ==
    ASSUME InOrder, response' = response, blocks' = blocks,
           audio' \o call'.produced = audio \o call.produced,
           HeaderPhase' => Ordered(response, header' \o (wire' \o toSend')),
           Live' => /\ Live /\ icy' = icy
                    /\ Ordered(response, leftover \o (wire \o toSend))
                            => Ordered(response, leftover' \o (wire' \o toSend'))
                    /\ \A first : StartsIn(first, leftover \o (wire \o toSend))
                            => StartsIn(first, leftover' \o (wire' \o toSend'))
    PROVE  InOrder'
  <1>1. PICK c \in Cursors(response) :
            /\ audio \o call.produced = Heard(response, c) /\ blocks = Told(response, c)
            /\ Live => /\ icy = IcyAt(response, c)
                       /\ Ordered(response, leftover \o (wire \o toSend))
                       /\ StartsIn(Ahead(response, c), leftover \o (wire \o toSend))
    BY DEF InOrder
  <1>2. /\ audio' \o call'.produced = Heard(response', c) /\ blocks' = Told(response', c)
        /\ Live' => /\ icy' = IcyAt(response', c)
                    /\ Ordered(response', leftover' \o (wire' \o toSend'))
                    /\ StartsIn(Ahead(response', c), leftover' \o (wire' \o toSend'))
    BY <1>1
  <1>3. c \in Cursors(response')
    OBVIOUS
  <1>4. HeaderPhase' => Ordered(response', header' \o (wire' \o toSend'))
    OBVIOUS
  <1> QED
    BY <1>2, <1>3, <1>4 DEF InOrder

\* A step that leaves what is under way alone.
LEMMA OrderKept ==
    ASSUME InOrder, response' = response, blocks' = blocks, audio' = audio, call' = call,
           wire' = wire, toSend' = toSend,
           HeaderPhase' => HeaderPhase /\ header' = header,
           Live' => Live /\ icy' = icy /\ leftover' = leftover
    PROVE  InOrder'
  <1>1. HeaderPhase' => Ordered(response, header' \o (wire' \o toSend'))
    BY DEF InOrder
  <1>2. Live' => /\ Live /\ icy' = icy
                 /\ Ordered(response, leftover \o (wire \o toSend))
                         => Ordered(response, leftover' \o (wire' \o toSend'))
                 /\ \A first : StartsIn(first, leftover \o (wire \o toSend))
                         => StartsIn(first, leftover' \o (wire' \o toSend'))
    OBVIOUS
  <1>3. audio' \o call'.produced = audio \o call.produced
    OBVIOUS
  <1> QED
    BY <1>1, <1>2, <1>3, OrderStays

\* The types of the reader's interval follow from where it stands.
IcyTyped == icy.bytesLeft \in Nat /\ icy.countdown \in 0 .. icy.interval

LEMMA IcyAtIsTyped ==
    ASSUME NEW r \in Responses, NEW c \in Cursors(r)
    PROVE  IcyAt(r, c).bytesLeft \in Nat /\ IcyAt(r, c).countdown \in 0 .. IcyAt(r, c).interval
  <1> DEFINE k == r.blocks[c.of]
             i == IcyAt(r, c)
  <1>1. /\ r.metaint \in Nat /\ r.tail \in Nat /\ (r.metaint # 0 => r.tail <= r.metaint)
        /\ Rounds(r) \in Nat /\ \A b \in 1 .. Rounds(r) : r.blocks[b] \in Nat
    BY ResponseIs
  <1>2. /\ c.at \in Nat
        /\ \/ c.kind = "audio" /\ c.of \in 0 .. Rounds(r) /\ c.at \in 0 .. Interval(r, c.of)
           \/ c.kind = "meta" /\ c.of \in 1 .. Rounds(r) /\ c.at \in 0 .. k - 1
    BY CursorIs
  <1>3. CASE c.kind = "meta"
    <2>1. k \in Nat /\ c.at \in 0 .. k - 1
      BY <1>1, <1>2, <1>3
    <2>2. i.bytesLeft = k - c.at /\ i.countdown = 0 /\ i.interval = r.metaint
      BY <1>3 DEF IcyAt
    <2> HIDE DEF k, i
    <2>3. i.bytesLeft \in Nat /\ i.countdown \in 0 .. i.interval
      BY <1>1, <1>2, <2>1, <2>2
    <2> QED
      BY <2>3 DEF i
  <1>4. CASE c.kind # "meta"
    <2>1. /\ i.bytesLeft = 0 /\ i.interval = r.metaint
          /\ i.countdown = IF r.metaint = 0 THEN 0 ELSE r.metaint - c.at
      BY <1>4 DEF IcyAt
    <2>2. r.metaint # 0 => c.at <= r.metaint
      BY <1>1, <1>2, <1>4 DEF Interval
    <2> HIDE DEF k, i
    <2>3. i.bytesLeft \in Nat /\ i.countdown \in 0 .. i.interval
      BY <1>1, <1>2, <2>1, <2>2
    <2> QED
      BY <2>3 DEF i
  <1> QED
    BY <1>3, <1>4

\* What the server sends on stays in order.
LEMMA SentOn ==
    ASSUME NEW S, NEW w \in Seq(S), NEW t \in Seq(S), t # << >>
    PROVE  /\ Append(w, Head(t)) \o Tail(t) = w \o t /\ Tail(t) \in Seq(S) /\ Head(t) \in S
           /\ Append(w, Head(t)) \in Seq(S) /\ Len(Append(w, Head(t))) = Len(w) + 1
  <1> DEFINE h == Head(t)
             l == Tail(t)
  <1>1. h \in S /\ l \in Seq(S)
    BY HeadTailProperties
  <1>2. t = << h >> \o l
    <2>1. 1 \in 1 .. Len(t) /\ Len(t) \in 1 .. Len(t)
      BY EmptySeq
    <2>2. SubSeq(t, 1, Len(t)) = << t[1] >> \o SubSeq(t, 1 + 1, Len(t))
      BY <2>1, SubSeqRecursiveFirst
    <2>3. SubSeq(t, 1, Len(t)) = t /\ Tail(t) = SubSeq(t, 2, Len(t)) /\ 1 + 1 = 2
      BY SubSeqFull, TailIsSubSeq
    <2>4. Head(t) = t[1]
      BY DEF Head
    <2> QED
      BY <2>2, <2>3, <2>4
  <1> HIDE DEF h, l
  <1>3. Append(w, h) = w \o << h >> /\ Append(w, h) \in Seq(S) /\ Len(Append(w, h)) = Len(w) + 1
    BY <1>1, AppendIsConcat, AppendProperties
  <1> DEFINE e == << h >>
  <1>4. e \in Seq(S)
    BY <1>1
  <1> HIDE DEF e
  <1>5. (w \o e) \o l = w \o (e \o l)
    <2>1. Associates(w, e, l)
      BY <1>1, <1>4, Associated
    <2> QED
      BY <2>1, Zenon DEF Associates
  <1> QED
    BY <1>1, <1>2, <1>3, <1>5 DEF h, l, e

LEMMA TicketSent ==
    ASSUME NEW S, Ticket \in S, NEW s \in Seq(S), NEW w \in Seq(S), NEW t \in Seq(S),
           NEW r, NEW first
    PROVE  /\ Ordered(r, s \o (Append(w, Ticket) \o t)) <=> Ordered(r, s \o (w \o t))
           /\ StartsIn(first, s \o (Append(w, Ticket) \o t)) <=> StartsIn(first, s \o (w \o t))
           /\ Append(w, Ticket) \in Seq(S) /\ Len(Append(w, Ticket)) = Len(w) + 1
  <1> DEFINE q == << Ticket >>
             x == s \o w
             u == q \o t
  <1>1. q \in Seq(S) /\ \A i \in 1 .. Len(q) : q[i] = Ticket
    <2> HIDE DEF Ticket
    <2> QED
      OBVIOUS
  <1>2. Append(w, Ticket) = w \o q /\ Append(w, Ticket) \in Seq(S) /\ Len(Append(w, Ticket)) = Len(w) + 1
    BY AppendIsConcat, AppendProperties
  <1> HIDE DEF q
  <1>3. (w \o q) \o t = w \o u
    BY <1>1, ConcatAssociative
  <1>4. u \in Seq(S) /\ x \in Seq(S)
    BY <1>1, ConcatProperties
  <1>5. x \o t = s \o (w \o t)
    BY ConcatAssociative
  <1> HIDE DEF u
  <1>6. x \o u = s \o (w \o u)
    BY <1>4, ConcatAssociative
  <1>7. /\ Ordered(r, x \o (q \o t)) <=> Ordered(r, x \o t)
        /\ StartsIn(first, x \o (q \o t)) <=> StartsIn(first, x \o t)
    <2> HIDE DEF x
    <2> QED
      BY <1>1, <1>4, TicketsAside
  <1> HIDE DEF x
  <1> QED
    BY <1>2, <1>3, <1>5, <1>6, <1>7 DEF u

\* Only what has changed of the other parts is to be looked at.
LEMMA TypesKept ==
    ASSUME Types, response' = response, tls' = tls, UNCHANGED << audio, call >>,
           UNCHANGED << wire, toSend, tickets >>,
           header' = header \/ header' = << >>, leftover' = leftover \/ leftover' = << >>
    PROVE  Types'
  <1>1. << >> \in Seq(Units(response))
    BY EmptySeq
  <1> QED
    BY <1>1 DEF Types

LEMMA AskedKept ==
    ASSUME Asked, UNCHANGED << call, icy >>,
           pump' = "recv" /\ published' => pump = "recv" /\ published
    PROVE  Asked'
  <1>1. Part' = Part
    BY DEF Part
  <1>2. Want(call.produced)' = Want(call.produced)
    BY <1>1 DEF Want
  <1> QED
    BY <1>1, <1>2 DEF Asked

LEMMA SendKeeps ==
    ASSUME IInv, Send
    PROVE  IInv'
  <1> DEFINE S == OnWire(response)
  <1>1. TypeOK /\ Types /\ Phases /\ InOrder /\ Asked
    BY DEF IInv
  <1>2. /\ toSend # << >> /\ Len(wire) < WireSize
        /\ wire' = Append(wire, Head(toSend)) /\ toSend' = Tail(toSend)
        /\ UNCHANGED << response, tls, tickets, reader, threads, pumping >>
    BY DEF Send
  <1>3. /\ fd' = fd /\ published' = published /\ header' = header /\ leftover' = leftover
        /\ icy' = icy /\ opener' = opener /\ stopper' = stopper /\ handle' = handle /\ stop' = stop
        /\ pump' = pump /\ call' = call /\ result' = result /\ audio' = audio /\ blocks' = blocks
        /\ response' = response /\ tls' = tls /\ tickets' = tickets
    BY <1>2 DEF reader, threads, pumping
  <1>4. /\ wire \in Seq(S) /\ toSend \in Seq(Units(response)) /\ toSend \in Seq(S)
        /\ ~tls => wire \in Seq(Units(response))
    BY <1>1, OnWireIs DEF Types
  <1>5. /\ wire' \o toSend' = wire \o toSend
        /\ wire' \in Seq(S) /\ Len(wire') = Len(wire) + 1
    <2> HIDE DEF S
    <2> QED
      BY <1>2, <1>4, SentOn
  <1>6. toSend' \in Seq(Units(response)) /\ (~tls => wire' \in Seq(Units(response)))
    BY <1>2, <1>4, SentOn
  <1>7. Len(wire) \in Nat /\ Len(wire') \in Nat /\ WireSize \in Nat /\ MaxTickets \in Nat
    BY <1>4, <1>5, LenProperties, SizesAssumption
  <1>8. Types'
    <2>1. tickets \in Nat /\ Len(wire') <= WireSize + tickets
      BY <1>1, <1>2, <1>5, <1>7 DEF Types
    <2> HIDE DEF S
    <2> QED
      BY <1>1, <1>3, <1>5, <1>6, <2>1 DEF Types, S
  <1>9. TypeOK'
    <2>1. Len(wire') <= WireSize + MaxTickets
      BY <1>2, <1>5, <1>7
    <2>2. peer' = peer
      BY DEF Send
    <2> QED
      BY <1>1, <1>3, <2>1, <2>2 DEF TypeOK
  <1>10. Phases'
    BY <1>1, <1>3 DEF Phases, Live
  <1>11. InOrder'
    <2>1. HeaderPhase' => Ordered(response, header' \o (wire' \o toSend'))
      BY <1>1, <1>3, <1>5 DEF InOrder, HeaderPhase
    <2>2. Live' = Live
      BY <1>3 DEF Live
    <2> QED
      BY <1>1, <1>3, <1>5, <2>1, <2>2, OrderStays
  <1>12. Asked'
    BY <1>1, <1>3, AskedKept
  <1> QED
    BY <1>8, <1>9, <1>10, <1>11, <1>12 DEF IInv

LEMMA SendTicketKeeps ==
    ASSUME IInv, SendTicket
    PROVE  IInv'
  <1> DEFINE S == OnWire(response)
  <1>1. TypeOK /\ Types /\ Phases /\ InOrder /\ Asked
    BY DEF IInv
  <1>2. /\ tls /\ tickets < MaxTickets
        /\ wire' = Append(wire, Ticket) /\ tickets' = tickets + 1
        /\ UNCHANGED << response, tls, toSend, peer, reader, threads, pumping >>
    BY DEF SendTicket, Ticket
  <1>3. /\ fd' = fd /\ published' = published /\ header' = header /\ leftover' = leftover
        /\ icy' = icy /\ opener' = opener /\ stopper' = stopper /\ handle' = handle /\ stop' = stop
        /\ pump' = pump /\ call' = call /\ result' = result /\ audio' = audio /\ blocks' = blocks
        /\ response' = response /\ tls' = tls /\ toSend' = toSend /\ peer' = peer
    BY <1>2 DEF reader, threads, pumping
  <1>4. /\ wire \in Seq(S) /\ toSend \in Seq(S) /\ header \in Seq(S) /\ leftover \in Seq(S)
        /\ Ticket \in S
    BY <1>1, OnWireIs DEF Types
  <1>5. /\ wire' \in Seq(S) /\ Len(wire') = Len(wire) + 1
        /\ \A s \in {header, leftover} :
              Ordered(response, s \o (wire' \o toSend)) <=> Ordered(response, s \o (wire \o toSend))
        /\ \A first : StartsIn(first, leftover \o (wire' \o toSend))
                        <=> StartsIn(first, leftover \o (wire \o toSend))
    <2> HIDE DEF S
    <2>1. \A s \in {header, leftover} : s \in Seq(S)
      BY <1>4
    <2>2. \A s \in {header, leftover} :
              Ordered(response, s \o (wire' \o toSend)) <=> Ordered(response, s \o (wire \o toSend))
      BY <1>2, <1>4, <2>1, TicketSent
    <2>3. \A first : StartsIn(first, leftover \o (wire' \o toSend))
                        <=> StartsIn(first, leftover \o (wire \o toSend))
      BY <1>2, <1>4, TicketSent
    <2>4. wire' \in Seq(S) /\ Len(wire') = Len(wire) + 1
      BY <1>2, <1>4, AppendProperties
    <2> QED
      BY <2>2, <2>3, <2>4
  <1>7. Len(wire) \in Nat /\ Len(wire') \in Nat /\ WireSize \in Nat /\ MaxTickets \in Nat
    BY <1>4, <1>5, LenProperties, SizesAssumption
  <1>8. Types'
    <2>1. tickets' \in Nat /\ tickets' <= MaxTickets /\ Len(wire') <= WireSize + tickets'
      BY <1>1, <1>2, <1>5, <1>7 DEF Types
    <2> HIDE DEF S
    <2> QED
      BY <1>1, <1>2, <1>3, <1>5, <2>1 DEF Types, S
  <1>9. TypeOK'
    <2>1. Len(wire') <= WireSize + MaxTickets
      BY <1>7, <1>8 DEF Types
    <2> QED
      BY <1>1, <1>3, <2>1 DEF TypeOK
  <1>10. Phases'
    BY <1>1, <1>3 DEF Phases, Live
  <1>11. InOrder'
    <2>1. HeaderPhase' => Ordered(response, header' \o (wire' \o toSend'))
      BY <1>1, <1>3, <1>5 DEF InOrder, HeaderPhase
    <2>2. Live' = Live
      BY <1>3 DEF Live
    <2> QED
      BY <1>1, <1>3, <1>5, <2>1, <2>2, OrderStays
  <1>12. Asked'
    BY <1>1, <1>3, AskedKept
  <1> QED
    BY <1>8, <1>9, <1>10, <1>11, <1>12 DEF IInv

LEMMA EndConnectionKeeps ==
    ASSUME IInv, NEW how \in {"fin", "rst"}, EndConnection(how)
    PROVE  IInv'
  <1>1. TypeOK /\ Types /\ Phases /\ InOrder /\ Asked
    BY DEF IInv
  <1>2. /\ peer' = how
        /\ UNCHANGED << response, tls, toSend, wire, tickets, reader, threads, pumping >>
    BY DEF EndConnection
  <1>3. /\ fd' = fd /\ published' = published /\ header' = header /\ leftover' = leftover
        /\ icy' = icy /\ opener' = opener /\ stopper' = stopper /\ handle' = handle /\ stop' = stop
        /\ pump' = pump /\ call' = call /\ result' = result /\ audio' = audio /\ blocks' = blocks
        /\ response' = response /\ tls' = tls /\ toSend' = toSend /\ wire' = wire
        /\ tickets' = tickets
    BY <1>2 DEF reader, threads, pumping
  <1>4. TypeOK'
    BY <1>1, <1>2, <1>3 DEF TypeOK
  <1>5. Types'
    BY <1>1, <1>3, TypesKept
  <1>6. Phases'
    BY <1>1, <1>3 DEF Phases, Live
  <1>7. InOrder'
    BY <1>1, <1>3, OrderKept DEF HeaderPhase, Live
  <1>8. Asked'
    BY <1>1, <1>3, AskedKept
  <1> QED
    BY <1>4, <1>5, <1>6, <1>7, <1>8 DEF IInv

Openers == {"open", "connect", "handshake", "send", "header", "attach", "free", "failed"}
Pumps == {"none", "start", "loop", "pull", "recv", "close", "over"}
Stoppers == {"away", "interrupt", "join", "close", "done"}

\* A reset: nothing of the answer is with the reader any more.
LEMMA ResetKeeps ==
    ASSUME IInv, Reset, UNCHANGED << server, call, audio, blocks, handle, stop >>,
           opener' \in {"open", "connect", "attach", "free", "failed"}, stopper' \in Stoppers,
           opener' \in {"open", "connect"} => HeaderPhase /\ header = << >>,
           opener' # "free" => pump = "none",
           pump' = pump \/ (pump = "close" /\ pump' = "over")
    PROVE  IInv'
  <1>1. TypeOK /\ Types /\ Phases /\ InOrder /\ Asked
    BY DEF IInv
  <1>2. /\ response' = response /\ tls' = tls /\ toSend' = toSend /\ wire' = wire
        /\ tickets' = tickets /\ peer' = peer
        /\ call' = call /\ audio' = audio /\ blocks' = blocks /\ handle' = handle /\ stop' = stop
    BY DEF server
  <1>3. /\ fd' = (IF published THEN "closed" ELSE fd) /\ published' = FALSE
        /\ header' = << >> /\ leftover' = << >> /\ icy' = NoIcy
    BY DEF Reset
  <1>4. ~Live'
    BY <1>3 DEF Live
  <1>5. HeaderPhase' => HeaderPhase /\ header' = header
    BY <1>3 DEF HeaderPhase
  <1>6. Types'
    BY <1>1, <1>2, <1>3, TypesKept
  <1>7. InOrder'
    BY <1>1, <1>2, <1>4, <1>5, OrderKept
  <1>8. TypeOK'
    <2>1. icy.bytesLeft' \in Nat /\ (icy.countdown \in 0 .. icy.interval)'
      BY <1>3 DEF NoIcy
    <2>2. fd' \in {"none", "up", "shut", "closed"} /\ (published' => fd' \in {"up", "shut"})
      BY <1>1, <1>3 DEF TypeOK
    <2>3. opener' \in Openers /\ pump' \in Pumps
      BY <1>1 DEF TypeOK, Openers, Pumps
    <2> QED
      BY <1>1, <1>2, <2>1, <2>2, <2>3 DEF TypeOK, Openers, Pumps, Stoppers
  <1>9. Phases'
    <2>1. pump' = "recv" => leftover' = << >> /\ (published' \/ fd' = "closed")
      BY <1>1, <1>3 DEF Phases
    <2>2. /\ opener' # "free" => pump' = "none"
          /\ pump' = "none" => audio' = << >> /\ blocks' = << >>
          /\ pump' \notin {"pull", "recv"} => call' = NoCall
      BY <1>1, <1>2 DEF Phases
    <2> QED
      BY <1>3, <2>1, <2>2 DEF Phases
  <1>10. Asked'
    BY <1>3 DEF Asked
  <1> QED
    BY <1>6, <1>7, <1>8, <1>9, <1>10 DEF IInv

\* GiveUp from anywhere before the pump starts.
LEMMA GiveUpKeeps ==
    ASSUME IInv, GiveUp, opener # "free"
    PROVE  IInv'
  <1>1. pump = "none" /\ stopper \in Stoppers
    BY DEF IInv, TypeOK, Phases, Stoppers
  <1>2. /\ Reset /\ opener' = "failed" /\ stopper' = stopper /\ pump' = pump
        /\ UNCHANGED << server, call, audio, blocks, handle, stop >>
    BY DEF GiveUp, pumping
  <1> QED
    BY <1>1, <1>2, ResetKeeps

LEMMA OpenKeeps ==
    ASSUME IInv, Open
    PROVE  IInv'
  <1>1. opener = "open" /\ pump = "none" /\ header = << >> /\ HeaderPhase /\ stopper \in Stoppers
    BY DEF IInv, TypeOK, Phases, Open, HeaderPhase, Stoppers
  <1>2. /\ Reset /\ opener' = "connect" /\ stopper' = stopper /\ pump' = pump
        /\ UNCHANGED << server, call, audio, blocks, handle, stop >>
    BY DEF Open, pumping
  <1> QED
    BY <1>1, <1>2, ResetKeeps

LEMMA PumpCloseKeeps ==
    ASSUME IInv, PumpClose
    PROVE  IInv'
  <1>1. opener = "free" /\ pump = "close" /\ stopper \in Stoppers
    BY DEF IInv, TypeOK, Phases, PumpClose, Stoppers
  <1>2. /\ Reset /\ opener' = opener /\ stopper' = stopper /\ pump' = "over"
        /\ UNCHANGED << server, call, audio, blocks, handle, stop >>
    BY DEF PumpClose, threads
  <1> QED
    BY <1>1, <1>2, ResetKeeps

LEMMA CloseKeeps ==
    ASSUME IInv, Close
    PROVE  IInv'
  <1>1. /\ opener \in {"open", "attach", "free", "failed"}
        /\ opener = "open" => HeaderPhase /\ header = << >>
        /\ opener # "free" => pump = "none"
    BY DEF IInv, TypeOK, Phases, Close, Opening, HeaderPhase
  <1>2. /\ Reset /\ opener' = opener /\ stopper' = "done" /\ pump' = pump
        /\ UNCHANGED << server, call, audio, blocks, handle, stop >>
    BY DEF Close, pumping
  <1>3. stopper' \in Stoppers
    BY <1>2 DEF Stoppers
  <1> QED
    BY <1>1, <1>2, <1>3, ResetKeeps

\* The steps that build the connection: nothing is read yet.
LEMMA ConnectKeeps ==
    ASSUME IInv, UNCHANGED << server, header, leftover, icy, stopper, handle, stop, pumping >>,
           opener \in {"connect", "handshake", "send"},
           opener' \in {"handshake", "send", "header", "failed"}, fd' \in {"up", "closed"},
           published' => fd' = "up",
           opener' = "handshake" => ~published' /\ fd' = "up",
           opener' \in {"send", "header"} => published'
    PROVE  IInv'
  <1>1. TypeOK /\ Types /\ Phases /\ InOrder /\ Asked
    BY DEF IInv
  <1>2. /\ response' = response /\ tls' = tls /\ toSend' = toSend /\ wire' = wire
        /\ tickets' = tickets /\ peer' = peer /\ header' = header /\ leftover' = leftover
        /\ icy' = icy /\ stopper' = stopper /\ handle' = handle /\ stop' = stop
        /\ pump' = pump /\ call' = call /\ result' = result /\ audio' = audio /\ blocks' = blocks
    BY DEF server, pumping
  <1>3. /\ ~Live /\ ~Live' /\ pump = "none" /\ HeaderPhase /\ header = << >>
        /\ leftover = << >> /\ icy = NoIcy
    BY <1>1 DEF Phases, Live, HeaderPhase
  <1>4. Types'
    BY <1>1, <1>2, TypesKept
  <1>5. InOrder'
    BY <1>1, <1>2, <1>3, OrderKept
  <1>6. TypeOK'
    <2>1. fd' \in {"none", "up", "shut", "closed"} /\ (published' => fd' \in {"up", "shut"})
      OBVIOUS
    <2>2. opener' \in Openers
      BY DEF Openers
    <2> QED
      BY <1>1, <1>2, <2>1, <2>2 DEF TypeOK, Openers
  <1>7. Phases'
    <2>1. /\ opener' # "free" => pump' = "none"
          /\ pump' = "none" => audio' = << >> /\ blocks' = << >>
          /\ pump' \notin {"pull", "recv"} => call' = NoCall
      BY <1>1, <1>2, <1>3 DEF Phases
    <2>2. header' = << >> /\ pump' # "recv" /\ leftover' = << >> /\ icy' = NoIcy
      BY <1>2, <1>3
    <2>3. /\ opener' \in {"open", "connect", "handshake"} => ~published'
          /\ opener' \in {"send", "header"} => published'
          /\ opener' = "handshake" => fd' = "up"
      OBVIOUS
    <2> QED
      BY <2>1, <2>2, <2>3 DEF Phases
  <1>8. Asked'
    BY <1>2, <1>3 DEF Asked
  <1> QED
    BY <1>4, <1>5, <1>6, <1>7, <1>8 DEF IInv

LEMMA ConnectTcpKeeps ==
    ASSUME IInv, NEW ok \in BOOLEAN, ConnectTcp(ok)
    PROVE  IInv'
  <1>1. /\ opener = "connect" /\ tls \in BOOLEAN
        /\ UNCHANGED << server, header, leftover, icy, stopper, handle, stop, pumping >>
    BY DEF IInv, TypeOK, ConnectTcp
  <1>2. /\ opener' = (IF ~ok THEN "failed" ELSE IF tls THEN "handshake" ELSE "send")
        /\ fd' = (IF ok THEN "up" ELSE "closed") /\ (published' <=> (ok /\ ~tls))
       
    BY Zenon DEF ConnectTcp
  <1>3. /\ opener' \in {"handshake", "send", "header", "failed"} /\ fd' \in {"up", "closed"}
        /\ published' => fd' = "up"
        /\ opener' = "handshake" => ~published' /\ fd' = "up"
        /\ opener' \in {"send", "header"} => published'
    BY <1>2
  <1> QED
    BY <1>1, <1>3, ConnectKeeps

LEMMA HandshakeKeeps ==
    ASSUME IInv, NEW ok \in BOOLEAN, Handshake(ok)
    PROVE  IInv'
  <1>1. /\ opener = "handshake" /\ fd = "up"
        /\ UNCHANGED << server, header, leftover, icy, stopper, handle, stop, pumping >>
    BY DEF IInv, Phases, Handshake
  <1>2. /\ opener' = (IF ok THEN "send" ELSE "failed")
        /\ fd' = (IF ok THEN fd ELSE "closed") /\ (published' <=> ok)
    BY Zenon DEF Handshake
  <1>3. /\ opener' \in {"handshake", "send", "header", "failed"} /\ fd' \in {"up", "closed"}
        /\ published' => fd' = "up"
        /\ opener' = "handshake" => ~published' /\ fd' = "up"
        /\ opener' \in {"send", "header"} => published'
    BY <1>1, <1>2
  <1> QED
    BY <1>1, <1>3, ConnectKeeps

LEMMA SendRequestKeeps ==
    ASSUME IInv, SendRequest
    PROVE  IInv'
  <1>1. opener = "send" /\ published
    BY DEF IInv, Phases, SendRequest
  <1>2. CASE GiveUp
    BY <1>1, <1>2, GiveUpKeeps
  <1>3. CASE /\ fd = "up" /\ opener' = "header"
             /\ UNCHANGED << server, reader, stopper, handle, stop, pumping >>
    <2>1. /\ fd' = "up" /\ published' = published
          /\ UNCHANGED << server, header, leftover, icy, stopper, handle, stop, pumping >>
      BY <1>3 DEF reader
    <2> QED
      BY <1>1, <1>3, <2>1, ConnectKeeps
  <1> QED
    BY <1>2, <1>3 DEF SendRequest

\* What is read moves to the end of what the reader has, tickets apart.
LEMMA MovedOn ==
    ASSUME NEW S, NEW r, NEW s \in Seq(S), NEW q \in Seq(S), NEW p \in Seq(S), NEW v \in Seq(S),
           NEW u \in Seq(S), \A i \in 1 .. Len(q) : q[i] = Ticket
    PROVE  /\ s \o p \in Seq(S) /\ v \o u \in Seq(S)
           /\ Ordered(r, s \o ((q \o (p \o v)) \o u)) <=> Ordered(r, (s \o p) \o (v \o u))
           /\ \A first : StartsIn(first, s \o ((q \o (p \o v)) \o u))
                <=> StartsIn(first, (s \o p) \o (v \o u))
  <1> DEFINE pv == p \o v
             t == v \o u
  <1>1. pv \in Seq(S) /\ t \in Seq(S) /\ s \o p \in Seq(S)
    BY ConcatProperties
  <1>2. pv \o u = p \o t
    <2>1. Associates(p, v, u)
      BY Associated
    <2> QED
      BY <2>1, Zenon DEF Associates
  <1> HIDE DEF pv, t
  <1>3. (s \o p) \o t = s \o (p \o t)
    <2>1. Associates(s, p, t)
      BY <1>1, Associated
    <2> QED
      BY <2>1, Zenon DEF Associates
  <1>4. \A first : /\ Ordered(r, s \o ((q \o pv) \o u)) <=> Ordered(r, s \o (pv \o u))
                   /\ StartsIn(first, s \o ((q \o pv) \o u)) <=> StartsIn(first, s \o (pv \o u))
    BY <1>1, TicketsRead
  <1> QED
    BY <1>1, <1>2, <1>3, <1>4 DEF pv, t

LEMMA ReadOn ==
    ASSUME NEW r, NEW s \in Seq(Units(r)), wire \in Seq(OnWire(r)), toSend \in Seq(Units(r)),
           NEW size, NEW x, IsRead(r, x, size)
    PROVE  /\ s \o x.units \in Seq(Units(r)) /\ x.rest \o toSend \in Seq(OnWire(r))
           /\ Ordered(r, s \o (wire \o toSend))
                <=> Ordered(r, (s \o x.units) \o (x.rest \o toSend))
           /\ \A first : StartsIn(first, s \o (wire \o toSend))
                <=> StartsIn(first, (s \o x.units) \o (x.rest \o toSend))
  <1> DEFINE S == OnWire(r)
             p == x.units
             v == x.rest
  <1>1. /\ s \in Seq(S) /\ p \in Seq(S) /\ v \in Seq(S) /\ toSend \in Seq(S)
        /\ p \in Seq(Units(r))
    BY OnWireIs DEF IsRead
  <1>2. PICK q \in Seq(S) : wire = q \o (p \o v) /\ \A i \in 1 .. Len(q) : q[i] = Ticket
    BY DEF IsRead
  <1>3. s \o p \in Seq(Units(r))
    <2> HIDE DEF p
    <2> QED
      BY <1>1, ConcatProperties
  <1> HIDE DEF p, v, S
  <1>4. /\ v \o toSend \in Seq(S)
        /\ Ordered(r, s \o ((q \o (p \o v)) \o toSend)) <=> Ordered(r, (s \o p) \o (v \o toSend))
        /\ \A first : StartsIn(first, s \o ((q \o (p \o v)) \o toSend))
                <=> StartsIn(first, (s \o p) \o (v \o toSend))
    BY <1>1, <1>2, MovedOn
  <1>5. /\ Ordered(r, s \o (wire \o toSend)) <=> Ordered(r, (s \o p) \o (v \o toSend))
        /\ \A first : StartsIn(first, s \o (wire \o toSend))
                <=> StartsIn(first, (s \o p) \o (v \o toSend))
    BY <1>2, <1>4
  <1> QED
    BY <1>3, <1>4, <1>5 DEF p, v, S

\* Where openBlocking() finds the end of the header, if it does.
LEMMA EndIsAt ==
    ASSUME NEW r, NEW buf \in Seq(Units(r))
    PROVE  LET at == SelectInSeq(buf, LAMBDA u : u.kind = "end")
           IN  at # 0 => at \in 1 .. Len(buf) /\ buf[at].kind = "end"
  <1> DEFINE I == { i \in 1 .. Len(buf) : buf[i].kind = "end" }
             at == IF I # {} THEN Min(I) ELSE 0
  <1>1. at # 0 => at \in I
    <2>1. I \subseteq Nat
      OBVIOUS
    <2> HIDE DEF I
    <2> QED
      BY <2>1, MinIsLeast
  <1>2. at # 0 => at \in 1 .. Len(buf) /\ buf[at].kind = "end"
    <2> HIDE DEF at
    <2> QED
      BY <1>1
  <1> QED
    BY <1>2 DEF SelectInSeq

\* The header ends where the reader stands in front of the body.
LEMMA HeaderEnds ==
    ASSUME NEW r \in Responses, NEW buf \in Seq(Units(r)), NEW t \in Seq(OnWire(r)),
           Ordered(r, buf \o t), NEW at \in 1 .. Len(buf), buf[at].kind = "end"
    PROVE  LET h == SubSeq(buf, 1, at)
               l == SubSeq(buf, at + 1, Len(buf))
           IN  /\ h \in Seq(Units(r)) /\ l \in Seq(Units(r)) /\ buf[at].at = r.metaint
               /\ Ordered(r, l \o t) /\ StartsIn(Ahead(r, RoundAfter(r, 0)), l \o t)
  <1> DEFINE S == OnWire(r)
             U == Units(r)
             h == SubSeq(buf, 1, at)
             l == SubSeq(buf, at + 1, Len(buf))
             lt == l \o t
  <1>1. Len(buf) \in Nat /\ \A i \in 1 .. Len(buf) : buf[i] \in U
    BY LenProperties, ElementOfSeq
  <1>3. at \in 0 .. Len(buf) /\ at \in Nat /\ at > 0
    BY <1>1
  <1>4. buf[at] = Unit("end", 0, r.metaint) /\ buf[at].at = r.metaint
    <2> DEFINE u == buf[at]
    <2>1. u \in U /\ u.kind = "end"
      BY <1>1
    <2> HIDE DEF u
    <2>2. u \in UnitRec /\ InAnswer(r, u)
      BY <2>1 DEF Units
    <2>3. u.of = 0 /\ u.at = r.metaint
      BY <2>1, <2>2 DEF InAnswer
    <2>4. u = [kind |-> "end", of |-> 0, at |-> r.metaint]
      BY <2>1, <2>2, <2>3 DEF UnitRec
    <2> QED
      BY <2>3, <2>4 DEF u, Unit
  <1> HIDE DEF U
  <1>5. /\ buf = h \o l /\ h \in Seq(U) /\ Len(h) = at /\ l \in Seq(U)
        /\ \A i \in 1 .. at : h[i] = buf[i]
    <2>1. buf \in Seq(U)
      BY DEF U
    <2> QED
      BY <1>3, <2>1, CutInTwo, ZenonT(120)
  <1>6. h \in Seq(S) /\ l \in Seq(S)
    BY <1>5, OnWireIs DEF U
  <1> HIDE DEF h, l, S
  <1>7. (h \o l) \o t = h \o lt /\ lt \in Seq(S)
    BY <1>6, ConcatAssociative, ConcatProperties DEF S
  <1> HIDE DEF lt
  <1>8. \A i \in 1 .. Len(h) : h[i] # Ticket
    <2>1. \A i \in 1 .. Len(h) : h[i] \in U
      BY <1>5, ElementOfSeq
    <2> QED
      BY <2>1, UnitsAreNoTickets DEF U
  <1>9. Ordered(r, lt) /\ StartsIn(Follow(r, h[Len(h)]), lt)
    <2>1. Ordered(r, h \o lt) /\ Len(h) > 0
      BY <1>3, <1>5, <1>7
    <2> QED
      BY <1>6, <1>7, <1>8, <2>1, PieceInOrder
  <1>10. Follow(r, h[Len(h)]) = Ahead(r, RoundAfter(r, 0))
    <2>1. at \in 1 .. at
      BY <1>3
    <2>2. h[Len(h)] = Unit("end", 0, r.metaint)
      BY <1>4, <1>5, <2>1
    <2>3. Follow(r, Unit("end", 0, r.metaint)) = Ahead(r, RoundAfter(r, 0))
      BY FollowIs
    <2> QED
      BY <2>2, <2>3
  <1> QED
    BY <1>4, <1>5, <1>9, <1>10 DEF h, l, lt, U

\* What a turn of the header loop reads, and what it leaves alone.
LEMMA HeaderRead ==
    ASSUME IInv, ReadHeader
    PROVE  /\ opener = "header" /\ pump = "none" /\ ~Live /\ published /\ fd \in {"up", "shut"}
           /\ icy = NoIcy /\ leftover = << >>
           /\ response' = response /\ tls' = tls /\ toSend' = toSend /\ tickets' = tickets
           /\ peer' = peer /\ stopper' = stopper /\ handle' = handle /\ stop' = stop
           /\ pump' = pump /\ call' = call /\ audio' = audio /\ blocks' = blocks
           /\ result' = result
           /\ \E x \in Reads(HeaderChunk) :
                LET buf == header \o x.units
                    at  == SelectInSeq(buf, LAMBDA u : u.kind = "end")
                IN  /\ IsRead(response, x, HeaderChunk) /\ wire' = x.rest
                    /\ buf \in Seq(Units(response))
                    /\ x.rest \o toSend \in Seq(OnWire(response))
                    /\ Ordered(response, buf \o (x.rest \o toSend))
                    /\ \/ at # 0 /\ HeaderComplete(buf, at)
                       \/ /\ header' = buf
                          /\ UNCHANGED << fd, published, leftover, icy, opener >>
                       \/ opener' = "failed" /\ Reset
  <1> DEFINE buf(x) == header \o x.units
             at(x)  == SelectInSeq(buf(x), LAMBDA u : u.kind = "end")
  <1>1. TypeOK /\ Types /\ Phases /\ InOrder /\ Asked
    BY DEF IInv
  <1>2. /\ opener = "header"
        /\ \E x \in Reads(HeaderChunk) :
            /\ wire' = x.rest
            /\ UNCHANGED << response, tls, toSend, tickets, peer, stopper, handle, stop, pumping >>
            /\ \/ at(x) # 0 /\ HeaderComplete(buf(x), at(x))
               \/ /\ header' = buf(x)
                  /\ UNCHANGED << fd, published, leftover, icy, opener >>
               \/ opener' = "failed" /\ Reset
    BY Zenon DEF ReadHeader
  <1>3. PICK x \in Reads(HeaderChunk) :
            /\ wire' = x.rest
            /\ UNCHANGED << response, tls, toSend, tickets, peer, stopper, handle, stop, pumping >>
            /\ \/ at(x) # 0 /\ HeaderComplete(buf(x), at(x))
               \/ /\ header' = buf(x)
                  /\ UNCHANGED << fd, published, leftover, icy, opener >>
               \/ opener' = "failed" /\ Reset
    BY <1>2
  <1>4. /\ pump = "none" /\ ~Live /\ published /\ fd \in {"up", "shut"}
        /\ icy = NoIcy /\ leftover = << >>
    BY <1>1, <1>2 DEF Phases, TypeOK, Live
  <1>5. /\ response' = response /\ tls' = tls /\ toSend' = toSend /\ tickets' = tickets
        /\ peer' = peer /\ stopper' = stopper /\ handle' = handle /\ stop' = stop
        /\ pump' = pump /\ call' = call /\ audio' = audio /\ blocks' = blocks
        /\ result' = result
    BY <1>3 DEF pumping
  <1>6. /\ wire \in Seq(OnWire(response)) /\ (~tls => wire \in Seq(Units(response)))
        /\ header \in Seq(Units(response)) /\ toSend \in Seq(Units(response))
        /\ Ordered(response, header \o (wire \o toSend))
    BY <1>1, <1>2 DEF Types, InOrder, HeaderPhase
  <1>7. IsRead(response, x, HeaderChunk)
    <2>1. fd \in {"up", "shut", "closed"}
      BY <1>4
    <2>2. HeaderChunk \in Nat /\ HeaderChunk # 0
      BY SizesAssumption
    <2> QED
      BY <1>3, <1>6, <2>1, <2>2, ReadsAre
  <1>8. /\ buf(x) \in Seq(Units(response)) /\ x.rest \o toSend \in Seq(OnWire(response))
        /\ Ordered(response, buf(x) \o (x.rest \o toSend))
    BY <1>6, <1>7, ReadOn
  <1> DEFINE OK(y) == /\ IsRead(response, y, HeaderChunk) /\ wire' = y.rest
                      /\ buf(y) \in Seq(Units(response))
                      /\ y.rest \o toSend \in Seq(OnWire(response))
                      /\ Ordered(response, buf(y) \o (y.rest \o toSend))
                      /\ \/ at(y) # 0 /\ HeaderComplete(buf(y), at(y))
                         \/ /\ header' = buf(y)
                            /\ UNCHANGED << fd, published, leftover, icy, opener >>
                         \/ opener' = "failed" /\ Reset
  <1>9. OK(x)
    BY <1>3, <1>7, <1>8, Zenon
  <1> HIDE DEF OK
  <1>10. \E y \in Reads(HeaderChunk) : OK(y)
    BY <1>9
  <1> QED
    BY <1>2, <1>4, <1>5, <1>10, Zenon DEF OK

\* What is left of the wire is as well typed as the wire was.
LEMMA WireRead ==
    ASSUME Types, NEW x, NEW size, IsRead(response, x, size), wire' = x.rest,
           response' = response, tls' = tls, tickets' = tickets
    PROVE  /\ wire' \in Seq(OnWire(response)) /\ (~tls => wire' \in Seq(Units(response)))
           /\ Len(wire') <= WireSize + tickets /\ Len(wire') <= WireSize + MaxTickets
  <1>1. /\ wire' \in Seq(OnWire(response)) /\ (~tls => wire' \in Seq(Units(response)))
        /\ Len(wire') <= Len(wire)
    BY DEF IsRead
  <1>2. /\ Len(wire) \in Nat /\ Len(wire') \in Nat /\ tickets \in Nat /\ tickets <= MaxTickets
        /\ Len(wire) <= WireSize + tickets
    BY <1>1, LenProperties DEF Types
  <1> QED
    BY <1>1, <1>2, SizesAssumption

LEMMA ReadHeaderKeeps ==
    ASSUME IInv, ReadHeader
    PROVE  IInv'
  <1> DEFINE r == response
             buf(x) == header \o x.units
             at(x)  == SelectInSeq(buf(x), LAMBDA u : u.kind = "end")
             Read(x) == /\ IsRead(r, x, HeaderChunk) /\ wire' = x.rest
                        /\ buf(x) \in Seq(Units(r)) /\ x.rest \o toSend \in Seq(OnWire(r))
                        /\ Ordered(r, buf(x) \o (x.rest \o toSend))
             Then(x) == \/ at(x) # 0 /\ HeaderComplete(buf(x), at(x))
                        \/ /\ header' = buf(x)
                           /\ UNCHANGED << fd, published, leftover, icy, opener >>
                        \/ opener' = "failed" /\ Reset
  <1>1. TypeOK /\ Types /\ Phases /\ InOrder /\ Asked
    BY DEF IInv
  <1>2. /\ opener = "header" /\ pump = "none" /\ ~Live /\ published /\ fd \in {"up", "shut"}
        /\ icy = NoIcy /\ leftover = << >>
        /\ response' = response /\ tls' = tls /\ toSend' = toSend /\ tickets' = tickets
        /\ peer' = peer /\ stopper' = stopper /\ handle' = handle /\ stop' = stop
        /\ pump' = pump /\ call' = call /\ audio' = audio /\ blocks' = blocks
        /\ \E x \in Reads(HeaderChunk) : Read(x) /\ Then(x)
    BY HeaderRead, Zenon
  <1>3. PICK x \in Reads(HeaderChunk) : Read(x) /\ Then(x)
    BY <1>2
  <1> HIDE DEF Then
  <1>4. /\ wire' \in Seq(OnWire(r)) /\ (~tls => wire' \in Seq(Units(r)))
        /\ Len(wire') <= WireSize + tickets /\ Len(wire') <= WireSize + MaxTickets
    BY <1>1, <1>2, <1>3, WireRead
  <1>5. << >> \in Seq(Units(r))
    BY EmptySeq
  <1>6. audio = << >> /\ blocks = << >> /\ call = NoCall
    BY <1>1, <1>2 DEF Phases
  \* All there is to show of a case.
  <1>7. ASSUME header' \in Seq(Units(r)), leftover' \in Seq(Units(r)),
               IcyTyped', fd' \in {"up", "shut", "closed"}, published' => fd' \in {"up", "shut"},
               \/ opener' = "header" /\ published' /\ leftover' = << >> /\ icy' = NoIcy
               \/ opener' = "attach" /\ published'
               \/ opener' = "failed" /\ leftover' = << >> /\ icy' = NoIcy,
               InOrder'
        PROVE  IInv'
    <2>1. Types'
      BY <1>1, <1>2, <1>4, <1>7 DEF Types
    <2>2. TypeOK'
      <3>1. opener' \in Openers /\ fd' \in {"none", "up", "shut", "closed"}
        BY <1>7 DEF Openers
      <3> QED
        BY <1>1, <1>2, <1>4, <1>7, <3>1 DEF TypeOK, IcyTyped, Openers
    <2>3. Phases'
      BY <1>1, <1>2, <1>6, <1>7 DEF Phases, Live
    <2>4. Asked'
      BY <1>2 DEF Asked
    <2> QED
      BY <1>7, <2>1, <2>2, <2>3, <2>4 DEF IInv
  <1>8. CASE at(x) # 0 /\ HeaderComplete(buf(x), at(x))
    <2> DEFINE b == buf(x)
               n == at(x)
               l == SubSeq(b, n + 1, Len(b))
               t == x.rest \o toSend
               d == RoundAfter(r, 0)
    <2>1. /\ header' = SubSeq(b, 1, n) /\ leftover' = l /\ opener' = "attach"
          /\ icy' = [NoIcy EXCEPT !.interval = b[n].at, !.countdown = b[n].at]
          /\ fd' = fd /\ published' = published
      BY <1>8 DEF HeaderComplete
    <2>2. n \in 1 .. Len(b) /\ b[n].kind = "end"
      BY <1>3, <1>8, EndIsAt
    <2> HIDE DEF n
    <2>3. r \in Responses
      BY <1>1 DEF TypeOK
    <2>4. b \in Seq(Units(r)) /\ t \in Seq(OnWire(r)) /\ Ordered(r, b \o t)
      BY <1>3
    <2> HIDE DEF b, t, r
    <2>5. /\ SubSeq(b, 1, n) \in Seq(Units(r)) /\ l \in Seq(Units(r)) /\ b[n].at = r.metaint
          /\ Ordered(r, l \o t) /\ StartsIn(Ahead(r, d), l \o t)
      BY <2>2, <2>3, <2>4, HeaderEnds
    <2>6. /\ d \in Cursors(r) /\ Heard(r, d) = << >> /\ Told(r, d) = << >>
          /\ IcyAt(r, d) = [interval |-> r.metaint, countdown |-> r.metaint,
                            bytesLeft |-> 0, metaBuf |-> << >>]
      <3>1. 0 \in 0 .. Rounds(r)
        BY <2>3, ResponseIs
      <3> QED
        BY <2>3, <3>1, AtRound DEF Flattened
    <2>7. icy' = IcyAt(r, d)
      <3> DEFINE m == r.metaint
      <3>1. icy' = [NoIcy EXCEPT !.interval = m, !.countdown = m]
        BY <2>1, <2>5
      <3> HIDE DEF m
      <3> DEFINE f == [NoIcy EXCEPT !.interval = m]
                 g == [f EXCEPT !.countdown = m]
      <3>2. f = [interval |-> m, countdown |-> 0, bytesLeft |-> 0, metaBuf |-> << >>]
        BY DEF NoIcy
      <3>3. icy' = g
        BY <3>1
      <3> HIDE DEF f
      <3>4. g = [interval |-> m, countdown |-> m, bytesLeft |-> 0, metaBuf |-> << >>]
        BY <3>2
      <3> HIDE DEF g
      <3> QED
        BY <2>6, <3>3, <3>4 DEF m
    <2>8. audio' \o call'.produced = Heard(r, d) /\ blocks' = Told(r, d)
      <3>1. audio' = << >> /\ call'.produced = << >> /\ blocks' = << >>
        BY <1>2, <1>6 DEF NoCall
      <3>2. << >> \o << >> = << >>
        BY <1>5, ConcatEmptySeq
      <3> QED
        BY <2>6, <3>1, <3>2
    <2>9. leftover' \o (wire' \o toSend') = l \o t
      BY <1>2, <1>3, <2>1 DEF t
    <2>10. InOrder'
      <3>1. ~HeaderPhase' /\ response' = r
        BY <1>2, <2>1 DEF HeaderPhase, r
      <3> DEFINE OK(c) == /\ audio' \o call'.produced = Heard(r, c) /\ blocks' = Told(r, c)
                          /\ Live' => /\ icy' = IcyAt(r, c)
                                      /\ Ordered(r, leftover' \o (wire' \o toSend'))
                                      /\ StartsIn(Ahead(r, c), leftover' \o (wire' \o toSend'))
      <3>2. OK(d)
        BY <2>5, <2>7, <2>8, <2>9
      <3> HIDE DEF OK, d
      <3>3. \E c \in Cursors(r) : OK(c)
        BY <2>6, <3>2
      <3> QED
        BY <3>1, <3>3 DEF InOrder, OK
    <2>11. IcyTyped'
      <3>1. r.metaint \in Nat
        BY <2>3, ResponseIs
      <3>2. icy.bytesLeft' = 0 /\ icy.countdown' = r.metaint /\ icy.interval' = r.metaint
        BY <2>6, <2>7
      <3> QED
        BY <3>1, <3>2 DEF IcyTyped
    <2>12. header' \in Seq(Units(r)) /\ leftover' \in Seq(Units(r))
      BY <2>1, <2>5
    <2> QED
      BY <1>2, <1>7, <2>1, <2>10, <2>11, <2>12 DEF r
  <1>9. CASE header' = buf(x) /\ UNCHANGED << fd, published, leftover, icy, opener >>
    <2>1. ~Live' /\ (HeaderPhase' => Ordered(r, header' \o (wire' \o toSend')))
      BY <1>2, <1>3, <1>9 DEF Live
    <2>2. InOrder'
      BY <1>1, <1>2, <2>1, OrderStays
    <2>3. IcyTyped'
      BY <1>2, <1>9 DEF NoIcy, IcyTyped
    <2> QED
      BY <1>2, <1>3, <1>5, <1>7, <1>9, <2>2, <2>3
  <1>10. CASE opener' = "failed" /\ Reset
    <2>1. /\ fd' = "closed" /\ published' = FALSE
          /\ header' = << >> /\ leftover' = << >> /\ icy' = NoIcy
      BY <1>2, <1>10 DEF Reset
    <2>2. ~Live' /\ ~HeaderPhase'
      BY <1>10, <2>1 DEF Live, HeaderPhase
    <2>3. InOrder'
      BY <1>1, <1>2, <2>2, OrderStays
    <2>4. IcyTyped'
      BY <2>1 DEF NoIcy, IcyTyped
    <2> QED
      BY <1>5, <1>7, <1>10, <2>1, <2>3, <2>4
  <1> QED
    BY <1>3, <1>8, <1>9, <1>10 DEF Then

LEMMA HeaderLateKeeps ==
    ASSUME IInv, HeaderLate \/ DropTrack
    PROVE  IInv'
  <1>1. opener # "free" /\ GiveUp
    BY DEF HeaderLate, DropTrack
  <1> QED
    BY <1>1, GiveUpKeeps

\* The steps that move a thread on and leave the answer alone; the socket may
\* be shut down by them.
LEMMA MoveKeeps ==
    ASSUME IInv, UNCHANGED << server, published, header, leftover, icy, call, audio, blocks >>,
           fd' = fd \/ fd' = Interrupted(fd),
           opener' = opener \/ (opener = "attach" /\ opener' = "free"),
           pump' \in Pumps, pump' = "none" => pump = "none", pump' = "recv" => pump = "recv",
           pump' \notin {"pull", "recv"} => call = NoCall, opener' # "free" => pump' = "none",
           stopper' \in Stoppers, handle' \in BOOLEAN, stop' \in BOOLEAN
    PROVE  IInv'
  <1>1. TypeOK /\ Types /\ Phases /\ InOrder /\ Asked
    BY DEF IInv
  <1>2. /\ response' = response /\ tls' = tls /\ toSend' = toSend /\ wire' = wire
        /\ tickets' = tickets /\ peer' = peer /\ published' = published
        /\ header' = header /\ leftover' = leftover /\ icy' = icy
        /\ call' = call /\ audio' = audio /\ blocks' = blocks
    BY DEF server
  <1>3. fd' = fd \/ (published /\ fd = "up" /\ fd' = "shut")
    BY DEF Interrupted
  <1>4. Types'
    BY <1>1, <1>2, TypesKept
  <1>5. (HeaderPhase' => HeaderPhase) /\ (Live' => Live) /\ (Live => Live')
    BY <1>2 DEF HeaderPhase, Live
  <1>6. InOrder'
    BY <1>1, <1>2, <1>5, OrderKept
  <1>7. Asked'
    BY <1>1, <1>2, AskedKept
  <1>8. TypeOK'
    <2>1. fd' \in {"none", "up", "shut", "closed"} /\ (published' => fd' \in {"up", "shut"})
      BY <1>1, <1>2, <1>3 DEF TypeOK
    <2>2. opener' \in Openers
      BY <1>1 DEF TypeOK, Openers
    <2> QED
      BY <1>1, <1>2, <2>1, <2>2 DEF TypeOK, Openers, Pumps, Stoppers
  <1>9. Phases'
    <2>1. /\ opener' # "free" => pump' = "none"
          /\ pump' = "none" => audio' = << >> /\ blocks' = << >>
          /\ pump' \notin {"pull", "recv"} => call' = NoCall
      BY <1>1, <1>2 DEF Phases
    <2>2. /\ opener' \in {"open", "connect", "handshake", "send"} => header' = << >>
          /\ opener' \in {"open", "connect", "handshake"} => ~published'
          /\ opener' \in {"send", "header"} => published'
          /\ ~Live' => leftover' = << >> /\ icy' = NoIcy
      BY <1>1, <1>2, <1>5 DEF Phases
    <2>3. opener' = "handshake" => fd' = "up"
      BY <1>1, <1>2, <1>3 DEF Phases
    <2>4. pump' = "recv" => leftover' = << >> /\ (published' \/ fd' = "closed")
      BY <1>1, <1>2, <1>3 DEF Phases
    <2> QED
      BY <2>1, <2>2, <2>3, <2>4 DEF Phases
  <1> QED
    BY <1>4, <1>6, <1>7, <1>8, <1>9 DEF IInv

LEMMA StartPumpKeeps ==
    ASSUME IInv, StartPump
    PROVE  IInv'
  <1>1. /\ opener = "attach" /\ call = NoCall /\ stopper \in Stoppers
    BY DEF IInv, TypeOK, Phases, StartPump, Stoppers
  <1>2. /\ UNCHANGED << server, published, header, leftover, icy, call, audio, blocks >>
        /\ fd' = fd /\ opener' = "free" /\ pump' = "start" /\ stopper' = stopper
        /\ handle' = TRUE /\ stop' = FALSE
    BY DEF StartPump, reader
  <1>3. pump' \in Pumps
    BY <1>2 DEF Pumps
  <1> QED
    BY <1>1, <1>2, <1>3, MoveKeeps

LEMMA PumpMovesKeep ==
    ASSUME IInv, Register \/ BeginRead \/ EndRun
    PROVE  IInv'
  <1>1. /\ stopper \in Stoppers /\ handle \in BOOLEAN /\ stop \in BOOLEAN
        /\ pump \in {"start", "loop"} /\ call = NoCall /\ opener = "free"
    BY DEF IInv, TypeOK, Phases, Register, BeginRead, EndRun, Stoppers
  <1>2. /\ UNCHANGED << server, published, header, leftover, icy, audio, blocks >>
        /\ fd' = fd \/ fd' = Interrupted(fd)
        /\ opener' = opener /\ stopper' = stopper /\ handle' = handle /\ stop' = stop
        /\ pump' \in {"loop", "pull", "close"}
        /\ call' = call
    BY <1>1 DEF Register, BeginRead, EndRun, reader, threads
  <1>3. pump' \in Pumps
    BY <1>2 DEF Pumps
  <1>4. UNCHANGED << server, published, header, leftover, icy, call, audio, blocks >>
    BY <1>2
  <1> QED
    BY <1>1, <1>2, <1>3, <1>4, MoveKeeps

LEMMA StopperMovesKeep ==
    ASSUME IInv, Shutdown \/ Interrupt \/ Join
    PROVE  IInv'
  <1>1. /\ stopper \in Stoppers /\ handle \in BOOLEAN /\ stop \in BOOLEAN /\ pump \in Pumps
        /\ pump \notin {"pull", "recv"} => call = NoCall
        /\ opener # "free" => pump = "none"
    BY DEF IInv, TypeOK, Phases, Stoppers, Pumps
  <1>2. /\ UNCHANGED << server, published, header, leftover, icy, call, audio, blocks >>
        /\ fd' = fd \/ fd' = Interrupted(fd)
        /\ opener' = opener /\ pump' = pump
    BY DEF Shutdown, Interrupt, Join, reader, pumping
  <1>3. stopper' \in Stoppers
    BY DEF Shutdown, Interrupt, Join, Stoppers
  <1>4. handle' \in BOOLEAN /\ stop' \in BOOLEAN
    BY <1>1 DEF Shutdown, Interrupt, Join
  <1> QED
    BY <1>1, <1>2, <1>3, <1>4, MoveKeeps

\* What the pump has taken of the units of p: their audio, and the blocks that
\* are complete with them.
Fed(p) ==
    /\ Got \subseteq Got'
    /\ \A u \in ToSet(p) : u.kind = "audio" => u \in Got'
    /\ ToSet(blocks) \subseteq ToSet(blocks')
    /\ \A b \in 1 .. Rounds(response) :
          Unit("meta", b, response.blocks[b]) \in ToSet(p) =>
              Run("meta", b, response.blocks[b]) \in ToSet(blocks')

LEMMA PieceFed ==
    ASSUME NEW c \in Cursors(response), icy = IcyAt(response, c), response \in Responses,
           audio \in Seq(Units(response)), call.produced \in Seq(Units(response)),
           Len(call.produced) < BufferSize, blocks = Told(response, c),
           NEW p \in Seq(Units(response)), Len(p) \in 1 .. Want(call.produced),
           Linked(response, p), p[1] \in Ahead(response, c), Take(Part, p)
    PROVE  Fed(p)
  <1> DEFINE r == response
             S == Units(r)
             n == Len(p)
             old == call.produced
             produced == IF Part = "audio" THEN old \o p ELSE old
  <1>1. /\ IF Part = "meta" THEN TakeMeta(p)
           ELSE IF Part = "len" THEN TakeLength(p[1]) /\ UNCHANGED blocks
           ELSE UNCHANGED blocks
        /\ IF Len(produced) = BufferSize
           THEN Return(produced, "Data")
           ELSE /\ pump' = "pull" /\ call' = [NoCall EXCEPT !.produced = produced]
                /\ UNCHANGED << result, audio >>
    <2>1. Part \in {"meta", "len", "audio"}
      BY DEF Part
    <2> QED
      BY <2>1 DEF Take
  <1>2. Len(old) \in Nat /\ n \in Nat /\ n > 0 /\ n <= Want(old) /\ BufferSize \in Nat
    <2>1. Len(old) \in Nat /\ n \in Nat
      BY LenProperties
    <2>2. Want(old) \in Nat \ {0}
      BY <2>1, PartIs
    <2> QED
      BY <2>1, <2>2, SizesAssumption
  <1>3. /\ Want(old) \in Nat
        /\ \/ /\ Part = "meta" /\ c.kind = "meta"
              /\ Want(old) <= r.blocks[c.of] - c.at /\ c.at \in Nat /\ r.blocks[c.of] \in Nat
           \/ Part = "len" /\ c.kind = "audio" /\ r.metaint # 0 /\ c.at = r.metaint /\ Want(old) = 1
           \/ /\ Part = "audio" /\ c.kind = "audio" /\ Want(old) <= BufferSize - Len(old)
              /\ c.at \in Nat /\ (r.metaint # 0 => c.at + Want(old) <= r.metaint)
    <2>1. Want(old) \in Nat \ {0}
      BY <1>2, PartIs
    <2> QED
      BY <1>2, <2>1, PartIs
  <1>4. produced \in Seq(S) /\ Len(produced) <= BufferSize
    <2>1. CASE Part = "audio"
      <3>1. Want(old) <= BufferSize - Len(old)
        BY <1>3, <2>1
      <3>2. Len(old \o p) = Len(old) + n /\ old \o p \in Seq(S)
        BY ConcatProperties
      <3> HIDE DEF n, old, S
      <3>3. Len(old) + n <= BufferSize
        BY <1>2, <1>3, <3>1
      <3> QED
        BY <2>1, <3>2, <3>3
    <2>2. CASE Part # "audio"
      BY <1>2, <2>2
    <2> QED
      BY <2>1, <2>2
  <1>5. Got' = ToSet(audio) \cup ToSet(produced)
    <2> HIDE DEF produced
    <2>1. audio \in Seq(S)
      OBVIOUS
    <2> HIDE DEF S
    <2>2. /\ audio' \in Seq(S) /\ call' \in CallOf(S)
          /\ audio' \o call'.produced = audio \o produced
      BY <1>1, <1>4, <2>1, Kept
    <2>3. call'.produced \in Seq(S)
      BY <2>2 DEF CallOf
    <2>4. ToSet(audio' \o call'.produced) = ToSet(audio') \cup ToSet(call'.produced)
      <3> DEFINE x == audio'
                 y == call'.produced
      <3>1. x \in Seq(S) /\ y \in Seq(S)
        BY <2>2, <2>3
      <3> HIDE DEF x, y
      <3>2. ToSet(x \o y) = ToSet(x) \cup ToSet(y)
        BY <3>1, ElementsOfConcat
      <3> QED
        BY <3>2 DEF x, y
    <2>5. ToSet(audio \o produced) = ToSet(audio) \cup ToSet(produced)
      BY <1>4, <2>1, ElementsOfConcat
    <2> QED
      BY <2>2, <2>4, <2>5 DEF Got
  <1>6. ToSet(old) \subseteq ToSet(produced) /\ (Part = "audio" => ToSet(p) \subseteq ToSet(produced))
    BY ElementsOfConcat
  <1>7. \A u \in ToSet(p) : \E i \in 1 .. n : u = p[i]
    BY ElementsOf
  <1>8. r.metaint \in Nat
    BY ResponseIs
  <1>9. Got \subseteq Got'
    BY <1>5, <1>6 DEF Got
  <1> HIDE DEF produced
  <1>10. CASE Part = "audio"
    <2>1. r.metaint # 0 => c.at + n <= r.metaint
      BY <1>2, <1>3, <1>8, <1>10
    <2>2. IsRun("audio", c.of, c.at, p)
      BY <1>2, <1>3, <1>10, <2>1, AudioPiece
    <2>3. \A u \in ToSet(p) : u.kind = "audio"
      <3>1. \A i \in 1 .. n : p[i].kind = "audio"
        BY <2>2, UnitIs DEF IsRun
      <3> QED
        BY <1>7, <3>1
    <2>4. \A b : Unit("meta", b, r.blocks[b]) \notin ToSet(p)
      <3>1. \A b : Unit("meta", b, r.blocks[b]).kind = "meta"
        BY UnitIs
      <3> QED
        BY <2>3, <3>1
    <2>5. blocks' = blocks
      BY <1>1, <1>10
    <2>6. \A u \in ToSet(p) : u \in Got'
      BY <1>5, <1>6, <1>10
    <2> QED
      BY <1>9, <2>4, <2>5, <2>6 DEF Fed
  <1>11. CASE Part = "len"
    <2>1. c.kind = "audio" /\ r.metaint # 0 /\ c.at = r.metaint /\ n = 1
      <3>1. c.kind = "audio" /\ r.metaint # 0 /\ c.at = r.metaint /\ Want(old) = 1
        BY <1>3, <1>11
      <3> HIDE DEF n, old
      <3> QED
        BY <1>2, <3>1
    <2>2. p[1].kind = "len"
      <3>1. Ahead(r, c) \subseteq { Unit("len", c.of, r.blocks[c.of]) }
        <4>1. c.of \in 0 .. Rounds(r) /\ r.tail <= r.metaint /\ r.tail \in Nat
          BY <2>1, ResponseIs, CursorIs
        <4>2. Interval(r, c.of) <= r.metaint /\ Interval(r, c.of) \in Nat
          BY <1>8, <4>1 DEF Interval
        <4>3. ~ (c.at < Interval(r, c.of))
          BY <1>8, <2>1, <4>2
        <4> QED
          BY <2>1, <4>3 DEF Ahead
      <3> QED
        BY <3>1, UnitIs
    <2>3. \A u \in ToSet(p) : u.kind = "len"
      BY <1>7, <2>1, <2>2
    <2>4. \A b : Unit("meta", b, r.blocks[b]).kind = "meta"
      BY UnitIs
    <2>5. blocks' = blocks
      BY <1>1, <1>11
    <2> QED
      BY <1>9, <2>3, <2>4, <2>5 DEF Fed
  <1>12. CASE Part = "meta"
    <2> DEFINE k == r.blocks[c.of]
               m == c.at
               buf == Run("meta", c.of, m) \o p
               done == n = k - m
    <2>1. c.kind = "meta" /\ m + n <= k /\ m \in Nat /\ k \in Nat
      BY <1>2, <1>3, <1>12
    <2>2. IsRun("meta", c.of, m, p) /\ (done => buf = Run("meta", c.of, k))
      BY <1>2, <2>1, MetaPiece
    <2>3. \A u \in ToSet(p) : u.kind # "audio"
      <3>1. \A i \in 1 .. n : p[i].kind = "meta"
        BY <2>2, UnitIs DEF IsRun
      <3> QED
        BY <1>7, <3>1
    <2>4. icy.bytesLeft = k - m /\ icy.metaBuf = Run("meta", c.of, m)
      BY <2>1 DEF IcyAt
    <2>5. blocks' = IF done THEN Append(blocks, buf) ELSE blocks
      BY <1>1, <1>12, <2>4 DEF TakeMeta
    <2>6. ToSet(blocks') = IF done THEN ToSet(blocks) \cup {buf} ELSE ToSet(blocks)
      <3> DEFINE T == Seq(S)
      <3>1. blocks \in Seq(T)
        BY HeardIsPrefix
      <3>2. done => buf \in T
        <4>1. Run("meta", c.of, m) \in T
          <5>1. c.of \in 1 .. Rounds(r) /\ m \in 0 .. k - 1
            BY <2>1, CursorIs
          <5>2. m \in 0 .. k
            BY <2>1, <5>1
          <5> QED
            BY <5>1, <5>2, RoundsHave
        <4> QED
          BY <4>1, ConcatProperties
      <3> HIDE DEF T, buf, done
      <3>3. done => ToSet(Append(blocks, buf)) = ToSet(blocks) \cup {buf}
        BY <3>1, <3>2, ElementsOf
      <3> QED
        BY <2>5, <3>3
    <2>7. ASSUME NEW b \in 1 .. Rounds(r), Unit("meta", b, r.blocks[b]) \in ToSet(p)
          PROVE  Run("meta", b, r.blocks[b]) \in ToSet(blocks')
      <3>1. PICK i \in 1 .. n : Unit("meta", b, r.blocks[b]) = p[i]
        BY <1>7, <2>7
      <3>2. Unit("meta", b, r.blocks[b]) = Unit("meta", c.of, m + i)
        BY <2>2, <3>1 DEF IsRun
      <3>3. b = c.of /\ k = m + i
        BY <3>2, UnitIs
      <3>4. done
        <4> HIDE DEF k
        <4> QED
          BY <1>2, <2>1, <3>1, <3>3
      <3> HIDE DEF done, buf
      <3> QED
        BY <2>2, <2>6, <3>3, <3>4
    <2>8. ToSet(blocks) \subseteq ToSet(blocks')
      BY <2>6
    <2> QED
      BY <1>9, <2>3, <2>7, <2>8 DEF Fed
  <1> QED
    BY <1>3, <1>10, <1>11, <1>12

\* The pump takes the next piece of what is under way.
LEMMA TakenInOrder ==
    ASSUME IInv, Live, Live', opener = "free", opener' = opener, response' = response,
           NEW p \in Seq(Units(response)), NEW u \in Seq(OnWire(response)),
           Ordered(response, leftover \o (wire \o toSend)) => Ordered(response, p \o u),
           \A first : StartsIn(first, leftover \o (wire \o toSend)) => StartsIn(first, p \o u),
           Len(p) \in 1 .. Want(call.produced), Take(Part, p),
           leftover' \o (wire' \o toSend') = u
    PROVE  /\ audio' \in Seq(Units(response)) /\ call' \in CallOf(Units(response))
           /\ pump' \in {"pull", "loop"}
           /\ Len(call'.produced) < BufferSize /\ (pump' # "pull" => call' = NoCall)
           /\ IcyTyped' /\ InOrder' /\ Fed(p)
  <1> DEFINE r == response
  <1>1. TypeOK /\ Types /\ InOrder
    BY DEF IInv
  <1>2. /\ r \in Responses /\ audio \in Seq(Units(r)) /\ call.produced \in Seq(Units(r))
        /\ Len(call.produced) < BufferSize
    BY <1>1 DEF TypeOK, Types, CallOf
  <1>3. PICK c \in Cursors(r) :
            /\ audio \o call.produced = Heard(r, c) /\ blocks = Told(r, c) /\ icy = IcyAt(r, c)
            /\ Ordered(r, leftover \o (wire \o toSend))
            /\ StartsIn(Ahead(r, c), leftover \o (wire \o toSend))
    BY <1>1 DEF InOrder
  <1>4. Ordered(r, p \o u) /\ StartsIn(Ahead(r, c), p \o u)
    BY <1>3
  <1>5. Len(p) > 0
    <2>1. Len(call.produced) \in Nat
      BY <1>2, LenProperties
    <2>2. Want(call.produced) \in Nat \ {0}
      BY <1>2, <1>3, <2>1, PartIs
    <2> QED
      BY <2>2
  <1>6. p[1] \in Ahead(r, c) /\ Linked(r, p) /\ Ordered(r, u) /\ StartsIn(Follow(r, p[Len(p)]), u)
    <2>1. p \in Seq(OnWire(r)) /\ \A i \in 1 .. Len(p) : p[i] # Ticket
      BY OnWireIs, ElementOfSeq, UnitsAreNoTickets
    <2> QED
      BY <1>4, <1>5, <2>1, PieceInOrder
  <1>11. Fed(p)
    BY <1>2, <1>3, <1>5, <1>6, PieceFed
  <1> HIDE DEF r
  <1>7. /\ audio' \in Seq(Units(r)) /\ call' \in CallOf(Units(r)) /\ pump' \in {"pull", "loop"}
        /\ Len(call'.produced) < BufferSize /\ (pump' # "pull" => call' = NoCall)
        /\ \E d \in Cursors(r) :
            /\ audio' \o call'.produced = Heard(r, d) /\ blocks' = Told(r, d)
            /\ icy' = IcyAt(r, d) /\ Follow(r, p[Len(p)]) = Ahead(r, d)
    <2>1. p \in Seq(Units(r))
      BY DEF r
    <2> QED
      BY <1>2, <1>3, <1>6, <2>1, PieceTaken
  <1>8. PICK d \in Cursors(r) :
            /\ audio' \o call'.produced = Heard(r, d) /\ blocks' = Told(r, d)
            /\ icy' = IcyAt(r, d) /\ Follow(r, p[Len(p)]) = Ahead(r, d)
    BY <1>7
  <1>9. InOrder'
    <2> DEFINE OK(y) == /\ audio' \o call'.produced = Heard(r, y) /\ blocks' = Told(r, y)
                        /\ Live' => /\ icy' = IcyAt(r, y)
                                    /\ Ordered(r, leftover' \o (wire' \o toSend'))
                                    /\ StartsIn(Ahead(r, y), leftover' \o (wire' \o toSend'))
    <2>1. OK(d)
      BY <1>6, <1>8
    <2> HIDE DEF OK
    <2>2. \E y \in Cursors(r) : OK(y)
      BY <2>1
    <2>3. ~HeaderPhase' /\ response' = r
      BY DEF HeaderPhase, r
    <2> QED
      BY <2>2, <2>3 DEF InOrder, OK
  <1>10. IcyTyped'
    <2>1. IcyAt(r, d).bytesLeft \in Nat /\ IcyAt(r, d).countdown \in 0 .. IcyAt(r, d).interval
      BY <1>2, IcyAtIsTyped
    <2> QED
      BY <1>8, <2>1 DEF IcyTyped
  <1> QED
    BY <1>7, <1>9, <1>10, <1>11 DEF r

\* What is left to show of a pull that is over.
LEMMA PulledKeeps ==
    ASSUME IInv, pump \in {"pull", "recv"},
           UNCHANGED << response, tls, toSend, tickets, peer, fd, published, header, threads >>,
           wire' \in Seq(OnWire(response)), ~tls => wire' \in Seq(Units(response)),
           Len(wire') <= WireSize + tickets, Len(wire') <= WireSize + MaxTickets,
           leftover' \in Seq(Units(response)), ~Live' => leftover' = << >> /\ icy' = NoIcy,
           audio' \in Seq(Units(response)), call' \in CallOf(Units(response)),
           Len(call'.produced) < BufferSize, pump' \in {"pull", "loop"},
           pump' # "pull" => call' = NoCall, IcyTyped', InOrder'
    PROVE  IInv'
  <1>1. TypeOK /\ Types /\ Phases /\ InOrder /\ Asked
    BY DEF IInv
  <1>2. /\ response' = response /\ tls' = tls /\ toSend' = toSend /\ tickets' = tickets
        /\ peer' = peer /\ fd' = fd /\ published' = published /\ header' = header
        /\ opener' = opener /\ stopper' = stopper /\ handle' = handle /\ stop' = stop
    BY DEF threads
  <1>3. Types'
    BY <1>1, <1>2 DEF Types
  <1>4. TypeOK'
    <2>1. pump' \in Pumps
      BY DEF Pumps
    <2> QED
      BY <1>1, <1>2, <2>1 DEF TypeOK, IcyTyped, Pumps
  <1>5. Phases'
    <2>1. opener = "free"
      BY <1>1 DEF Phases
    <2> QED
      BY <1>1, <1>2, <2>1 DEF Phases
  <1>6. Asked'
    BY DEF Asked
  <1> QED
    BY <1>3, <1>4, <1>5, <1>6 DEF IInv

\* A pull from leftover_.
LEMMA LeftoverPulled ==
    ASSUME IInv, pump = "pull", leftover # << >>,
           NEW n, n = Smaller(Len(leftover), Want(call.produced)),
           leftover' = Erased(n), Take(Part, SubSeq(leftover, 1, n)),
           UNCHANGED << server, fd, published, header, threads >>
    PROVE  /\ IInv' /\ Fed(SubSeq(leftover, 1, n))
           /\ ToSet(leftover) = ToSet(SubSeq(leftover, 1, n)) \cup ToSet(leftover')
  <1> DEFINE r == response
             p == SubSeq(leftover, 1, n)
             l == Erased(n)
             t == wire \o toSend
             u == l \o t
  <1>1. TypeOK /\ Types /\ Phases /\ InOrder /\ Asked
    BY DEF IInv
  <1>2. Live /\ opener = "free"
    BY <1>1 DEF Phases
  <1>3. /\ response' = response /\ tls' = tls /\ toSend' = toSend /\ wire' = wire
        /\ tickets' = tickets /\ peer' = peer /\ fd' = fd /\ published' = published
        /\ header' = header /\ opener' = opener
    BY DEF server, threads
  <1>4. /\ r \in Responses /\ audio \in Seq(Units(r)) /\ call.produced \in Seq(Units(r))
        /\ Len(call.produced) < BufferSize /\ leftover \in Seq(Units(r))
        /\ wire \in Seq(OnWire(r)) /\ toSend \in Seq(OnWire(r))
    BY <1>1, OnWireIs DEF TypeOK, Types, CallOf
  <1>5. Want(call.produced) \in Nat \ {0}
    <2>1. PICK c \in Cursors(r) : icy = IcyAt(r, c)
      BY <1>1, <1>2 DEF InOrder
    <2>2. Len(call.produced) \in Nat
      BY <1>4, LenProperties
    <2> QED
      BY <1>4, <2>1, <2>2, PartIs
  <1>6. n \in 1 .. Len(leftover) /\ n \in 0 .. Len(leftover) /\ n \in 1 .. Want(call.produced)
    <2>1. Len(leftover) \in Nat /\ Len(leftover) > 0
      BY <1>4, LenProperties, EmptySeq
    <2> DEFINE want == Want(call.produced)
    <2> HIDE DEF want
    <2>2. want \in Nat \ {0} /\ n = Smaller(Len(leftover), want)
      BY <1>5 DEF want
    <2>3. n \in 1 .. Len(leftover) /\ n \in 0 .. Len(leftover) /\ n \in 1 .. want
      BY <2>1, <2>2 DEF Smaller
    <2> QED
      BY <2>3 DEF want
  <1>7. leftover = p \o l /\ p \in Seq(Units(r)) /\ Len(p) = n /\ l \in Seq(Units(r))
    <2> DEFINE S == Units(r)
    <2>1. leftover \in Seq(S)
      BY <1>4
    <2> HIDE DEF S
    <2>2. /\ leftover = SubSeq(leftover, 1, n) \o SubSeq(leftover, n + 1, Len(leftover))
          /\ SubSeq(leftover, 1, n) \in Seq(S) /\ Len(SubSeq(leftover, 1, n)) = n
          /\ SubSeq(leftover, n + 1, Len(leftover)) \in Seq(S)
      BY <1>6, <2>1, CutInTwo, ZenonT(120)
    <2> QED
      BY <2>2 DEF Erased, S
  <1>8. p \in Seq(OnWire(r)) /\ l \in Seq(OnWire(r))
    BY <1>7, OnWireIs
  <1>9. Take(Part, p) /\ leftover' = l
    OBVIOUS
  <1>17. ToSet(leftover) = ToSet(p) \cup ToSet(l)
    <2> HIDE DEF p, l
    <2>1. ToSet(p \o l) = ToSet(p) \cup ToSet(l)
      BY <1>7, ElementsOfConcat
    <2> QED
      BY <1>7, <2>1
  <1> HIDE DEF p, l
  <1>10. t \in Seq(OnWire(r))
    BY <1>4, ConcatProperties
  <1> HIDE DEF t
  <1>11. (p \o l) \o t = p \o u /\ u \in Seq(OnWire(r))
    <2> DEFINE S == OnWire(r)
    <2>1. p \in Seq(S) /\ l \in Seq(S) /\ t \in Seq(S)
      BY <1>8, <1>10
    <2> HIDE DEF S
    <2>2. (p \o l) \o t = p \o (l \o t) /\ l \o t \in Seq(S)
      BY <2>1, ConcatAssociative, ConcatProperties
    <2> QED
      BY <2>2 DEF S
  <1>12. leftover \o (wire \o toSend) = p \o u
    BY <1>7, <1>11 DEF t
  <1>13. leftover' \o (wire' \o toSend') = u
    BY <1>3, <1>9 DEF t
  <1>14. Live'
    BY <1>2, <1>3 DEF Live
  <1> HIDE DEF u
  <1>15. /\ audio' \in Seq(Units(r)) /\ call' \in CallOf(Units(r))
         /\ pump' \in {"pull", "loop"}
         /\ Len(call'.produced) < BufferSize /\ (pump' # "pull" => call' = NoCall)
         /\ IcyTyped' /\ InOrder' /\ Fed(p)
    BY <1>2, <1>3, <1>6, <1>7, <1>9, <1>11, <1>12, <1>13, <1>14, TakenInOrder
  <1>16. /\ wire' \in Seq(OnWire(r)) /\ (~tls => wire' \in Seq(Units(r)))
         /\ Len(wire') <= WireSize + tickets /\ Len(wire') <= WireSize + MaxTickets
         /\ leftover' \in Seq(Units(r))
    BY <1>1, <1>3, <1>7, <1>9 DEF Types, TypeOK
  <1>18. IInv'
    BY <1>3, <1>14, <1>15, <1>16, PulledKeeps
  <1> QED
    BY <1>9, <1>15, <1>17, <1>18 DEF p

\* read() returns without a piece.
LEMMA ReturnKeeps ==
    ASSUME IInv, pump \in {"pull", "recv"}, NEW outcome, Return(call.produced, outcome),
           UNCHANGED << response, tls, toSend, tickets, peer, reader, threads, blocks >>,
           wire' \in Seq(OnWire(response)), ~tls => wire' \in Seq(Units(response)),
           Len(wire') <= WireSize + tickets, Len(wire') <= WireSize + MaxTickets,
           Live => /\ Ordered(response, leftover \o (wire \o toSend))
                        => Ordered(response, leftover \o (wire' \o toSend))
                   /\ \A first : StartsIn(first, leftover \o (wire \o toSend))
                        => StartsIn(first, leftover \o (wire' \o toSend))
    PROVE  IInv'
  <1> DEFINE r == response
  <1>1. TypeOK /\ Types /\ Phases /\ InOrder /\ Asked
    BY DEF IInv
  <1>2. /\ response' = response /\ tls' = tls /\ toSend' = toSend /\ tickets' = tickets
        /\ peer' = peer /\ fd' = fd /\ published' = published /\ header' = header
        /\ leftover' = leftover /\ icy' = icy /\ opener' = opener /\ blocks' = blocks
    BY DEF reader, threads
  <1>3. audio \in Seq(Units(r)) /\ call.produced \in Seq(Units(r))
    BY <1>1 DEF Types, CallOf
  <1>4. /\ audio' \in Seq(Units(r)) /\ call' \in CallOf(Units(r)) /\ call' = NoCall
        /\ Len(call'.produced) < BufferSize /\ pump' = "loop"
        /\ audio' \o call'.produced = audio \o call.produced
    <2> DEFINE S == Units(r)
    <2>1. audio \in Seq(S) /\ call.produced \in Seq(S)
      BY <1>3
    <2> HIDE DEF S
    <2>2. /\ audio' \in Seq(S) /\ call' \in CallOf(S) /\ call' = NoCall
          /\ Len(call'.produced) < BufferSize /\ pump' = "loop"
          /\ audio' \o call'.produced = audio \o call.produced
      BY <2>1, Returned
    <2> QED
      BY <2>2 DEF S
  <1>5. Live' = Live /\ ~HeaderPhase'
    BY <1>1, <1>2 DEF Phases, Live, HeaderPhase
  <1>6. InOrder'
    BY <1>1, <1>2, <1>4, <1>5, OrderStays
  <1>7. IcyTyped' /\ leftover' \in Seq(Units(r))
    BY <1>1, <1>2 DEF TypeOK, Types, IcyTyped
  <1>8. ~Live' => leftover' = << >> /\ icy' = NoIcy
    BY <1>1, <1>2, <1>5 DEF Phases
  <1>9. UNCHANGED << response, tls, toSend, tickets, peer, fd, published, header, threads >>
    BY <1>2
  <1> QED
    BY <1>4, <1>6, <1>7, <1>8, <1>9, PulledKeeps

\* The pull goes to the transport, which is asked for a number of units of a part.
Asks(new, part, want) == new = [call EXCEPT !.part = part, !.want = want]

LEMMA CallAsks ==
    ASSUME NEW S, call \in CallOf(S), NEW part \in {"meta", "len", "audio"}, NEW want \in Nat,
           NEW new, Asks(new, part, want)
    PROVE  new \in CallOf(S) /\ new.produced = call.produced /\ new.part = part /\ new.want = want
  <1> DEFINE old == call.produced
             f == [call EXCEPT !.part = part]
             g == [f EXCEPT !.want = want]
  <1>1. call = [produced |-> old, part |-> call.part, want |-> call.want] /\ old \in Seq(S)
    BY DEF CallOf
  <1> HIDE DEF old
  <1>2. f = [produced |-> old, part |-> part, want |-> call.want]
    BY <1>1
  <1>3. new = g
    BY DEF Asks
  <1> HIDE DEF f
  <1>4. g = [produced |-> old, part |-> part, want |-> want]
    BY <1>2
  <1> HIDE DEF g
  <1>5. new = [produced |-> old, part |-> part, want |-> want]
    BY <1>3, <1>4
  <1>6. new \in CallOf(S)
    BY <1>1, <1>5 DEF CallOf
  <1>7. new.produced = old /\ new.part = part /\ new.want = want
    BY <1>5
  <1> QED
    BY <1>6, <1>7 DEF old

LEMMA TransportAsked ==
    ASSUME IInv, pump = "pull", leftover = << >>, published, pump' = "recv",
           Asks(call', Part, Want(call.produced)),
           UNCHANGED << server, reader, threads, result, audio, blocks >>
    PROVE  IInv'
  <1> DEFINE r == response
             S == Units(r)
             want == Want(call.produced)
  <1>1. TypeOK /\ Types /\ Phases /\ InOrder /\ Asked
    BY DEF IInv
  <1>2. /\ response' = response /\ tls' = tls /\ toSend' = toSend /\ wire' = wire
        /\ tickets' = tickets /\ peer' = peer /\ fd' = fd /\ published' = published
        /\ header' = header /\ leftover' = leftover /\ icy' = icy
        /\ opener' = opener /\ stopper' = stopper /\ handle' = handle /\ stop' = stop
        /\ audio' = audio /\ blocks' = blocks
    BY DEF server, reader, threads
  <1>3. /\ call \in CallOf(S) /\ Len(call.produced) < BufferSize /\ Part \in {"meta", "len", "audio"}
        /\ r \in Responses
    BY <1>1 DEF Types, TypeOK, Part
  <1>4. Live /\ opener = "free"
    BY <1>1 DEF Phases, Live
  <1>5. want \in Nat
    <2>1. PICK c \in Cursors(r) : icy = IcyAt(r, c)
      BY <1>1, <1>4 DEF InOrder
    <2>2. Len(call.produced) \in Nat
      BY <1>3, LenProperties DEF CallOf
    <2> QED
      BY <1>3, <2>1, <2>2, PartIs
  <1>6. call' \in CallOf(S) /\ call'.produced = call.produced /\ call'.part = Part /\ call'.want = want
    <2> HIDE DEF S
    <2> QED
      BY <1>3, <1>5, CallAsks
  <1>7. Types'
    <2> HIDE DEF want
    <2> QED
      BY <1>1, <1>2, <1>3, <1>6 DEF Types
  <1>8. TypeOK'
    <2>1. pump' \in Pumps
      BY DEF Pumps
    <2> HIDE DEF want
    <2> QED
      BY <1>1, <1>2, <1>3, <1>6, <2>1 DEF TypeOK, Pumps
  <1>9. Phases'
    BY <1>1, <1>2, <1>4 DEF Phases, Live
  <1>10. InOrder'
    <2>1. Live' = Live /\ ~HeaderPhase'
      BY <1>2, <1>4 DEF Live, HeaderPhase
    <2> QED
      BY <1>1, <1>2, <1>6, <2>1, OrderStays
  <1>11. Asked'
    <2>1. Part' = Part
      BY <1>2 DEF Part
    <2>2. Want(call.produced)' = Want(call.produced)
      BY <1>2, <1>6, <2>1 DEF Want
    <2> QED
      BY <1>6, <2>1, <2>2 DEF Asked
  <1> QED
    BY <1>7, <1>8, <1>9, <1>10, <1>11 DEF IInv

LEMMA PullKeeps ==
    ASSUME IInv, Pull
    PROVE  IInv'
  <1> DEFINE n == Smaller(Len(leftover), Want(call.produced))
  <1>1. /\ pump = "pull"
        /\ \/ /\ leftover # << >>
              /\ leftover' = Erased(n) /\ Take(Part, SubSeq(leftover, 1, n))
              /\ UNCHANGED << server, fd, published, header, threads >>
           \/ /\ leftover = << >> /\ Return(call.produced, "Closed")
              /\ UNCHANGED << server, reader, threads, blocks >>
           \/ /\ leftover = << >> /\ published /\ pump' = "recv"
              /\ Asks(call', Part, Want(call.produced))
              /\ UNCHANGED << server, reader, threads, result, audio, blocks >>
    BY Zenon DEF Pull, Asks
  <1>2. CASE /\ leftover # << >>
             /\ leftover' = Erased(n) /\ Take(Part, SubSeq(leftover, 1, n))
             /\ UNCHANGED << server, fd, published, header, threads >>
    <2> HIDE DEF n
    <2>1. n = Smaller(Len(leftover), Want(call.produced))
      BY DEF n
    <2> QED
      BY <1>1, <1>2, <2>1, LeftoverPulled
  <1>3. CASE /\ leftover = << >> /\ Return(call.produced, "Closed")
             /\ UNCHANGED << server, reader, threads, blocks >>
    <2>1. pump \in {"pull", "recv"}
      BY <1>1
    <2>2. /\ UNCHANGED << response, tls, toSend, tickets, peer, reader, threads, blocks >>
          /\ wire' = wire
      BY <1>3 DEF server
    <2>3. /\ wire' \in Seq(OnWire(response)) /\ (~tls => wire' \in Seq(Units(response)))
          /\ Len(wire') <= WireSize + tickets /\ Len(wire') <= WireSize + MaxTickets
      BY <2>2 DEF IInv, Types, TypeOK
    <2>4. /\ Ordered(response, leftover \o (wire \o toSend))
                => Ordered(response, leftover \o (wire' \o toSend))
          /\ \A first : StartsIn(first, leftover \o (wire \o toSend))
                => StartsIn(first, leftover \o (wire' \o toSend))
      BY <2>2
    <2> QED
      BY <1>3, <2>1, <2>2, <2>3, <2>4, ReturnKeeps
  <1>4. CASE /\ leftover = << >> /\ published /\ pump' = "recv"
             /\ Asks(call', Part, Want(call.produced))
             /\ UNCHANGED << server, reader, threads, result, audio, blocks >>
    BY <1>1, <1>4, TransportAsked
  <1> QED
    BY <1>1, <1>2, <1>3, <1>4

LEMMA RecvKeeps ==
    ASSUME IInv, NEW x \in Reads(call.want), Recv(x)
    PROVE  /\ IInv' /\ IsRead(response, x, call.want)
           /\ x.result = "Data" => Fed(x.units)
  <1> DEFINE r == response
             p == x.units
             u == x.rest \o toSend
  <1>1. TypeOK /\ Types /\ Phases /\ InOrder /\ Asked
    BY DEF IInv
  <1>2. /\ pump = "recv" /\ wire' = x.rest
        /\ UNCHANGED << response, tls, toSend, tickets, peer,
                        fd, published, header, leftover, threads >>
        /\ \/ x.result = "Data" /\ Take(call.part, p)
           \/ /\ x.result # "Data" /\ Return(call.produced, OutcomeOf(x.result))
              /\ UNCHANGED << icy, blocks >>
    BY Zenon DEF Recv
  <1>3. /\ opener = "free" /\ leftover = << >> /\ (published \/ fd = "closed")
        /\ fd \in {"up", "shut", "closed"}
    BY <1>1, <1>2 DEF Phases, TypeOK
  <1>4. /\ wire \in Seq(OnWire(r)) /\ (~tls => wire \in Seq(Units(r)))
        /\ leftover \in Seq(Units(r)) /\ toSend \in Seq(Units(r)) /\ call.want \in Nat
        /\ r \in Responses /\ call.produced \in Seq(Units(r)) /\ Len(call.produced) < BufferSize
    BY <1>1 DEF Types, TypeOK, CallOf
  <1>5. published => /\ Live /\ call.part = Part /\ call.want = Want(call.produced)
                     /\ call.want # 0
    <2> SUFFICES ASSUME published
                 PROVE  /\ Live /\ call.part = Part /\ call.want = Want(call.produced)
                        /\ call.want # 0
      OBVIOUS
    <2>1. Live /\ call.part = Part /\ call.want = Want(call.produced)
      BY <1>1, <1>2, <1>3 DEF Live, Asked
    <2>2. PICK c \in Cursors(r) : icy = IcyAt(r, c)
      BY <1>1, <2>1 DEF InOrder
    <2>3. Len(call.produced) \in Nat
      BY <1>4, LenProperties
    <2>4. Want(call.produced) \in Nat \ {0}
      BY <1>4, <2>2, <2>3, PartIs
    <2> QED
      BY <2>1, <2>4
  <1>6. IsRead(r, x, call.want)
    <2>1. fd # "closed" => call.want # 0
      BY <1>3, <1>5
    <2> QED
      BY <1>3, <1>4, <2>1, ReadsAre
  <1>7. /\ u \in Seq(OnWire(r))
        /\ Ordered(r, leftover \o (wire \o toSend)) <=> Ordered(r, (leftover \o p) \o u)
        /\ \A first : StartsIn(first, leftover \o (wire \o toSend))
                <=> StartsIn(first, (leftover \o p) \o u)
    BY <1>4, <1>6, ReadOn
  <1>8. /\ wire' \in Seq(OnWire(r)) /\ (~tls => wire' \in Seq(Units(r)))
        /\ Len(wire') <= WireSize + tickets /\ Len(wire') <= WireSize + MaxTickets
    BY <1>1, <1>2, <1>6, WireRead
  <1>9. pump \in {"pull", "recv"}
    BY <1>2
  <1>10. leftover \o (wire' \o toSend) = u
    <2>1. leftover \o (wire' \o toSend) = << >> \o u
      BY <1>2, <1>3
    <2> HIDE DEF u
    <2>2. << >> \o u = u
      BY <1>7, ConcatEmptySeq
    <2> QED
      BY <2>1, <2>2
  <1>11. CASE x.result = "Data" /\ Take(call.part, p)
    <2>1. /\ p \in Seq(Units(r)) /\ Len(p) \in 1 .. call.want /\ published
      BY <1>3, <1>6, <1>11 DEF IsRead
    <2>2. Live /\ Live' /\ opener' = opener /\ response' = response
      BY <1>2, <1>5, <2>1 DEF Live, threads
    <2>3. leftover \o p = p
      <3> HIDE DEF p
      <3> QED
        BY <1>3, <2>1, ConcatEmptySeq
    <2>4. /\ Ordered(r, leftover \o (wire \o toSend)) => Ordered(r, p \o u)
          /\ \A first : StartsIn(first, leftover \o (wire \o toSend)) => StartsIn(first, p \o u)
      BY <1>7, <2>3
    <2>5. Len(p) \in 1 .. Want(call.produced) /\ Take(Part, p)
      BY <1>5, <1>11, <2>1
    <2>6. leftover' \o (wire' \o toSend') = u
      BY <1>2, <1>10
    <2> HIDE DEF p, u
    <2>7. /\ audio' \in Seq(Units(r)) /\ call' \in CallOf(Units(r))
          /\ pump' \in {"pull", "loop"}
          /\ Len(call'.produced) < BufferSize /\ (pump' # "pull" => call' = NoCall)
          /\ IcyTyped' /\ InOrder' /\ Fed(p)
      BY <1>3, <1>7, <2>1, <2>2, <2>4, <2>5, <2>6, TakenInOrder
    <2>8. leftover' \in Seq(Units(r))
      BY <1>2, <1>4
    <2>9. IInv'
      BY <1>2, <1>8, <1>9, <2>2, <2>7, <2>8, PulledKeeps
    <2> QED
      BY <1>6, <2>7, <2>9 DEF p
  <1>12. CASE /\ x.result # "Data" /\ Return(call.produced, OutcomeOf(x.result))
              /\ UNCHANGED << icy, blocks >>
    <2>1. p = << >>
      BY <1>6, <1>12 DEF IsRead
    <2>2. leftover \o p = leftover
      BY <1>4, <2>1, ConcatEmptySeq
    <2>3. /\ Ordered(r, leftover \o (wire \o toSend))
                => Ordered(r, leftover \o (wire' \o toSend))
          /\ \A first : StartsIn(first, leftover \o (wire \o toSend))
                => StartsIn(first, leftover \o (wire' \o toSend))
      BY <1>2, <1>7, <2>2
    <2>4. UNCHANGED << response, tls, toSend, tickets, peer, reader, threads, blocks >>
      BY <1>2, <1>12 DEF reader
    <2>5. IInv'
      BY <1>8, <1>9, <1>12, <2>3, <2>4, ReturnKeeps
    <2> QED
      BY <1>6, <1>12, <2>5
  <1> QED
    BY <1>2, <1>11, <1>12

-----------------------------------------------------------------------------
(* The pump gets all of it: no step loses what is owed.                      *)

\* The units the pump is owed: the audio and the cells of the blocks.
Owable(u) == u.kind \in {"audio", "meta"}

\* What of `have` is owed is in p or in have2; what of p is has been taken.
Carried(have, p, have2) == \A u \in have : Owable(u) => u \in p \cup have2
Taken(r, p, heard, told) ==
    /\ \A u \in p : u.kind = "audio" => u \in heard
    /\ \A b \in 1 .. Rounds(r) :
            Unit("meta", b, r.blocks[b]) \in p => Run("meta", b, r.blocks[b]) \in told

\* What is owed stays under way, or is taken.
LEMMA OwedKept ==
    ASSUME NEW r, NEW heard, NEW told, NEW have, NEW heard2, NEW told2, NEW have2, NEW p,
           Owed(r, heard, told, have), heard \subseteq heard2, told \subseteq told2,
           Carried(have, p, have2), Taken(r, p, heard2, told2)
    PROVE  Owed(r, heard2, told2, have2)
  <1>1. ASSUME NEW u \in Units(r), u.kind = "audio"
        PROVE  u \in heard2 \cup have2
    <2>1. u \in heard \cup have
      BY <1>1 DEF Owed
    <2>2. Owable(u)
      BY <1>1 DEF Owable
    <2> QED
      BY <1>1, <2>1, <2>2 DEF Carried, Taken
  <1>2. ASSUME NEW b \in 1 .. Rounds(r), r.blocks[b] # 0
        PROVE  \/ Run("meta", b, r.blocks[b]) \in told2
               \/ Unit("meta", b, r.blocks[b]) \in have2
    <2> DEFINE u == Unit("meta", b, r.blocks[b])
    <2>1. Run("meta", b, r.blocks[b]) \in told \/ u \in have
      BY <1>2 DEF Owed
    <2>2. Owable(u)
      BY DEF Owable, Unit
    <2>3. u \in p => Run("meta", b, r.blocks[b]) \in told2
      BY DEF Taken
    <2> HIDE DEF u
    <2>4. CASE u \in have
      BY <2>2, <2>3, <2>4 DEF Carried, u
    <2> QED
      BY <2>1, <2>4
  <1> QED
    BY <1>1, <1>2 DEF Owed

\* A step that feeds the pump the units of p keeps account of all it is owed.
LEMMA DueFed ==
    ASSUME NEW have, NEW have2, NEW p, Due(have), response' = response, Fed(p),
           Carried(have, ToSet(p), have2)
    PROVE  Owed(response', Got', ToSet(blocks'), have2)
  <1> DEFINE q == ToSet(p)
             told == ToSet(blocks)
             told2 == ToSet(blocks')
             heard2 == Got'
  <1>1. /\ Owed(response, Got, told, have) /\ Got \subseteq heard2 /\ told \subseteq told2
        /\ Carried(have, q, have2)
    BY DEF Due, Fed
  <1>2. Taken(response, q, heard2, told2)
    BY DEF Fed, Taken
  <1> HIDE DEF q, told, told2, heard2
  <1>3. Owed(response, heard2, told2, have2)
    BY <1>1, <1>2, OwedKept
  <1> QED
    BY <1>3 DEF heard2, told2

\* One that feeds it nothing.
LEMMA DueKept ==
    ASSUME NEW have, NEW have2, Due(have), response' = response, Got' = Got, blocks' = blocks,
           Carried(have, {}, have2)
    PROVE  Owed(response', Got', ToSet(blocks'), have2)
  <1> DEFINE told == ToSet(blocks)
             heard == Got
  <1>1. Owed(response, heard, told, have)
    BY DEF Due
  <1> HIDE DEF told, heard
  <1>2. Taken(response, {}, heard, told) /\ heard \subseteq heard /\ told \subseteq told
    BY DEF Taken
  <1>3. Owed(response, heard, told, have2)
    BY <1>1, <1>2, OwedKept
  <1> QED
    BY <1>3 DEF told, heard

\* Before the end of the header there is nothing but header lines.
LEMMA HeaderOnly ==
    ASSUME NEW r \in Responses, NEW buf \in Seq(Units(r)), Linked(r, buf),
           NEW at \in 1 .. Len(buf), buf[at].kind = "end"
    PROVE  \A i \in 1 .. at : ~ Owable(buf[i])
  <1> DEFINE Plain(u) == u.kind \in {"header", "end"}
             K == { k \in Nat : k < at => Plain(buf[at - k]) }
  <1>1. Len(buf) \in Nat /\ \A i \in 1 .. Len(buf) : buf[i] \in Units(r)
    BY LenProperties, ElementOfSeq
  <1>2. 0 \in K
    BY <1>1
  <1>3. \A u \in Units(r) : \A v \in Follow(r, u) : Plain(v) => Plain(u)
    <2> SUFFICES ASSUME NEW u \in Units(r), NEW v \in Follow(r, u), ~ Plain(u)
                 PROVE  ~ Plain(v)
      OBVIOUS
    <2>1. v \in Ahead(r, Behind(r, u))
      BY DEF Follow
    <2> DEFINE c == Behind(r, u)
    <2> HIDE DEF c
    <2>2. \/ v = Unit("meta", c.of, c.at + 1)
          \/ v = Unit("audio", c.of, c.at + 1)
          \/ v = Unit("len", c.of, r.blocks[c.of])
      BY <2>1 DEF Ahead, c
    <2> QED
      BY <2>2 DEF Unit
  <1>4. ASSUME NEW k \in Nat, k \in K
        PROVE  k + 1 \in K
    <2> SUFFICES ASSUME k + 1 < at
                 PROVE  Plain(buf[at - (k + 1)])
      OBVIOUS
    <2> DEFINE i == at - (k + 1)
    <2>1. i \in 1 .. Len(buf) - 1 /\ i + 1 = at - k /\ k < at /\ i \in 1 .. Len(buf)
      BY <1>1
    <2>2. Plain(buf[i + 1])
      BY <1>4, <2>1
    <2>3. buf[i + 1] \in Follow(r, buf[i])
      BY <2>1 DEF Linked
    <2> HIDE DEF i, Plain
    <2>4. Plain(buf[i])
      BY <1>1, <1>3, <2>1, <2>2, <2>3
    <2> QED
      BY <2>4 DEF i
  <1> HIDE DEF K
  <1>5. \A n \in Nat : n \in K
    BY <1>2, <1>4, Induction
  <1> QED
    <2> SUFFICES ASSUME NEW i \in 1 .. at
                 PROVE  ~ Owable(buf[i])
      OBVIOUS
    <2>1. at - i \in Nat /\ at - i < at /\ at - (at - i) = i
      BY <1>1
    <2>2. Plain(buf[i])
      <3>1. at - i \in K
        BY <1>5, <2>1
      <3> QED
        BY <2>1, <3>1 DEF K
    <2> QED
      BY <2>2 DEF Owable

\* Nothing on the wire is owed but what a read brings and what it leaves there.
LEMMA WireHas ==
    ASSUME NEW r, NEW size, NEW x, IsRead(r, x, size)
    PROVE  \A u \in ToSet(wire) : Owable(u) => u \in ToSet(x.units) \cup ToSet(x.rest)
  <1> DEFINE S == OnWire(r)
             p == x.units
             v == x.rest
             a == p \o v
  <1>1. PICK q \in Seq(S) : wire = q \o a /\ \A i \in 1 .. Len(q) : q[i] = Ticket
    BY DEF IsRead
  <1>2. p \in Seq(S) /\ v \in Seq(S)
    BY OnWireIs DEF IsRead
  <1> HIDE DEF S, p, v
  <1>3. a \in Seq(S) /\ ToSet(a) = ToSet(p) \cup ToSet(v)
    BY <1>2, ElementsOfConcat, ConcatProperties
  <1> HIDE DEF a
  <1>4. ToSet(wire) = ToSet(q) \cup ToSet(a)
    BY <1>1, <1>3, ElementsOfConcat
  <1>5. ASSUME NEW u \in ToSet(q)
        PROVE  ~ Owable(u)
    <2>1. PICK i \in 1 .. Len(q) : u = q[i]
      BY ElementsOf
    <2> QED
      BY <1>1, <2>1 DEF Owable, Ticket, Unit
  <1> QED
    BY <1>3, <1>4, <1>5 DEF p, v

\* A read that brings nothing, of a connection nobody has shut down or closed:
\* there is nothing, and only the server can have ended it.
LEMMA NothingRead ==
    ASSUME NEW size, NEW x \in Reads(size), x.result # "Data", fd = "up"
    PROVE  x.rest = << >> /\ x.result \in {"Timeout", "Eof", "Error"}
           /\ (x.result # "Timeout" => peer # "up")
  <1> DEFINE w == Readable(wire)
             p == Piece(w, size)
             data == [result |-> "Data", units |-> p, rest |-> SubSeq(w, Len(p) + 1, Len(w))]
             none(end) == [result |-> end, units |-> << >>, rest |-> w]
  <1>1. x \in IF w # << >> /\ fd # "closed" THEN {data} ELSE {none(end) : end \in NoData}
    BY Zenon DEF Reads
  <1>2. /\ NoData \subseteq {"Timeout", "Eof", "Error"}
        /\ peer = "up" => NoData = {"Timeout"}
    BY DEF NoData
  <1> HIDE DEF w
  <1>3. data.result = "Data"
    OBVIOUS
  <1>4. w = << >> /\ x \in {none(end) : end \in NoData}
    BY <1>1, <1>3
  <1>5. PICK end \in NoData : x = none(end)
    BY <1>4
  <1>6. x.result = end /\ x.rest = w
    BY <1>5
  <1> QED
    BY <1>2, <1>4, <1>5, <1>6

\* Where nothing is read, sent or taken, nothing is lost.
LEMMA NothingMoves ==
    ASSUME NothingLost, UNCHANGED << response, wire, toSend, audio, blocks >>,
           call'.produced = call.produced,
           HeaderPhase' => HeaderPhase /\ header' = header,
           Live' => Live /\ leftover' = leftover,
           stopper' = "away" /\ Ended' => stopper = "away" /\ Ended
    PROVE  NothingLost'
  <1>1. Got' = Got /\ response' = response /\ blocks' = blocks
    BY DEF Got
  <1>2. HeaderPhase' => (Due(UnderWay(header)))'
    BY <1>1 DEF NothingLost, Due, UnderWay
  <1>3. Live' => (Due(UnderWay(leftover)))'
    BY <1>1 DEF NothingLost, Due, UnderWay
  <1>4. stopper' = "away" /\ Ended' => (Due(ToSet(toSend)))'
    BY <1>1 DEF NothingLost, Due
  <1> QED
    BY <1>2, <1>3, <1>4 DEF NothingLost

LEMMA SendLosesNothing ==
    ASSUME IInv, EInv, Send
    PROVE  EInv'
  <1> DEFINE S == OnWire(response)
             h == Head(toSend)
             l == Tail(toSend)
  <1>1. /\ toSend # << >> /\ peer = "up" /\ wire' = Append(wire, h) /\ toSend' = l
        /\ UNCHANGED << response, peer, reader, threads, pumping >>
    BY DEF Send
  <1>2. /\ fd' = fd /\ published' = published /\ header' = header /\ leftover' = leftover
        /\ opener' = opener /\ stopper' = stopper /\ stop' = stop
        /\ pump' = pump /\ call' = call /\ result' = result /\ audio' = audio /\ blocks' = blocks
        /\ response' = response /\ peer' = peer
    BY <1>1 DEF reader, threads, pumping
  <1>3. wire \in Seq(S) /\ toSend \in Seq(S)
    BY OnWireIs DEF IInv, Types
  <1>4. h \in S /\ ToSet(toSend) = {h} \cup ToSet(l)
    <2> HIDE DEF S
    <2> QED
      BY <1>1, <1>3, ElementsOf, HeadTailProperties
  <1> HIDE DEF S, h, l
  <1>5. ToSet(wire') = ToSet(wire) \cup {h}
    BY <1>1, <1>3, <1>4, ElementsOf
  <1>6. ToSet(wire') \cup ToSet(toSend') = ToSet(wire) \cup ToSet(toSend)
    BY <1>1, <1>4, <1>5
  <1>7. Undisturbed'
    BY <1>2 DEF EInv, Undisturbed, Ended
  <1>8. ~ (stopper = "away" /\ Ended)
    BY <1>1 DEF EInv, Undisturbed
  <1>9. (UnderWay(header))' = UnderWay(header) /\ (UnderWay(leftover))' = UnderWay(leftover)
    BY <1>2, <1>6 DEF UnderWay
  <1>10. NothingLost'
    BY <1>2, <1>8, <1>9 DEF EInv, NothingLost, Due, Got, Ended, HeaderPhase, Live
  <1> QED
    BY <1>7, <1>10 DEF EInv

LEMMA SendTicketLosesNothing ==
    ASSUME IInv, EInv, SendTicket
    PROVE  EInv'
  <1> DEFINE S == OnWire(response)
  <1>1. /\ wire' = Append(wire, Ticket)
        /\ UNCHANGED << response, toSend, peer, reader, threads, pumping >>
    BY DEF SendTicket, Ticket
  <1>2. /\ fd' = fd /\ published' = published /\ header' = header /\ leftover' = leftover
        /\ opener' = opener /\ stopper' = stopper /\ stop' = stop /\ toSend' = toSend
        /\ pump' = pump /\ call' = call /\ result' = result /\ audio' = audio /\ blocks' = blocks
        /\ response' = response /\ peer' = peer
    BY <1>1 DEF reader, threads, pumping
  <1>3. wire \in Seq(S) /\ Ticket \in S
    BY OnWireIs DEF IInv, Types
  <1> HIDE DEF S
  <1>4. ToSet(wire) \subseteq ToSet(wire')
    BY <1>1, <1>3, ElementsOf
  <1>5. Undisturbed'
    BY <1>2 DEF EInv, Undisturbed, Ended
  <1>6. /\ Carried(UnderWay(header), {}, UnderWay(header)')
        /\ Carried(UnderWay(leftover), {}, UnderWay(leftover)')
        /\ Got' = Got
    BY <1>2, <1>4 DEF UnderWay, Carried, Got
  <1>7. HeaderPhase' => (Due(UnderWay(header)))'
    <2>1. HeaderPhase' = HeaderPhase
      BY <1>2 DEF HeaderPhase
    <2>2. HeaderPhase => Owed(response', Got', ToSet(blocks'), UnderWay(header)')
      BY <1>2, <1>6, DueKept DEF EInv, NothingLost
    <2> QED
      BY <2>1, <2>2 DEF Due
  <1>8. Live' => (Due(UnderWay(leftover)))'
    <2>1. Live' = Live
      BY <1>2 DEF Live
    <2>2. Live => Owed(response', Got', ToSet(blocks'), UnderWay(leftover)')
      BY <1>2, <1>6, DueKept DEF EInv, NothingLost
    <2> QED
      BY <2>1, <2>2 DEF Due
  <1>9. stopper' = "away" /\ Ended' => (Due(ToSet(toSend)))'
    BY <1>2, <1>6 DEF EInv, NothingLost, Due, Ended
  <1> QED
    BY <1>5, <1>7, <1>8, <1>9 DEF EInv, NothingLost

LEMMA EndConnectionLosesNothing ==
    ASSUME IInv, EInv, NEW how \in {"fin", "rst"}, EndConnection(how)
    PROVE  EInv'
  <1>1. /\ peer' = how /\ how # "up"
        /\ UNCHANGED << response, toSend, wire, reader, threads, pumping >>
    BY DEF EndConnection
  <1>2. /\ fd' = fd /\ published' = published /\ header' = header /\ leftover' = leftover
        /\ opener' = opener /\ stopper' = stopper /\ stop' = stop
        /\ pump' = pump /\ call' = call /\ result' = result
    BY <1>1 DEF reader, threads, pumping
  <1>3. NothingLost'
    BY <1>1, <1>2, NothingMoves DEF EInv, HeaderPhase, Live, Ended, pumping
  <1>4. Undisturbed'
    BY <1>1, <1>2 DEF EInv, Undisturbed, Ended
  <1> QED
    BY <1>3, <1>4 DEF EInv

\* What resets the reader ends the stream, or comes before it.
LEMMA ResetLosesNothing ==
    ASSUME IInv, EInv, Reset, UNCHANGED << server, call, result, audio, blocks, stop >>,
           opener' \in {"open", "connect", "attach", "free", "failed"},
           opener' \in {"open", "connect"} => HeaderPhase /\ header = << >>,
           pump' = pump \/ (pump = "close" /\ pump' = "over"),
           stopper' = "away" => stopper = "away",
           opener' \in {"attach", "free"} /\ pump' # "over" => stopper' # "away"
    PROVE  EInv'
  <1>1. published' = FALSE /\ header' = << >> /\ ~Live'
    BY DEF Reset, Live
  <1>2. NothingLost'
    <2>1. HeaderPhase' => HeaderPhase /\ header' = header
      BY <1>1 DEF HeaderPhase
    <2> QED
      BY <1>1, <2>1, NothingMoves DEF EInv, Ended, server
  <1>3. Undisturbed'
    BY DEF EInv, Undisturbed, Ended, server
  <1> QED
    BY <1>2, <1>3 DEF EInv

LEMMA ResetsLoseNothing ==
    ASSUME IInv, EInv, Open \/ GiveUp \/ PumpClose \/ Close
    PROVE  EInv'
  <1>1. Types /\ Phases /\ TypeOK
    BY DEF IInv
  <1>2. CASE Open
    <2>1. HeaderPhase /\ header = << >>
      BY <1>1, <1>2 DEF Open, Phases, HeaderPhase
    <2> QED
      BY <1>2, <2>1, ResetLosesNothing DEF Open, pumping
  <1>3. CASE GiveUp
    BY <1>3, ResetLosesNothing DEF GiveUp, pumping
  <1>4. CASE PumpClose
    <2>1. opener = "free"
      BY <1>1, <1>4 DEF PumpClose, Phases
    <2> QED
      BY <1>4, <2>1, ResetLosesNothing DEF PumpClose, threads
  <1>5. CASE Close
    <2>1. /\ opener \in {"open", "attach", "free", "failed"}
          /\ opener = "open" => HeaderPhase /\ header = << >>
      BY <1>1, <1>5 DEF Close, Opening, TypeOK, Phases, HeaderPhase
    <2> QED
      BY <1>5, <2>1, ResetLosesNothing DEF Close, pumping
  <1> QED
    BY <1>2, <1>3, <1>4, <1>5

\* A connection that is being opened has nothing yet to lose.
LEMMA ConnectsLoseNothing ==
    ASSUME IInv, EInv,
           SendRequest \/ \E ok \in BOOLEAN : ConnectTcp(ok) \/ Handshake(ok)
    PROVE  EInv'
  <1>1. CASE GiveUp
    BY <1>1, ResetsLoseNothing
  <1>2. CASE ~GiveUp
    <2> DEFINE Connects ==
                 /\ UNCHANGED << server, header, leftover, icy, stopper, stop, pumping >>
                 /\ opener \in {"connect", "handshake", "send"}
                 /\ opener' \in {"handshake", "send", "header", "failed"}
                 /\ opener' \in {"send", "header"} => fd' = "up"
    <2>1. Connects
      <3>1. CASE SendRequest
        BY <1>2, <3>1 DEF SendRequest, reader
      <3>2. ASSUME NEW ok \in BOOLEAN, ConnectTcp(ok)
            PROVE  Connects
        BY <3>2 DEF ConnectTcp
      <3>3. ASSUME NEW ok \in BOOLEAN, Handshake(ok)
            PROVE  Connects
        BY <3>3 DEF Handshake, IInv, Phases
      <3> QED
        BY <3>1, <3>2, <3>3
    <2>2. NothingLost'
      <3>1. (HeaderPhase' => HeaderPhase /\ header' = header) /\ ~Live'
        BY <2>1 DEF HeaderPhase, Live
      <3> QED
        BY <2>1, <3>1, NothingMoves DEF EInv, Ended, server, pumping
    <2>3. Undisturbed'
      BY <2>1 DEF EInv, Undisturbed, Ended, server, pumping
    <2> QED
      BY <2>2, <2>3 DEF EInv
  <1> QED
    BY <1>1, <1>2

\* The steps of the threads between those that read and those that reset.
LEMMA MovesLoseNothing ==
    ASSUME IInv, EInv,
           StartPump \/ Register \/ BeginRead \/ EndRun \/ Shutdown \/ Interrupt \/ Join
    PROVE  EInv'
  <1>1. TypeOK /\ Phases
    BY DEF IInv
  <1>2. /\ UNCHANGED << server, published, header, leftover, icy, result, audio, blocks >>
        /\ call'.produced = call.produced
        /\ opener' = opener \/ (opener = "attach" /\ opener' = "free")
        /\ stopper' = "away" => stopper = "away" /\ fd' = fd /\ ~stop'
    <2>1. CASE StartPump
      BY <2>1 DEF StartPump, reader
    <2>2. CASE Register
      <3>1. stopper = "away" => ~stop
        BY DEF EInv, Undisturbed
      <3> QED
        BY <2>2, <3>1 DEF Register, threads
    <2>3. CASE BeginRead
      <3>1. call' = call
        BY <1>1, <2>3 DEF BeginRead, Phases
      <3> QED
        BY <2>3, <3>1 DEF BeginRead, threads, reader, EInv, Undisturbed
    <2>4. CASE EndRun
      BY <2>4 DEF EndRun, threads, reader, EInv, Undisturbed
    <2>5. CASE Shutdown
      BY <2>5 DEF Shutdown, reader, pumping
    <2>6. CASE Interrupt
      BY <2>6 DEF Interrupt, pumping
    <2>7. CASE Join
      BY <2>7 DEF Join, reader, pumping
    <2> QED
      BY <2>1, <2>2, <2>3, <2>4, <2>5, <2>6, <2>7
  <1>3. NothingLost'
    BY <1>2, NothingMoves DEF EInv, HeaderPhase, Live, Ended, server
  <1>4. Undisturbed'
    <2>1. /\ pump' \in {"none", "start"} => pump \in {"none", "start"}
          /\ pump' \in {"pull", "recv"} => ~Ended
          /\ pump' # "over" => pump # "over"
      BY <1>1 DEF StartPump, Register, BeginRead, EndRun, Shutdown, Interrupt, Join, pumping,
                  EInv, Undisturbed, Ended, Phases
    <2> QED
      BY <1>2, <2>1 DEF EInv, Undisturbed, Ended, server
  <1> QED
    BY <1>3, <1>4 DEF EInv

\* A piece that is taken: what is left under way, and what is taken, is all
\* there was.
LEMMA TakenLosesNothing ==
    ASSUME IInv, EInv, Live, pump \in {"pull", "recv"}, NEW p, NEW part, Take(part, p), Fed(p),
           UNCHANGED << response, toSend, peer, fd, published, threads >>,
           Carried(UnderWay(leftover), ToSet(p), UnderWay(leftover)')
    PROVE  EInv'
  <1>1. opener = "free" /\ opener' = opener /\ stop' = stop /\ stopper' = stopper
    BY DEF IInv, Phases, threads
  <1>2. /\ pump' \in {"pull", "loop"} /\ ~Ended
        /\ result' = "Data" \/ result' = result
    <2>1. ~Ended
      BY DEF EInv, Undisturbed
    <2> DEFINE produced == IF part = "audio" THEN call.produced \o p ELSE call.produced
    <2>2. IF Len(produced) = BufferSize
          THEN Return(produced, "Data")
          ELSE /\ pump' = "pull" /\ call' = [NoCall EXCEPT !.produced = produced]
               /\ UNCHANGED << result, audio >>
      BY Zenon DEF Take
    <2> HIDE DEF produced
    <2>3. \/ Return(produced, "Data")
          \/ pump' = "pull" /\ result' = result
      BY <2>2
    <2> QED
      BY <2>1, <2>3 DEF Return
  <1>3. ~Ended'
    BY <1>2 DEF Ended
  <1>4. Live' => (Due(UnderWay(leftover)))'
    <2>1. Due(UnderWay(leftover))
      BY DEF EInv, NothingLost
    <2>2. Owed(response', Got', ToSet(blocks'), UnderWay(leftover)')
      BY <2>1, DueFed
    <2> QED
      BY <2>2 DEF Due
  <1>5. NothingLost'
    BY <1>1, <1>3, <1>4 DEF NothingLost, HeaderPhase
  <1>6. Undisturbed'
    BY <1>1, <1>2, <1>3 DEF EInv, Undisturbed
  <1> QED
    BY <1>5, <1>6 DEF EInv

LEMMA PullLosesNothing ==
    ASSUME IInv, EInv, Pull
    PROVE  EInv'
  <1> DEFINE n == Smaller(Len(leftover), Want(call.produced))
             p == SubSeq(leftover, 1, n)
  <1>1. /\ pump = "pull"
        /\ \/ /\ leftover # << >>
              /\ leftover' = Erased(n) /\ Take(Part, p)
              /\ UNCHANGED << server, fd, published, header, threads >>
           \/ /\ ~published /\ Return(call.produced, "Closed")
              /\ UNCHANGED << server, reader, threads, blocks >>
           \/ /\ pump' = "recv" /\ Asks(call', Part, Want(call.produced))
              /\ UNCHANGED << server, reader, threads, result, audio, blocks >>
    BY Zenon DEF Pull, Asks
  <1>2. opener = "free" /\ Phases
    BY <1>1 DEF IInv, Phases
  <1>3. CASE /\ leftover # << >>
             /\ leftover' = Erased(n) /\ Take(Part, p)
             /\ UNCHANGED << server, fd, published, header, threads >>
    <2>1. Live
      BY <1>2, <1>3 DEF Phases
    <2>2. Fed(p) /\ ToSet(leftover) = ToSet(p) \cup ToSet(leftover')
      <3> HIDE DEF n
      <3>1. n = Smaller(Len(leftover), Want(call.produced))
        BY DEF n
      <3> QED
        BY <1>1, <1>3, <3>1, LeftoverPulled
    <2> HIDE DEF p, n
    <2>3. Carried(UnderWay(leftover), ToSet(p), UnderWay(leftover)')
      BY <1>3, <2>2 DEF Carried, UnderWay, server
    <2>4. UNCHANGED << response, toSend, peer, fd, published, threads >>
      BY <1>3 DEF server
    <2> QED
      BY <1>1, <1>3, <2>1, <2>2, <2>3, <2>4, TakenLosesNothing
  <1>4. CASE /\ ~published /\ Return(call.produced, "Closed")
             /\ UNCHANGED << server, reader, threads, blocks >>
    <2>1. /\ opener' = opener /\ stopper' = stopper /\ stop' = stop /\ ~published'
          /\ pump' = "loop"
      BY <1>4 DEF Return, reader, threads
    <2>2. stopper # "away"
      BY <1>1, <1>2, <1>4 DEF EInv, Undisturbed
    <2> QED
      BY <1>2, <2>1, <2>2 DEF EInv, NothingLost, Undisturbed, HeaderPhase, Live
  <1>5. CASE /\ pump' = "recv" /\ Asks(call', Part, Want(call.produced))
             /\ UNCHANGED << server, reader, threads, result, audio, blocks >>
    <2>1. call'.produced = call.produced
      BY <1>5 DEF Asks
    <2>2. NothingLost'
      BY <1>5, <2>1, NothingMoves
         DEF EInv, HeaderPhase, Live, Ended, server, reader, threads
    <2>3. Undisturbed'
      BY <1>1, <1>5 DEF EInv, Undisturbed, Ended, server, reader, threads
    <2> QED
      BY <2>2, <2>3 DEF EInv
  <1> QED
    BY <1>1, <1>3, <1>4, <1>5

LEMMA RecvLosesNothing ==
    ASSUME IInv, EInv, NEW x \in Reads(call.want), Recv(x)
    PROVE  EInv'
  <1> DEFINE p == x.units
  <1>1. /\ pump = "recv" /\ wire' = x.rest
        /\ UNCHANGED << response, toSend, peer, fd, published, leftover, threads >>
        /\ \/ x.result = "Data" /\ Take(call.part, p)
           \/ /\ x.result # "Data" /\ Return(call.produced, OutcomeOf(x.result))
              /\ blocks' = blocks
    BY Zenon DEF Recv
  <1>2. /\ opener = "free" /\ leftover = << >> /\ (published \/ fd = "closed")
        /\ call.produced \in Seq(Units(response)) /\ audio \in Seq(Units(response))
    BY <1>1 DEF IInv, Phases, Types, CallOf
  <1>3. IsRead(response, x, call.want) /\ (x.result = "Data" => Fed(p))
    BY RecvKeeps
  <1>4. Carried(UnderWay(leftover), ToSet(p), UnderWay(leftover)')
    <2>1. \A u \in ToSet(wire) : Owable(u) => u \in ToSet(p) \cup ToSet(x.rest)
      BY <1>3, WireHas
    <2> HIDE DEF p
    <2> QED
      BY <1>1, <2>1 DEF Carried, UnderWay
  <1>5. CASE x.result = "Data" /\ Take(call.part, p)
    <2>1. Live
      BY <1>2, <1>3, <1>5 DEF IsRead, Live
    <2> HIDE DEF p
    <2> QED
      BY <1>1, <1>3, <1>4, <1>5, <2>1, TakenLosesNothing
  <1>6. CASE /\ x.result # "Data" /\ Return(call.produced, OutcomeOf(x.result))
             /\ blocks' = blocks
    <2>1. /\ opener' = opener /\ stopper' = stopper /\ stop' = stop /\ pump' = "loop"
          /\ response' = response /\ Live' = Live /\ ~HeaderPhase'
      BY <1>1, <1>2, <1>6 DEF Return, threads, Live, HeaderPhase
    <2>2. Got' = Got
      <3> DEFINE S == Units(response)
                 old == call.produced
      <3>1. audio \in Seq(S) /\ old \in Seq(S)
        BY <1>2
      <3>2. audio' = audio \o old /\ call' = NoCall
        BY <1>6 DEF Return
      <3> HIDE DEF S, old
      <3>3. ToSet(audio') = ToSet(audio) \cup ToSet(old) /\ ToSet(<< >>) = {}
        BY <3>1, <3>2, ElementsOfConcat, ElementsOf
      <3>4. call'.produced = << >>
        BY <3>2 DEF NoCall
      <3> QED
        BY <3>3, <3>4 DEF Got, old
    <2>3. ToSet(p) = {}
      <3>1. p = << >> /\ p \in Seq(Units(response))
        BY <1>3, <1>6 DEF IsRead
      <3> QED
        BY <3>1, ElementsOf
    <2>4. Live' => (Due(UnderWay(leftover)))'
      <3>1. Carried(UnderWay(leftover), {}, UnderWay(leftover)')
        BY <1>4, <2>3
      <3>2. Live => Owed(response', Got', ToSet(blocks'), UnderWay(leftover)')
        BY <1>6, <2>1, <2>2, <3>1, DueKept DEF EInv, NothingLost
      <3> QED
        BY <2>1, <3>2 DEF Due
    <2>5. ASSUME stopper' = "away", Ended'
          PROVE  peer' # "up" /\ (Due(ToSet(toSend)))'
      <3>1. fd = "up" /\ Live
        BY <1>1, <1>2, <2>1, <2>5 DEF EInv, Undisturbed, Live
      <3>2. x.rest = << >> /\ x.result \in {"Timeout", "Eof", "Error"}
            /\ (x.result # "Timeout" => peer # "up")
        BY <1>6, <3>1, NothingRead
      <3>3. x.result # "Timeout"
        BY <1>6, <2>5 DEF Return, OutcomeOf, Ended
      <3>4. Carried(UnderWay(leftover), {}, ToSet(toSend'))
        <4>1. ToSet(wire') = {} /\ ToSet(leftover') = {}
          BY <1>1, <1>2, <3>2, ElementsOf
        <4> QED
          BY <1>4, <2>3, <4>1 DEF UnderWay, Carried
      <3>5. Owed(response', Got', ToSet(blocks'), ToSet(toSend'))
        BY <1>6, <2>1, <2>2, <3>1, <3>4, DueKept DEF EInv, NothingLost
      <3> QED
        BY <1>1, <3>2, <3>3, <3>5 DEF Due
    <2>6. NothingLost'
      BY <2>1, <2>4, <2>5 DEF NothingLost
    <2>7. Undisturbed'
      BY <1>1, <1>2, <2>1, <2>5 DEF EInv, Undisturbed
    <2> QED
      BY <2>6, <2>7 DEF EInv
  <1> QED
    BY <1>1, <1>5, <1>6

LEMMA ReadHeaderLosesNothing ==
    ASSUME IInv, EInv, ReadHeader
    PROVE  EInv'
  <1> DEFINE r == response
             buf(x) == header \o x.units
             at(x)  == SelectInSeq(buf(x), LAMBDA u : u.kind = "end")
             Read(x) == /\ IsRead(r, x, HeaderChunk) /\ wire' = x.rest
                        /\ buf(x) \in Seq(Units(r)) /\ x.rest \o toSend \in Seq(OnWire(r))
                        /\ Ordered(r, buf(x) \o (x.rest \o toSend))
             Then(x) == \/ at(x) # 0 /\ HeaderComplete(buf(x), at(x))
                        \/ /\ header' = buf(x)
                           /\ UNCHANGED << fd, published, leftover, icy, opener >>
                        \/ opener' = "failed" /\ Reset
  <1>1. /\ opener = "header" /\ pump = "none" /\ published
        /\ response' = response /\ toSend' = toSend
        /\ peer' = peer /\ stopper' = stopper /\ stop' = stop
        /\ pump' = pump /\ call' = call /\ audio' = audio /\ blocks' = blocks /\ result' = result
        /\ \E x \in Reads(HeaderChunk) : Read(x) /\ Then(x)
    BY HeaderRead, Zenon
  <1>2. PICK x \in Reads(HeaderChunk) : Read(x) /\ Then(x)
    BY <1>1
  <1> HIDE DEF Then
  <1>3. /\ r \in Responses /\ header \in Seq(Units(r)) /\ x.units \in Seq(Units(r))
        /\ Due(UnderWay(header))
    <2>1. HeaderPhase
      BY <1>1 DEF HeaderPhase
    <2> QED
      BY <1>2, <2>1 DEF IInv, TypeOK, Types, IsRead, EInv, NothingLost
  <1>4. ToSet(buf(x)) = ToSet(header) \cup ToSet(x.units)
    <2> DEFINE S == Units(r)
               p == x.units
    <2>1. header \in Seq(S) /\ p \in Seq(S)
      BY <1>3
    <2> HIDE DEF S, p
    <2>2. ToSet(header \o p) = ToSet(header) \cup ToSet(p)
      BY <2>1, ElementsOfConcat
    <2> QED
      BY <2>2 DEF p
  <1>5. ~Ended /\ ~Ended'
    <2>1. result = "none"
      BY <1>1 DEF EInv, Undisturbed
    <2> QED
      BY <1>1, <2>1 DEF Ended
  \* The part of what is read that is kept has all that is owed.
  <1>6. ASSUME NEW s, \A u \in ToSet(buf(x)) : Owable(u) => u \in s
        PROVE  Owed(response', Got', ToSet(blocks'), (s \cup ToSet(wire')) \cup ToSet(toSend'))
    <2> DEFINE have2 == (s \cup ToSet(wire')) \cup ToSet(toSend')
    <2>1. \A u \in ToSet(wire) : Owable(u) => u \in ToSet(x.units) \cup ToSet(x.rest)
      BY <1>2, WireHas
    <2>2. Carried(UnderWay(header), {}, have2)
      <3> HIDE DEF buf
      <3> QED
        BY <1>1, <1>2, <1>4, <1>6, <2>1 DEF Carried, UnderWay
    <2>3. Got' = Got
      BY <1>1 DEF Got
    <2> HIDE DEF have2
    <2>4. Owed(response', Got', ToSet(blocks'), have2)
      BY <1>1, <1>3, <2>2, <2>3, DueKept
    <2> QED
      BY <2>4 DEF have2
  <1>7. CASE at(x) # 0 /\ HeaderComplete(buf(x), at(x))
    <2> DEFINE b == buf(x)
               n == at(x)
               l == SubSeq(b, n + 1, Len(b))
               h == SubSeq(b, 1, n)
               t == x.rest \o toSend
               S == OnWire(r)
    <2>1. leftover' = l /\ opener' = "attach" /\ fd' = fd /\ published' = published
      BY <1>7 DEF HeaderComplete
    <2>2. n \in 1 .. Len(b) /\ b[n].kind = "end"
      BY <1>2, <1>7, EndIsAt
    <2> HIDE DEF n
    <2>3. b \in Seq(Units(r)) /\ t \in Seq(S) /\ b \in Seq(S) /\ Ordered(r, b \o t)
      BY <1>2, OnWireIs
    <2> HIDE DEF b, t, S
    <2>4. Len(b) \in Nat /\ Len(b) > 0 /\ n \in 0 .. Len(b)
      BY <2>2, <2>3, LenProperties
    <2>5. Linked(r, b)
      <3>1. \A i \in 1 .. Len(b) : b[i] # Ticket
        BY <2>3, ElementOfSeq, UnitsAreNoTickets
      <3> QED
        BY <2>3, <2>4, <3>1, PieceInOrder
    <2>6. \A i \in 1 .. n : ~ Owable(b[i])
      BY <1>3, <2>2, <2>3, <2>5, HeaderOnly
    <2>7. /\ h \in Seq(Units(r)) /\ l \in Seq(Units(r)) /\ b = h \o l /\ Len(h) = n
          /\ \A i \in 1 .. n : h[i] = b[i]
      BY <2>3, <2>4, CutInTwo, ZenonT(120)
    <2> HIDE DEF h, l
    <2>8. ToSet(b) = ToSet(h) \cup ToSet(l)
      BY <2>7, ElementsOfConcat
    <2>9. \A u \in ToSet(b) : Owable(u) => u \in ToSet(l)
      <3>1. ASSUME NEW u \in ToSet(h)
            PROVE  ~ Owable(u)
        <4>1. PICK i \in 1 .. n : u = h[i]
          BY <2>7, ElementsOf
        <4> QED
          BY <2>6, <2>7, <4>1
      <3> QED
        BY <2>8, <3>1
    <2>10. Owed(response', Got', ToSet(blocks'), (ToSet(l) \cup ToSet(wire')) \cup ToSet(toSend'))
      BY <1>6, <2>9 DEF b
    <2>11. (Due(UnderWay(leftover)))'
      BY <2>1, <2>10 DEF Due, UnderWay
    <2>12. NothingLost'
      BY <1>5, <2>1, <2>11 DEF NothingLost, HeaderPhase
    <2>13. Undisturbed'
      BY <1>1, <1>5, <2>1 DEF EInv, Undisturbed
    <2> QED
      BY <2>12, <2>13 DEF EInv
  <1>8. CASE header' = buf(x) /\ UNCHANGED << fd, published, leftover, icy, opener >>
    <2>1. (Due(UnderWay(header)))'
      <3> HIDE DEF buf
      <3>1. Owed(response', Got', ToSet(blocks'),
                 (ToSet(buf(x)) \cup ToSet(wire')) \cup ToSet(toSend'))
        BY <1>6
      <3> QED
        BY <1>8, <3>1 DEF Due, UnderWay
    <2>2. NothingLost'
      BY <1>1, <1>5, <1>8, <2>1 DEF NothingLost, Live
    <2>3. Undisturbed'
      BY <1>1, <1>5, <1>8 DEF EInv, Undisturbed
    <2> QED
      BY <2>2, <2>3 DEF EInv
  <1>9. CASE opener' = "failed" /\ Reset
    <2>1. NothingLost'
      BY <1>5, <1>9 DEF NothingLost, HeaderPhase, Live
    <2>2. Undisturbed'
      BY <1>1, <1>5, <1>9 DEF EInv, Undisturbed
    <2> QED
      BY <2>1, <2>2 DEF EInv
  <1> QED
    BY <1>2, <1>7, <1>8, <1>9 DEF Then

LEMMA InitEInv ==
    ASSUME Init
    PROVE  EInv
  <1> DEFINE r == response
             a == Answer(r)
  <1>1. /\ r \in Responses /\ toSend = a /\ peer = "up" /\ fd = "none" /\ published = FALSE
        /\ opener = "open" /\ pump = "none" /\ result = "none" /\ stopper = "away" /\ stop = FALSE
    BY DEF Init
  <1>2. Undisturbed
    BY <1>1 DEF Undisturbed, Ended
  <1>3. /\ \A u \in Units(r) : u.kind = "audio" => u \in ToSet(a)
        /\ \A b \in 1 .. Rounds(r) : r.blocks[b] # 0 =>
                Unit("meta", b, r.blocks[b]) \in ToSet(a)
    BY <1>1, AnswerHas
  <1> HIDE DEF a
  <1>4. ToSet(a) \subseteq UnderWay(header)
    BY <1>1 DEF UnderWay
  <1>5. Due(UnderWay(header))
    BY <1>3, <1>4 DEF Due, Owed
  <1> QED
    BY <1>1, <1>2, <1>5 DEF EInv, NothingLost, Live, Ended

LEMMA StepEInv ==
    ASSUME IInv, EInv, [Next]_vars
    PROVE  EInv'
  <1>1. CASE Server
    BY <1>1, SendLosesNothing, SendTicketLosesNothing, EndConnectionLosesNothing DEF Server
  <1>2. CASE Opener
    <2>1. CASE HeaderLate
      BY <2>1, ResetsLoseNothing DEF HeaderLate
    <2>2. CASE Open
      BY <2>2, ResetsLoseNothing
    <2>3. CASE ReadHeader
      BY <2>3, ReadHeaderLosesNothing
    <2>4. CASE SendRequest \/ \E ok \in BOOLEAN : ConnectTcp(ok) \/ Handshake(ok)
      BY <2>4, ConnectsLoseNothing
    <2> QED
      BY <1>2, <2>1, <2>2, <2>3, <2>4 DEF Opener
  <1>3. ASSUME NEW results, RecvWithin(results)
        PROVE  EInv'
    BY <1>3, RecvLosesNothing DEF RecvWithin
  <1>4. CASE Pump
    BY <1>3, <1>4, MovesLoseNothing, PullLosesNothing, ResetsLoseNothing DEF Pump
  <1>5. CASE Stopper
    BY <1>5, MovesLoseNothing, ResetsLoseNothing DEF Stopper
  <1>6. CASE DropTrack
    BY <1>6, ResetsLoseNothing DEF DropTrack
  <1>7. CASE UNCHANGED vars
    <2>1. /\ UNCHANGED << server, published, header, leftover, call, result, audio, blocks >>
          /\ fd' = fd /\ opener' = opener /\ pump' = pump /\ stopper' = stopper /\ stop' = stop
      BY <1>7 DEF vars, reader, threads, pumping
    <2>2. NothingLost'
      BY <2>1, NothingMoves DEF EInv, HeaderPhase, Live, Ended, server
    <2>3. Undisturbed'
      BY <2>1 DEF EInv, Undisturbed, Ended, server
    <2> QED
      BY <2>2, <2>3 DEF EInv
  <1> QED
    BY <1>1, <1>2, <1>3, <1>4, <1>5, <1>6, <1>7, MovesLoseNothing DEF Next

\* The audio that AudioIn() lists is the audio of the body.
LEMMA AudioInIs ==
    ASSUME NEW r \in Responses
    PROVE  \A u \in ToSet(AudioIn(r)) : u \in Units(r) /\ u.kind = "audio"
  <1> DEFINE A == { u \in Units(r) : u.kind = "audio" }
             seqs == AudioOfRounds(r)
             t == Run("audio", 0, r.tail)
  <1>1. /\ Rounds(r) \in Nat /\ r.metaint \in Nat /\ r.tail \in Nat
        /\ Interval(r, 0) = r.tail
        /\ \A b \in 1 .. Rounds(r) : Interval(r, b) = r.metaint
    BY ResponseIs DEF Interval
  <1>2. \A b \in 0 .. Rounds(r) : \A i \in 1 .. Interval(r, b) : Unit("audio", b, i) \in A
    BY UnitsOf DEF Unit
  <1>3. \A b \in 0 .. Rounds(r) : Run("audio", b, Interval(r, b)) \in Seq(A)
    <2> HIDE DEF A
    <2>1. \A b \in 0 .. Rounds(r) : Interval(r, b) \in Nat
      BY ResponseIs
    <2> QED
      BY <1>2, <2>1, RunIs
  <1>4. t \in Seq(A) /\ \A b \in 1 .. Rounds(r) : seqs[b] \in Seq(A)
    <2>1. 0 \in 0 .. Rounds(r) /\ \A b \in 1 .. Rounds(r) : b \in 0 .. Rounds(r)
      BY <1>1
    <2>2. \A b \in 1 .. Rounds(r) : seqs[b] = Run("audio", b, r.metaint)
      BY RoundsHave
    <2> HIDE DEF A, seqs
    <2> QED
      BY <1>1, <1>3, <2>1, <2>2
  <1>5. seqs \in Seq(Seq(A))
    <2> DEFINE T == Seq(A)
    <2>1. Len(seqs) = Rounds(r) /\ seqs = [b \in 1 .. Rounds(r) |-> seqs[b]]
      <3>1. DOMAIN r.blocks = 1 .. Rounds(r)
        BY ResponseIs
      <3> QED
        BY <3>1, RoundsHave DEF AudioOfRounds
    <2>2. \A b \in 1 .. Rounds(r) : seqs[b] \in T
      BY <1>4
    <2> HIDE DEF T, seqs
    <2>3. seqs \in Seq(T)
      BY <1>1, <2>1, <2>2
    <2> QED
      BY <2>3 DEF T
  <1> HIDE DEF A, seqs, t
  <1>6. Flattened(seqs, Len(seqs)) \in Seq(A) /\ FlattenSeq(seqs) = Flattened(seqs, Len(seqs))
    <2>1. Len(seqs) \in Nat /\ Len(seqs) \in 0 .. Len(seqs)
      BY <1>5, LenProperties
    <2> QED
      BY <1>5, <2>1, FlattenedGrows
  <1> DEFINE f == FlattenSeq(seqs)
  <1>7. f \in Seq(A) /\ AudioIn(r) = f \o t
    BY <1>6 DEF AudioIn, AudioOfRounds, seqs, t
  <1> HIDE DEF f
  <1>8. f \o t \in Seq(A)
    BY <1>4, <1>7, ConcatProperties
  <1> DEFINE s == f \o t
  <1>9. s \in Seq(A) /\ AudioIn(r) = s
    BY <1>7, <1>8
  <1> HIDE DEF s
  <1>10. ToSet(AudioIn(r)) \subseteq A
    BY <1>9, ElementsOf
  <1> QED
    BY <1>10 DEF A

LEMMA CompleteAtEnd ==
    ASSUME IInv, EInv
    PROVE  EndIsComplete
  <1> DEFINE r == response
  <1> SUFFICES ASSUME Ended, stopper = "away"
               PROVE  /\ ToSet(AudioIn(r)) \subseteq ToSet(audio) \cup ToSet(toSend)
                      /\ \A b \in DOMAIN r.blocks : r.blocks[b] # 0 =>
                            \/ Run("meta", b, r.blocks[b]) \in ToSet(blocks)
                            \/ Unit("meta", b, r.blocks[b]) \in ToSet(toSend)
    BY DEF EndIsComplete, Ended
  <1>1. r \in Responses /\ Due(ToSet(toSend))
    BY DEF IInv, TypeOK, EInv, NothingLost
  <1>2. Got = ToSet(audio)
    <2>1. call = NoCall
      BY DEF EInv, Undisturbed, IInv, Phases
    <2>2. ToSet(<< >>) = {}
      BY DEF ToSet
    <2> QED
      BY <2>1, <2>2 DEF Got, NoCall
  <1>3. \A u \in Units(r) : u.kind = "audio" => u \in ToSet(audio) \cup ToSet(toSend)
    BY <1>1, <1>2 DEF Due, Owed
  <1>4. \A b \in 1 .. Rounds(r) : r.blocks[b] # 0 =>
            \/ Run("meta", b, r.blocks[b]) \in ToSet(blocks)
            \/ Unit("meta", b, r.blocks[b]) \in ToSet(toSend)
    BY <1>1 DEF Due, Owed
  <1>5. DOMAIN r.blocks = 1 .. Rounds(r)
    BY <1>1, ResponseIs
  <1>6. ToSet(AudioIn(r)) \subseteq ToSet(audio) \cup ToSet(toSend)
    BY <1>1, <1>3, AudioInIs
  <1> QED
    BY <1>4, <1>5, <1>6

-----------------------------------------------------------------------------
(* The theorems.                                                            *)

LEMMA InitInv ==
    ASSUME Init
    PROVE  IInv
  <1> DEFINE r == response
             d == RoundAfter(r, 0)
  <1>1. /\ r \in Responses /\ tls \in BOOLEAN
        /\ toSend = Answer(r) /\ wire = << >> /\ tickets = 0 /\ peer = "up"
        /\ fd = "none" /\ published = FALSE
        /\ header = << >> /\ leftover = << >> /\ icy = NoIcy
        /\ opener = "open" /\ pump = "none" /\ call = NoCall
        /\ stopper = "away" /\ handle = FALSE /\ stop = FALSE
        /\ audio = << >> /\ blocks = << >>
    BY DEF Init
  <1>2. /\ << >> \in Seq(Units(r)) /\ << >> \in Seq(OnWire(r)) /\ Len(<< >>) = 0
    BY EmptySeq
  <1>3. Answer(r) \in Seq(Units(r)) /\ Ordered(r, Answer(r))
    BY <1>1, AnswerInOrder
  <1>4. call \in CallOf(Units(r)) /\ call.produced = << >> /\ Len(call.produced) < BufferSize
    <2>1. BufferSize \in Nat /\ BufferSize # 0
      BY SizesAssumption
    <2> QED
      BY <1>1, <1>2, <2>1, NoCallIs
  <1>5. Types
    BY <1>1, <1>2, <1>3, <1>4, SizesAssumption DEF Types
  <1>6. TypeOK
    <2>1. icy.bytesLeft \in Nat /\ icy.countdown \in 0 .. icy.interval
      BY <1>1 DEF NoIcy
    <2>2. Len(wire) <= WireSize + MaxTickets
      BY <1>1, <1>2, SizesAssumption
    <2> QED
      BY <1>1, <1>4, <2>1, <2>2 DEF TypeOK
  <1>7. Phases
    BY <1>1 DEF Phases
  <1>8. Asked
    BY <1>1 DEF Asked
  <1>9. InOrder
    <2>1. Ordered(r, header \o (wire \o toSend))
      <3>1. << >> \o toSend = toSend
        BY <1>1, <1>3, ConcatEmptySeq
      <3> QED
        BY <1>1, <1>3, <3>1
    <2>2. ~Live
      BY <1>1 DEF Live
    <2>3. d \in Cursors(r) /\ Heard(r, d) = << >> /\ Told(r, d) = << >>
      <3>1. 0 \in 0 .. Rounds(r)
        BY <1>1, ResponseIs
      <3> QED
        BY <1>1, <3>1, AtRound DEF Flattened
    <2>4. audio \o call.produced = << >>
      BY <1>1, <1>2, <1>4, ConcatEmptySeq
    <2> HIDE DEF d
    <2>5. audio \o call.produced = Heard(r, d) /\ blocks = Told(r, d)
      BY <1>1, <2>3, <2>4
    <2> QED
      BY <2>1, <2>2, <2>3, <2>5 DEF InOrder
  <1> QED
    BY <1>5, <1>6, <1>7, <1>8, <1>9 DEF IInv

LEMMA StepInv ==
    ASSUME IInv, [Next]_vars
    PROVE  IInv'
  <1>1. CASE Server
    BY <1>1, SendKeeps, SendTicketKeeps, EndConnectionKeeps DEF Server
  <1>2. CASE Opener
    <2>1. CASE \E ok \in BOOLEAN : ConnectTcp(ok) \/ Handshake(ok)
      BY <2>1, ConnectTcpKeeps, HandshakeKeeps
    <2> QED
      BY <1>2, <2>1, OpenKeeps, SendRequestKeeps, ReadHeaderKeeps, HeaderLateKeeps DEF Opener
  <1>3. ASSUME NEW results, RecvWithin(results)
        PROVE  IInv'
    BY <1>3, RecvKeeps DEF RecvWithin
  <1>4. CASE Pump
    BY <1>3, <1>4, PumpMovesKeep, PullKeeps, PumpCloseKeeps DEF Pump
  <1>5. CASE Stopper
    BY <1>5, StopperMovesKeep, CloseKeeps DEF Stopper
  <1>6. CASE UNCHANGED vars
    <2>1. /\ UNCHANGED << server, published, header, leftover, icy, call, audio, blocks >>
          /\ fd' = fd /\ opener' = opener /\ pump' = pump /\ stopper' = stopper
          /\ handle' = handle /\ stop' = stop
      BY <1>6 DEF vars, reader, threads, pumping
    <2>2. /\ pump \in Pumps /\ stopper \in Stoppers /\ handle \in BOOLEAN /\ stop \in BOOLEAN
          /\ pump \notin {"pull", "recv"} => call = NoCall
          /\ opener # "free" => pump = "none"
      BY DEF IInv, TypeOK, Phases, Pumps, Stoppers
    <2> QED
      BY <2>1, <2>2, MoveKeeps
  <1> QED
    BY <1>1, <1>2, <1>3, <1>4, <1>5, <1>6, StartPumpKeeps, HeaderLateKeeps DEF Next

\* The inductive invariant holds of every execution: there is a place in the
\* body up to which the pump has everything, and what the reader holds and what
\* is under way go on from there.
THEOREM Invariance == Spec => []IInv
  <1>1. Init => IInv
    BY InitInv
  <1>2. IInv /\ [Next]_vars => IInv'
    BY StepInv
  <1> QED
    BY <1>1, <1>2, PTL DEF Spec

\* Every variable has its type, and the buffer of a read() under way is not full.
THEOREM TypeCorrect == Spec => []TypeOK
  <1>1. IInv => TypeOK
    BY DEF IInv
  <1> QED
    BY <1>1, Invariance, PTL

LEMMA PlaceInBody ==
    ASSUME IInv
    PROVE  AudioIsClean /\ BlocksAreWhole
  <1> DEFINE r == response
             S == Units(r)
             old == call.produced
  <1>1. r \in Responses /\ audio \in Seq(S) /\ old \in Seq(S)
    BY DEF IInv, TypeOK, Types, CallOf
  <1>2. PICK c \in Cursors(r) : audio \o old = Heard(r, c) /\ blocks = Told(r, c)
    BY DEF IInv, InOrder
  <1>3. /\ Heard(r, c) \in Seq(S) /\ AudioIn(r) \in Seq(S) /\ IsPrefix(Heard(r, c), AudioIn(r))
        /\ IsPrefix(Told(r, c), BlocksIn(r))
    BY <1>1, HeardIsPrefix
  <1>4. IsPrefix(audio, AudioIn(r))
    <2> HIDE DEF S, old
    <2>1. IsPrefix(audio, audio \o old)
      BY <1>1, PrefixOfConcat
    <2> QED
      BY <1>1, <1>2, <1>3, <2>1, PrefixOfPrefix
  <1> QED
    BY <1>2, <1>3, <1>4 DEF AudioIsClean, BlocksAreWhole

\* read(): the decoder is fed the audio of the body, in order and without a gap,
\* whatever pieces the answer comes in and however often the source is stopped.
THEOREM AudioStaysClean == Spec => []AudioIsClean
  <1>1. IInv => AudioIsClean
    BY PlaceInBody
  <1> QED
    BY <1>1, Invariance, PTL

\* read(): onMeta() gets each metadata block once, whole and in order, though a
\* block spans pulls, reads and the leftover of the header.
THEOREM BlocksStayWhole == Spec => []BlocksAreWhole
  <1>1. IInv => BlocksAreWhole
    BY PlaceInBody
  <1> QED
    BY <1>1, Invariance, PTL

\* While nobody stops the stream nothing is lost on the way: of the audio and
\* the blocks, what the pump does not have is in the reader, on the wire, or
\* not yet sent.
THEOREM NothingIsLost == Spec => [](IInv /\ EInv)
  <1>1. Init => IInv /\ EInv
    BY InitInv, InitEInv
  <1>2. (IInv /\ EInv) /\ [Next]_vars => (IInv /\ EInv)'
    BY StepInv, StepEInv
  <1> QED
    BY <1>1, <1>2, PTL DEF Spec

\* read(): partial data is returned before the end or the error is reported, so
\* a track that ends by itself ends after everything the server sent.
THEOREM EndStaysComplete == Spec => []EndIsComplete
  <1>1. IInv /\ EInv => EndIsComplete
    BY CompleteAtEnd
  <1> QED
    BY <1>1, NothingIsLost, PTL
=============================================================================
