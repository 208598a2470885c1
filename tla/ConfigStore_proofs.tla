------------------------- MODULE ConfigStore_proofs -------------------------
(* The config and state file survives: a file that was read once can be     *)
(* read at every later start, a save leaves the user's lines as they are,   *)
(* and what a start reads is what the last save wrote, section by section.  *)
(*                                                                          *)
(* The image of a save is read against the lines it is made of: piece by    *)
(* piece, parse() is under the same header in both.                         *)
EXTENDS ConfigStore, SharedLemmas

-----------------------------------------------------------------------------
(* Sequences of anything.                                                   *)

LEMMA ListedIsSeq ==
    ASSUME NEW s
    PROVE  /\ Listed(s) => s \in Seq({ s[i] : i \in 1 .. Len(s) })
           /\ \A S : s \in Seq(S) => Listed(s)
  BY DEF Listed

LEMMA ListedIn ==
    ASSUME NEW S, NEW s, Listed(s), \A i \in 1 .. Len(s) : s[i] \in S
    PROVE  s \in Seq(S)
  BY DEF Listed

LEMMA ListedSmall ==
    /\ Listed(<< >>) /\ Len(<< >>) = 0
    /\ \A l : Listed(<< l >>) /\ Len(<< l >>) = 1 /\ << l >>[1] = l
  BY DEF Listed

LEMMA ListedConcat ==
    ASSUME NEW s, Listed(s), NEW t, Listed(t)
    PROVE  /\ Listed(s \o t) /\ Len(s \o t) = Len(s) + Len(t)
           /\ \A i \in 1 .. Len(s) : (s \o t)[i] = s[i]
           /\ \A i \in 1 .. Len(t) : (s \o t)[Len(s) + i] = t[i]
  <1> DEFINE S == { s[i] : i \in 1 .. Len(s) } \cup { t[i] : i \in 1 .. Len(t) }
  <1>1. s \in Seq(S) /\ t \in Seq(S)
    BY DEF Listed
  <1> HIDE DEF S
  <1>2. /\ s \o t \in Seq(S) /\ Len(s \o t) = Len(s) + Len(t)
        /\ \A i \in 1 .. Len(s) + Len(t) : (s \o t)[i] = IF i <= Len(s) THEN s[i] ELSE t[i - Len(s)]
    BY <1>1, ConcatProperties
  <1>3. Len(s) \in Nat /\ Len(t) \in Nat /\ Listed(s \o t)
    BY <1>2, ListedIsSeq DEF Listed
  <1> DEFINE u == s \o t
  <1> HIDE DEF u
  <1>4. /\ Len(u) = Len(s) + Len(t)
        /\ \A i \in 1 .. Len(s) + Len(t) : u[i] = IF i <= Len(s) THEN s[i] ELSE t[i - Len(s)]
    BY <1>2 DEF u
  <1>5. \A i \in 1 .. Len(s) : u[i] = s[i]
    BY <1>3, <1>4
  <1>6. ASSUME NEW i \in 1 .. Len(t) PROVE u[Len(s) + i] = t[i]
    <2>1. /\ Len(s) + i \in 1 .. Len(s) + Len(t)
          /\ ~ (Len(s) + i <= Len(s)) /\ (Len(s) + i) - Len(s) = i
      BY <1>3
    <2> QED
      BY <1>4, <2>1
  <1> QED
    BY <1>3, <1>4, <1>5, <1>6 DEF u

LEMMA ListedEmptyConcat ==
    ASSUME NEW s, Listed(s)
    PROVE  s \o << >> = s /\ << >> \o s = s
  BY ListedIsSeq, ConcatEmptySeq

LEMMA ListedConcatAssociative ==
    ASSUME NEW s, Listed(s), NEW t, Listed(t), NEW u, Listed(u)
    PROVE  (s \o t) \o u = s \o (t \o u)
  <1> DEFINE S == { s[i] : i \in 1 .. Len(s) } \cup { t[i] : i \in 1 .. Len(t) }
                    \cup { u[i] : i \in 1 .. Len(u) }
  <1>1. /\ \A i \in 1 .. Len(s) : s[i] \in S
        /\ \A i \in 1 .. Len(t) : t[i] \in S
        /\ \A i \in 1 .. Len(u) : u[i] \in S
    OBVIOUS
  <1> HIDE DEF S
  <1>2. s \in Seq(S) /\ t \in Seq(S) /\ u \in Seq(S)
    BY <1>1, ListedIn
  <1> QED
    BY <1>2, ConcatAssociative

-----------------------------------------------------------------------------
(* parse() as a loop.                                                       *)

\* One turn, as the function in Reading() has it, and that function.
ReadStep(r, text, f, n) ==
    IF n = 0 THEN r
    ELSE CHOOSE next \in { ReadLine(prev, text[n]) : prev \in {f[n - 1]} } : TRUE

LEMMA ReadingIsChosen ==
    ASSUME NEW r, NEW text
    PROVE  Reading(r, text) = CHOOSE f : f = [n \in 0 .. Len(text) |-> ReadStep(r, text, f, n)]
  BY Zenon DEF Reading, ReadStep

LEMMA ReadStepAtZero ==
    ASSUME NEW r, NEW text, NEW f
    PROVE  ReadStep(r, text, f, 0) = r
  BY DEF ReadStep

LEMMA ReadStepIs ==
    ASSUME NEW r, NEW text, NEW f, NEW n \in Nat, n # 0
    PROVE  ReadStep(r, text, f, n) = ReadLine(f[n - 1], text[n])
  <1>1. ReadStep(r, text, f, n) =
            CHOOSE next \in { ReadLine(prev, text[n]) : prev \in {f[n - 1]} } : TRUE
    BY Zenon DEF ReadStep
  <1>2. { ReadLine(prev, text[n]) : prev \in {f[n - 1]} } = { ReadLine(f[n - 1], text[n]) }
    BY Zenon
  <1> QED
    BY <1>1, <1>2, Zenon

\* The function exists: it is built one argument at a time.
LEMMA ReadingIsDefined ==
    ASSUME NEW r, NEW text, Len(text) \in Nat
    PROVE  Reading(r, text) = [n \in 0 .. Len(text) |-> ReadStep(r, text, Reading(r, text), n)]
  <1> DEFINE IsReading(f, n) == f = [m \in 0 .. n |-> ReadStep(r, text, f, m)]
             Built == { n \in Nat : \E f : IsReading(f, n) }
  <1>1. 0 \in Built
    <2>1. IsReading([m \in 0 .. 0 |-> r], 0)
      BY ReadStepAtZero
    <2> QED
      BY <2>1
  <1>2. ASSUME NEW n \in Nat, n \in Built
        PROVE  n + 1 \in Built
    <2>1. PICK f : IsReading(f, n)
      BY <1>2
    <2> DEFINE g == [m \in 0 .. n + 1 |->
                        IF m = n + 1 THEN ReadLine(f[n], text[n + 1]) ELSE f[m]]
    <2>2. /\ \A m \in 0 .. n : g[m] = f[m] /\ f[m] = ReadStep(r, text, f, m)
          /\ g[n + 1] = ReadLine(f[n], text[n + 1])
          /\ g = [m \in 0 .. n + 1 |-> g[m]]
      <3>1. \A m \in 0 .. n : f[m] = ReadStep(r, text, f, m)
        <4>1. f = [m \in 0 .. n |-> ReadStep(r, text, f, m)]
          BY <2>1
        <4> QED
          BY <4>1, Zenon
      <3>2. n + 1 \in 0 .. n + 1 /\ \A m \in 0 .. n : m \in 0 .. n + 1 /\ m # n + 1
        OBVIOUS
      <3>3. g = [m \in 0 .. n + 1 |-> IF m = n + 1 THEN ReadLine(f[n], text[n + 1]) ELSE f[m]]
        OBVIOUS
      <3> HIDE DEF g, Built, IsReading
      <3>4. \A m \in 0 .. n + 1 :
                g[m] = IF m = n + 1 THEN ReadLine(f[n], text[n + 1]) ELSE f[m]
        BY <3>3, Zenon
      <3>5. g = [m \in 0 .. n + 1 |-> g[m]]
        BY <3>3
      <3>6. \A m \in 0 .. n : g[m] = f[m]
        BY <3>2, <3>4, Zenon
      <3>7. g[n + 1] = ReadLine(f[n], text[n + 1])
        BY <3>2, <3>4, Zenon
      <3> QED
        BY <3>1, <3>5, <3>6, <3>7
    <2> HIDE DEF g
    <2>3. g[n + 1] = ReadStep(r, text, g, n + 1)
      <3>1. n + 1 \in Nat /\ n + 1 # 0 /\ (n + 1) - 1 = n /\ n \in 0 .. n
        OBVIOUS
      <3>3. g[n] = f[n]
        BY <2>2, <3>1, Zenon
      <3>2. ReadStep(r, text, g, n + 1) = ReadLine(g[(n + 1) - 1], text[n + 1])
        BY <3>1, ReadStepIs, Zenon
      <3> QED
        BY <2>2, <3>1, <3>2, <3>3
    <2>4. ASSUME NEW m \in 0 .. n
          PROVE  g[m] = ReadStep(r, text, g, m)
      <3>1. CASE m = 0
        <4>1. ReadStep(r, text, f, 0) = r /\ ReadStep(r, text, g, 0) = r
          BY ReadStepAtZero
        <4> QED
          BY <2>2, <3>1, <4>1
      <3>2. CASE m # 0
        <4>1. m - 1 \in 0 .. n
          BY <3>2
        <4>2. g[m - 1] = f[m - 1] /\ g[m] = f[m] /\ f[m] = ReadStep(r, text, f, m)
          BY <2>2, <4>1
        <4>3. /\ ReadStep(r, text, f, m) = ReadLine(f[m - 1], text[m])
              /\ ReadStep(r, text, g, m) = ReadLine(g[m - 1], text[m])
          <5>1. m \in Nat /\ m # 0
            BY <3>2
          <5> QED
            BY <5>1, ReadStepIs, Zenon
        <4> QED
          BY <4>2, <4>3
      <3> QED
        BY <3>1, <3>2
    <2>5. \A m \in 0 .. n + 1 : g[m] = ReadStep(r, text, g, m)
      BY <2>3, <2>4
    <2>6. IsReading(g, n + 1)
      BY <2>2, <2>5
    <2> QED
      BY <2>6
  <1>3. Len(text) \in Built
    <2> HIDE DEF Built
    <2>1. Nat \subseteq Built
      BY <1>1, <1>2, Induction
    <2> QED
      BY <2>1
  <1>4. \E f : IsReading(f, Len(text))
    BY <1>3
  <1> QED
    BY <1>4, ReadingIsChosen, Zenon

\* What the first lines make of r.
LEMMA ReadingIs ==
    ASSUME NEW r, NEW text, Listed(text)
    PROVE  /\ Reading(r, text)[0] = r
           /\ \A n \in 1 .. Len(text) :
                Reading(r, text)[n] = ReadLine(Reading(r, text)[n - 1], text[n])
  <1> DEFINE f == Reading(r, text)
  <1>1. Len(text) \in Nat
    BY DEF Listed
  <1>2. f = [n \in 0 .. Len(text) |-> ReadStep(r, text, f, n)]
    BY <1>1, ReadingIsDefined
  <1> HIDE DEF f
  <1>3. f[0] = ReadStep(r, text, f, 0)
    BY <1>1, <1>2
  <1>4. \A n \in 1 .. Len(text) : n # 0 /\ f[n] = ReadStep(r, text, f, n)
    BY <1>1, <1>2
  <1>5. f[0] = r /\ \A n \in 1 .. Len(text) : f[n] = ReadLine(f[n - 1], text[n])
    <2>1. ReadStep(r, text, f, 0) = r
      BY ReadStepAtZero
    <2>2. ASSUME NEW n \in 1 .. Len(text) PROVE f[n] = ReadLine(f[n - 1], text[n])
      <3>1. ReadStep(r, text, f, n) = ReadLine(f[n - 1], text[n])
        <4>1. n \in Nat /\ n # 0
          BY <1>1
        <4> QED
          BY <4>1, ReadStepIs, Zenon
      <3> QED
        BY <1>4, <3>1
    <2> QED
      BY <1>3, <2>1, <2>2
  <1> QED
    BY <1>5 DEF f

\* What all of them make of it.
After(r, text) == Reading(r, text)[Len(text)]

\* Two texts that follow one another: the second is read where the first ends.
LEMMA ReadingOfTwo ==
    ASSUME NEW r, NEW s, Listed(s), NEW t, Listed(t)
    PROVE  /\ \A n \in 0 .. Len(s) : Reading(r, s \o t)[n] = Reading(r, s)[n]
           /\ \A n \in 0 .. Len(t) : Reading(r, s \o t)[Len(s) + n] = Reading(After(r, s), t)[n]
           /\ After(r, s \o t) = After(After(r, s), t)
  <1> DEFINE u == s \o t
             f == Reading(r, u)
             g == Reading(r, s)
             h == Reading(g[Len(s)], t)
  <1>1. /\ Listed(u) /\ Len(u) = Len(s) + Len(t) /\ Len(s) \in Nat /\ Len(t) \in Nat
        /\ \A i \in 1 .. Len(s) : u[i] = s[i]
        /\ \A i \in 1 .. Len(t) : u[Len(s) + i] = t[i]
    <2>1. Len(s) \in Nat /\ Len(t) \in Nat
      BY DEF Listed
    <2> QED
      BY <2>1, ListedConcat
  <1> HIDE DEF u
  <1>2. /\ f[0] = r /\ \A n \in 1 .. Len(u) : f[n] = ReadLine(f[n - 1], u[n])
        /\ g[0] = r /\ \A n \in 1 .. Len(s) : g[n] = ReadLine(g[n - 1], s[n])
        /\ h[0] = g[Len(s)] /\ \A n \in 1 .. Len(t) : h[n] = ReadLine(h[n - 1], t[n])
    BY <1>1, ReadingIs
  <1> HIDE DEF f, g, h
  <1>3. \A n \in 0 .. Len(s) : f[n] = g[n]
    <2> DEFINE G == { n \in Nat : n <= Len(s) => f[n] = g[n] }
    <2>1. 0 \in G
      BY <1>2
    <2>2. ASSUME NEW n \in Nat, n \in G PROVE n + 1 \in G
      <3> SUFFICES ASSUME n + 1 <= Len(s) PROVE f[n + 1] = g[n + 1]
        OBVIOUS
      <3>1. n + 1 \in 1 .. Len(s) /\ n + 1 \in 1 .. Len(u) /\ (n + 1) - 1 = n /\ f[n] = g[n]
        BY <1>1, <2>2
      <3> QED
        BY <1>1, <1>2, <3>1
    <2> HIDE DEF G
    <2>3. Nat \subseteq G
      BY <2>1, <2>2, Induction
    <2> QED
      BY <1>1, <2>3 DEF G
  <1>4. \A n \in 0 .. Len(t) : f[Len(s) + n] = h[n]
    <2> DEFINE G == { n \in Nat : n <= Len(t) => f[Len(s) + n] = h[n] }
    <2>1. 0 \in G
      BY <1>1, <1>2, <1>3
    <2>2. ASSUME NEW n \in Nat, n \in G PROVE n + 1 \in G
      <3> SUFFICES ASSUME n + 1 <= Len(t) PROVE f[Len(s) + (n + 1)] = h[n + 1]
        OBVIOUS
      <3>1. /\ n + 1 \in 1 .. Len(t) /\ Len(s) + (n + 1) \in 1 .. Len(u)
            /\ (n + 1) - 1 = n /\ (Len(s) + (n + 1)) - 1 = Len(s) + n
            /\ f[Len(s) + n] = h[n]
        <4>1. Len(u) = Len(s) + Len(t) /\ Len(s) \in Nat /\ Len(t) \in Nat /\ n <= Len(t)
          BY <1>1
        <4>2. f[Len(s) + n] = h[n]
          BY <2>2, <4>1
        <4>3. /\ n + 1 \in 1 .. Len(t) /\ Len(s) + (n + 1) \in 1 .. Len(s) + Len(t)
              /\ (n + 1) - 1 = n /\ (Len(s) + (n + 1)) - 1 = Len(s) + n
          <5> HIDE DEF G
          <5> QED
            BY <4>1
        <4> QED
          BY <4>1, <4>2, <4>3
      <3> QED
        BY <1>1, <1>2, <3>1
    <2> HIDE DEF G
    <2>3. Nat \subseteq G
      BY <2>1, <2>2, Induction
    <2> QED
      BY <1>1, <2>3 DEF G
  <1>5. f[Len(u)] = h[Len(t)]
    BY <1>1, <1>4
  <1> QED
    BY <1>3, <1>4, <1>5 DEF f, g, h, u, After

LEMMA AfterTwo ==
    \A r, s, t : Listed(s) /\ Listed(t) => After(r, s \o t) = After(After(r, s), t)
  <1> SUFFICES ASSUME NEW r, NEW s, NEW t, Listed(s), Listed(t)
               PROVE  After(r, s \o t) = After(After(r, s), t)
    OBVIOUS
  <1> QED
    BY ReadingOfTwo

LEMMA AfterSmall ==
    ASSUME NEW r
    PROVE  /\ After(r, << >>) = r
           /\ \A l : After(r, << l >>) = ReadLine(r, l)
  <1>1. After(r, << >>) = r
    BY ListedSmall, ReadingIs DEF After
  <1>2. ASSUME NEW l PROVE After(r, << l >>) = ReadLine(r, l)
    <2> DEFINE t == << l >>
    <2>1. Listed(t) /\ Len(t) = 1 /\ t[1] = l
      BY ListedSmall
    <2> HIDE DEF t
    <2>2. Reading(r, t)[1] = ReadLine(Reading(r, t)[1 - 1], t[1]) /\ Reading(r, t)[0] = r
      BY <2>1, ReadingIs
    <2>3. After(r, t) = ReadLine(r, l)
      BY <2>1, <2>2 DEF After
    <2> QED
      BY <2>3 DEF t
  <1> QED
    BY <1>1, <1>2

LEMMA ListedAppend ==
    ASSUME NEW s, Listed(s), NEW x
    PROVE  /\ Listed(Append(s, x)) /\ Len(Append(s, x)) = Len(s) + 1
           /\ \A i \in 1 .. Len(s) : Append(s, x)[i] = s[i]
           /\ Append(s, x)[Len(s) + 1] = x
  <1> DEFINE S == { s[i] : i \in 1 .. Len(s) } \cup {x}
             u == Append(s, x)
  <1>1. s \in Seq(S) /\ x \in S
    BY DEF Listed
  <1> HIDE DEF S
  <1>2. /\ u \in Seq(S) /\ Len(u) = Len(s) + 1
        /\ \A i \in 1 .. Len(s) : u[i] = s[i]
        /\ u[Len(s) + 1] = x
    BY <1>1
  <1>3. Listed(u)
    BY <1>2, ListedIsSeq
  <1> QED
    BY <1>2, <1>3

\* A concatenation grows by one piece at a time.
LEMMA PiecesJoin ==
    ASSUME NEW seqs, Listed(seqs), \A i \in 1 .. Len(seqs) : Listed(seqs[i])
    PROVE  /\ Flattened(seqs, 0) = << >>
           /\ \A n \in 1 .. Len(seqs) : Flattened(seqs, n) = Flattened(seqs, n - 1) \o seqs[n]
           /\ \A n \in 0 .. Len(seqs) : Listed(Flattened(seqs, n))
           /\ FlattenSeq(seqs) = Flattened(seqs, Len(seqs))
  <1> DEFINE S == UNION { { seqs[i][j] : j \in 1 .. Len(seqs[i]) } : i \in 1 .. Len(seqs) }
  <1>1. \A i \in 1 .. Len(seqs) : seqs[i] \in Seq(S)
    <2> SUFFICES ASSUME NEW i \in 1 .. Len(seqs) PROVE seqs[i] \in Seq(S)
      OBVIOUS
    <2>1. Listed(seqs[i]) /\ \A j \in 1 .. Len(seqs[i]) : seqs[i][j] \in S
      OBVIOUS
    <2> HIDE DEF S
    <2> QED
      BY <2>1 DEF Listed
  <1> HIDE DEF S
  <1>2. seqs \in Seq(Seq(S))
    BY <1>1 DEF Listed
  <1>3. /\ Flattened(seqs, 0) = << >>
        /\ \A n \in 1 .. Len(seqs) : Flattened(seqs, n) = Flattened(seqs, n - 1) \o seqs[n]
        /\ \A n \in 0 .. Len(seqs) : Flattened(seqs, n) \in Seq(S)
        /\ FlattenSeq(seqs) = Flattened(seqs, Len(seqs))
    BY <1>2, FlattenedGrows
  <1> QED
    BY <1>3, ListedIsSeq

-----------------------------------------------------------------------------
(* The lines that were read.                                                *)

\* What lines_ notes of the n-th line.
NotedLine(t, n) ==
    [raw |-> t[n],
     section |-> IF t[n].kind \in {"header", "key"} THEN Reading(Begin, t)[n].name ELSE ""]

LEMMA LinesRead ==
    ASSUME NEW t, Listed(t)
    PROVE  /\ Listed(LinesOf(t)) /\ Len(LinesOf(t)) = Len(t)
           /\ \A i \in 1 .. Len(t) : LinesOf(t)[i] = NotedLine(t, i)
  <1> DEFINE f == Reading(Begin, t)
             Noted(n) == /\ Listed(f[n].lines) /\ Len(f[n].lines) = n
                         /\ \A i \in 1 .. n : f[n].lines[i] = NotedLine(t, i)
             G == { n \in Nat : n <= Len(t) => Noted(n) }
  <1>1. Len(t) \in Nat /\ f[0] = Begin
        /\ \A n \in 1 .. Len(t) : f[n] = ReadLine(f[n - 1], t[n])
    BY ReadingIs DEF Listed
  <1>2. 0 \in G
    <2>1. Begin.lines = << >>
      BY DEF Begin
    <2> HIDE DEF f
    <2>2. f[0].lines = << >>
      BY <1>1, <2>1
    <2> QED
      BY <2>2, ListedSmall
  <1>3. ASSUME NEW n \in Nat, n \in G PROVE n + 1 \in G
    <2> SUFFICES ASSUME n + 1 <= Len(t) PROVE Noted(n + 1)
      OBVIOUS
    <2>1. n + 1 \in 1 .. Len(t) /\ (n + 1) - 1 = n /\ Noted(n)
      BY <1>1, <1>3
    <2>2. f[n + 1] = ReadLine(f[n], t[n + 1])
      BY <1>1, <2>1
    <2>3. f[n + 1].lines = Append(f[n].lines, NotedLine(t, n + 1))
      <3>1. ReadLine(f[n], t[n + 1]).lines =
                Append(f[n].lines,
                    [raw |-> t[n + 1],
                     section |-> IF t[n + 1].kind \in {"header", "key"}
                                 THEN ReadLine(f[n], t[n + 1]).name ELSE ""])
        BY DEF ReadLine
      <3> QED
        BY <2>2, <3>1, Zenon DEF NotedLine
    <2> HIDE DEF f
    <2>4. Listed(f[n].lines) /\ Len(f[n].lines) = n
      BY <2>1
    <2>5. /\ Listed(f[n + 1].lines) /\ Len(f[n + 1].lines) = n + 1
          /\ \A i \in 1 .. n : f[n + 1].lines[i] = f[n].lines[i]
          /\ f[n + 1].lines[n + 1] = NotedLine(t, n + 1)
      BY <2>3, <2>4, ListedAppend
    <2>6. \A i \in 1 .. n + 1 : i \in 1 .. n \/ i = n + 1
      OBVIOUS
    <2> QED
      BY <2>1, <2>5, <2>6
  <1>4. Noted(Len(t))
    <2> HIDE DEF G
    <2>1. Nat \subseteq G
      BY <1>2, <1>3, Induction
    <2> QED
      BY <1>1, <2>1 DEF G
  <1> QED
    BY <1>4 DEF LinesOf, Parsed

-----------------------------------------------------------------------------
(* The lines the program writes.                                            *)

\* Lines of its own: values it can read, under headers or as headers.
Own(t) ==
    /\ Listed(t)
    /\ \A i \in 1 .. Len(t) : /\ t[i].kind \in {"header", "key"}
                              /\ t[i].taken = TRUE /\ t[i].by = "program"
OwnKeys(t) == Own(t) /\ \A i \in 1 .. Len(t) : t[i].kind = "key"

LEMMA OwnJoin ==
    /\ OwnKeys(<< >>)
    /\ \A s, t : Own(s) /\ Own(t) => Own(s \o t)
    /\ \A s, t : OwnKeys(s) /\ OwnKeys(t) => OwnKeys(s \o t)
  <1>1. OwnKeys(<< >>)
    BY ListedSmall DEF OwnKeys, Own
  <1>2. ASSUME NEW s, NEW t, Own(s), Own(t)
        PROVE  /\ Own(s \o t)
               /\ OwnKeys(s) /\ OwnKeys(t) => OwnKeys(s \o t)
    <2> DEFINE u == s \o t
    <2>1. /\ Listed(u) /\ Len(u) = Len(s) + Len(t) /\ Len(s) \in Nat /\ Len(t) \in Nat
          /\ \A i \in 1 .. Len(s) : u[i] = s[i]
          /\ \A i \in 1 .. Len(t) : u[Len(s) + i] = t[i]
      BY <1>2, ListedConcat DEF Own, Listed
    <2> HIDE DEF u
    <2>2. \A i \in 1 .. Len(u) : \/ i \in 1 .. Len(s) /\ u[i] = s[i]
                                 \/ i - Len(s) \in 1 .. Len(t) /\ u[i] = t[i - Len(s)]
      <3> SUFFICES ASSUME NEW i \in 1 .. Len(u), ~ (i <= Len(s))
                   PROVE  i - Len(s) \in 1 .. Len(t) /\ u[i] = t[i - Len(s)]
        BY <2>1
      <3>1. i - Len(s) \in 1 .. Len(t) /\ Len(s) + (i - Len(s)) = i
        BY <2>1
      <3> QED
        BY <2>1, <3>1
    <2>3. Own(u)
      BY <1>2, <2>1, <2>2 DEF Own
    <2>4. OwnKeys(s) /\ OwnKeys(t) => OwnKeys(u)
      BY <2>2, <2>3 DEF OwnKeys
    <2> QED
      BY <2>3, <2>4 DEF u
  <1> QED
    BY <1>1, <1>2 DEF OwnKeys

LEMMA EntryIsOwn == \A sec, key : OwnKeys(Entry(sec, key))
  <1> SUFFICES ASSUME NEW sec, NEW key PROVE OwnKeys(Entry(sec, key))
    OBVIOUS
  <1> DEFINE l == Line("key", key, ValueOf(sec)[key], "program")
  <1>1. l.kind = "key" /\ l.taken = TRUE /\ l.by = "program"
    BY DEF Line
  <1> HIDE DEF l
  <1>2. OwnKeys(<< l >>)
    BY <1>1, ListedSmall DEF OwnKeys, Own
  <1>3. Entry(sec, key) \in {<< >>, << l >>}
    BY DEF Entry, l
  <1> QED
    BY <1>2, <1>3, OwnJoin

LEMMA LackingIsOwn == \A lns, sec : OwnKeys(Lacking(lns, sec))
  <1> SUFFICES ASSUME NEW lns, NEW sec PROVE OwnKeys(Lacking(lns, sec))
    OBVIOUS
  <1> DEFINE Absent(key) == IF HasLine(lns, key, sec.name) THEN << >> ELSE Entry(sec, key)
  <1>1. OwnKeys(Absent("mac")) /\ OwnKeys(Absent("creds")) /\ OwnKeys(Absent("name"))
        /\ OwnKeys(Absent("auto"))
    BY EntryIsOwn, OwnJoin
  <1>2. Lacking(lns, sec) = Absent("mac") \o Absent("creds") \o Absent("name") \o Absent("auto")
    BY Zenon DEF Lacking
  <1> HIDE DEF Absent
  <1>3. OwnKeys(Absent("mac") \o Absent("creds"))
    BY <1>1, OwnJoin
  <1>4. OwnKeys((Absent("mac") \o Absent("creds")) \o Absent("name"))
    BY <1>1, <1>3, OwnJoin
  <1>5. OwnKeys(((Absent("mac") \o Absent("creds")) \o Absent("name")) \o Absent("auto"))
    BY <1>1, <1>4, OwnJoin
  <1> QED
    BY <1>2, <1>5

LEMMA AppendedIsOwn == \A lns, sec : Own(Appended(lns, sec))
  <1> SUFFICES ASSUME NEW lns, NEW sec PROVE Own(Appended(lns, sec))
    OBVIOUS
  <1> DEFINE l == Header(sec.name, "program")
             a == << l >> \o Entry(sec, "id")
             b == a \o Entry(sec, "mac")
             c == b \o Entry(sec, "creds")
             d == c \o Entry(sec, "name")
             e == d \o Entry(sec, "auto")
  <1>1. \A key : Own(Entry(sec, key))
    BY EntryIsOwn DEF OwnKeys
  <1>2. Own(<< l >>)
    <2>1. l.kind = "header" /\ l.taken = TRUE /\ l.by = "program"
      BY DEF Header, Line
    <2> HIDE DEF l
    <2> QED
      BY <2>1, ListedSmall DEF Own
  <1>3. Appended(lns, sec) \in {<< >>, e}
    BY Zenon DEF Appended
  <1>4. Own(a)
    BY <1>1, <1>2, OwnJoin
  <1>5. Own(b)
    <2> HIDE DEF a
    <2> QED  BY <1>1, <1>4, OwnJoin
  <1>6. Own(c)
    <2> HIDE DEF b
    <2> QED  BY <1>1, <1>5, OwnJoin
  <1>7. Own(d)
    <2> HIDE DEF c
    <2> QED  BY <1>1, <1>6, OwnJoin
  <1>8. Own(e)
    <2> HIDE DEF d
    <2> QED  BY <1>1, <1>7, OwnJoin
  <1> HIDE DEF e
  <1> QED
    BY <1>3, <1>8, OwnJoin DEF OwnKeys

\* Keys leave parse() under the header it was under.
LEMMA OwnKeysRead ==
    ASSUME NEW r, NEW t, OwnKeys(t)
    PROVE  \A n \in 0 .. Len(t) : /\ Reading(r, t)[n].under = r.under
                                  /\ Reading(r, t)[n].name = r.name
                                  /\ Reading(r, t)[n].at = r.at
                                  /\ Reading(r, t)[n].ok <=> r.ok
  <1> DEFINE f == Reading(r, t)
             Same(n) == f[n].under = r.under /\ f[n].name = r.name /\ f[n].at = r.at /\ (f[n].ok <=> r.ok)
             G == { n \in Nat : n <= Len(t) => Same(n) }
  <1>1. Listed(t) /\ Len(t) \in Nat /\ f[0] = r
        /\ \A n \in 1 .. Len(t) : f[n] = ReadLine(f[n - 1], t[n])
    BY ReadingIs DEF OwnKeys, Own, Listed
  <1> HIDE DEF f
  <1>2. 0 \in G
    BY <1>1
  <1>3. ASSUME NEW n \in Nat, n \in G PROVE n + 1 \in G
    <2> SUFFICES ASSUME n + 1 <= Len(t) PROVE Same(n + 1)
      OBVIOUS
    <2>1. n + 1 \in 1 .. Len(t) /\ (n + 1) - 1 = n /\ Same(n)
      BY <1>1, <1>3
    <2>2. f[n + 1] = ReadLine(f[n], t[n + 1])
      BY <1>1, <2>1
    <2>3. t[n + 1].kind = "key" /\ t[n + 1].taken = TRUE
      BY <2>1 DEF OwnKeys, Own
    <2>4. /\ ReadLine(f[n], t[n + 1]).under = f[n].under
          /\ ReadLine(f[n], t[n + 1]).name = f[n].name
          /\ ReadLine(f[n], t[n + 1]).at = f[n].at
          /\ ReadLine(f[n], t[n + 1]).ok <=> f[n].ok
      BY <2>3 DEF ReadLine
    <2> QED
      BY <2>1, <2>2, <2>4
  <1>4. Nat \subseteq G
    <2> HIDE DEF G
    <2> QED  BY <1>2, <1>3, Induction
  <1> QED
    BY <1>1, <1>4 DEF f

\* Nothing the program writes is refused.
LEMMA OwnRead ==
    ASSUME NEW r, NEW t, Own(t), r.ok
    PROVE  After(r, t).ok
  <1> DEFINE f == Reading(r, t)
             G == { n \in Nat : n <= Len(t) => f[n].ok }
  <1>1. Listed(t) /\ Len(t) \in Nat /\ f[0] = r
        /\ \A n \in 1 .. Len(t) : f[n] = ReadLine(f[n - 1], t[n])
    BY ReadingIs DEF Own, Listed
  <1> HIDE DEF f
  <1>2. 0 \in G
    BY <1>1
  <1>3. ASSUME NEW n \in Nat, n \in G PROVE n + 1 \in G
    <2> SUFFICES ASSUME n + 1 <= Len(t) PROVE f[n + 1].ok
      OBVIOUS
    <2>1. n + 1 \in 1 .. Len(t) /\ (n + 1) - 1 = n /\ f[n].ok
      BY <1>1, <1>3
    <2>2. f[n + 1] = ReadLine(f[n], t[n + 1])
      BY <1>1, <2>1
    <2>3. t[n + 1].kind \in {"header", "key"} /\ t[n + 1].taken = TRUE
      BY <2>1 DEF Own
    <2>4. ReadLine(f[n], t[n + 1]).ok
      BY <2>1, <2>3 DEF ReadLine
    <2> QED
      BY <2>1, <2>2, <2>4
  <1>4. Nat \subseteq G
    <2> HIDE DEF G
    <2> QED  BY <1>2, <1>3, Induction
  <1> QED
    BY <1>1, <1>4 DEF f, After

-----------------------------------------------------------------------------
(* The image of a save, read against the lines it is made of.               *)

\* A line that was read is copied, and at a header followed by keys of the
\* program; or it is a managed key of a section, and a key of the program or
\* nothing takes its place.
LEMMA RewrittenIs ==
    ASSUME NEW lns, NEW secs, NEW l
    PROVE  LET piece == Rewritten(lns, secs, l)
           IN  \/ \E own : OwnKeys(own) /\ piece = << l.raw >> \o own
               \/ /\ OwnKeys(piece)
                  /\ l.raw.kind = "key" /\ l.raw.key \in Managed
                  /\ sectionByName(secs, l.section) # 0
  <1> DEFINE at == sectionByName(secs, l.section)
             piece == Rewritten(lns, secs, l)
  <1>1. CASE l.raw.kind = "key" /\ l.raw.key \in Managed /\ at # 0
    <2>1. piece = Entry(secs[at], l.raw.key)
      BY <1>1 DEF Rewritten
    <2> QED
      BY <1>1, <2>1, EntryIsOwn
  <1>2. CASE l.raw.kind = "header" /\ at # 0
    <2>1. piece = << l.raw >> \o Lacking(lns, secs[at])
      BY <1>2 DEF Rewritten
    <2> QED
      BY <2>1, LackingIsOwn
  <1>3. CASE /\ ~ (l.raw.kind = "key" /\ l.raw.key \in Managed /\ at # 0)
             /\ ~ (l.raw.kind = "header" /\ at # 0)
    <2>1. piece = << l.raw >>
      BY <1>3 DEF Rewritten
    <2>2. << l.raw >> \o << >> = << l.raw >>
      BY ListedSmall, ListedEmptyConcat
    <2> QED
      BY <2>1, <2>2, OwnJoin
  <1> QED
    BY <1>1, <1>2, <1>3

LEMMA RewrittenIsListed ==
    ASSUME NEW lns, NEW secs, NEW l
    PROVE  /\ Listed(Rewritten(lns, secs, l))
           /\ LineOK(l.raw) => \A i \in 1 .. Len(Rewritten(lns, secs, l)) :
                                   LineOK(Rewritten(lns, secs, l)[i])
  <1> DEFINE piece == Rewritten(lns, secs, l)
  <1> HIDE DEF piece
  <1>1. CASE OwnKeys(piece)
    BY <1>1 DEF OwnKeys, Own, LineOK, piece
  <1>2. CASE \E own : OwnKeys(own) /\ piece = << l.raw >> \o own
    <2>1. PICK own : OwnKeys(own) /\ piece = << l.raw >> \o own
      BY <1>2
    <2>2. /\ Listed(piece) /\ Len(piece) = 1 + Len(own) /\ Len(own) \in Nat
          /\ piece[1] = l.raw
          /\ \A i \in 1 .. Len(own) : piece[1 + i] = own[i]
      <3> DEFINE h == << l.raw >>
      <3>1. Listed(h) /\ Len(h) = 1 /\ h[1] = l.raw /\ Listed(own) /\ 1 \in 1 .. 1
        BY <2>1, ListedSmall DEF OwnKeys, Own
      <3> HIDE DEF h
      <3>3. /\ Listed(h \o own) /\ Len(h \o own) = Len(h) + Len(own)
            /\ \A i \in 1 .. Len(h) : (h \o own)[i] = h[i]
            /\ \A i \in 1 .. Len(own) : (h \o own)[Len(h) + i] = own[i]
        <4>1. Listed(h) /\ Listed(own)
          BY <3>1
        <4> QED
          BY <4>1, ListedConcat, SMTT(120)
      <3>2. /\ Listed(h \o own) /\ Len(h \o own) = 1 + Len(own)
            /\ (h \o own)[1] = l.raw
            /\ \A i \in 1 .. Len(own) : (h \o own)[1 + i] = own[i]
        BY <3>1, <3>3
      <3> QED
        BY <2>1, <3>1, <3>2 DEF h, Listed
    <2>3. ASSUME LineOK(l.raw), NEW i \in 1 .. Len(piece) PROVE LineOK(piece[i])
      <3>1. CASE i = 1
        BY <2>2, <2>3, <3>1
      <3>2. CASE i # 1
        <4>1. i - 1 \in 1 .. Len(own) /\ 1 + (i - 1) = i
          BY <2>2, <3>2
        <4>2. piece[i] = own[i - 1]
          BY <2>2, <4>1
        <4> QED
          BY <2>1, <4>1, <4>2 DEF OwnKeys, Own, LineOK
      <3> QED
        BY <3>1, <3>2
    <2> QED
      BY <2>2, <2>3 DEF piece
  <1> QED
    BY <1>1, <1>2, RewrittenIs DEF piece

\* parse() is under the same header after a piece as after the line, and
\* refuses the piece only if it refuses the line.
Follows(q, r) == q.under = r.under /\ q.name = r.name /\ (r.ok => q.ok)

LEMMA PieceFollows ==
    ASSUME NEW lns, NEW secs, NEW l, NEW q, NEW r, Follows(q, r)
    PROVE  Follows(After(q, Rewritten(lns, secs, l)), ReadLine(r, l.raw))
  <1> DEFINE piece == Rewritten(lns, secs, l)
             x == l.raw
  <1>1. ReadLine(q, x).under = ReadLine(r, x).under /\ ReadLine(q, x).name = ReadLine(r, x).name
    BY DEF ReadLine, Follows
  <1>2. ReadLine(r, x).ok => ReadLine(q, x).ok
    BY DEF ReadLine, Follows
  <1> HIDE DEF piece, x
  <1>3. \A p, own : OwnKeys(own) => /\ After(p, own).under = p.under /\ After(p, own).name = p.name
                                    /\ After(p, own).ok <=> p.ok
    <2> SUFFICES ASSUME NEW p, NEW own, OwnKeys(own)
                 PROVE  /\ After(p, own).under = p.under /\ After(p, own).name = p.name
                        /\ After(p, own).ok <=> p.ok
      OBVIOUS
    <2>1. Len(own) \in 0 .. Len(own)
      BY DEF OwnKeys, Own, Listed
    <2> QED
      BY <2>1, OwnKeysRead DEF After
  <1>4. CASE \E own : OwnKeys(own) /\ piece = << x >> \o own
    <2>1. PICK own : OwnKeys(own) /\ piece = << x >> \o own
      BY <1>4
    <2>2. After(q, piece) = After(ReadLine(q, x), own)
      <3>1. Listed(<< x >>) /\ Listed(own)
        BY <2>1, ListedSmall DEF OwnKeys, Own
      <3>2. After(q, << x >> \o own) = After(After(q, << x >>), own)
        BY <3>1, ReadingOfTwo
      <3> QED
        BY <2>1, <3>2, AfterSmall
    <2> QED
      BY <1>1, <1>2, <1>3, <2>1, <2>2 DEF Follows, piece, x
  <1>5. CASE OwnKeys(piece) /\ x.kind = "key"
    <2>1. ReadLine(r, x).under = r.under /\ ReadLine(r, x).name = r.name
      BY <1>5 DEF ReadLine
    <2>2. ReadLine(r, x).ok => r.ok
      BY DEF ReadLine
    <2> QED
      BY <1>3, <1>5, <2>1, <2>2 DEF Follows, piece, x
  <1> QED
    BY <1>4, <1>5, RewrittenIs DEF piece, x

\* The pieces of an image.
Pieces(lns, secs) == [i \in DOMAIN lns |-> Rewritten(lns, secs, lns[i])]
NewOnes(lns, secs) == [i \in DOMAIN secs |-> Appended(lns, secs[i])]

LEMMA ListedFunction ==
    ASSUME NEW s, Listed(s)
    PROVE  /\ DOMAIN s = 1 .. Len(s)
           /\ \A t : t = [i \in 1 .. Len(s) |-> t[i]] => Listed(t) /\ Len(t) = Len(s)
  <1>1. Len(s) \in Nat /\ s = [i \in 1 .. Len(s) |-> s[i]]
    BY DEF Listed
  <1>2. DOMAIN s = 1 .. Len(s)
    BY <1>1
  <1>3. ASSUME NEW t, t = [i \in 1 .. Len(s) |-> t[i]]
        PROVE  Listed(t) /\ Len(t) = Len(s)
    <2> DEFINE S == { t[i] : i \in 1 .. Len(s) }
    <2>1. t \in [1 .. Len(s) -> S]
      BY <1>3
    <2> HIDE DEF S
    <2>2. t \in Seq(S) /\ Len(t) = Len(s)
      BY <1>1, <2>1
    <2> QED
      BY <2>2, ListedIsSeq
  <1> QED
    BY <1>2, <1>3

LEMMA PiecesAre ==
    ASSUME NEW lns, Listed(lns), NEW secs, Listed(secs)
    PROVE  /\ Listed(Pieces(lns, secs)) /\ Len(Pieces(lns, secs)) = Len(lns)
           /\ \A i \in 1 .. Len(lns) : Pieces(lns, secs)[i] = Rewritten(lns, secs, lns[i])
           /\ \A i \in 1 .. Len(lns) : Listed(Pieces(lns, secs)[i])
           /\ Listed(NewOnes(lns, secs)) /\ Len(NewOnes(lns, secs)) = Len(secs)
           /\ \A i \in 1 .. Len(secs) : NewOnes(lns, secs)[i] = Appended(lns, secs[i])
           /\ \A i \in 1 .. Len(secs) : Listed(NewOnes(lns, secs)[i])
           /\ Image(lns, secs) = FlattenSeq(Pieces(lns, secs)) \o FlattenSeq(NewOnes(lns, secs))
  <1> DEFINE P == Pieces(lns, secs)
             N == NewOnes(lns, secs)
  <1>1. DOMAIN lns = 1 .. Len(lns) /\ DOMAIN secs = 1 .. Len(secs)
    BY ListedFunction
  <1>2. /\ P = [i \in 1 .. Len(lns) |-> P[i]] /\ N = [i \in 1 .. Len(secs) |-> N[i]]
        /\ \A i \in 1 .. Len(lns) : P[i] = Rewritten(lns, secs, lns[i])
        /\ \A i \in 1 .. Len(secs) : N[i] = Appended(lns, secs[i])
    BY <1>1 DEF Pieces, NewOnes
  <1>3. Image(lns, secs) = FlattenSeq(P) \o FlattenSeq(N)
    BY Zenon DEF Image, Pieces, NewOnes
  <1> HIDE DEF P, N
  <1>4. Listed(P) /\ Len(P) = Len(lns) /\ Listed(N) /\ Len(N) = Len(secs)
    BY <1>2, ListedFunction
  <1>5. \A i \in 1 .. Len(lns) : Listed(P[i])
    BY <1>2, RewrittenIsListed
  <1>6. \A i \in 1 .. Len(secs) : Listed(N[i])
    BY <1>2, AppendedIsOwn DEF Own
  <1> QED
    BY <1>2, <1>3, <1>4, <1>5, <1>6 DEF P, N

\* What the sections without a header add.
LEMMA NewOnesAreOwn ==
    ASSUME NEW lns, Listed(lns), NEW secs, Listed(secs)
    PROVE  Own(FlattenSeq(NewOnes(lns, secs)))
  <1> DEFINE N == NewOnes(lns, secs)
             G == { n \in Nat : n <= Len(N) => Own(Flattened(N, n)) }
  <1>1. /\ Listed(N) /\ Len(N) = Len(secs) /\ Len(N) \in Nat
        /\ \A i \in 1 .. Len(N) : Listed(N[i]) /\ Own(N[i])
    BY PiecesAre, AppendedIsOwn DEF Listed
  <1> HIDE DEF N
  <1>2. /\ Flattened(N, 0) = << >>
        /\ \A n \in 1 .. Len(N) : Flattened(N, n) = Flattened(N, n - 1) \o N[n]
        /\ FlattenSeq(N) = Flattened(N, Len(N))
    BY <1>1, PiecesJoin
  <1>3. 0 \in G
    BY <1>2, OwnJoin DEF OwnKeys
  <1>4. ASSUME NEW n \in Nat, n \in G PROVE n + 1 \in G
    <2> SUFFICES ASSUME n + 1 <= Len(N) PROVE Own(Flattened(N, n + 1))
      OBVIOUS
    <2>1. n + 1 \in 1 .. Len(N) /\ (n + 1) - 1 = n /\ Own(Flattened(N, n))
      BY <1>1, <1>4
    <2>2. Flattened(N, n + 1) = Flattened(N, n) \o N[n + 1] /\ Own(N[n + 1])
      BY <1>1, <1>2, <2>1
    <2> QED
      BY <2>1, <2>2, OwnJoin
  <1>5. Nat \subseteq G
    <2> HIDE DEF G
    <2> QED  BY <1>3, <1>4, Induction
  <1> QED
    BY <1>1, <1>2, <1>5 DEF N

\* The image, piece by piece.
LEMMA ImageFollows ==
    ASSUME NEW t, Listed(t), NEW secs, Listed(secs)
    PROVE  \A n \in 0 .. Len(t) :
              Follows(After(Begin, Flattened(Pieces(LinesOf(t), secs), n)), Reading(Begin, t)[n])
  <1> DEFINE lns == LinesOf(t)
             P == Pieces(lns, secs)
             q(n) == After(Begin, Flattened(P, n))
             r == Reading(Begin, t)
             G == { n \in Nat : n <= Len(t) => Follows(q(n), r[n]) }
  <1>1. /\ Listed(lns) /\ Len(lns) = Len(t) /\ Len(t) \in Nat
        /\ \A i \in 1 .. Len(t) : lns[i].raw = t[i]
    <2>1. /\ Listed(lns) /\ Len(lns) = Len(t)
          /\ \A i \in 1 .. Len(t) : lns[i] = NotedLine(t, i)
      BY LinesRead
    <2> HIDE DEF lns
    <2>2. \A i : NotedLine(t, i).raw = t[i]
      BY DEF NotedLine
    <2>3. Len(t) \in Nat
      BY DEF Listed
    <2> QED
      BY <2>1, <2>2, <2>3
  <1> HIDE DEF lns
  <1>2. /\ Listed(P) /\ Len(P) = Len(t)
        /\ \A i \in 1 .. Len(t) : P[i] = Rewritten(lns, secs, lns[i]) /\ Listed(P[i])
    BY <1>1, PiecesAre
  <1> HIDE DEF P
  <1>3. /\ Flattened(P, 0) = << >>
        /\ \A n \in 1 .. Len(t) : Flattened(P, n) = Flattened(P, n - 1) \o P[n]
        /\ \A n \in 0 .. Len(t) : Listed(Flattened(P, n))
    BY <1>2, PiecesJoin
  <1>4. r[0] = Begin /\ \A n \in 1 .. Len(t) : r[n] = ReadLine(r[n - 1], t[n])
    BY ReadingIs
  <1> HIDE DEF r
  <1>5. 0 \in G
    <2>1. q(0) = Begin
      BY <1>3, AfterSmall
    <2> QED
      BY <1>4, <2>1 DEF Follows
  <1>6. ASSUME NEW n \in Nat, n \in G PROVE n + 1 \in G
    <2> SUFFICES ASSUME n + 1 <= Len(t) PROVE Follows(q(n + 1), r[n + 1])
      OBVIOUS
    <2>1. n + 1 \in 1 .. Len(t) /\ (n + 1) - 1 = n /\ n \in 0 .. Len(t) /\ Follows(q(n), r[n])
      BY <1>1, <1>6
    <2>2. q(n + 1) = After(q(n), P[n + 1])
      <3>1. Listed(Flattened(P, n)) /\ Listed(P[n + 1])
        BY <1>2, <1>3, <2>1
      <3>2. Flattened(P, n + 1) = Flattened(P, n) \o P[n + 1]
        BY <1>3, <2>1
      <3> QED
        <4>1. After(Begin, Flattened(P, n) \o P[n + 1]) = After(After(Begin, Flattened(P, n)), P[n + 1])
          BY <3>1, AfterTwo
        <4> QED
          BY <3>2, <4>1, Zenon
    <2>3. /\ P[n + 1] = Rewritten(lns, secs, lns[n + 1])
          /\ r[n + 1] = ReadLine(r[n], lns[n + 1].raw)
      BY <1>1, <1>2, <1>4, <2>1
    <2> HIDE DEF q
    <2> QED
      BY <2>1, <2>2, <2>3, PieceFollows
  <1>7. Nat \subseteq G
    <2> HIDE DEF G
    <2> QED  BY <1>5, <1>6, Induction
  <1> QED
    BY <1>1, <1>7 DEF lns, P, r

\* A save never writes a file that the next start would refuse.
LEMMA ImageReadable ==
    ASSUME NEW t, Listed(t), ParseOK(t), NEW secs, Listed(secs)
    PROVE  LET image == Image(LinesOf(t), secs)
           IN  Listed(image) /\ ParseOK(image)
  <1> DEFINE lns == LinesOf(t)
             P == Pieces(lns, secs)
             N == NewOnes(lns, secs)
             a == FlattenSeq(P)
             b == FlattenSeq(N)
  <1>1. Listed(lns) /\ Len(lns) = Len(t) /\ Len(t) \in Nat
    BY LinesRead DEF Listed
  <1>2. /\ Image(lns, secs) = a \o b /\ Listed(P) /\ Len(P) = Len(t)
        /\ \A i \in 1 .. Len(P) : Listed(P[i])
    <2> HIDE DEF lns
    <2> QED  BY <1>1, PiecesAre
  <1>3. Own(b)
    <2> HIDE DEF lns
    <2> QED  BY <1>1, NewOnesAreOwn
  <1>4. Listed(a) /\ a = Flattened(P, Len(t))
    <2> HIDE DEF P
    <2>1. Len(t) \in 0 .. Len(P)
      BY <1>1, <1>2
    <2> QED
      BY <1>2, <2>1, PiecesJoin
  <1>5. Follows(After(Begin, a), After(Begin, t))
    <2>1. After(Begin, t) = Reading(Begin, t)[Len(t)]
      BY DEF After
    <2>2. Len(t) \in 0 .. Len(t)
      BY <1>1
    <2>3. Follows(After(Begin, Flattened(P, Len(t))), Reading(Begin, t)[Len(t)])
      BY <2>2, ImageFollows
    <2> QED
      BY <1>4, <2>1, <2>3, Zenon
  <1>6. After(Begin, t).ok
    BY DEF ParseOK, Parsed, After
  <1> HIDE DEF a, b, lns, P, N
  <1>7. After(Begin, a).ok
    BY <1>5, <1>6 DEF Follows
  <1>8. Listed(a \o b) /\ After(Begin, a \o b) = After(After(Begin, a), b)
    BY <1>3, <1>4, ListedConcat, ReadingOfTwo DEF Own
  <1>9. After(Begin, a \o b).ok
    BY <1>3, <1>7, <1>8, OwnRead
  <1> QED
    BY <1>2, <1>8, <1>9 DEF lns, ParseOK, Parsed, After

\* Its lines are of the kinds a file has.
LEMMA ImageLines ==
    ASSUME NEW lns, Listed(lns), \A i \in 1 .. Len(lns) : LineOK(lns[i].raw),
           NEW secs, Listed(secs)
    PROVE  \A i \in 1 .. Len(Image(lns, secs)) : LineOK(Image(lns, secs)[i])
  <1> DEFINE P == Pieces(lns, secs)
             N == NewOnes(lns, secs)
             a == FlattenSeq(P)
             b == FlattenSeq(N)
             Good(s) == \A i \in 1 .. Len(s) : LineOK(s[i])
             S == UNION { { P[i][j] : j \in 1 .. Len(P[i]) } : i \in 1 .. Len(P) }
             Fine == { x \in S : LineOK(x) }
  <1>1. /\ Image(lns, secs) = a \o b /\ Listed(P) /\ Len(P) = Len(lns)
        /\ \A i \in 1 .. Len(P) : Listed(P[i]) /\ P[i] = Rewritten(lns, secs, lns[i])
    BY PiecesAre
  <1>2. Own(b)
    BY NewOnesAreOwn
  <1> HIDE DEF P, N, b
  <1>3. \A i \in 1 .. Len(P) : Good(P[i])
    BY <1>1, RewrittenIsListed
  <1>4. \A i \in 1 .. Len(P) : P[i] \in Seq(Fine)
    <2> SUFFICES ASSUME NEW i \in 1 .. Len(P) PROVE P[i] \in Seq(Fine)
      OBVIOUS
    <2>1. Listed(P[i]) /\ Good(P[i])
      BY <1>1, <1>3
    <2>2. \A j \in 1 .. Len(P[i]) : P[i][j] \in S
      OBVIOUS
    <2>3. \A j \in 1 .. Len(P[i]) : P[i][j] \in Fine
      <3> HIDE DEF S
      <3> QED
        BY <2>1, <2>2
    <2> HIDE DEF Fine
    <2> QED
      BY <2>1, <2>3, ListedIn
  <1> HIDE DEF S
  <1>5. a \in Seq(Fine)
    <2> HIDE DEF Fine, a
    <2>1. P \in Seq(Seq(Fine))
      BY <1>1, <1>4 DEF Listed
    <2>2. Len(P) \in 0 .. Len(P)
      BY <1>1 DEF Listed
    <2> QED
      BY <2>1, <2>2, FlattenedGrows DEF a
  <1>6. Listed(a) /\ Good(a)
    <2> HIDE DEF a
    <2>1. Listed(a)
      BY <1>5, ListedIsSeq
    <2>2. \A i \in 1 .. Len(a) : a[i] \in Fine
      <3> HIDE DEF Fine
      <3> QED  BY <1>5, ElementOfSeq
    <2> QED
      BY <2>1, <2>2
  <1>7. Listed(b) /\ Good(b)
    BY <1>2 DEF Own, LineOK
  <1> HIDE DEF a, Fine
  <1> DEFINE c == a \o b
  <1>8. /\ Len(c) = Len(a) + Len(b) /\ Len(a) \in Nat /\ Len(b) \in Nat
        /\ \A i \in 1 .. Len(a) : c[i] = a[i]
        /\ \A i \in 1 .. Len(b) : c[Len(a) + i] = b[i]
    BY <1>6, <1>7, ListedConcat DEF Listed
  <1> HIDE DEF c
  <1>9. ASSUME NEW i \in 1 .. Len(c) PROVE LineOK(c[i])
    <2>1. CASE i <= Len(a)
      BY <1>6, <1>8, <2>1
    <2>2. CASE ~ (i <= Len(a))
      <3>1. i - Len(a) \in 1 .. Len(b) /\ Len(a) + (i - Len(a)) = i
        BY <1>8, <2>2
      <3> QED
        BY <1>7, <1>8, <3>1
    <2> QED
      BY <2>1, <2>2
  <1> QED
    BY <1>1, <1>9 DEF c

-----------------------------------------------------------------------------
(* The sections that were read.                                             *)

\* The lookup depends on ids and header names only.
SameNames(secs, other) ==
    /\ Len(other) = Len(secs)
    /\ \A i \in 1 .. Len(secs) : other[i].id = secs[i].id /\ other[i].name = secs[i].name

LEMMA SameNamesFind ==
    ASSUME NEW secs, Sections(secs), NEW other, Sections(other), SameNames(secs, other), NEW key
    PROVE  findSection(other, key) = findSection(secs, key)
  <1>1. DOMAIN secs = 1 .. Len(secs) /\ DOMAIN other = 1 .. Len(secs)
    BY DEF Sections, SameNames
  <1>2. /\ { i \in DOMAIN other : other[i].id # "" /\ other[i].id = key }
            = { i \in DOMAIN secs : secs[i].id # "" /\ secs[i].id = key }
        /\ { i \in DOMAIN other : other[i].name = key } = { i \in DOMAIN secs : secs[i].name = key }
    BY <1>1 DEF SameNames
  <1> QED
    BY <1>2, Zenon DEF findSection

\* A section that one line was added to.
LEMMA NewAdded ==
    ASSUME NEW secs, Sections(secs), NEW sec, Shaped(sec)
    PROVE  /\ Sections(Append(secs, sec)) /\ Len(Append(secs, sec)) = Len(secs) + 1
           /\ \A i \in 1 .. Len(secs) : Append(secs, sec)[i] = secs[i]
           /\ Append(secs, sec)[Len(secs) + 1] = sec
  <1> DEFINE new == Append(secs, sec)
  <1>1. Listed(secs) /\ Len(secs) \in Nat /\ \A i \in 1 .. Len(secs) : Shaped(secs[i])
    BY DEF Sections, Listed
  <1>2. /\ Listed(new) /\ Len(new) = Len(secs) + 1
        /\ \A i \in 1 .. Len(secs) : new[i] = secs[i]
        /\ new[Len(secs) + 1] = sec
    BY <1>1, ListedAppend
  <1> HIDE DEF new
  <1>3. \A i \in 1 .. Len(new) : Shaped(new[i])
    BY <1>1, <1>2
  <1> QED
    BY <1>2, <1>3 DEF Sections, Listed, new

\* What a key makes of a section.
KeyRead(sec, l) ==
    FullSection(sec.name,
             IF l.key = "id" THEN l.val ELSE sec.id,
             IF l.key = "mac" THEN l.val ELSE sec.mac,
             IF l.key = "creds" THEN l.val ELSE sec.creds,
             IF l.key = "name" THEN l.val ELSE sec.shown,
             IF l.key = "name" THEN TRUE ELSE sec.renamed,
             IF l.key = "auto" THEN TRUE ELSE sec.auto)

LEMMA WithKeyIs ==
    ASSUME NEW sec, Shaped(sec), NEW l
    PROVE  WithKey(sec, l) = KeyRead(sec, l)
  <1> DEFINE Full(id, mac, creds, shown, renamed, auto) ==
                FullSection(sec.name, id, mac, creds, shown, renamed, auto)
  <1>1. sec = Full(sec.id, sec.mac, sec.creds, sec.shown, sec.renamed, sec.auto)
    BY ShapedIs
  <1>2. \A v : /\ [sec EXCEPT !.id = v] = Full(v, sec.mac, sec.creds, sec.shown, sec.renamed, sec.auto)
               /\ [sec EXCEPT !.mac = v] = Full(sec.id, v, sec.creds, sec.shown, sec.renamed, sec.auto)
               /\ [sec EXCEPT !.creds = v] = Full(sec.id, sec.mac, v, sec.shown, sec.renamed, sec.auto)
               /\ [sec EXCEPT !.shown = v] = Full(sec.id, sec.mac, sec.creds, v, sec.renamed, sec.auto)
               /\ [sec EXCEPT !.auto = v] = Full(sec.id, sec.mac, sec.creds, sec.shown, sec.renamed, v)
    BY <1>1 DEF FullSection
  <1>3. \A v : [sec EXCEPT !.shown = v, !.renamed = TRUE]
                  = Full(sec.id, sec.mac, sec.creds, v, TRUE, sec.auto)
    <2> SUFFICES ASSUME NEW v
                 PROVE  [sec EXCEPT !.shown = v, !.renamed = TRUE]
                           = Full(sec.id, sec.mac, sec.creds, v, TRUE, sec.auto)
      OBVIOUS
    <2>1. [sec EXCEPT !.shown = v, !.renamed = TRUE] = [[sec EXCEPT !.shown = v] EXCEPT !.renamed = TRUE]
      BY Zenon
    <2>3. \A w : [Full(sec.id, sec.mac, sec.creds, v, sec.renamed, sec.auto) EXCEPT !.renamed = w]
                     = Full(sec.id, sec.mac, sec.creds, v, w, sec.auto)
      BY DEF FullSection
    <2>2. [Full(sec.id, sec.mac, sec.creds, v, sec.renamed, sec.auto) EXCEPT !.renamed = TRUE]
             = Full(sec.id, sec.mac, sec.creds, v, TRUE, sec.auto)
      BY <2>3, Zenon
    <2> QED
      BY <1>2, <2>1, <2>2, Zenon
  <1> HIDE DEF Full
  <1>4. CASE l.key = "id"
    <2>1. WithKey(sec, l) = [sec EXCEPT !.id = l.val]
      BY <1>4 DEF WithKey
    <2>2. KeyRead(sec, l) = Full(l.val, sec.mac, sec.creds, sec.shown, sec.renamed, sec.auto)
      BY <1>4 DEF KeyRead, Full
    <2> QED  BY <1>2, <2>1, <2>2
  <1>5. CASE l.key = "mac"
    <2>1. WithKey(sec, l) = [sec EXCEPT !.mac = l.val]
      BY <1>5 DEF WithKey
    <2>2. KeyRead(sec, l) = Full(sec.id, l.val, sec.creds, sec.shown, sec.renamed, sec.auto)
      BY <1>5 DEF KeyRead, Full
    <2> QED  BY <1>2, <2>1, <2>2
  <1>6. CASE l.key = "name"
    <2>1. WithKey(sec, l) = [sec EXCEPT !.shown = l.val, !.renamed = TRUE]
      BY <1>6 DEF WithKey
    <2>2. KeyRead(sec, l) = Full(sec.id, sec.mac, sec.creds, l.val, TRUE, sec.auto)
      BY <1>6 DEF KeyRead, Full
    <2> QED  BY <1>3, <2>1, <2>2
  <1>7. CASE l.key = "creds"
    <2>1. WithKey(sec, l) = [sec EXCEPT !.creds = l.val]
      BY <1>7 DEF WithKey
    <2>2. KeyRead(sec, l) = Full(sec.id, sec.mac, l.val, sec.shown, sec.renamed, sec.auto)
      BY <1>7 DEF KeyRead, Full
    <2> QED  BY <1>2, <2>1, <2>2
  <1>8. CASE l.key = "auto"
    <2>1. WithKey(sec, l) = [sec EXCEPT !.auto = TRUE]
      BY <1>8 DEF WithKey
    <2>2. KeyRead(sec, l) = Full(sec.id, sec.mac, sec.creds, sec.shown, sec.renamed, TRUE)
      BY <1>8 DEF KeyRead, Full
    <2> QED  BY <1>2, <2>1, <2>2
  <1>9. CASE l.key \notin {"id", "mac", "name", "creds", "auto"}
    <2>1. WithKey(sec, l) = sec
      BY <1>9 DEF WithKey
    <2>2. KeyRead(sec, l) = Full(sec.id, sec.mac, sec.creds, sec.shown, sec.renamed, sec.auto)
      BY <1>9 DEF KeyRead, Full
    <2> QED  BY <1>1, <2>1, <2>2 DEF Full
  <1> QED
    BY <1>4, <1>5, <1>6, <1>7, <1>8, <1>9

\* HeaderAt() is where the section of a header is found once it is there.
LEMMA HeaderIsAt ==
    ASSUME NEW secs, Sections(secs), NEW name
    PROVE  HeaderAt(secs, name) = findSection(ensureSection(secs, name, name, FALSE), name)
  <1> DEFINE all == ensureSection(secs, name, name, FALSE)
             pos == findSection(all, name)
             sec == NewSection(name, FALSE)
  <1>20. Len(secs) \in Nat
    BY DEF Sections
  <1>0. CASE findSection(secs, name) # 0
    <2>1. all = secs
      BY <1>0, Zenon DEF ensureSection
    <2> QED
      BY <1>0, <2>1, Zenon DEF HeaderAt
  <1>10. CASE findSection(secs, name) = 0
    <2>1. all = Append(secs, sec)
      <3>1. (IF name = "" THEN name ELSE name) = name
        OBVIOUS
      <3> QED
        BY <1>10, <3>1, Zenon DEF ensureSection
    <2>2. Shaped(sec) /\ sec.name = name /\ sec.id = "" /\ sec.shown = name
      BY DEF NewSection, Shaped
    <2>3. /\ Sections(all) /\ Len(all) = Len(secs) + 1
          /\ \A i \in 1 .. Len(secs) : all[i] = secs[i]
          /\ all[Len(secs) + 1] = sec
      <3>1. Shaped(sec)
        BY Zenon, <2>2
      <3> HIDE DEF sec
      <3>2. /\ Sections(Append(secs, sec)) /\ Len(Append(secs, sec)) = Len(secs) + 1
            /\ \A i \in 1 .. Len(secs) : Append(secs, sec)[i] = secs[i]
            /\ Append(secs, sec)[Len(secs) + 1] = sec
        BY <3>1, NewAdded
      <3> HIDE DEF all
      <3> QED
        BY Zenon, <2>1, <3>2
    <2>4. \A i \in 1 .. Len(secs) : secs[i].name # name /\ ~ (secs[i].id # "" /\ secs[i].id = name)
      BY <1>10, FindSection
    <2> HIDE DEF sec, all
    <2>5. pos = Len(secs) + 1
      <3> DEFINE p == pos
      <3>1. /\ p \in 0 .. Len(all)
            /\ p = 0 <=> \A i \in 1 .. Len(all) : all[i].name # name /\ ~ (all[i].id # "" /\ all[i].id = name)
            /\ p # 0 => \/ all[p].id # "" /\ all[p].id = name
                        \/ all[p].name = name
        BY <2>3, FindSection
      <3> HIDE DEF p
      <3>2. Len(secs) + 1 \in 1 .. Len(all)
        BY <1>20, <2>3
      <3>3. p # 0
        BY <2>2, <2>3, <3>1, <3>2
      <3>4. p \notin 1 .. Len(secs)
        BY <2>3, <2>4, <3>1, <3>3
      <3>5. p = Len(secs) + 1
        <4>1. p \in 0 .. Len(secs) + 1
          BY <2>3, <3>1, Zenon
        <4> QED
          BY <1>20, <3>3, <3>4, <4>1
      <3> QED
        BY <3>5 DEF p
    <2> QED
      BY <1>10, <2>5, Zenon DEF HeaderAt, pos, all
  <1> QED
    BY <1>0, <1>10

\* A header with a new name adds its section.
LEMMA HeaderNew ==
    ASSUME NEW secs, Sections(secs), NEW name, findSection(secs, name) = 0
    PROVE  LET new == WithHeader(secs, name)
               at  == findSection(new, name)
           IN  /\ Sections(new) /\ at = Len(secs) + 1 /\ Len(new) = Len(secs) + 1
               /\ new[at] = NewSection(name, FALSE)
               /\ \A i \in 1 .. Len(secs) : new[i] = secs[i]
  <1> DEFINE new == WithHeader(secs, name)
             at  == findSection(new, name)
             all == ensureSection(secs, name, name, FALSE)
             pos == findSection(all, name)
  <1>20. Len(secs) \in Nat
    BY DEF Sections
  <1>21. new = [all EXCEPT ![pos].shown = name]
    BY HeaderIsAt DEF WithHeader
  <1> DEFINE sec == NewSection(name, FALSE)
  <1>1. all = Append(secs, sec)
    <2>1. (IF name = "" THEN name ELSE name) = name
      OBVIOUS
    <2> QED
      BY <2>1, Zenon DEF ensureSection
  <1>2. Shaped(sec) /\ sec.name = name /\ sec.id = "" /\ sec.shown = name
    BY DEF NewSection, Shaped
  <1>3. /\ Sections(all) /\ Len(all) = Len(secs) + 1
        /\ \A i \in 1 .. Len(secs) : all[i] = secs[i]
        /\ all[Len(secs) + 1] = sec
    <2>1. Shaped(sec)
      BY Zenon, <1>2
    <2> HIDE DEF sec
    <2>2. /\ Sections(Append(secs, sec)) /\ Len(Append(secs, sec)) = Len(secs) + 1
          /\ \A i \in 1 .. Len(secs) : Append(secs, sec)[i] = secs[i]
          /\ Append(secs, sec)[Len(secs) + 1] = sec
      BY <2>1, NewAdded
    <2> HIDE DEF all
    <2> QED
      BY Zenon, <1>1, <2>2
  <1> HIDE DEF sec, all
  <1>5. pos = Len(secs) + 1
    BY HeaderIsAt DEF HeaderAt, pos, all
  <1> HIDE DEF pos
  <1>6. new = all
    <2>1. all = [j \in 1 .. Len(all) |-> all[j]]
      BY <1>3 DEF Sections
    <2>2. [sec EXCEPT !.shown = name] = sec
      <3> DEFINE no == FALSE
                 none == ""
      <3>1. sec = FullSection(name, none, NoMac, NoCreds, name, no, no)
        BY DEF sec, NewSection, FullSection
      <3> HIDE DEF no, none
      <3>2. [FullSection(name, none, NoMac, NoCreds, name, no, no) EXCEPT !.shown = name]
               = FullSection(name, none, NoMac, NoCreds, name, no, no)
        BY DEF FullSection
      <3> QED
        BY <3>1, <3>2
    <2>3. [all[pos] EXCEPT !.shown = name] = all[pos]
      BY <1>3, <1>5, <2>2
    <2> QED
      BY <1>21, <2>1, <2>3
  <1>7. at = Len(secs) + 1
    BY <1>5, <1>6 DEF pos
  <1> HIDE DEF at, new
  <1> QED
    BY <1>3, <1>6, <1>7 DEF sec, at, new

\* A header finds its section, or adds one.
LEMMA HeaderRead ==
    ASSUME NEW secs, Sections(secs), NEW name
    PROVE  LET new == WithHeader(secs, name)
               at  == findSection(new, name)
               old == findSection(secs, name)
           IN  /\ Sections(new) /\ at \in 1 .. Len(new)
               /\ old # 0 => /\ at = old /\ Len(new) = Len(secs)
                             /\ new[old] = [secs[old] EXCEPT !.shown = name]
                             /\ \A i \in 1 .. Len(secs) : i # old => new[i] = secs[i]
               /\ old = 0 => /\ at = Len(secs) + 1 /\ Len(new) = Len(secs) + 1
                             /\ new[at] = NewSection(name, FALSE)
                             /\ \A i \in 1 .. Len(secs) : new[i] = secs[i]
  <1> DEFINE new == WithHeader(secs, name)
             at  == findSection(new, name)
             old == findSection(secs, name)
             all == ensureSection(secs, name, name, FALSE)
             pos == findSection(all, name)
  <1>1. Len(secs) \in Nat /\ old \in 0 .. Len(secs)
    BY Lookups DEF Sections
  <1>2. new = [all EXCEPT ![pos].shown = name]
    BY HeaderIsAt DEF WithHeader
  <1>3. ASSUME old # 0
        PROVE  /\ Sections(new) /\ at = old /\ Len(new) = Len(secs)
               /\ new[old] = [secs[old] EXCEPT !.shown = name]
               /\ \A i \in 1 .. Len(secs) : i # old => new[i] = secs[i]
    <2>1. all = secs
      BY <1>3, Zenon DEF ensureSection
    <2>2. pos = old
      BY <2>1, Zenon
    <2>3. Shaped([secs[old] EXCEPT !.shown = name])
          /\ [secs[old] EXCEPT !.shown = name].id = secs[old].id
          /\ [secs[old] EXCEPT !.shown = name].name = secs[old].name
      <3>1. Shaped(secs[old])
        BY <1>1, <1>3 DEF Sections
      <3> DEFINE s == secs[old]
      <3> HIDE DEF s, old
      <3>2. [s EXCEPT !.shown = name] = FullSection(s.name, s.id, s.mac, s.creds, name, s.renamed, s.auto)
        <4>1. s = FullSection(s.name, s.id, s.mac, s.creds, s.shown, s.renamed, s.auto)
          BY <3>1, ShapedIs DEF s
        <4> QED
          BY <4>1 DEF FullSection
      <3> DEFINE touched == [s EXCEPT !.shown = name]
      <3> HIDE DEF touched
      <3>4. Shaped(touched) /\ touched.id = s.id /\ touched.name = s.name
        <4>1. touched = FullSection(s.name, s.id, s.mac, s.creds, name, s.renamed, s.auto)
          BY <3>2 DEF touched
        <4> QED
          BY <4>1, ShapedFields
      <3>3. /\ Shaped([s EXCEPT !.shown = name]) /\ [s EXCEPT !.shown = name].id = s.id
            /\ [s EXCEPT !.shown = name].name = s.name
        BY <3>4 DEF touched
      <3> QED
        BY <3>3 DEF s
    <2> HIDE DEF old, pos, all
    <2> DEFINE sec == [secs[old] EXCEPT !.shown = name]
    <2>4. new = [secs EXCEPT ![old] = sec]
      <3>1. secs = [j \in 1 .. Len(secs) |-> secs[j]]
        BY DEF Sections
      <3> QED
        BY <1>1, <1>2, <2>1, <2>2, <3>1
    <2> HIDE DEF sec
    <2>5. /\ Sections(new) /\ Len(new) = Len(secs) /\ new[old] = sec
          /\ \A i \in 1 .. Len(secs) : i # old => new[i] = secs[i]
      <3>1. old \in 1 .. Len(secs) /\ Shaped(sec)
        BY <1>1, <1>3, <2>3 DEF sec
      <3> DEFINE put == [secs EXCEPT ![old] = sec]
      <3>2. /\ Sections(put) /\ Len(put) = Len(secs) /\ put[old] = sec
            /\ \A i \in 1 .. Len(secs) : i # old => put[i] = secs[i]
        BY <3>1, OneChanged
      <3> QED
        BY <2>4, <3>2
    <2>6. SameNames(secs, new)
      BY <2>3, <2>5 DEF SameNames, sec
    <2>7. at = old
      <3> HIDE DEF new
      <3> QED  BY <2>5, <2>6, SameNamesFind DEF old
    <2> HIDE DEF at, new
    <2> QED
      BY <2>5, <2>7 DEF sec
  <1>4. ASSUME old = 0
        PROVE  /\ Sections(new) /\ at = Len(secs) + 1 /\ Len(new) = Len(secs) + 1
               /\ new[at] = NewSection(name, FALSE)
               /\ \A i \in 1 .. Len(secs) : new[i] = secs[i]
    BY <1>4, HeaderNew
  <1> HIDE DEF new, at, old
  <1>5. at \in 1 .. Len(new)
    <2>1. CASE old # 0
      BY <1>1, <1>3, <2>1
    <2>2. CASE old = 0
      <3>1. Len(secs) + 1 \in 1 .. Len(secs) + 1
        BY <1>1
      <3>2. at = Len(secs) + 1 /\ Len(new) = Len(secs) + 1
        BY <1>4, <2>2
      <3> QED
        BY <3>1, <3>2, Zenon
    <2> QED
      BY <2>1, <2>2
  <1> QED
    BY <1>3, <1>4, <1>5 DEF new, at, old

\* The section of a header is the one that is found by its name after it.
LEMMA HeaderFound ==
    ASSUME NEW secs, Sections(secs), NEW name
    PROVE  HeaderAt(secs, name) = findSection(WithHeader(secs, name), name)
  BY HeaderRead DEF HeaderAt

\* What parse() has read is a sequence of sections, and a position in it.
LEMMA SectionsRead ==
    ASSUME NEW t, Listed(t)
    PROVE  \A n \in 0 .. Len(t) : /\ Sections(Reading(Begin, t)[n].secs)
                                  /\ Reading(Begin, t)[n].at \in 0 .. Len(Reading(Begin, t)[n].secs)
  <1> DEFINE f == Reading(Begin, t)
             Good(r) == Sections(r.secs) /\ r.at \in 0 .. Len(r.secs)
             G == { n \in Nat : n <= Len(t) => Good(f[n]) }
  <1>1. Len(t) \in Nat /\ f[0] = Begin /\ \A n \in 1 .. Len(t) : f[n] = ReadLine(f[n - 1], t[n])
    BY ReadingIs DEF Listed
  <1> HIDE DEF f
  <1>2. 0 \in G
    <2>1. Begin.secs = << >> /\ Begin.at = 0
      BY DEF Begin
    <2> QED
      BY <1>1, <2>1 DEF Sections
  <1>3. ASSUME NEW r, Good(r), NEW l PROVE Good(ReadLine(r, l))
    <2> DEFINE new == ReadLine(r, l)
               player == l.kind = "header" /\ l.val \notin Reserved
    <2>1. Len(r.secs) \in Nat
      BY <1>3 DEF Sections
    <2>2. CASE player
      <3>1. new.secs = WithHeader(r.secs, l.val) /\ new.at = findSection(new.secs, l.val)
        <4>1. new.secs = WithHeader(r.secs, l.val) /\ new.at = HeaderAt(r.secs, l.val)
          BY <2>2 DEF ReadLine
        <4> HIDE DEF new
        <4> QED
          BY <1>3, <4>1, HeaderFound
      <3> HIDE DEF new
      <3>3. /\ findSection(WithHeader(r.secs, l.val), l.val) \in 1 .. Len(WithHeader(r.secs, l.val))
            /\ Sections(WithHeader(r.secs, l.val))
        BY <1>3, HeaderRead
      <3>2. new.at \in 1 .. Len(new.secs) /\ Sections(new.secs)
        BY <3>1, <3>3, Zenon
      <3> QED
        BY <3>2 DEF new
    <2>3. CASE ~player /\ l.kind = "key" /\ r.at # 0
      <3>1. new.secs = [r.secs EXCEPT ![r.at] = WithKey(@, l)] /\ new.at = r.at
        BY <2>3 DEF ReadLine
      <3>2. Shaped(WithKey(r.secs[r.at], l))
        <4>1. Shaped(r.secs[r.at])
          BY <1>3, <2>3 DEF Sections
        <4>2. WithKey(r.secs[r.at], l) = KeyRead(r.secs[r.at], l)
          BY <4>1, WithKeyIs
        <4>3. Shaped(KeyRead(r.secs[r.at], l))
          BY DEF KeyRead, Shaped, FullSection
        <4> QED
          BY <4>2, <4>3
      <3>3. Sections([r.secs EXCEPT ![r.at] = WithKey(r.secs[r.at], l)])
            /\ Len([r.secs EXCEPT ![r.at] = WithKey(r.secs[r.at], l)]) = Len(r.secs)
        <4> DEFINE sec == WithKey(r.secs[r.at], l)
        <4>1. r.at \in 1 .. Len(r.secs)
          BY <1>3, <2>1, <2>3
        <4> HIDE DEF sec
        <4> QED
          BY <1>3, <3>2, <4>1, OneChanged DEF sec
      <3>4. [r.secs EXCEPT ![r.at] = WithKey(@, l)] = [r.secs EXCEPT ![r.at] = WithKey(r.secs[r.at], l)]
        BY Zenon
      <3> HIDE DEF new
      <3>5. Sections(new.secs) /\ Len(new.secs) = Len(r.secs)
        BY <3>1, <3>3, <3>4, Zenon
      <3> QED
        BY <1>3, <3>1, <3>5 DEF new
    <2>4. CASE ~player /\ ~ (l.kind = "key" /\ r.at # 0)
      <3>1. new.secs = r.secs /\ (new.at = 0 \/ new.at = r.at)
        BY <2>4 DEF ReadLine
      <3> HIDE DEF new
      <3> QED
        BY <1>3, <2>1, <3>1 DEF new
    <2> QED
      BY <2>2, <2>3, <2>4
  <1>4. ASSUME NEW n \in Nat, n \in G PROVE n + 1 \in G
    <2> SUFFICES ASSUME n + 1 <= Len(t) PROVE Good(f[n + 1])
      OBVIOUS
    <2>1. n + 1 \in 1 .. Len(t) /\ (n + 1) - 1 = n /\ Good(f[n])
      BY <1>1, <1>4
    <2>2. f[n + 1] = ReadLine(f[n], t[n + 1])
      BY <1>1, <2>1
    <2> HIDE DEF Good
    <2> QED
      BY <1>3, <2>1, <2>2
  <1>5. Nat \subseteq G
    <2> HIDE DEF G
    <2> QED  BY <1>2, <1>4, Induction
  <1> QED
    BY <1>1, <1>5 DEF f

-----------------------------------------------------------------------------
(* The operations keep the sections in shape.                               *)

LEMMA CredsKeep ==
    ASSUME NEW secs, Ready(secs), NEW key, NEW creds
    PROVE  /\ Ready(WithCreds(secs, key, creds))
           /\ SameMacs(secs, WithCreds(secs, key, creds))
  <1> DEFINE i   == findSection(secs, key)
             sec == [secs[i] EXCEPT !.creds = creds]
             new == WithCreds(secs, key, creds)
  <1>1. Sections(secs) /\ i \in 0 .. Len(secs) /\ Len(secs) \in Nat
    BY Lookups DEF Ready, Sections
  <1> HIDE DEF i
  <1>2. CASE i = 0
    <2>1. new = secs
      BY <1>2 DEF WithCreds, i
    <2> QED
      BY <2>1 DEF SameMacs
  <1>3. CASE i # 0
    <2>1. new = [secs EXCEPT ![i] = sec]
      <3>1. new = [secs EXCEPT ![i].creds = creds]
        BY <1>3 DEF WithCreds, i
      <3>2. secs = [j \in 1 .. Len(secs) |-> secs[j]]
        BY <1>1 DEF Sections
      <3> HIDE DEF new
      <3> QED
        BY <3>1, <3>2
    <2> DEFINE s == secs[i]
    <2>2. Shaped(s) /\ i \in 1 .. Len(secs)
      BY <1>1, <1>3 DEF Sections
    <2> HIDE DEF s
    <2>3. [s EXCEPT !.creds = creds] = FullSection(s.name, s.id, s.mac, creds, s.shown, s.renamed, s.auto)
      <3>1. s = FullSection(s.name, s.id, s.mac, s.creds, s.shown, s.renamed, s.auto)
        BY <2>2, ShapedIs
      <3> QED
        BY <3>1 DEF FullSection
    <2>4. Shaped([s EXCEPT !.creds = creds]) /\ [s EXCEPT !.creds = creds].mac = s.mac
      BY <2>3 DEF FullSection, Shaped
    <2>5. Shaped(sec) /\ sec.mac = secs[i].mac
      BY <2>4 DEF s
    <2> HIDE DEF sec
    <2>6. Sections([secs EXCEPT ![i] = sec]) /\ SameMacs(secs, [secs EXCEPT ![i] = sec])
      BY <1>1, <2>2, <2>5, Replaced
    <2> HIDE DEF new
    <2>7. Sections(new) /\ SameMacs(secs, new)
      BY <2>1, <2>6, Zenon
    <2>8. Ready(new)
      BY <2>7, SameMacsKeep DEF Ready
    <2> QED
      BY <2>7, <2>8 DEF new
  <1> QED
    BY <1>2, <1>3

LEMMA NameKeeps ==
    ASSUME NEW secs, Ready(secs), NEW key, NEW name
    PROVE  /\ Ready(WithName(secs, key, name))
           /\ SameMacs(secs, WithName(secs, key, name))
  <1> DEFINE i   == findSection(secs, key)
             yes == TRUE
             sec == [secs[i] EXCEPT !.shown = name, !.renamed = yes]
             new == WithName(secs, key, name)
  <1>1. Sections(secs) /\ i \in 0 .. Len(secs) /\ Len(secs) \in Nat
    BY Lookups DEF Ready, Sections
  <1> HIDE DEF i
  <1>2. CASE new = secs
    BY <1>2 DEF SameMacs
  <1>3. CASE new # secs
    <2>1. i # 0 /\ new = [secs EXCEPT ![i].shown = name, ![i].renamed = yes]
      BY <1>3 DEF WithName, i
    <2> HIDE DEF new, yes
    <2>9. new = [secs EXCEPT ![i] = sec]
      <3>2. secs = [j \in 1 .. Len(secs) |-> secs[j]]
        BY <1>1 DEF Sections
      <3> QED
        BY <2>1, <3>2
    <2> DEFINE s == secs[i]
    <2>2. Shaped(s) /\ i \in 1 .. Len(secs)
      BY <1>1, <2>1 DEF Sections
    <2> HIDE DEF s
    <2>3. [s EXCEPT !.shown = name, !.renamed = yes] = FullSection(s.name, s.id, s.mac, s.creds, name, yes, s.auto)
      <3>1. s = FullSection(s.name, s.id, s.mac, s.creds, s.shown, s.renamed, s.auto)
        BY <2>2, ShapedIs
      <3>2. [s EXCEPT !.shown = name] = FullSection(s.name, s.id, s.mac, s.creds, name, s.renamed, s.auto)
        BY <3>1 DEF FullSection
      <3>3. [FullSection(s.name, s.id, s.mac, s.creds, name, s.renamed, s.auto) EXCEPT !.renamed = yes]
               = FullSection(s.name, s.id, s.mac, s.creds, name, yes, s.auto)
        BY DEF FullSection
      <3>4. [s EXCEPT !.shown = name, !.renamed = yes] = [[s EXCEPT !.shown = name] EXCEPT !.renamed = yes]
        BY Zenon
      <3> QED
        BY <3>2, <3>3, <3>4, Zenon
    <2>4. /\ Shaped([s EXCEPT !.shown = name, !.renamed = yes])
          /\ [s EXCEPT !.shown = name, !.renamed = yes].mac = s.mac
      BY <2>3 DEF FullSection, Shaped
    <2>5. Shaped(sec) /\ sec.mac = secs[i].mac
      BY <2>4 DEF s
    <2> HIDE DEF sec
    <2>6. Sections([secs EXCEPT ![i] = sec]) /\ SameMacs(secs, [secs EXCEPT ![i] = sec])
      BY <1>1, <2>2, <2>5, Replaced
    <2>7. Sections(new) /\ SameMacs(secs, new)
      BY <2>9, <2>6, Zenon
    <2>8. Ready(new)
      BY <2>7, SameMacsKeep DEF Ready
    <2> QED
      BY <2>7, <2>8 DEF new
  <1> QED
    BY <1>2, <1>3

-----------------------------------------------------------------------------
(* The file, the buffer of its lines and the temporary file.                *)

\* A file that parse() reads to its end.
Whole(t) == Listed(t) /\ ParseOK(t) /\ \A i \in 1 .. Len(t) : LineOK(t[i])

\* lines_ are the lines of a file that was read.
Running ==
    proc = "up" => /\ Ready(sections)
                   /\ \E t : Whole(t) /\ lines = LinesOf(t)

\* A temporary file that was written is the image of what is in memory, and
\* stays that until it replaces the file.
Saving ==
    /\ saver \in [step : {"idle", "write", "sync", "rename", "unsynced"}, flush : BOOLEAN]
    /\ saver.step \in {"sync", "rename", "unsynced"} => tmp = File(Image(lines, sections))

AllListed(files) == \A file \in files : Listed(file.text)
AllReadable(files) == \A file \in files : Readable(file)

\* A program that runs has read the file or replaced it; what a host crash may
\* bring back is readable too unless a sync failed; and a template is only
\* written before any file was read.
Kept ==
    /\ Listed(disk.text) /\ Listed(tmp.text) /\ AllListed(older)
    /\ proc = "up" => Readable(disk)
    /\ opened => Readable(disk) /\ (~failed => AllReadable(older))
    /\ saver.step = "unsynced" => failed
    /\ proc = "template" => ~opened

FileInv == TypeOK /\ Running /\ Saving /\ Kept

\* The files a start can find before any save, and what the program itself
\* leaves: sequences of lines of the kinds a file has.
LEMMA SmallFiles ==
    /\ Listed(Missing.text) /\ FileOK(Missing) /\ Listed(Torn.text) /\ FileOK(Torn)
    /\ Listed(Template) /\ FileOK(File(Template))
    /\ \A part \in Partial : Listed(part) /\ FileOK(File(part))
    /\ \A file \in Files : Listed(file) /\ FileOK(File(file))
  <1>1. \A text : File(text).text = text
    BY DEF File
  <1>2. \A text : Listed(text) /\ (\A i \in 1 .. Len(text) : LineOK(text[i])) => FileOK(File(text))
    BY <1>1, ListedFunction DEF FileOK
  <1>3. LineOK(Line("torn", "", "", "program")) /\ LineOK(Header("global", "program"))
        /\ LineOK(Header("default", "program")) /\ LineOK(BadLine("protocol", "program"))
        /\ LineOK(Line("key", "discovery", "ok", "program"))
        /\ LineOK(Line("key", "protocol", "ok", "program"))
    BY DEF LineOK, Line, Header, BadLine
  <1>4. Listed(<< >>) /\ Len(<< >>) = 0
    BY ListedSmall
  <1>5. Listed(Missing.text) /\ FileOK(Missing)
    BY <1>4 DEF Missing, FileOK
  <1>6. \A a : LineOK(a) => Listed(<< a >>) /\ FileOK(File(<< a >>))
    <2> SUFFICES ASSUME NEW a, LineOK(a)
                 PROVE  Listed(<< a >>) /\ \A i \in 1 .. Len(<< a >>) : LineOK(<< a >>[i])
      BY <1>2
    <2> QED
      BY ListedSmall
  <1>7. \A a, b : LineOK(a) /\ LineOK(b) => Listed(<< a, b >>) /\ FileOK(File(<< a, b >>))
    <2> SUFFICES ASSUME NEW a, NEW b, LineOK(a), LineOK(b)
                 PROVE  Listed(<< a, b >>) /\ \A i \in 1 .. Len(<< a, b >>) : LineOK(<< a, b >>[i])
      BY <1>2
    <2>1. Listed(<< a, b >>) /\ Len(<< a, b >>) = 2 /\ << a, b >>[1] = a /\ << a, b >>[2] = b
      BY DEF Listed
    <2> QED
      BY <2>1
  <1>8. \A a, b, c, d : LineOK(a) /\ LineOK(b) /\ LineOK(c) /\ LineOK(d)
                            => Listed(<< a, b, c, d >>) /\ FileOK(File(<< a, b, c, d >>))
    <2> SUFFICES ASSUME NEW a, NEW b, NEW c, NEW d, LineOK(a), LineOK(b), LineOK(c), LineOK(d)
                 PROVE  /\ Listed(<< a, b, c, d >>)
                        /\ \A i \in 1 .. Len(<< a, b, c, d >>) : LineOK(<< a, b, c, d >>[i])
      BY <1>2
    <2>1. /\ Listed(<< a, b, c, d >>) /\ Len(<< a, b, c, d >>) = 4
          /\ << a, b, c, d >>[1] = a /\ << a, b, c, d >>[2] = b
          /\ << a, b, c, d >>[3] = c /\ << a, b, c, d >>[4] = d
      BY DEF Listed
    <2> QED
      BY <2>1
  <1>9. Listed(Torn.text) /\ FileOK(Torn)
    BY <1>1, <1>3, <1>6 DEF Torn
  <1>10. Listed(Template) /\ FileOK(File(Template))
    BY <1>3, <1>8 DEF Template
  <1>11. ASSUME NEW part \in Partial PROVE Listed(part) /\ FileOK(File(part))
    <2>1. CASE part = << >>
      BY <1>2, <1>4, <2>1
    <2>2. CASE part = << Header("default", "program"), BadLine("protocol", "program") >>
      BY <1>3, <1>7, <2>2
    <2> QED
      BY <2>1, <2>2 DEF Partial
  <1>12. \A file \in Files : Listed(file) /\ FileOK(File(file))
    BY <1>2, FilesAssumption
  <1> QED
    BY <1>5, <1>9, <1>10, <1>11, <1>12

\* The image of what is in memory is a file like any other.
LEMMA ImageIsFile ==
    ASSUME NEW secs, Ready(secs), NEW t, Whole(t)
    PROVE  Whole(Image(LinesOf(t), secs))
  <1> DEFINE lns == LinesOf(t)
  <1>1. Listed(secs) /\ Listed(t) /\ ParseOK(t)
    BY DEF Ready, Sections, Listed, Whole
  <1>2. Listed(lns) /\ \A i \in 1 .. Len(lns) : LineOK(lns[i].raw)
    <2>1. Listed(lns) /\ Len(lns) = Len(t) /\ \A i \in 1 .. Len(t) : lns[i] = NotedLine(t, i)
      BY <1>1, LinesRead
    <2>2. \A i : NotedLine(t, i).raw = t[i]
      BY DEF NotedLine
    <2> HIDE DEF lns
    <2> QED
      BY <2>1, <2>2 DEF Whole
  <1>3. Listed(Image(lns, secs)) /\ ParseOK(Image(lns, secs))
    BY <1>1, ImageReadable
  <1> HIDE DEF lns
  <1>4. \A i \in 1 .. Len(Image(lns, secs)) : LineOK(Image(lns, secs)[i])
    BY <1>1, <1>2, ImageLines
  <1> QED
    BY <1>3, <1>4 DEF Whole, lns

\* What a start makes of a file it accepts.
LEMMA LoadedIs ==
    ASSUME NEW t, Listed(t)
    PROVE  Ready(AssignAll(SectionsIn(t)))
  <1>1. Sections(SectionsIn(t))
    <2>1. Len(t) \in 0 .. Len(t)
      BY DEF Listed
    <2> QED
      BY <2>1, SectionsRead DEF SectionsIn, Parsed
  <1> QED
    BY <1>1, AssignAllFinishes DEF Ready

LEMMA FileInit == Init => FileInv
  <1> SUFFICES ASSUME Init PROVE FileInv
    OBVIOUS
  <1>1. Listed(disk.text) /\ FileOK(disk) /\ Listed(tmp.text) /\ FileOK(tmp)
    <2>1. CASE disk = Missing
      BY <2>1, SmallFiles DEF Init
    <2>2. ASSUME NEW file \in Files, disk = File(file) PROVE Listed(disk.text) /\ FileOK(disk)
      <3>1. disk.text = file
        BY <2>2 DEF File
      <3> QED
        BY <2>2, <3>1, SmallFiles
    <2> QED
      BY <2>1, <2>2, SmallFiles DEF Init
  <1>2. /\ saver = [step |-> "idle", flush |-> FALSE] /\ older = {} /\ failed = FALSE
        /\ opened = FALSE /\ dirty = FALSE /\ proc = "down"
        /\ sections = << >> /\ lines = << >> /\ starting = << >>
    BY DEF Init, Idle
  <1>3. TypeOK
    BY <1>1, <1>2 DEF TypeOK, Idle
  <1>4. Running /\ Saving
    BY <1>2 DEF Running, Saving
  <1>5. Kept
    BY <1>1, <1>2 DEF Kept, AllListed
  <1> QED
    BY <1>3, <1>4, <1>5 DEF FileInv

\* Nothing happens to the files, and no program starts.
LEMMA KeptStays ==
    ASSUME Kept, UNCHANGED << disk, older, failed, opened >>,
           Listed(tmp'.text), saver'.step # "unsynced", proc' # "template",
           proc' = "up" => proc = "up"
    PROVE  Kept'
  BY DEF Kept, AllListed, AllReadable, Readable

\* A save may begin or end; the file, the lines and the temporary file stay.
LEMMA OperationKeeps ==
    ASSUME FileInv, proc = "up", Ready(sections'), saver'.step \in {"idle", "write"},
           saver' \in [step : {"idle", "write", "sync", "rename", "unsynced"}, flush : BOOLEAN],
           dirty' \in BOOLEAN, UNCHANGED << lines, disk, tmp, older, failed, proc, opened >>
    PROVE  FileInv'
  <1>1. TypeOK'
    BY DEF FileInv, TypeOK, FileOK
  <1>2. Running'
    BY DEF FileInv, Running
  <1>3. Saving'
    BY DEF Saving
  <1>4. Kept'
    <2>1. Listed(tmp'.text) /\ saver'.step # "unsynced" /\ proc' # "template"
      BY DEF FileInv, Kept
    <2> QED
      BY <2>1, KeptStays DEF FileInv
  <1> QED
    BY <1>1, <1>2, <1>3, <1>4 DEF FileInv

\* The program is gone.
LEMMA GoneKeeps ==
    ASSUME FileInv, Gone, FileOK(disk'), \A file \in older' : FileOK(file),
           opened' \in BOOLEAN, failed' \in BOOLEAN, Listed(disk'.text), AllListed(older'),
           opened' => Readable(disk') /\ (~failed' => AllReadable(older'))
    PROVE  FileInv'
  <1>1. /\ proc' = "down" /\ sections' = << >> /\ lines' = << >> /\ dirty' = FALSE
        /\ saver' = [step |-> "idle", flush |-> FALSE] /\ starting' = << >> /\ tmp' = Missing
    BY DEF Gone, Idle
  <1>2. FileOK(tmp') /\ Listed(tmp'.text)
    BY <1>1, SmallFiles
  <1>3. TypeOK'
    BY <1>1, <1>2 DEF TypeOK, Idle, FileOK
  <1>4. Running' /\ Saving'
    BY <1>1 DEF Running, Saving
  <1>5. Kept'
    BY <1>1, <1>2 DEF Kept, AllListed, AllReadable, Readable
  <1> QED
    BY <1>3, <1>4, <1>5 DEF FileInv

\* The end of a save.
LEMMA ReturnKeeps ==
    ASSUME FileInv, Return
    PROVE  /\ saver' = [step |-> "idle", flush |-> FALSE] /\ saver' = Idle
           /\ dirty' \in BOOLEAN
  BY DEF Return, Idle, FileInv, TypeOK

LEMMA FileStep == FileInv /\ [Next]_vars => FileInv'
  <1> SUFFICES ASSUME FileInv, [Next]_vars PROVE FileInv'
    OBVIOUS
  <1>0. CASE UNCHANGED vars
    BY <1>0 DEF vars, FileInv, TypeOK, FileOK, Running, Saving, Kept, Readable, AllListed, AllReadable
  <1>1. ASSUME NEW part \in Partial, WriteTemplate(part) PROVE FileInv'
    <2>1. /\ proc' = "template" /\ proc = "down" /\ ~disk.there /\ disk' = File(part)
          /\ disk'.text = part /\ older' = older \cup {disk, Torn}
          /\ UNCHANGED << sections, lines, dirty, tmp, starting, saver, opened, failed >>
      BY <1>1 DEF WriteTemplate, File
    <2>2. ~opened
      BY <2>1 DEF FileInv, Kept, Readable
    <2>3. FileOK(disk') /\ Listed(disk'.text)
      BY <2>1, SmallFiles
    <2>4. TypeOK'
      <3>1. \A file \in older' : FileOK(file)
        BY <2>1, SmallFiles DEF FileInv, TypeOK
      <3> QED
        BY <2>1, <2>3, <3>1 DEF FileInv, TypeOK, FileOK
    <2>5. Running' /\ Saving'
      BY <2>1 DEF FileInv, TypeOK, Running, Saving, Idle
    <2>6. Kept'
      <3>1. AllListed(older')
        BY <2>1, SmallFiles DEF FileInv, Kept, AllListed
      <3> QED
        BY <2>1, <2>2, <2>3, <3>1 DEF FileInv, Kept
    <2> QED
      BY <2>4, <2>5, <2>6 DEF FileInv
  <1>2. CASE EndTemplate
    <2>1. /\ proc = "template" /\ proc' = "down" /\ disk' = File(Template)
          /\ older' = older \cup {disk}
          /\ UNCHANGED << sections, lines, dirty, tmp, starting, saver, opened, failed >>
      BY <1>2 DEF EndTemplate
    <2>2. disk'.text = Template
      BY <2>1 DEF File
    <2>3. FileOK(disk') /\ Listed(disk'.text) /\ ~opened
      BY <2>1, <2>2, SmallFiles DEF FileInv, Kept
    <2>4. TypeOK'
      BY <2>1, <2>3 DEF FileInv, TypeOK, FileOK
    <2>5. Running' /\ Saving'
      BY <2>1 DEF FileInv, TypeOK, Running, Saving, Idle
    <2>6. Kept'
      BY <2>1, <2>3 DEF FileInv, Kept, AllListed
    <2> QED
      BY <2>4, <2>5, <2>6 DEF FileInv
  <1>3. CASE OpenFails
    <2>1. /\ proc = "down" /\ proc' = "refused"
          /\ UNCHANGED << sections, lines, dirty, disk, tmp, older, failed, starting, saver, opened >>
      BY <1>3 DEF OpenFails
    <2>2. TypeOK'
      BY <2>1 DEF FileInv, TypeOK, FileOK
    <2>3. Running' /\ Saving' /\ Kept'
      BY <2>1, KeptStays DEF FileInv, TypeOK, Running, Saving, Idle, Kept
    <2> QED
      BY <2>2, <2>3 DEF FileInv
  <1>4. CASE Load
    <2> DEFINE read  == SectionsIn(disk.text)
               added == \E i \in DOMAIN read : read[i].mac = NoMac
    <2>1. proc = "down" /\ disk.there /\ UNCHANGED << disk, tmp, older, failed >>
      BY <1>4 DEF Load
    <2>2. Listed(disk.text) /\ FileOK(disk)
      BY DEF FileInv, TypeOK, Kept
    <2>3. CASE ParseOK(disk.text)
      <3>1. /\ sections' = AssignAll(read) /\ lines' = LinesOf(disk.text) /\ dirty' = added
            /\ saver' = IF added THEN [step |-> "write", flush |-> TRUE]
                        ELSE [step |-> "idle", flush |-> FALSE]
            /\ proc' = "up" /\ opened' = (opened \/ older = {})
        BY <1>4, <2>3, Zenon DEF Load, Idle
      <3>2. Whole(disk.text)
        BY <2>2, <2>3, ListedFunction DEF Whole, FileOK
      <3>3. Ready(sections')
        BY <2>2, <3>1, LoadedIs
      <3>4. Running'
        BY <3>1, <3>2, <3>3 DEF Running
      <3>5. added \in BOOLEAN
        OBVIOUS
      <3> HIDE DEF added, read
      <3>6. Saving'
        BY <3>1 DEF Saving
      <3>7. Kept'
        <4>1. Readable(disk') /\ AllListed(older') /\ Listed(tmp'.text)
          BY <2>1, <2>3 DEF FileInv, Kept, Readable
        <4>2. opened' /\ ~failed' => AllReadable(older')
          BY <2>1, <3>1 DEF FileInv, Kept, AllReadable, Readable
        <4> QED
          BY <2>1, <2>2, <3>1, <4>1, <4>2 DEF Kept
      <3>8. TypeOK'
        BY <2>1, <3>1, <3>5 DEF FileInv, TypeOK, FileOK
      <3> QED
        BY <3>4, <3>6, <3>7, <3>8 DEF FileInv
    <2>4. CASE ~ParseOK(disk.text)
      <3>1. proc' = "refused" /\ UNCHANGED << sections, lines, dirty, starting, saver, opened >>
        BY <1>4, <2>4 DEF Load
      <3>2. TypeOK'
        BY <2>1, <3>1 DEF FileInv, TypeOK, FileOK
      <3>3. Running' /\ Saving' /\ Kept'
        BY <2>1, <3>1, KeptStays DEF FileInv, TypeOK, Running, Saving, Idle, Kept
      <3> QED
        BY <3>2, <3>3 DEF FileInv
    <2> QED
      BY <2>3, <2>4
  <1>5. ASSUME NEW dev, NEW auto \in BOOLEAN, Resolve(dev, auto) PROVE FileInv'
    <2> DEFINE secs == resolve(sections, dev, auto)
               assigned == dirty \/ { secs[i].mac : i \in DOMAIN secs }
                                       # { sections[i].mac : i \in DOMAIN sections }
    <2>1. /\ proc = "up" /\ sections' = secs /\ dirty' = assigned
          /\ saver' = IF assigned THEN [step |-> "write", flush |-> TRUE]
                      ELSE [step |-> "idle", flush |-> FALSE]
          /\ UNCHANGED << lines, disk, tmp, older, failed, proc, opened >>
      BY <1>5, Zenon DEF Resolve, Free, Idle
    <2>2. Ready(sections')
      <3>1. Ready(sections)
        BY <2>1 DEF FileInv, Running
      <3> QED
        BY <2>1, <3>1, ResolveKeeps
    <2>3. assigned \in BOOLEAN
      BY DEF FileInv, TypeOK
    <2> HIDE DEF assigned
    <2>4. /\ saver'.step \in {"idle", "write"}
          /\ saver' \in [step : {"idle", "write", "sync", "rename", "unsynced"}, flush : BOOLEAN]
      BY <2>1
    <2> QED
      BY <2>1, <2>2, <2>3, <2>4, OperationKeeps
  <1>6. ASSUME NEW auto \in BOOLEAN, StartStatic(auto) PROVE FileInv'
    BY <1>5, <1>6 DEF StartStatic
  <1>7. ASSUME NEW dev, NEW auto \in BOOLEAN, Discover(dev, auto) PROVE FileInv'
    BY <1>5, <1>7 DEF Discover
  <1>8. ASSUME NEW key, NEW creds, SaveCreds(key, creds) PROVE FileInv'
    <2>1. /\ proc = "up" /\ sections' = WithCreds(sections, key, creds)
          /\ saver' = [step |-> "write", flush |-> FALSE]
          /\ UNCHANGED << lines, dirty, disk, tmp, older, failed, proc, starting, opened >>
      BY <1>8 DEF SaveCreds, Free
    <2>2. Ready(sections')
      BY <2>1, CredsKeep DEF FileInv, Running
    <2>3. dirty' \in BOOLEAN
      BY <2>1 DEF FileInv, TypeOK
    <2> QED
      BY <2>1, <2>2, <2>3, OperationKeeps
  <1>9. ASSUME NEW key, NEW name, SavePlayerName(key, name) PROVE FileInv'
    <2>1. /\ proc = "up" /\ sections' = WithName(sections, key, name)
          /\ saver' = [step |-> "write", flush |-> FALSE]
          /\ UNCHANGED << lines, dirty, disk, tmp, older, failed, proc, starting, opened >>
      BY <1>9 DEF SavePlayerName, Free
    <2>2. Ready(sections')
      BY <2>1, NameKeeps DEF FileInv, Running
    <2>3. dirty' \in BOOLEAN
      BY <2>1 DEF FileInv, TypeOK
    <2> QED
      BY <2>1, <2>2, <2>3, OperationKeeps
  <1>10. CASE WriteTmp
    <2>1. /\ saver.step = "write" /\ tmp' = File(Image(lines, sections))
          /\ saver' = [saver EXCEPT !.step = "sync"]
          /\ UNCHANGED << sections, lines, dirty, disk, older, proc, starting, opened, failed >>
      BY <1>10 DEF WriteTmp
    <2>2. proc = "up"
      BY <2>1 DEF FileInv, TypeOK, Idle
    <2>3. tmp'.text = Image(lines, sections)
      BY <2>1 DEF File
    <2>4. PICK t : Whole(t) /\ lines = LinesOf(t)
      BY <2>2 DEF FileInv, Running
    <2>5. Whole(tmp'.text)
      BY <2>2, <2>3, <2>4, ImageIsFile DEF FileInv, Running
    <2>6. FileOK(tmp') /\ Listed(tmp'.text)
      BY <2>5, ListedFunction DEF Whole, FileOK
    <2>7. TypeOK'
      BY <2>1, <2>2, <2>6 DEF FileInv, Saving, TypeOK, FileOK
    <2>8. Running' /\ Saving'
      BY <2>1, <2>2 DEF FileInv, Running, Saving
    <2>9. Kept'
      BY <2>1, <2>2, <2>6, KeptStays DEF FileInv, Saving
    <2> QED
      BY <2>7, <2>8, <2>9 DEF FileInv
  <1>11. CASE WriteFails
    <2>1. /\ saver.step = "write" /\ Return
          /\ UNCHANGED << sections, lines, disk, tmp, older, failed, proc, starting, opened >>
      BY <1>11 DEF WriteFails
    <2>2. proc = "up"
      BY <2>1 DEF FileInv, TypeOK, Idle
    <2>3. /\ saver' = [step |-> "idle", flush |-> FALSE] /\ dirty' \in BOOLEAN
      BY <2>1, ReturnKeeps
    <2> QED
      BY <2>1, <2>2, <2>3, OperationKeeps DEF FileInv, Running
  <1>12. CASE SyncTmp
    <2>1. /\ saver.step = "sync"
          /\ saver' = [saver EXCEPT !.step = "rename"]
          /\ UNCHANGED << sections, lines, dirty, disk, tmp, older, proc, starting, opened, failed >>
      BY <1>12 DEF SyncTmp
    <2>2. proc = "up"
      BY <2>1 DEF FileInv, TypeOK, Idle
    <2>3. TypeOK'
      BY <2>1, <2>2 DEF FileInv, Saving, TypeOK, FileOK
    <2>4. Running' /\ Saving'
      BY <2>1, <2>2 DEF FileInv, TypeOK, Running, Saving
    <2>5. Kept'
      BY <2>1, <2>2, KeptStays DEF FileInv, Saving, Kept
    <2> QED
      BY <2>3, <2>4, <2>5 DEF FileInv
  <1>17. CASE SyncFails
    <2>1. /\ saver.step = "sync" /\ failed' = TRUE
          /\ saver' = [saver EXCEPT !.step = "unsynced"]
          /\ UNCHANGED << sections, lines, dirty, disk, tmp, older, proc, starting, opened >>
      BY <1>17 DEF SyncFails
    <2>2. proc = "up"
      BY <2>1 DEF FileInv, TypeOK, Idle
    <2>3. TypeOK'
      BY <2>1, <2>2 DEF FileInv, Saving, TypeOK, FileOK
    <2>4. Running' /\ Saving'
      BY <2>1, <2>2 DEF FileInv, TypeOK, Running, Saving
    <2>5. Kept'
      BY <2>1, <2>2 DEF FileInv, Kept, AllListed, Readable
    <2> QED
      BY <2>3, <2>4, <2>5 DEF FileInv
  <1>13. CASE RenameTmp
    <2>1. /\ saver.step \in {"rename", "unsynced"} /\ disk' = tmp /\ tmp' = Missing
          /\ older' = older \cup {disk} \cup (IF saver.step = "unsynced" THEN {Torn} ELSE {})
          /\ Return /\ UNCHANGED << sections, lines, proc, starting, opened, failed >>
      BY <1>13 DEF RenameTmp, Renaming
    <2>2. proc = "up" /\ tmp = File(Image(lines, sections))
      BY <2>1 DEF FileInv, TypeOK, Idle, Saving
    <2>3. disk'.text = Image(lines, sections) /\ disk'.there
      BY <2>1, <2>2 DEF File
    <2>4. PICK t : Whole(t) /\ lines = LinesOf(t)
      BY <2>2 DEF FileInv, Running
    <2>5. Whole(disk'.text)
      BY <2>2, <2>3, <2>4, ImageIsFile DEF FileInv, Running
    <2>6. FileOK(disk') /\ Listed(disk'.text) /\ FileOK(tmp') /\ Listed(tmp'.text)
      BY <2>1, <2>5, ListedFunction, SmallFiles DEF Whole, FileOK
    <2>7. saver' = [step |-> "idle", flush |-> FALSE] /\ dirty' \in BOOLEAN
      BY <2>1, ReturnKeeps
    <2>11. older' \subseteq older \cup {disk, Torn} /\ (saver.step = "rename" => older' = older \cup {disk})
      BY <2>1
    <2>8. TypeOK'
      <3>1. \A file \in older' : FileOK(file)
        BY <2>11, SmallFiles DEF FileInv, TypeOK
      <3> QED
        BY <2>1, <2>2, <2>6, <2>7, <3>1 DEF FileInv, TypeOK, FileOK
    <2>9. Running' /\ Saving'
      BY <2>1, <2>2, <2>7 DEF FileInv, Running, Saving
    <2>10. Kept'
      <3>1. AllListed(older')
        BY <2>11, SmallFiles DEF FileInv, Kept, AllListed
      <3>2. Readable(disk')
        BY <2>3, <2>5 DEF Readable, Whole
      <3>3. opened' /\ ~failed' => AllReadable(older')
        BY <2>1, <2>2, <2>11 DEF FileInv, Kept, AllReadable
      <3> QED
        BY <2>1, <2>2, <2>6, <2>7, <3>1, <3>2, <3>3 DEF Kept
    <2> QED
      BY <2>8, <2>9, <2>10 DEF FileInv
  <1>14. CASE RenameFails
    <2>1. /\ saver.step \in {"rename", "unsynced"} /\ tmp' = Missing /\ Return
          /\ UNCHANGED << sections, lines, disk, older, failed, proc, starting, opened >>
      BY <1>14 DEF RenameFails, Renaming
    <2>2. proc = "up"
      BY <2>1 DEF FileInv, TypeOK, Idle
    <2>3. saver' = [step |-> "idle", flush |-> FALSE] /\ dirty' \in BOOLEAN
      BY <2>1, ReturnKeeps
    <2>4. FileOK(tmp') /\ Listed(tmp'.text)
      BY <2>1, SmallFiles
    <2>5. TypeOK'
      BY <2>1, <2>2, <2>3, <2>4 DEF FileInv, TypeOK, FileOK
    <2>6. Running' /\ Saving'
      BY <2>1, <2>2, <2>3 DEF FileInv, Running, Saving
    <2>7. Kept'
      BY <2>1, <2>2, <2>3, <2>4, KeptStays DEF FileInv
    <2> QED
      BY <2>5, <2>6, <2>7 DEF FileInv
  <1>15. CASE Crash
    <2>1. Gone /\ UNCHANGED << disk, older, opened, failed >>
      BY <1>15 DEF Crash
    <2> QED
      BY <2>1, GoneKeeps DEF FileInv, TypeOK, FileOK, Kept, AllListed, AllReadable, Readable
  <1>16. CASE HostCrash
    <2>1. /\ Gone /\ disk' \in older \cup {disk} /\ older' = {} /\ failed' = FALSE
          /\ opened' = (opened /\ ~failed)
      BY <1>16 DEF HostCrash
    <2>2. FileOK(disk') /\ Listed(disk'.text)
      BY <2>1 DEF FileInv, TypeOK, Kept, AllListed
    <2>3. opened' => Readable(disk')
      BY <2>1 DEF FileInv, Kept, AllReadable
    <2>4. opened' \in BOOLEAN /\ failed' \in BOOLEAN
      BY <2>1
    <2> QED
      BY <2>1, <2>2, <2>3, <2>4, GoneKeeps DEF AllListed, AllReadable
  <1>18. CASE WriteBack
    <2>1. /\ older' = {} /\ failed' = (saver.step = "unsynced")
          /\ opened' = (opened \/ proc = "up")
          /\ UNCHANGED << sections, lines, dirty, disk, tmp, proc, starting, saver >>
      BY <1>18 DEF WriteBack
    <2>2. TypeOK'
      BY <2>1 DEF FileInv, TypeOK, FileOK
    <2>3. Running' /\ Saving'
      BY <2>1 DEF FileInv, Running, Saving
    <2>4. Kept'
      BY <2>1 DEF FileInv, Kept, AllListed, AllReadable, Readable
    <2> QED
      BY <2>2, <2>3, <2>4 DEF FileInv
  <1> QED
    BY <1>0, <1>1, <1>2, <1>3, <1>4, <1>6, <1>7, <1>8, <1>9, <1>10, <1>11, <1>12, <1>13,
       <1>14, <1>15, <1>16, <1>17, <1>18 DEF Next

\* The inductive invariant of the file and its buffers: memory is ready for a
\* save, the temporary file is the image of it from the write to the rename, and
\* what a program that ran has left is a file parse() accepts, as is each file a
\* crash of the host may bring back, unless a sync failed.
THEOREM FileInvariance == Spec => []FileInv
  BY FileInit, FileStep, PTL DEF Spec

\* Every variable keeps its type, for every set of files a first start may
\* find, every set of devices, and whenever the program or the host stops.
THEOREM ConfigStoreTypes == Spec => []TypeOK
  BY FileInvariance, PTL DEF FileInv

\* Once a program has run on a file that is on the disk, the file can be read
\* at every later start, and so can what a crash of the host brings back: what a
\* save writes is never refused, and no save that synced its file leaves a torn
\* one behind.
THEOREM FileStaysReadable == Spec => []StaysReadable
  <1>1. FileInv => StaysReadable
    BY DEF FileInv, Kept, StaysReadable, AllReadable
  <1> QED
    BY <1>1, FileInvariance, PTL

-----------------------------------------------------------------------------
(* The sections in memory and on file.                                      *)

\* `other` has the sections of `secs` in front, under the same names and ids.
Extends(secs, other) ==
    /\ Len(secs) <= Len(other)
    /\ \A i \in 1 .. Len(secs) : /\ other[i].name = secs[i].name
                                 /\ other[i].id = secs[i].id
                                 /\ other[i].auto = secs[i].auto

\* A static player that was not started yet is as the file has it.
Waits(dev, secs) ==
    \E i \in 1 .. Len(secs) : /\ dev = StaticDevice(secs[i])
                              /\ secs[i].renamed \/ secs[i].shown = secs[i].name

\* The sections in memory are those of the file that was read, in order, and
\* those that were added since.
Linked ==
    proc = "up" =>
        /\ WellFormed(sections) /\ Apart(sections)
        /\ \E t : /\ Whole(t) /\ Tidy(t) /\ lines = LinesOf(t)
                  /\ Extends(SectionsIn(t), sections)

\* The static players that wait are different players.
Waiting ==
    /\ Listed(starting)
    /\ \A k \in 1 .. Len(starting) : Waits(starting[k], sections)
    /\ \A k, l \in 1 .. Len(starting) : k # l => starting[k].id # starting[l].id

\* A file that can be read is what a user is expected to write, or what a save
\* wrote.
Filed(file) ==
    /\ Readable(file) => /\ Tidy(file.text) /\ WellFormed(SectionsIn(file.text))
                         /\ Apart(SectionsIn(file.text))
    /\ ~file.there => file = Missing

\* So is each file a start may find.
OnDisk ==
    /\ \A file \in older \cup {disk} : Filed(file)
    /\ proc = "template" => disk.text \in Partial

StoreInv == FileInv /\ Linked /\ Waiting /\ OnDisk

-----------------------------------------------------------------------------
(* resolve() on well-formed sections.                                       *)

\* A device that no section matches, but whose key one has.
LEMMA CreatedShown ==
    ASSUME NEW secs, Ready(secs), NEW dev, NEW at \in 1 .. Len(secs),
           findSection(secs, KeyFor(dev)) = at,
           KeyFor(dev) \in HexIds => secs[at].id = dev.id
    PROVE  ShownAs(secs, at, secs[at].name, Created(secs, dev))
  <1>1. GivenId(secs, at, IF KeyFor(dev) \in HexIds THEN dev.id ELSE secs[at].id,
                Created(secs, dev))
    BY CreatedOld
  <1>2. (IF KeyFor(dev) \in HexIds THEN dev.id ELSE secs[at].id) = secs[at].id
    OBVIOUS
  <1> QED
    BY <1>1, <1>2, Zenon DEF GivenId, ShownAs

\* One section changes, but for its name and id.
Touched(secs, at, new) ==
    /\ Len(new) = Len(secs)
    /\ \A i \in 1 .. Len(secs) : i # at => new[i] = secs[i]
    /\ new[at].name = secs[at].name /\ new[at].id = secs[at].id
    /\ new[at].auto = secs[at].auto /\ new[at].renamed \in BOOLEAN

LEMMA ShownAsTouches ==
    ASSUME NEW secs, WellFormed(secs), NEW at \in 1 .. Len(secs), NEW shown,
           NEW new, ShownAs(secs, at, shown, new)
    PROVE  Touched(secs, at, new)
  <1> DEFINE renamed == secs[at].renamed
  <1>1. renamed \in BOOLEAN
    BY Zenon DEF WellFormed
  <1>2. new[at] = FullSection(secs[at].name, secs[at].id, secs[at].mac, secs[at].creds,
                              shown, renamed, secs[at].auto)
    BY DEF ShownAs
  <1> HIDE DEF renamed
  <1>3. /\ new[at].name = secs[at].name /\ new[at].id = secs[at].id
        /\ new[at].auto = secs[at].auto /\ new[at].renamed = renamed
    BY <1>2, ShapedFields
  <1>4. /\ Len(new) = Len(secs)
        /\ \A i \in 1 .. Len(secs) : i # at => new[i] = secs[i]
    BY DEF ShownAs
  <1> QED
    BY Zenon, <1>1, <1>3, <1>4 DEF Touched

LEMMA TouchedKeeps ==
    ASSUME NEW secs, Sections(secs), WellFormed(secs), NEW at \in 1 .. Len(secs),
           NEW new, Touched(secs, at, new)
    PROVE  WellFormed(new) /\ Extends(secs, new)
  <1>2. /\ Len(new) = Len(secs) /\ Len(secs) \in Nat
        /\ \A i \in 1 .. Len(secs) : /\ new[i].name = secs[i].name /\ new[i].id = secs[i].id
                                     /\ new[i].auto = secs[i].auto
    BY DEF Touched, Sections
  <1>1. \A i \in 1 .. Len(secs) : new[i].renamed \in BOOLEAN /\ new[i].auto \in BOOLEAN
    <2>1. \A i \in 1 .. Len(secs) : secs[i].renamed \in BOOLEAN /\ secs[i].auto \in BOOLEAN
      BY Zenon DEF WellFormed
    <2>2. \A i \in 1 .. Len(secs) : i # at => new[i] = secs[i]
      BY DEF Touched
    <2>3. new[at].auto = secs[at].auto /\ new[at].renamed \in BOOLEAN
      BY Zenon DEF Touched
    <2> QED
      BY Zenon, <2>1, <2>2, <2>3
  <1>4. ASSUME NEW i \in 1 .. Len(new)
        PROVE  /\ new[i].name \notin Unnamed
               /\ new[i].id \in HexIds \cup {""}
               /\ new[i].name \in HexIds => new[i].id = new[i].name
    BY <1>2 DEF WellFormed
  <1>5. ASSUME NEW i \in 1 .. Len(new), NEW j \in 1 .. Len(new), i # j
        PROVE  new[i].name # new[j].name /\ (new[i].id # "" => new[i].id # new[j].id)
    <2>1. i \in 1 .. Len(secs) /\ j \in 1 .. Len(secs)
      BY <1>2
    <2>2. secs[i].name # secs[j].name /\ (secs[i].id # "" => secs[i].id # secs[j].id)
      BY <1>5, <2>1 DEF WellFormed
    <2> QED
      BY <1>2, <2>1, <2>2
  <1>3. WellFormed(new)
    <2>1. \A i \in 1 .. Len(new) : new[i].renamed \in BOOLEAN /\ new[i].auto \in BOOLEAN
      BY Zenon, <1>1, <1>2
    <2> QED
      BY Zenon, <1>4, <1>5, <2>1 DEF WellFormed
  <1> QED
    BY <1>2, <1>3 DEF Extends

\* The key of a section finds it, and no other.
LEMMA KeyFinds ==
    ASSUME NEW secs, Sections(secs), WellFormed(secs), NEW i \in 1 .. Len(secs)
    PROVE  /\ findSection(secs, KeyOf(secs[i])) = i
           /\ KeyOf(secs[i]) # ""
           /\ \A j \in 1 .. Len(secs) : secs[j].id # "" /\ secs[j].id = KeyOf(secs[i]) => j = i
           /\ KeyOf(secs[i]) \in HexIds => secs[i].id = KeyOf(secs[i])
  <1> DEFINE key == KeyOf(secs[i])
             at  == findSection(secs, key)
  <1>1. key = IF secs[i].id # "" THEN secs[i].id ELSE secs[i].name
    BY DEF KeyOf
  <1>2. secs[i].name # ""
    BY DEF WellFormed, Unnamed
  <1>3. key # "" /\ (key \in HexIds => secs[i].id = key)
    BY <1>1, <1>2 DEF WellFormed
  <1>4. ASSUME NEW j \in 1 .. Len(secs), secs[j].id # "", secs[j].id = key
        PROVE  j = i
    <2>1. CASE secs[i].id # ""
      BY <1>1, <1>4, <2>1 DEF WellFormed
    <2>2. CASE secs[i].id = ""
      <3>1. key = secs[i].name /\ key \in HexIds
        BY <1>1, <1>4, <2>2 DEF WellFormed
      <3> QED
        BY <1>3, <2>2, <3>1
    <2> QED
      BY <2>1, <2>2
  <1> HIDE DEF key
  <1>5. /\ at \in 0 .. Len(secs)
        /\ at = 0 <=> \A j \in 1 .. Len(secs) : secs[j].name # key /\ ~ (secs[j].id # "" /\ secs[j].id = key)
        /\ at # 0 => \/ secs[at].id # "" /\ secs[at].id = key
                     \/ /\ secs[at].name = key
                        /\ \A j \in 1 .. Len(secs) : ~ (secs[j].id # "" /\ secs[j].id = key)
    BY FindSection
  <1> HIDE DEF at
  <1>6. at # 0
    BY <1>1, <1>5
  <1>7. at \in 1 .. Len(secs)
    <2>1. Len(secs) \in Nat
      BY DEF Sections
    <2>2. at \in 0 .. Len(secs)
      BY <1>5
    <2> QED
      BY <1>6, <2>1, <2>2
  <1>8. at = i
    <2>1. CASE secs[at].id # "" /\ secs[at].id = key
      BY <1>4, <1>7, <2>1
    <2>2. CASE /\ secs[at].name = key
               /\ \A j \in 1 .. Len(secs) : ~ (secs[j].id # "" /\ secs[j].id = key)
      <3>1. secs[i].id = "" /\ key = secs[i].name
        BY <1>1, <2>2
      <3> QED
        <4>1. \A j \in 1 .. Len(secs) : i # j => secs[i].name # secs[j].name
          BY DEF WellFormed
        <4> QED
          BY <1>7, <2>2, <3>1, <4>1
    <2> QED
      BY <1>5, <1>6, <2>1, <2>2
  <1> QED
    BY <1>3, <1>4, <1>8 DEF key, at

\* What the configuration expects of a receiver (DevicesAssumption).
Announced(dev) ==
    /\ dev.id \notin Unnamed /\ dev.name \notin Reserved
    /\ dev.name \in HexIds => dev.name = dev.id

LEMMA ResolveCases ==
    ASSUME NEW secs, Ready(secs), NEW dev, NEW auto \in BOOLEAN
    PROVE  /\ Match(secs, dev) = 0 /\ ~auto => resolve(secs, dev, auto) = secs
           /\ Match(secs, dev) = 0 /\ auto => resolve(secs, dev, auto) = Created(secs, dev)
  BY DEF resolve

\* A new section is well-formed among well-formed ones.
LEMMA NewIsWellFormed ==
    ASSUME NEW secs, Ready(secs), WellFormed(secs), NEW dev, Announced(dev),
           Match(secs, dev) = 0, IsNew(secs, dev)
    PROVE  WellFormed(Created(secs, dev)) /\ Extends(secs, Created(secs, dev))
  <1> DEFINE new  == Created(secs, dev)
             name == IF dev.name = "" THEN KeyFor(dev) ELSE dev.name
             id   == IF KeyFor(dev) \in HexIds THEN dev.id ELSE ""
             at   == Len(secs) + 1
  <1>1. Sections(secs) /\ Len(secs) \in Nat
    BY DEF Ready, Sections
  <1>2. KeyFor(dev) = dev.id /\ dev.id # ""
    BY DEF KeyFor, Announced, Unnamed
  <1>3. /\ Len(new) = at
        /\ \A i \in 1 .. Len(secs) : new[i] = secs[i]
        /\ new[at].name = name /\ new[at].shown = name
        /\ new[at].id = id
        /\ new[at].renamed = FALSE /\ new[at].auto = TRUE
    <2>1. FreshAt(secs, dev, Created(secs, dev), Len(secs) + 1)
      BY CreatedNew
    <2> QED
      BY Zenon, <2>1 DEF FreshAt
  <1>4. \A i \in 1 .. Len(secs) : secs[i].name # dev.id /\ ~ (secs[i].id # "" /\ secs[i].id = dev.id)
    BY <1>1, <1>2, FindSection DEF IsNew
  <1>5. \A i \in 1 .. Len(secs) : ~ (dev.name # "" /\ secs[i].name = dev.name)
    BY <1>1, NoMatch
  <1>6. \A i \in 1 .. Len(secs) : secs[i].name # name
    BY <1>2, <1>4, <1>5
  <1>7. name \notin Unnamed /\ id \in HexIds \cup {""} /\ (name \in HexIds => id = name)
    BY <1>2 DEF Announced, Unnamed
  <1>8. \A i \in 1 .. Len(secs) : id # "" => secs[i].id # id
    BY <1>2, <1>4
  <1>9. \A i \in 1 .. Len(secs) + 1 : i \in 1 .. Len(secs) \/ i = at
    BY <1>1
  <1>20. at \in Nat /\ at \notin 1 .. Len(secs)
    BY <1>1
  <1> HIDE DEF new, name, id, at
  <1>10. Len(new) = at /\ new[at].name = name /\ new[at].id = id
    BY <1>3
  <1>11. \A i \in 1 .. Len(secs) : new[i] = secs[i]
    BY <1>3
  <1>12. \A i \in 1 .. Len(new) : i \in 1 .. Len(secs) \/ i = at
    BY <1>9, <1>10 DEF at
  <1>13. ASSUME NEW i \in 1 .. Len(new)
         PROVE  /\ new[i].name \notin Unnamed
                /\ new[i].id \in HexIds \cup {""}
                /\ new[i].name \in HexIds => new[i].id = new[i].name
    <2>1. CASE i \in 1 .. Len(secs)
      BY <1>11, <2>1 DEF WellFormed
    <2>2. CASE i = at
      BY <1>7, <1>10, <2>2
    <2> QED
      BY <1>12, <2>1, <2>2
  <1>14. ASSUME NEW i \in 1 .. Len(new)
         PROVE  new[i].renamed \in BOOLEAN /\ new[i].auto \in BOOLEAN
    <2>1. CASE i \in 1 .. Len(secs)
      <3>1. secs[i].renamed \in BOOLEAN /\ secs[i].auto \in BOOLEAN
        BY Zenon, <2>1 DEF WellFormed
      <3> QED
        BY Zenon, <1>11, <2>1, <3>1
    <2>2. CASE i = at
      <3>1. new[at].renamed = FALSE /\ new[at].auto = TRUE
        BY Zenon, <1>3
      <3> QED
        BY Zenon, <2>2, <3>1
    <2> QED
      BY <1>12, <2>1, <2>2
  <1>15. ASSUME NEW i \in 1 .. Len(new), NEW j \in 1 .. Len(new), i # j
         PROVE  new[i].name # new[j].name /\ (new[i].id # "" => new[i].id # new[j].id)
    <2>1. CASE i \in 1 .. Len(secs) /\ j \in 1 .. Len(secs)
      <3>1. secs[i].name # secs[j].name /\ (secs[i].id # "" => secs[i].id # secs[j].id)
        BY <1>15, <2>1 DEF WellFormed
      <3> QED
        BY <1>11, <2>1, <3>1
    <2>2. CASE i = at /\ j \in 1 .. Len(secs)
      BY <1>6, <1>8, <1>10, <1>11, <2>2
    <2>3. CASE i \in 1 .. Len(secs) /\ j = at
      <3>1. new[i] = secs[i] /\ secs[i].name # name /\ (id # "" => secs[i].id # id)
        BY <1>6, <1>8, <1>11, <2>3
      <3>2. new[j].name = name /\ new[j].id = id
        BY <1>10, <2>3
      <3> QED
        BY <3>1, <3>2
    <2> QED
      BY <1>12, <1>15, <2>1, <2>2, <2>3
  <1>16. WellFormed(new)
    BY Zenon, <1>13, <1>14, <1>15 DEF WellFormed
  <1>17. Extends(secs, new)
    <2>1. Len(secs) <= Len(new)
      BY <1>1, <1>10 DEF at
    <2>2. \A i \in 1 .. Len(secs) : /\ new[i].name = secs[i].name
                                    /\ new[i].id = secs[i].id
                                    /\ new[i].auto = secs[i].auto
      BY Zenon, <1>11
    <2> QED
      BY Zenon, <2>1, <2>2 DEF Extends
  <1> QED
    BY <1>16, <1>17 DEF new

LEMMA ExtendsItself ==
    ASSUME NEW secs, Sections(secs)
    PROVE  Extends(secs, secs)
  BY DEF Extends, Sections

\* resolve() of a receiver on the network.
LEMMA ResolveAnnounced ==
    ASSUME NEW secs, Ready(secs), WellFormed(secs), NEW dev, Announced(dev), NEW auto \in BOOLEAN
    PROVE  WellFormed(resolve(secs, dev, auto)) /\ Extends(secs, resolve(secs, dev, auto))
  <1> DEFINE new   == resolve(secs, dev, auto)
             found == findSection(secs, KeyFor(dev))
             i     == Match(secs, dev)
  <1>1. Sections(secs) /\ Len(secs) \in Nat
    BY DEF Ready, Sections
  <1>2. KeyFor(dev) = dev.id /\ dev.id # ""
    BY DEF KeyFor, Announced, Unnamed
  <1>3. CASE Match(secs, dev) # 0
    <2> DEFINE shown == IF ~secs[i].renamed /\ dev.name # "" THEN dev.name ELSE secs[i].shown
    <2>1. ShownAs(secs, i, shown, new)
      BY <1>3, RefreshedIs
    <2>2. i \in 0 .. Len(secs)
      BY <1>1, MatchIs
    <2> HIDE DEF i, shown, new
    <2>3. i \in 1 .. Len(secs)
      BY <1>1, <1>3, <2>2 DEF i
    <2>4. Touched(secs, i, new)
      BY <2>1, <2>3, ShownAsTouches
    <2>5. WellFormed(new) /\ Extends(secs, new)
      BY <1>1, <2>3, <2>4, TouchedKeeps
    <2> QED
      BY <2>5 DEF new
  <1>4. CASE Match(secs, dev) = 0 /\ auto /\ found = 0
    <2>1. new = Created(secs, dev) /\ IsNew(secs, dev)
      BY <1>2, <1>4, ResolveCases DEF IsNew
    <2> HIDE DEF new
    <2>2. WellFormed(new) /\ Extends(secs, new)
      BY <1>4, <2>1, NewIsWellFormed
    <2> QED
      BY <2>2 DEF new
  <1>5. CASE Match(secs, dev) = 0 /\ auto /\ found # 0
    <2>1. new = Created(secs, dev)
      BY <1>5, ResolveCases
    <2>2. /\ found \in 0 .. Len(secs)
          /\ \/ secs[found].id # "" /\ secs[found].id = dev.id
             \/ secs[found].name = dev.id
      BY <1>1, <1>2, <1>5, FindSection
    <2>3. \A j \in 1 .. Len(secs) : ~ (dev.id # "" /\ secs[j].id = dev.id)
      BY <1>1, <1>5, NoMatch
    <2>10. found \in 0 .. Len(secs) /\ found # 0
      BY <1>5, <2>2
    <2> HIDE DEF found, new
    <2>4. found \in 1 .. Len(secs)
      BY <1>1, <2>10
    <2>5. secs[found].name = dev.id
      BY <1>2, <2>2, <2>3, <2>4
    <2>6. KeyFor(dev) \notin HexIds
      BY <1>2, <2>3, <2>4, <2>5 DEF WellFormed
    <2>7. ShownAs(secs, found, secs[found].name, new)
      BY <2>1, <2>4, <2>6, CreatedShown DEF found
    <2>8. Touched(secs, found, new)
      BY <2>4, <2>7, ShownAsTouches
    <2>9. WellFormed(new) /\ Extends(secs, new)
      BY <1>1, <2>4, <2>8, TouchedKeeps
    <2> QED
      BY <2>9 DEF new
  <1>6. CASE Match(secs, dev) = 0 /\ ~auto
    BY <1>1, <1>6, ResolveCases, ExtendsItself
  <1> QED
    BY <1>3, <1>4, <1>5, <1>6

\* A section is shown under its header name, or under the name LMS gave it.
AsFiled(sec) == sec.renamed \/ sec.shown = sec.name

LEMMA ShownAsBefore ==
    ASSUME NEW secs, Sections(secs), NEW at \in 1 .. Len(secs), NEW shown, NEW new,
           ShownAs(secs, at, shown, new), shown = secs[at].shown
    PROVE  new[at] = secs[at]
  <1>1. secs[at] = FullSection(secs[at].name, secs[at].id, secs[at].mac, secs[at].creds,
                               secs[at].shown, secs[at].renamed, secs[at].auto)
    BY ShapedIs DEF Sections
  <1>2. new[at] = FullSection(secs[at].name, secs[at].id, secs[at].mac, secs[at].creds,
                              shown, secs[at].renamed, secs[at].auto)
    BY Zenon DEF ShownAs
  <1> QED
    BY Zenon, <1>1, <1>2

\* resolve() of a player the user wrote: it finds its own section, unless its
\* shown name is the header name of another, which shows it already.
LEMMA ResolveStatic ==
    ASSUME NEW secs, Ready(secs), WellFormed(secs), NEW m \in 1 .. Len(secs), NEW dev,
           dev = StaticDevice(secs[m]), NEW auto \in BOOLEAN
    PROVE  LET new == resolve(secs, dev, auto)
           IN  /\ WellFormed(new) /\ Extends(secs, new)
               /\ \A k \in 1 .. Len(secs) : k # m /\ AsFiled(secs[k]) => new[k] = secs[k]
  <1> DEFINE new == resolve(secs, dev, auto)
  <1>1. Sections(secs) /\ Len(secs) \in Nat
    BY DEF Ready, Sections
  <1>2. dev.id = KeyOf(secs[m]) /\ dev.name = secs[m].shown
    BY DEF StaticDevice
  <1>3. /\ findSection(secs, dev.id) = m
        /\ dev.id # ""
        /\ \A j \in 1 .. Len(secs) : secs[j].id # "" /\ secs[j].id = dev.id => j = m
        /\ dev.id \in HexIds => secs[m].id = dev.id
    <2>1. /\ findSection(secs, KeyOf(secs[m])) = m
          /\ KeyOf(secs[m]) # ""
          /\ \A j \in 1 .. Len(secs) : secs[j].id # "" /\ secs[j].id = KeyOf(secs[m]) => j = m
          /\ KeyOf(secs[m]) \in HexIds => secs[m].id = KeyOf(secs[m])
      BY <1>1, KeyFinds
    <2> QED
      BY Zenon, <1>2, <2>1
  <1>4. KeyFor(dev) = dev.id
    BY <1>3 DEF KeyFor
  <1>5. ASSUME NEW at \in 1 .. Len(secs), NEW shown, ShownAs(secs, at, shown, new),
               at # m => (AsFiled(secs[at]) => shown = secs[at].shown)
        PROVE  /\ WellFormed(new) /\ Extends(secs, new)
               /\ \A k \in 1 .. Len(secs) : k # m /\ AsFiled(secs[k]) => new[k] = secs[k]
    <2> HIDE DEF new
    <2>1. Touched(secs, at, new)
      BY <1>5, ShownAsTouches
    <2>2. WellFormed(new) /\ Extends(secs, new)
      BY <1>1, <2>1, TouchedKeeps
    <2>3. ASSUME NEW k \in 1 .. Len(secs), k # m, AsFiled(secs[k])
          PROVE  new[k] = secs[k]
      <3>1. CASE k = at
        <4>1. shown = secs[at].shown
          BY Zenon, <1>5, <2>3, <3>1
        <4>2. new[at] = secs[at]
          BY <1>1, <1>5, <4>1, ShownAsBefore
        <4> QED
          BY <3>1, <4>2
      <3>2. CASE k # at
        BY Zenon, <1>5, <3>2 DEF ShownAs
      <3> QED
        BY <3>1, <3>2
    <2> QED
      BY <2>2, <2>3
  <1>6. CASE Match(secs, dev) # 0
    <2> DEFINE at    == Match(secs, dev)
               shown == IF ~secs[at].renamed /\ dev.name # "" THEN dev.name ELSE secs[at].shown
    <2>1. ShownAs(secs, at, shown, new)
      BY <1>6, RefreshedIs
    <2>2. /\ at \in 0 .. Len(secs)
          /\ at # 0 =>
                \/ dev.id # "" /\ secs[at].id = dev.id
                \/ dev.id \in HexIds /\ \A i \in 1 .. Len(secs) : ~ (dev.id # "" /\ secs[i].id = dev.id)
                \/ dev.name # "" /\ secs[at].name = dev.name
      BY <1>1, MatchIs
    <2>3. shown = IF ~secs[at].renamed /\ dev.name # "" THEN dev.name ELSE secs[at].shown
      OBVIOUS
    <2> HIDE DEF at, shown, new
    <2>4. at \in 0 .. Len(secs) /\ at # 0
      BY <1>6, <2>2 DEF at
    <2>5. at \in 1 .. Len(secs)
      BY <1>1, <2>4
    <2>6. ASSUME at # m, AsFiled(secs[at]) PROVE shown = secs[at].shown
      <3>1. ~ (dev.id # "" /\ secs[at].id = dev.id)
        BY <1>3, <2>5, <2>6
      <3>2. ~ (dev.id \in HexIds /\ \A i \in 1 .. Len(secs) : ~ (dev.id # "" /\ secs[i].id = dev.id))
        BY Zenon, <1>3
      <3>3. secs[at].name = dev.name
        BY Zenon, <2>2, <2>4, <3>1, <3>2
      <3>4. CASE secs[at].renamed
        BY Zenon, <2>3, <3>4
      <3>5. CASE ~ secs[at].renamed
        <4>1. secs[at].shown = dev.name
          BY Zenon, <2>6, <3>3, <3>5 DEF AsFiled
        <4> QED
          BY Zenon, <2>3, <4>1
      <3> QED
        BY <3>4, <3>5
    <2>7. /\ WellFormed(new) /\ Extends(secs, new)
          /\ \A k \in 1 .. Len(secs) : k # m /\ AsFiled(secs[k]) => new[k] = secs[k]
      BY <1>5, <2>1, <2>5, <2>6
    <2> QED
      BY <2>7 DEF new
  <1>7. CASE Match(secs, dev) = 0 /\ auto
    <2>1. new = Created(secs, dev)
      BY <1>7, ResolveCases
    <2>2. ShownAs(secs, m, secs[m].name, new)
      <3> HIDE DEF new
      <3> QED  BY <1>3, <1>4, <2>1, CreatedShown
    <2> HIDE DEF new
    <2> QED
      BY <1>5, <2>2 DEF new
  <1>8. CASE Match(secs, dev) = 0 /\ ~auto
    BY <1>1, <1>8, ResolveCases, ExtendsItself
  <1> QED
    BY <1>6, <1>7, <1>8

\* A static player that waits is not the one that is resolved.
LEMMA WaitsKeeps ==
    ASSUME NEW secs, Sections(secs), NEW m \in 1 .. Len(secs), NEW new, Len(secs) <= Len(new),
           Len(new) \in Nat,
           \A k \in 1 .. Len(secs) : k # m /\ AsFiled(secs[k]) => new[k] = secs[k],
           NEW dev, Waits(dev, secs), dev.id # KeyOf(secs[m])
    PROVE  Waits(dev, new)
  <1>1. PICK k \in 1 .. Len(secs) : dev = StaticDevice(secs[k]) /\ AsFiled(secs[k])
    BY Zenon DEF Waits, AsFiled
  <1>2. k # m
    BY <1>1 DEF StaticDevice
  <1>3. new[k] = secs[k]
    BY Zenon, <1>1, <1>2
  <1>4. k \in 1 .. Len(new)
    BY DEF Sections
  <1> QED
    BY Zenon, <1>1, <1>3, <1>4 DEF Waits, AsFiled

\* saveCreds() and savePlayerName(), under the key of a section.
LEMMA CredsTouch ==
    ASSUME NEW secs, Ready(secs), WellFormed(secs), NEW m \in 1 .. Len(secs), NEW creds
    PROVE  Touched(secs, m, WithCreds(secs, KeyOf(secs[m]), creds))
  <1> DEFINE new == WithCreds(secs, KeyOf(secs[m]), creds)
             own == [secs[m] EXCEPT !.creds = creds]
             put == [secs EXCEPT ![m] = own]
  <1>1. Sections(secs) /\ Len(secs) \in Nat /\ m # 0
    BY DEF Ready, Sections
  <1>2. findSection(secs, KeyOf(secs[m])) = m
    BY <1>1, KeyFinds
  <1>3. new = put
    <2>1. new = [secs EXCEPT ![m].creds = creds]
      BY <1>1, <1>2 DEF WithCreds
    <2>2. secs = [j \in 1 .. Len(secs) |-> secs[j]]
      BY <1>1 DEF Sections
    <2> HIDE DEF new
    <2> QED
      BY <2>1, <2>2
  <1> DEFINE s == secs[m]  renamed == s.renamed  auto == s.auto
  <1>4. s = FullSection(s.name, s.id, s.mac, s.creds, s.shown, renamed, auto)
    BY <1>1, ShapedIs DEF Sections
  <1>5. renamed \in BOOLEAN
    BY Zenon DEF WellFormed
  <1>6. own = [s EXCEPT !.creds = creds]
    OBVIOUS
  <1> HIDE DEF renamed, auto, s, own
  <1>7. own = FullSection(s.name, s.id, s.mac, creds, s.shown, renamed, auto)
    BY <1>4, <1>6 DEF FullSection
  <1>8. Shaped(own) /\ own.name = s.name /\ own.id = s.id /\ own.renamed = renamed /\ own.auto = auto
    BY <1>7, ShapedFields
  <1>9. /\ Len(put) = Len(secs) /\ put[m] = own
        /\ \A j \in 1 .. Len(secs) : j # m => put[j] = secs[j]
    BY <1>1, <1>8, OneChanged
  <1> HIDE DEF put, new
  <1>10. Touched(secs, m, put)
    <2>1. /\ put[m].name = secs[m].name /\ put[m].id = secs[m].id
          /\ put[m].auto = secs[m].auto /\ put[m].renamed \in BOOLEAN
      BY Zenon, <1>5, <1>8, <1>9 DEF s, auto
    <2> QED
      BY Zenon, <1>9, <2>1 DEF Touched
  <1> QED
    BY <1>3, <1>10 DEF new

LEMMA NameTouch ==
    ASSUME NEW secs, Ready(secs), WellFormed(secs), NEW m \in 1 .. Len(secs), NEW name,
           WithName(secs, KeyOf(secs[m]), name) # secs
    PROVE  Touched(secs, m, WithName(secs, KeyOf(secs[m]), name))
  <1> DEFINE yes == TRUE
             new == WithName(secs, KeyOf(secs[m]), name)
             own == [secs[m] EXCEPT !.shown = name, !.renamed = yes]
             put == [secs EXCEPT ![m] = own]
  <1>1. Sections(secs) /\ Len(secs) \in Nat /\ m # 0
    BY DEF Ready, Sections
  <1>2. findSection(secs, KeyOf(secs[m])) = m
    BY <1>1, KeyFinds
  <1>3. new = put
    <2>1. new = [secs EXCEPT ![m].shown = name, ![m].renamed = yes]
      BY <1>1, <1>2 DEF WithName
    <2>2. secs = [j \in 1 .. Len(secs) |-> secs[j]]
      BY <1>1 DEF Sections
    <2> HIDE DEF new, yes
    <2> QED
      BY <2>1, <2>2
  <1> DEFINE s == secs[m]  renamed == s.renamed  auto == s.auto
             first == [s EXCEPT !.shown = name]
  <1>4. s = FullSection(s.name, s.id, s.mac, s.creds, s.shown, renamed, auto)
    BY <1>1, ShapedIs DEF Sections
  <1>6. own = [first EXCEPT !.renamed = yes]
    BY Zenon
  <1> HIDE DEF renamed, auto, s, own, yes
  <1>5. first = FullSection(s.name, s.id, s.mac, s.creds, name, renamed, auto)
    BY <1>4 DEF FullSection
  <1> HIDE DEF first
  <1>7. own = FullSection(s.name, s.id, s.mac, s.creds, name, yes, auto)
    BY <1>5, <1>6 DEF FullSection
  <1>8. Shaped(own) /\ own.name = s.name /\ own.id = s.id /\ own.renamed = yes /\ own.auto = auto
    BY <1>7, ShapedFields
  <1>9. /\ Len(put) = Len(secs) /\ put[m] = own
        /\ \A j \in 1 .. Len(secs) : j # m => put[j] = secs[j]
    BY <1>1, <1>8, OneChanged
  <1> HIDE DEF put, new
  <1>10. Touched(secs, m, put)
    <2>1. /\ put[m].name = secs[m].name /\ put[m].id = secs[m].id
          /\ put[m].auto = secs[m].auto /\ put[m].renamed \in BOOLEAN
      BY Zenon, <1>8, <1>9 DEF s, auto, yes
    <2> QED
      BY Zenon, <1>9, <2>1 DEF Touched
  <1> QED
    BY <1>3, <1>10 DEF new

\* The sections of a file, once each has its MAC.
LEMMA AssignAllKeeps ==
    ASSUME NEW secs, Sections(secs), WellFormed(secs), \A i \in 1 .. Len(secs) : AsFiled(secs[i])
    PROVE  LET new == AssignAll(secs)
           IN  /\ WellFormed(new) /\ Extends(secs, new)
               /\ \A i \in 1 .. Len(new) : AsFiled(new[i])
  <1> DEFINE new == AssignAll(secs)
  <1>1. Len(secs) \in Nat /\ SameButMacs(secs, new)
    BY AssignAllFinishes DEF Sections
  <1> HIDE DEF new
  <1>2. ASSUME NEW i \in 1 .. Len(secs)
        PROVE  /\ new[i].name = secs[i].name /\ new[i].shown = secs[i].shown
               /\ new[i].id = secs[i].id
               /\ new[i].renamed = secs[i].renamed /\ new[i].auto = secs[i].auto
    <2>1. Shaped(secs[i])
      BY DEF Sections
    <2>2. new[i] = [secs[i] EXCEPT !.mac = new[i].mac]
      BY <1>1 DEF SameButMacs
    <2> QED
      BY <2>1, <2>2, ButMac
  <1>3. Len(new) = Len(secs)
    BY <1>1 DEF SameButMacs
  <1>4. ASSUME NEW i \in 1 .. Len(new)
        PROVE  /\ new[i].name \notin Unnamed
               /\ new[i].id \in HexIds \cup {""}
               /\ new[i].name \in HexIds => new[i].id = new[i].name
    <2>1. /\ secs[i].name \notin Unnamed
          /\ secs[i].id \in HexIds \cup {""}
          /\ secs[i].name \in HexIds => secs[i].id = secs[i].name
      BY Zenon, <1>3 DEF WellFormed
    <2>2. new[i].name = secs[i].name /\ new[i].id = secs[i].id
      BY Zenon, <1>2, <1>3
    <2> QED
      BY <2>1, <2>2
  <1>5. ASSUME NEW i \in 1 .. Len(new)
        PROVE  new[i].renamed \in BOOLEAN /\ new[i].auto \in BOOLEAN /\ AsFiled(new[i])
    <2>1. secs[i].renamed \in BOOLEAN /\ secs[i].auto \in BOOLEAN /\ AsFiled(secs[i])
      BY Zenon, <1>3 DEF WellFormed
    <2>2. /\ new[i].renamed = secs[i].renamed /\ new[i].auto = secs[i].auto
          /\ new[i].shown = secs[i].shown /\ new[i].name = secs[i].name
      BY Zenon, <1>2, <1>3
    <2> QED
      BY Zenon, <2>1, <2>2 DEF AsFiled
  <1>6. ASSUME NEW i \in 1 .. Len(new), NEW j \in 1 .. Len(new), i # j
        PROVE  new[i].name # new[j].name /\ (new[i].id # "" => new[i].id # new[j].id)
    <2>1. i \in 1 .. Len(secs) /\ j \in 1 .. Len(secs)
      BY <1>3
    <2>2. secs[i].name # secs[j].name /\ (secs[i].id # "" => secs[i].id # secs[j].id)
      BY Zenon, <1>6, <2>1 DEF WellFormed
    <2>3. /\ new[i].name = secs[i].name /\ new[j].name = secs[j].name
          /\ new[i].id = secs[i].id /\ new[j].id = secs[j].id
      BY Zenon, <1>2, <2>1
    <2> QED
      BY Zenon, <2>2, <2>3
  <1>7. WellFormed(new)
    BY Zenon, <1>4, <1>5, <1>6 DEF WellFormed
  <1>8. Extends(secs, new)
    <2>1. Len(secs) <= Len(new)
      BY <1>1, <1>3
    <2> QED
      BY Zenon, <1>2, <2>1 DEF Extends
  <1> QED
    BY Zenon, <1>5, <1>7, <1>8 DEF new

\* The players the user wrote wait as the file has them, each once.
LEMMA StaticPlayersAre ==
    ASSUME NEW secs, Sections(secs), WellFormed(secs), \A i \in 1 .. Len(secs) : AsFiled(secs[i])
    PROVE  LET list == staticPlayers(secs)
           IN  /\ Listed(list)
               /\ \A k \in 1 .. Len(list) : Waits(list[k], secs)
               /\ \A k, l \in 1 .. Len(list) : k # l => list[k].id # list[l].id
  <1> DEFINE piece(i) == IF secs[i].auto THEN << >> ELSE << StaticDevice(secs[i]) >>
             seqs     == [i \in DOMAIN secs |-> piece(i)]
             upTo(n)  == Flattened(seqs, n)
             Good(n)  == /\ \A k \in 1 .. Len(upTo(n)) :
                              \E i \in 1 .. n : upTo(n)[k] = StaticDevice(secs[i])
                         /\ \A k, l \in 1 .. Len(upTo(n)) : k # l => upTo(n)[k].id # upTo(n)[l].id
             G        == { n \in Nat : n <= Len(secs) => Good(n) }
  <1>1. Len(secs) \in Nat /\ DOMAIN secs = 1 .. Len(secs)
    BY DEF Sections
  <1>2. Listed(seqs) /\ Len(seqs) = Len(secs) /\ \A i \in 1 .. Len(secs) : seqs[i] = piece(i)
    <2>1. seqs = [i \in 1 .. Len(secs) |-> piece(i)]
      BY <1>1
    <2> HIDE DEF piece
    <2>2. seqs \in Seq({ piece(i) : i \in 1 .. Len(secs) }) /\ Len(seqs) = Len(secs)
      <3> HIDE DEF seqs
      <3> QED  BY <1>1, <2>1
    <2>3. \A i \in 1 .. Len(secs) : seqs[i] = piece(i)
      <3> HIDE DEF seqs
      <3> QED  BY <2>1
    <2> QED
      BY <2>2, <2>3, ListedIsSeq
  <1>3. \A i \in 1 .. Len(secs) : Listed(piece(i))
    BY ListedSmall
  <1>4. /\ upTo(0) = << >>
        /\ \A n \in 1 .. Len(secs) : upTo(n) = upTo(n - 1) \o piece(n)
        /\ \A n \in 0 .. Len(secs) : Listed(upTo(n))
        /\ FlattenSeq(seqs) = upTo(Len(secs))
    <2> HIDE DEF piece, seqs
    <2>1. \A i \in 1 .. Len(seqs) : Listed(seqs[i])
      BY <1>2, <1>3
    <2>2. /\ Flattened(seqs, 0) = << >>
          /\ \A n \in 1 .. Len(seqs) : Flattened(seqs, n) = Flattened(seqs, n - 1) \o seqs[n]
          /\ \A n \in 0 .. Len(seqs) : Listed(Flattened(seqs, n))
          /\ FlattenSeq(seqs) = Flattened(seqs, Len(seqs))
      BY <1>2, <2>1, PiecesJoin
    <2> QED
      BY <1>2, <2>2
  <1>5. \A i, j \in 1 .. Len(secs) : i # j => KeyOf(secs[i]) # KeyOf(secs[j])
    <2>1. \A i \in 1 .. Len(secs) : findSection(secs, KeyOf(secs[i])) = i
      BY KeyFinds
    <2> QED
      BY <2>1
  <1>6. \A i : StaticDevice(secs[i]).id = KeyOf(secs[i])
    BY DEF StaticDevice
  <1> HIDE DEF seqs, upTo
  <1>7. 0 \in G
    BY <1>4, ListedSmall
  <1>8. ASSUME NEW n \in Nat, n \in G PROVE n + 1 \in G
    <2> SUFFICES ASSUME n + 1 <= Len(secs) PROVE Good(n + 1)
      OBVIOUS
    <2>1. Good(n) /\ n + 1 \in 1 .. Len(secs) /\ n \in 0 .. Len(secs)
      BY <1>1, <1>8
    <2>2. upTo(n + 1) = upTo(n) \o piece(n + 1) /\ Listed(upTo(n))
      BY <1>4, <2>1
    <2>3. CASE secs[n + 1].auto
      <3>1. upTo(n + 1) = upTo(n)
        BY <2>2, <2>3, ListedEmptyConcat
      <3> QED
        BY <2>1, <3>1
    <2>4. CASE ~ secs[n + 1].auto
      <3> DEFINE d == StaticDevice(secs[n + 1])
      <3>1. upTo(n + 1) = upTo(n) \o << d >>
        BY <2>2, <2>4
      <3>2. d.id = KeyOf(secs[n + 1])
        BY <1>6
      <3> HIDE DEF d
      <3>3. /\ Len(upTo(n + 1)) = Len(upTo(n)) + 1 /\ Len(upTo(n)) \in Nat
            /\ \A k \in 1 .. Len(upTo(n)) : upTo(n + 1)[k] = upTo(n)[k]
            /\ upTo(n + 1)[Len(upTo(n)) + 1] = d
        <4>1. Listed(<< d >>) /\ Len(<< d >>) = 1 /\ << d >>[1] = d
          BY ListedSmall
        <4>2. /\ Len(upTo(n) \o << d >>) = Len(upTo(n)) + Len(<< d >>)
              /\ \A i \in 1 .. Len(upTo(n)) : (upTo(n) \o << d >>)[i] = upTo(n)[i]
              /\ \A i \in 1 .. Len(<< d >>) : (upTo(n) \o << d >>)[Len(upTo(n)) + i] = << d >>[i]
          BY <2>2, <4>1, ListedConcat
        <4>3. Len(upTo(n)) \in Nat
          BY <2>2 DEF Listed
        <4> DEFINE one == << d >>  s == upTo(n)  t == s \o one
        <4> HIDE DEF one, s, t
        <4>4. /\ Len(t) = Len(s) + Len(one) /\ Len(one) = 1 /\ one[1] = d
              /\ \A i \in 1 .. Len(s) : t[i] = s[i]
              /\ \A i \in 1 .. Len(one) : t[Len(s) + i] = one[i]
          BY <4>1, <4>2 DEF one, s, t
        <4>5. t[Len(s) + 1] = d
          BY <4>4
        <4> QED
          BY <3>1, <4>3, <4>4, <4>5 DEF one, s, t
      <3> DEFINE s == upTo(n)  t == upTo(n + 1)
      <3> HIDE DEF s, t
      <3>4. /\ Len(t) = Len(s) + 1 /\ Len(s) \in Nat
            /\ \A k \in 1 .. Len(s) : t[k] = s[k]
            /\ t[Len(s) + 1] = d
        BY <3>3 DEF s, t
      <3>5. /\ \A k \in 1 .. Len(s) : \E i \in 1 .. n : s[k] = StaticDevice(secs[i])
            /\ \A k, l \in 1 .. Len(s) : k # l => s[k].id # s[l].id
        BY <2>1 DEF s
      <3>6. \A k \in 1 .. Len(t) : k \in 1 .. Len(s) \/ k = Len(s) + 1
        BY <3>4
      <3>7. \A k \in 1 .. Len(t) : \E i \in 1 .. n + 1 : t[k] = StaticDevice(secs[i])
        <4>1. \A i \in 1 .. n : i \in 1 .. n + 1
          BY <2>1
        <4>2. n + 1 \in 1 .. n + 1
          BY <2>1
        <4> QED
          BY <3>4, <3>5, <3>6, <4>1, <4>2 DEF d
      <3>8. \A k \in 1 .. Len(s) : t[k].id # d.id
        <4>1. \A i \in 1 .. n : i \in 1 .. Len(secs) /\ i # n + 1
          BY <1>1, <2>1
        <4>2. \A i \in 1 .. n : StaticDevice(secs[i]).id # d.id
          BY <1>5, <1>6, <2>1, <3>2, <4>1
        <4> QED
          BY <3>4, <3>5, <4>2
      <3>9. \A k, l \in 1 .. Len(t) : k # l => t[k].id # t[l].id
        BY <3>4, <3>5, <3>6, <3>8
      <3> QED
        BY <3>7, <3>9 DEF t
    <2> QED
      BY <2>3, <2>4
  <1> HIDE DEF Good
  <1>9. Good(Len(secs))
    <2>1. Nat \subseteq G
      BY <1>7, <1>8, Induction
    <2> QED
      BY <1>1, <2>1
  <1> DEFINE list == staticPlayers(secs)
  <1>10. list = upTo(Len(secs)) /\ Listed(list)
    <2>1. list = FlattenSeq(seqs)
      BY DEF staticPlayers, seqs
    <2> QED
      BY <1>1, <1>4, <2>1
  <1> HIDE DEF list
  <1>11. /\ \A k \in 1 .. Len(list) : \E i \in 1 .. Len(secs) : list[k] = StaticDevice(secs[i])
         /\ \A k, l \in 1 .. Len(list) : k # l => list[k].id # list[l].id
    BY <1>9, <1>10 DEF Good
  <1>12. \A k \in 1 .. Len(list) : Waits(list[k], secs)
    BY Zenon, <1>11 DEF Waits, AsFiled
  <1> QED
    BY <1>10, <1>11, <1>12 DEF list

-----------------------------------------------------------------------------
(* A save and a start: the file as it was read and its image, line by line. *)

\* The three things a line of a tidy file can do: open a new section, change
\* the one it is in, or neither.
Opens(l) == l.kind = "header" /\ l.val \notin Reserved
Changes(r, l) == l.kind = "key" /\ r.at # 0

LEMMA OpensRead ==
    ASSUME NEW r, Sections(r.secs), NEW l, Opens(l), findSection(r.secs, l.val) = 0
    PROVE  LET new == ReadLine(r, l)
           IN  /\ Sections(new.secs)
               /\ Len(new.secs) = Len(r.secs) + 1
               /\ new.at = Len(r.secs) + 1
               /\ new.secs[Len(r.secs) + 1] = NewSection(l.val, FALSE)
               /\ \A i \in 1 .. Len(r.secs) : new.secs[i] = r.secs[i]
               /\ new.name = l.val
  <1> DEFINE new == ReadLine(r, l)
             all == WithHeader(r.secs, l.val)
  <1>1. new.secs = all /\ new.at = findSection(all, l.val) /\ new.name = l.val
    <2>1. new.secs = all /\ new.at = HeaderAt(r.secs, l.val) /\ new.name = l.val
      BY DEF Opens, ReadLine
    <2> HIDE DEF new
    <2> QED
      BY <2>1, HeaderFound
  <1>2. /\ Sections(WithHeader(r.secs, l.val))
        /\ findSection(WithHeader(r.secs, l.val), l.val) = Len(r.secs) + 1
        /\ Len(WithHeader(r.secs, l.val)) = Len(r.secs) + 1
        /\ WithHeader(r.secs, l.val)[findSection(WithHeader(r.secs, l.val), l.val)]
              = NewSection(l.val, FALSE)
        /\ \A i \in 1 .. Len(r.secs) : WithHeader(r.secs, l.val)[i] = r.secs[i]
    BY HeaderNew
  <1> HIDE DEF new
  <1>3. /\ Sections(all) /\ findSection(all, l.val) = Len(r.secs) + 1
        /\ Len(all) = Len(r.secs) + 1
        /\ all[findSection(all, l.val)] = NewSection(l.val, FALSE)
        /\ \A i \in 1 .. Len(r.secs) : all[i] = r.secs[i]
    BY Zenon, <1>2
  <1>4. all[Len(r.secs) + 1] = NewSection(l.val, FALSE)
    BY Zenon, <1>3
  <1> HIDE DEF all
  <1> QED
    BY Zenon, <1>1, <1>3, <1>4 DEF new

LEMMA ChangesRead ==
    ASSUME NEW r, Sections(r.secs), r.at \in 0 .. Len(r.secs), NEW l, Changes(r, l)
    PROVE  LET new == ReadLine(r, l)
           IN  /\ r.at \in 1 .. Len(r.secs)
               /\ Sections(new.secs)
               /\ Len(new.secs) = Len(r.secs)
               /\ new.at = r.at /\ new.name = r.name
               /\ new.secs[r.at] = KeyRead(r.secs[r.at], l)
               /\ \A i \in 1 .. Len(r.secs) : i # r.at => new.secs[i] = r.secs[i]
  <1> DEFINE new == ReadLine(r, l)
             sec == WithKey(r.secs[r.at], l)
             put == [r.secs EXCEPT ![r.at] = sec]
  <1>0. r.at \in 1 .. Len(r.secs) /\ Len(r.secs) \in Nat
    BY DEF Sections, Changes
  <1>1. new.secs = put /\ new.at = r.at /\ new.name = r.name
    <2>1. new.secs = [r.secs EXCEPT ![r.at] = WithKey(@, l)] /\ new.at = r.at /\ new.name = r.name
      BY DEF ReadLine, Changes
    <2>2. [r.secs EXCEPT ![r.at] = WithKey(@, l)] = put
      BY Zenon
    <2> HIDE DEF new, put
    <2> QED
      BY <2>1, <2>2
  <1>2. sec = KeyRead(r.secs[r.at], l) /\ Shaped(sec)
    <2>1. Shaped(r.secs[r.at])
      BY <1>0 DEF Sections
    <2>2. sec = KeyRead(r.secs[r.at], l)
      BY <2>1, WithKeyIs
    <2>3. Shaped(KeyRead(r.secs[r.at], l))
      BY DEF KeyRead, Shaped, FullSection
    <2> QED
      BY <2>2, <2>3
  <1> HIDE DEF sec
  <1>3. /\ Sections(put) /\ Len(put) = Len(r.secs) /\ put[r.at] = sec
        /\ \A i \in 1 .. Len(r.secs) : i # r.at => put[i] = r.secs[i]
    BY <1>0, <1>2, OneChanged
  <1> HIDE DEF put, new
  <1> QED
    BY <1>0, <1>1, <1>2, <1>3 DEF new

LEMMA OthersRead ==
    ASSUME NEW r, NEW l, ~Opens(l), ~Changes(r, l)
    PROVE  LET new == ReadLine(r, l)
           IN  /\ new.secs = r.secs
               /\ new.at = (IF l.kind \in {"header", "unknown"} THEN 0 ELSE r.at)
               /\ new.name = (IF l.kind = "header" THEN l.val ELSE r.name)
  BY DEF ReadLine, Opens, Changes

LEMMA KeyReadFields ==
    ASSUME NEW sec, NEW l
    PROVE  /\ Shaped(KeyRead(sec, l)) /\ KeyRead(sec, l).name = sec.name
           /\ l.key # "auto" => KeyRead(sec, l).auto = sec.auto
           /\ l.key # "name" => /\ KeyRead(sec, l).shown = sec.shown
                                /\ KeyRead(sec, l).renamed = sec.renamed
           /\ l.key = "name" => KeyRead(sec, l).renamed = TRUE
           /\ l.key # "id" => KeyRead(sec, l).id = sec.id
  <1> DEFINE id      == IF l.key = "id" THEN l.val ELSE sec.id
             mac     == IF l.key = "mac" THEN l.val ELSE sec.mac
             creds   == IF l.key = "creds" THEN l.val ELSE sec.creds
             shown   == IF l.key = "name" THEN l.val ELSE sec.shown
             renamed == IF l.key = "name" THEN TRUE ELSE sec.renamed
             auto    == IF l.key = "auto" THEN TRUE ELSE sec.auto
             new     == KeyRead(sec, l)
  <1>1. new = FullSection(sec.name, id, mac, creds, shown, renamed, auto)
    BY Zenon DEF KeyRead
  <1>2. /\ l.key # "auto" => auto = sec.auto
        /\ l.key # "name" => shown = sec.shown /\ renamed = sec.renamed
        /\ l.key = "name" => renamed = TRUE
        /\ l.key # "id" => id = sec.id
    BY Zenon
  <1> HIDE DEF id, mac, creds, shown, renamed, auto, new
  <1>3. /\ Shaped(new) /\ new.name = sec.name /\ new.id = id
        /\ new.shown = shown /\ new.renamed = renamed /\ new.auto = auto
    BY <1>1, ShapedFields
  <1> QED
    BY Zenon, <1>2, <1>3 DEF new

\* The sections keep their names and their places.
NamesGrow(secs, other) ==
    /\ Len(secs) <= Len(other)
    /\ \A i \in 1 .. Len(secs) : other[i].name = secs[i].name

\* Where parse() is in a tidy file: headers are the headers it has passed, and
\* autos the names its auto keys were noted under.
Neat(r, headers, autos) ==
    /\ Sections(r.secs) /\ r.at \in 0 .. Len(r.secs)
    /\ r.at # 0 => r.secs[r.at].name = r.name
    /\ r.name \in Unnamed \/ \E i \in 1 .. Len(r.secs) : r.secs[i].name = r.name
    /\ \A i \in 1 .. Len(r.secs) : /\ r.secs[i].name \notin Unnamed
                                   /\ AsFiled(r.secs[i])
                                   /\ r.secs[i].name \in headers
                                   /\ r.secs[i].auto => r.secs[i].name \in autos
    /\ \A i, j \in 1 .. Len(r.secs) : i # j => r.secs[i].name # r.secs[j].name
    /\ \A h \in headers : h \in Reserved \/ \E i \in 1 .. Len(r.secs) : r.secs[i].name = h

LEMMA NeatParts ==
    ASSUME NEW r, NEW headers, NEW autos,
           Sections(r.secs), r.at \in 0 .. Len(r.secs),
           r.at # 0 => r.secs[r.at].name = r.name,
           r.name \in Unnamed \/ \E i \in 1 .. Len(r.secs) : r.secs[i].name = r.name,
           \A i \in 1 .. Len(r.secs) : /\ r.secs[i].name \notin Unnamed
                                       /\ AsFiled(r.secs[i])
                                       /\ r.secs[i].name \in headers
                                       /\ r.secs[i].auto => r.secs[i].name \in autos,
           \A i, j \in 1 .. Len(r.secs) : i # j => r.secs[i].name # r.secs[j].name,
           \A h \in headers : h \in Reserved \/ \E i \in 1 .. Len(r.secs) : r.secs[i].name = h
    PROVE  Neat(r, headers, autos)
  BY DEF Neat

LEMMA NeatOpens ==
    ASSUME NEW r, NEW H, NEW A, Neat(r, H, A), NEW l, Fits(r, l), Opens(l),
           NEW H2, H2 = H \cup {l.val}, NEW A2, A \subseteq A2
    PROVE  Neat(ReadLine(r, l), H2, A2) /\ NamesGrow(r.secs, ReadLine(r, l).secs)
  <1> DEFINE new  == ReadLine(r, l)
             last == Len(r.secs) + 1
  <1>1. l.val \notin Unnamed /\ findSection(r.secs, l.val) = 0
    BY DEF Fits, Opens, Unnamed
  <1>2. Sections(r.secs) /\ Len(r.secs) \in Nat /\ r.at \in 0 .. Len(r.secs)
    BY DEF Neat, Sections
  <1>3. /\ Sections(new.secs) /\ Len(new.secs) = last /\ new.at = last
        /\ new.secs[last] = NewSection(l.val, FALSE)
        /\ \A i \in 1 .. Len(r.secs) : new.secs[i] = r.secs[i]
        /\ new.name = l.val
    BY <1>1, <1>2, OpensRead
  <1>4. \A i \in 1 .. Len(r.secs) : r.secs[i].name # l.val
    BY <1>1, <1>2, FindSection
  <1>5. /\ last \in 1 .. last /\ last \in 0 .. last /\ last # 0
        /\ \A i \in 1 .. last : i \in 1 .. Len(r.secs) \/ i = last
        /\ \A i \in 1 .. Len(r.secs) : i \in 1 .. last
    BY <1>2
  <1> DEFINE own == NewSection(l.val, FALSE)
  <1>6. own.name = l.val /\ own.shown = l.val /\ own.auto = FALSE
    BY DEF NewSection
  <1> HIDE DEF new, last, own
  <1>7. ASSUME NEW i \in 1 .. Len(new.secs)
        PROVE  /\ new.secs[i].name \notin Unnamed
               /\ AsFiled(new.secs[i])
               /\ new.secs[i].name \in H2
               /\ new.secs[i].auto => new.secs[i].name \in A2
    <2>1. CASE i \in 1 .. Len(r.secs)
      <3>1. /\ r.secs[i].name \notin Unnamed /\ AsFiled(r.secs[i]) /\ r.secs[i].name \in H
            /\ r.secs[i].auto => r.secs[i].name \in A
        BY Zenon, <2>1 DEF Neat
      <3>2. new.secs[i] = r.secs[i]
        BY Zenon, <1>3, <2>1
      <3>3. r.secs[i].name \in H2 /\ (r.secs[i].name \in A => r.secs[i].name \in A2)
        BY <3>1
      <3> QED
        BY Zenon, <3>1, <3>2, <3>3
    <2>2. CASE i = last
      <3>1. new.secs[i] = own /\ l.val \in H2
        BY Zenon, <1>3, <2>2 DEF own
      <3> QED
        BY Zenon, <1>1, <1>6, <3>1 DEF AsFiled
    <2> QED
      BY Zenon, <1>3, <1>5, <2>1, <2>2
  <1>8. ASSUME NEW i \in 1 .. Len(new.secs), NEW j \in 1 .. Len(new.secs), i # j
        PROVE  new.secs[i].name # new.secs[j].name
    <2>1. \A k \in 1 .. Len(r.secs) : new.secs[k].name = r.secs[k].name
      BY Zenon, <1>3
    <2>2. new.secs[last].name = l.val
      BY Zenon, <1>3, <1>6 DEF own
    <2>3. CASE i \in 1 .. Len(r.secs) /\ j \in 1 .. Len(r.secs)
      BY Zenon, <1>8, <2>1, <2>3 DEF Neat
    <2>4. CASE i = last /\ j \in 1 .. Len(r.secs)
      BY Zenon, <1>4, <2>1, <2>2, <2>4
    <2>5. CASE i \in 1 .. Len(r.secs) /\ j = last
      BY Zenon, <1>4, <2>1, <2>2, <2>5
    <2> QED
      BY Zenon, <1>3, <1>5, <1>8, <2>3, <2>4, <2>5
  <1>9. NamesGrow(r.secs, new.secs)
    <2>1. Len(r.secs) <= Len(new.secs)
      BY <1>2, <1>3 DEF last
    <2> QED
      BY Zenon, <1>3, <2>1 DEF NamesGrow
  <1>10. last \in 1 .. Len(new.secs) /\ new.secs[last].name = l.val
    BY Zenon, <1>3, <1>5, <1>6 DEF own
  <1>11. \A h \in H2 : h \in Reserved \/ \E i \in 1 .. Len(new.secs) : new.secs[i].name = h
    <2> TAKE h \in H2
    <2>1. CASE h = l.val
      BY Zenon, <1>10, <2>1
    <2>2. CASE h \in H
      <3>1. h \in Reserved \/ \E i \in 1 .. Len(r.secs) : r.secs[i].name = h
        BY Zenon, <2>2 DEF Neat
      <3>2. \A i \in 1 .. Len(r.secs) : i \in 1 .. Len(new.secs) /\ new.secs[i].name = r.secs[i].name
        BY Zenon, <1>3, <1>5
      <3> QED
        BY Zenon, <3>1, <3>2
    <2> QED
      BY <2>1, <2>2
  <1>12. Neat(new, H2, A2)
    <2>1. new.at \in 0 .. Len(new.secs) /\ new.secs[new.at].name = new.name
      BY Zenon, <1>3, <1>5, <1>10
    <2> QED
      BY Zenon, <1>3, <1>7, <1>8, <1>10, <1>11, <2>1 DEF Neat
  <1> QED
    BY <1>9, <1>12 DEF new

LEMMA NeatChanges ==
    ASSUME NEW r, NEW H, NEW A, Neat(r, H, A), NEW l, Changes(r, l),
           NEW A2, A \subseteq A2, l.key = "auto" => r.name \in A2
    PROVE  Neat(ReadLine(r, l), H, A2) /\ NamesGrow(r.secs, ReadLine(r, l).secs)
  <1> DEFINE new == ReadLine(r, l)
             at  == r.at
  <1>1. Sections(r.secs) /\ Len(r.secs) \in Nat /\ r.at \in 0 .. Len(r.secs)
    BY DEF Neat, Sections
  <1>2. /\ at \in 1 .. Len(r.secs)
        /\ Sections(new.secs) /\ Len(new.secs) = Len(r.secs)
        /\ new.at = at /\ new.name = r.name
        /\ new.secs[at] = KeyRead(r.secs[at], l)
        /\ \A i \in 1 .. Len(r.secs) : i # at => new.secs[i] = r.secs[i]
    BY <1>1, ChangesRead
  <1> HIDE DEF new
  <1>3. /\ new.secs[at].name = r.secs[at].name
        /\ l.key # "auto" => new.secs[at].auto = r.secs[at].auto
        /\ l.key # "name" => /\ new.secs[at].shown = r.secs[at].shown
                             /\ new.secs[at].renamed = r.secs[at].renamed
        /\ l.key = "name" => new.secs[at].renamed = TRUE
    <2> DEFINE k == KeyRead(r.secs[at], l)
    <2>1. new.secs[at] = k
      BY <1>2
    <2>2. /\ Shaped(k) /\ k.name = r.secs[at].name
          /\ l.key # "auto" => k.auto = r.secs[at].auto
          /\ l.key # "name" => /\ k.shown = r.secs[at].shown
                               /\ k.renamed = r.secs[at].renamed
          /\ l.key = "name" => k.renamed = TRUE
          /\ l.key # "id" => k.id = r.secs[at].id
      BY Zenon, KeyReadFields
    <2> HIDE DEF k
    <2> QED
      BY Zenon, <2>1, <2>2
  <1>4. r.secs[at].name = r.name
    BY <1>1, <1>2 DEF Neat
  <1>5. \A i \in 1 .. Len(r.secs) : new.secs[i].name = r.secs[i].name
    BY Zenon, <1>2, <1>3
  <1> HIDE DEF at
  <1>6. ASSUME NEW i \in 1 .. Len(new.secs)
        PROVE  /\ new.secs[i].name \notin Unnamed
               /\ AsFiled(new.secs[i])
               /\ new.secs[i].name \in H
               /\ new.secs[i].auto => new.secs[i].name \in A2
    <2>0. i \in 1 .. Len(r.secs)
      BY Zenon, <1>2
    <2>1. /\ r.secs[i].name \notin Unnamed /\ AsFiled(r.secs[i]) /\ r.secs[i].name \in H
          /\ r.secs[i].auto => r.secs[i].name \in A2
      <3>1. /\ r.secs[i].name \notin Unnamed /\ AsFiled(r.secs[i]) /\ r.secs[i].name \in H
            /\ r.secs[i].auto => r.secs[i].name \in A
        BY Zenon, <2>0 DEF Neat
      <3>2. r.secs[i].name \in A => r.secs[i].name \in A2
        OBVIOUS
      <3> QED
        BY Zenon, <3>1, <3>2
    <2>2. CASE i = at
      <3>1. AsFiled(new.secs[at])
        <4>1. CASE l.key = "name"
          BY Zenon, <1>3, <4>1 DEF AsFiled
        <4>2. CASE l.key # "name"
          BY Zenon, <1>3, <2>1, <2>2, <4>2 DEF AsFiled
        <4> QED
          BY <4>1, <4>2
      <3>2. new.secs[at].auto => new.secs[at].name \in A2
        <4>1. CASE l.key = "auto"
          BY Zenon, <1>3, <1>4, <4>1
        <4>2. CASE l.key # "auto"
          BY Zenon, <1>3, <2>1, <2>2, <4>2
        <4> QED
          BY <4>1, <4>2
      <3> QED
        BY Zenon, <1>3, <2>1, <2>2, <3>1, <3>2
    <2>3. CASE i # at
      BY Zenon, <1>2, <2>0, <2>1, <2>3
    <2> QED
      BY <2>2, <2>3
  <1>7. ASSUME NEW i \in 1 .. Len(new.secs), NEW j \in 1 .. Len(new.secs), i # j
        PROVE  new.secs[i].name # new.secs[j].name
    <2>1. i \in 1 .. Len(r.secs) /\ j \in 1 .. Len(r.secs)
      BY Zenon, <1>2
    <2>2. r.secs[i].name # r.secs[j].name
      BY Zenon, <1>7, <2>1 DEF Neat
    <2> QED
      BY Zenon, <1>5, <2>1, <2>2
  <1>8. \A h \in H : h \in Reserved \/ \E i \in 1 .. Len(new.secs) : new.secs[i].name = h
    <2>1. \A h \in H : h \in Reserved \/ \E i \in 1 .. Len(r.secs) : r.secs[i].name = h
      BY Zenon DEF Neat
    <2> QED
      BY Zenon, <1>2, <1>5, <2>1
  <1>9. new.name \in Unnamed \/ \E i \in 1 .. Len(new.secs) : new.secs[i].name = new.name
    <2>1. r.name \in Unnamed \/ \E i \in 1 .. Len(r.secs) : r.secs[i].name = r.name
      BY Zenon DEF Neat
    <2> QED
      BY Zenon, <1>2, <1>5, <2>1
  <1>10. new.at \in 0 .. Len(new.secs) /\ new.secs[new.at].name = new.name
    <2>1. new.at \in 0 .. Len(new.secs)
      BY Zenon, <1>1, <1>2 DEF at
    <2> QED
      BY Zenon, <1>2, <1>3, <1>4, <2>1
  <1>11. Neat(new, H, A2)
    BY Zenon, <1>2, <1>6, <1>7, <1>8, <1>9, <1>10 DEF Neat
  <1>12. NamesGrow(r.secs, new.secs)
    <2>1. Len(r.secs) <= Len(new.secs)
      BY <1>1, <1>2
    <2> QED
      BY Zenon, <1>5, <2>1 DEF NamesGrow
  <1> QED
    BY <1>11, <1>12 DEF new

LEMMA NeatOthers ==
    ASSUME NEW r, NEW H, NEW A, Neat(r, H, A), NEW l, ~Opens(l), ~Changes(r, l),
           NEW H2, H2 = IF l.kind = "header" THEN H \cup {l.val} ELSE H, NEW A2, A \subseteq A2
    PROVE  Neat(ReadLine(r, l), H2, A2) /\ NamesGrow(r.secs, ReadLine(r, l).secs)
  <1> DEFINE new == ReadLine(r, l)
  <1>1. Sections(r.secs) /\ Len(r.secs) \in Nat /\ r.at \in 0 .. Len(r.secs)
    BY DEF Neat, Sections
  <1>2. /\ new.secs = r.secs
        /\ new.at = (IF l.kind \in {"header", "unknown"} THEN 0 ELSE r.at)
        /\ new.name = (IF l.kind = "header" THEN l.val ELSE r.name)
    BY OthersRead
  <1> HIDE DEF new
  <1>3. l.kind = "header" => l.val \in Reserved /\ l.val \in Unnamed
    BY DEF Opens, Unnamed
  <1>4. new.at \in 0 .. Len(r.secs) /\ (new.at # 0 => new.at = r.at /\ new.name = r.name)
    BY <1>1, <1>2
  <1>5. new.at # 0 => r.secs[new.at].name = new.name
    BY Zenon, <1>4 DEF Neat
  <1>6. new.name \in Unnamed \/ \E i \in 1 .. Len(r.secs) : r.secs[i].name = new.name
    <2>1. r.name \in Unnamed \/ \E i \in 1 .. Len(r.secs) : r.secs[i].name = r.name
      BY Zenon DEF Neat
    <2> QED
      BY Zenon, <1>2, <1>3, <2>1
  <1>7. H \subseteq H2 /\ \A h \in H2 : h \in H \/ h \in Reserved
    BY <1>3
  <1>8. ASSUME NEW i \in 1 .. Len(r.secs)
        PROVE  /\ r.secs[i].name \notin Unnamed
               /\ AsFiled(r.secs[i])
               /\ r.secs[i].name \in H2
               /\ r.secs[i].auto => r.secs[i].name \in A2
    <2>1. /\ r.secs[i].name \notin Unnamed /\ AsFiled(r.secs[i]) /\ r.secs[i].name \in H
          /\ r.secs[i].auto => r.secs[i].name \in A
      BY Zenon DEF Neat
    <2>2. /\ r.secs[i].name \in H => r.secs[i].name \in H2
          /\ r.secs[i].name \in A => r.secs[i].name \in A2
      BY <1>7
    <2> QED
      BY Zenon, <2>1, <2>2
  <1>9. \A h \in H2 : h \in Reserved \/ \E i \in 1 .. Len(r.secs) : r.secs[i].name = h
    BY Zenon, <1>7 DEF Neat
  <1>10. \A i, j \in 1 .. Len(r.secs) : i # j => r.secs[i].name # r.secs[j].name
    BY Zenon DEF Neat
  <1>11. Neat(new, H2, A2)
    <2>1. new.secs = r.secs
      BY <1>2
    <2>2. new.at \in 0 .. Len(new.secs) /\ (new.at # 0 => new.secs[new.at].name = new.name)
      BY Zenon, <1>4, <1>5, <2>1
    <2>3. new.name \in Unnamed \/ \E i \in 1 .. Len(new.secs) : new.secs[i].name = new.name
      BY Zenon, <1>6, <2>1
    <2>4. \A i \in 1 .. Len(new.secs) : /\ new.secs[i].name \notin Unnamed
                                        /\ AsFiled(new.secs[i])
                                        /\ new.secs[i].name \in H2
                                        /\ new.secs[i].auto => new.secs[i].name \in A2
      BY Zenon, <1>8, <2>1
    <2>5. \A i, j \in 1 .. Len(new.secs) : i # j => new.secs[i].name # new.secs[j].name
      BY Zenon, <1>10, <2>1
    <2>6. \A h \in H2 : h \in Reserved \/ \E i \in 1 .. Len(new.secs) : new.secs[i].name = h
      BY Zenon, <1>9, <2>1
    <2>7. Sections(new.secs)
      BY <1>1, <2>1
    <2> QED
      BY Zenon, <2>2, <2>3, <2>4, <2>5, <2>6, <2>7, NeatParts
  <1>12. NamesGrow(r.secs, new.secs)
    BY <1>1, <1>2 DEF NamesGrow
  <1> QED
    BY <1>11, <1>12 DEF new

LEMMA ZeroRange == 0 \in 0 .. 0
  OBVIOUS

LEMMA NamesGrowOn ==
    ASSUME NEW a, NEW b, NEW c, Len(a) \in Nat, Len(b) \in Nat, Len(c) \in Nat,
           NamesGrow(a, b), NamesGrow(b, c)
    PROVE  NamesGrow(a, c)
  <1>1. Len(a) <= Len(b) /\ Len(b) <= Len(c) /\ Len(a) <= Len(c)
    BY DEF NamesGrow
  <1>2. ASSUME NEW i \in 1 .. Len(a) PROVE c[i].name = a[i].name
    <2>1. i \in 1 .. Len(b)
      BY <1>1
    <2> QED
      BY Zenon, <2>1 DEF NamesGrow
  <1> QED
    BY <1>1, <1>2 DEF NamesGrow

\* The headers among the first n lines, and the names auto keys are noted under.
HeadersOf(t, n) == { t[m].val : m \in { k \in 1 .. n : t[k].kind = "header" } }
AutosOf(t, n) ==
    { Reading(Begin, t)[m].name : m \in { k \in 1 .. n : t[k].kind = "key" /\ t[k].key = "auto" } }

LEMMA TidyStep ==
    ASSUME NEW t, Listed(t), Tidy(t), NEW n \in Nat, n + 1 \in 1 .. Len(t),
           Neat(Reading(Begin, t)[n], HeadersOf(t, n), AutosOf(t, n))
    PROVE  /\ Neat(Reading(Begin, t)[n + 1], HeadersOf(t, n + 1), AutosOf(t, n + 1))
           /\ NamesGrow(Reading(Begin, t)[n].secs, Reading(Begin, t)[n + 1].secs)
  <1> DEFINE f  == Reading(Begin, t)
             l  == t[n + 1]
             r  == f[n]
             H  == HeadersOf(t, n)
             H2 == HeadersOf(t, n + 1)
             A  == AutosOf(t, n)
             A2 == AutosOf(t, n + 1)
  <1>1. f[n + 1] = ReadLine(r, l) /\ Fits(r, l)
    <2>1. \A m \in 1 .. Len(t) : f[m] = ReadLine(f[m - 1], t[m])
      BY ReadingIs
    <2>2. \A m \in 1 .. Len(t) : Fits(f[m - 1], t[m])
      BY DEF Tidy
    <2>3. (n + 1) - 1 = n
      OBVIOUS
    <2> HIDE DEF f
    <2> QED
      BY <2>1, <2>2, <2>3
  <1>2. Neat(r, H, A)
    OBVIOUS
  <1>3. /\ \A k \in 1 .. n : k \in 1 .. n + 1
        /\ \A k \in 1 .. n + 1 : k \in 1 .. n \/ k = n + 1
        /\ n + 1 \in 1 .. n + 1
    OBVIOUS
  <1>4. H2 = IF l.kind = "header" THEN H \cup {l.val} ELSE H
    BY <1>3 DEF HeadersOf
  <1>5. A \subseteq A2 /\ (l.kind = "key" /\ l.key = "auto" => f[n + 1].name \in A2)
    BY <1>3 DEF AutosOf
  <1> HIDE DEF f, l, r, H, H2, A, A2
  <1> DEFINE new == ReadLine(r, l)
  <1>6. CASE Opens(l)
    <2>1. H2 = H \cup {l.val}
      BY <1>4, <1>6 DEF Opens
    <2>2. Neat(ReadLine(r, l), H2, A2) /\ NamesGrow(r.secs, ReadLine(r, l).secs)
      BY <1>1, <1>2, <1>5, <1>6, <2>1, NeatOpens
    <2> QED
      BY <1>1, <2>2 DEF f, r, H2, A2
  <1>7. CASE Changes(r, l)
    <2>1. H2 = H
      BY <1>4, <1>7 DEF Changes
    <2>2. l.key = "auto" => r.name \in A2
      <3>1. ReadLine(r, l).name = r.name
        BY <1>7 DEF Changes, ReadLine
      <3> QED
        BY <1>1, <1>5, <1>7, <3>1 DEF Changes
    <2>3. Neat(ReadLine(r, l), H, A2) /\ NamesGrow(r.secs, ReadLine(r, l).secs)
      BY <1>2, <1>5, <1>7, <2>2, NeatChanges
    <2> QED
      BY <1>1, <2>1, <2>3 DEF f, r, H2, A2
  <1>8. CASE ~Opens(l) /\ ~Changes(r, l)
    <2>1. Neat(ReadLine(r, l), H2, A2) /\ NamesGrow(r.secs, ReadLine(r, l).secs)
      BY <1>2, <1>4, <1>5, <1>8, NeatOthers
    <2> QED
      BY <1>1, <2>1 DEF f, r, H2, A2
  <1> QED
    BY <1>6, <1>7, <1>8

LEMMA TidyNeat ==
    ASSUME NEW t, Listed(t), Tidy(t)
    PROVE  \A n \in 0 .. Len(t) :
              /\ Neat(Reading(Begin, t)[n], HeadersOf(t, n), AutosOf(t, n))
              /\ \A m \in 0 .. n : NamesGrow(Reading(Begin, t)[m].secs, Reading(Begin, t)[n].secs)
  <1> DEFINE f       == Reading(Begin, t)
             N(n)    == Neat(f[n], HeadersOf(t, n), AutosOf(t, n))
             Grow(n) == \A m \in 0 .. n : NamesGrow(f[m].secs, f[n].secs)
             G       == { n \in Nat : n <= Len(t) => N(n) /\ Grow(n) }
  <1>1. Len(t) \in Nat /\ f[0] = Begin
    BY ReadingIs DEF Listed
  <1>2. \A n \in 0 .. Len(t) : Len(f[n].secs) \in Nat
    BY SectionsRead DEF Sections
  <1>3. 0 \in G
    <2>1. Begin.secs = << >> /\ Begin.at = 0 /\ Begin.name = ""
      BY DEF Begin
    <2>2. HeadersOf(t, 0) = {}
      BY DEF HeadersOf
    <2>3. Sections(<< >>) /\ 1 .. Len(<< >>) = {} /\ Len(<< >>) = 0
      BY DEF Sections
    <2>4. N(0)
      <3> DEFINE b == f[0]
      <3>5. b = Begin
        BY <1>1
      <3>6. "" \in Unnamed
        BY DEF Unnamed
      <3>1. b.name \in Unnamed /\ b.at = 0 /\ 0 \in 0 .. 0
        BY Zenon, <2>1, <3>5, <3>6, ZeroRange
      <3>2. Sections(b.secs) /\ (\A i \in 1 .. Len(b.secs) : FALSE) /\ Len(b.secs) = 0
        BY <1>1, <2>1, <2>3
      <3>3. HeadersOf(t, 0) = {}
        BY <2>2
      <3> HIDE DEF b
      <3>4. Neat(b, {}, AutosOf(t, 0))
        BY Zenon, <3>1, <3>2 DEF Neat
      <3> QED
        BY <3>3, <3>4 DEF b
    <2>5. Grow(0)
      <3>1. NamesGrow(<< >>, << >>)
        BY <2>3 DEF NamesGrow
      <3>2. \A m \in 0 .. 0 : m = 0
        OBVIOUS
      <3> QED
        BY <1>1, <2>1, <3>1, <3>2
    <2> QED
      BY <2>4, <2>5
  <1>4. ASSUME NEW n \in Nat, n \in G PROVE n + 1 \in G
    <2> SUFFICES ASSUME n + 1 <= Len(t) PROVE N(n + 1) /\ Grow(n + 1)
      OBVIOUS
    <2>1. n + 1 \in 1 .. Len(t) /\ N(n) /\ Grow(n) /\ n \in 0 .. Len(t) /\ n + 1 \in 0 .. Len(t)
      BY <1>1, <1>4
    <2>2. N(n + 1) /\ NamesGrow(f[n].secs, f[n + 1].secs)
      BY <2>1, TidyStep
    <2> HIDE DEF N, f
    <2>3. ASSUME NEW m \in 0 .. n + 1 PROVE NamesGrow(f[m].secs, f[n + 1].secs)
      <3>1. CASE m \in 0 .. n
        <4>1. NamesGrow(f[m].secs, f[n].secs)
          BY <2>1, <3>1
        <4>2. Len(f[m].secs) \in Nat /\ Len(f[n].secs) \in Nat /\ Len(f[n + 1].secs) \in Nat
          BY <1>1, <1>2, <2>1, <3>1
        <4> QED
          BY <2>2, <4>1, <4>2, NamesGrowOn
      <3>2. CASE m = n + 1
        BY <1>2, <2>1, <3>2 DEF NamesGrow
      <3> QED
        BY <3>1, <3>2
    <2> QED
      BY <2>2, <2>3
  <1>5. Nat \subseteq G
    <2> HIDE DEF G
    <2> QED  BY <1>3, <1>4, Induction
  <1> QED
    BY <1>1, <1>5

-----------------------------------------------------------------------------
(* What the lines of a save do to the section they are in.                  *)

\* A text is tidy where r stands.
TidyFrom(r, text) == \A i \in 1 .. Len(text) : Fits(Reading(r, text)[i - 1], text[i])

LEMMA TidyFromTwo ==
    ASSUME NEW r, NEW s, Listed(s), NEW t, Listed(t), TidyFrom(r, s), TidyFrom(After(r, s), t)
    PROVE  TidyFrom(r, s \o t)
  <1> DEFINE u == s \o t
             f == Reading(r, u)
  <1>1. /\ Len(s) \in Nat /\ Len(t) \in Nat /\ Len(u) = Len(s) + Len(t)
        /\ \A i \in 1 .. Len(s) : u[i] = s[i]
        /\ \A i \in 1 .. Len(t) : u[Len(s) + i] = t[i]
    BY ListedConcat DEF Listed
  <1>2. /\ \A n \in 0 .. Len(s) : f[n] = Reading(r, s)[n]
        /\ \A n \in 0 .. Len(t) : f[Len(s) + n] = Reading(After(r, s), t)[n]
    BY ReadingOfTwo
  <1> HIDE DEF u, f
  <1>3. ASSUME NEW i \in 1 .. Len(u) PROVE Fits(f[i - 1], u[i])
    <2>1. CASE i <= Len(s)
      <3>1. i \in 1 .. Len(s) /\ i - 1 \in 0 .. Len(s)
        BY <1>1, <2>1
      <3>2. u[i] = s[i] /\ f[i - 1] = Reading(r, s)[i - 1]
        BY <1>1, <1>2, <3>1
      <3>3. Fits(Reading(r, s)[i - 1], s[i])
        BY <3>1 DEF TidyFrom
      <3> QED
        BY <3>2, <3>3
    <2>2. CASE ~ (i <= Len(s))
      <3> DEFINE k == i - Len(s)
      <3>1. k \in 1 .. Len(t) /\ k - 1 \in 0 .. Len(t) /\ Len(s) + k = i /\ Len(s) + (k - 1) = i - 1
        BY <1>1, <2>2
      <3> HIDE DEF k
      <3>2. u[i] = t[k] /\ f[i - 1] = Reading(After(r, s), t)[k - 1]
        BY <1>1, <1>2, <3>1
      <3>3. Fits(Reading(After(r, s), t)[k - 1], t[k])
        BY <3>1 DEF TidyFrom
      <3> QED
        BY <3>2, <3>3
    <2> QED
      BY <2>1, <2>2
  <1> QED
    BY <1>3 DEF TidyFrom, u, f

LEMMA TidyFromSmall ==
    ASSUME NEW r
    PROVE  /\ TidyFrom(r, << >>)
           /\ \A l : Fits(r, l) => TidyFrom(r, << l >>)
  <1>1. TidyFrom(r, << >>)
    BY DEF TidyFrom
  <1>2. ASSUME NEW l, Fits(r, l) PROVE TidyFrom(r, << l >>)
    <2> DEFINE one == << l >>
    <2>1. Listed(one) /\ Len(one) = 1 /\ one[1] = l
      BY ListedSmall
    <2>2. Reading(r, one)[0] = r
      BY <2>1, ReadingIs
    <2> HIDE DEF one
    <2>3. \A i \in 1 .. Len(one) : i = 1 /\ i - 1 = 0
      BY <2>1
    <2>4. \A i \in 1 .. Len(one) : Fits(Reading(r, one)[i - 1], one[i])
      BY Zenon, <1>2, <2>1, <2>2, <2>3
    <2> QED
      BY <2>4 DEF TidyFrom, one
  <1> QED
    BY <1>1, <1>2

\* A text is read, tidily, where parse() is in a section, and changes that.
Edits(q, text, sec) ==
    /\ TidyFrom(q, text)
    /\ LET new == After(q, text)
       IN  /\ Sections(new.secs) /\ Len(new.secs) = Len(q.secs)
           /\ new.at = q.at /\ new.name = q.name
           /\ \A i \in 1 .. Len(q.secs) : i # q.at => new.secs[i] = q.secs[i]
           /\ new.secs[q.at] = sec

LEMMA EditsNothing ==
    ASSUME NEW q, Sections(q.secs)
    PROVE  Edits(q, << >>, q.secs[q.at])
  BY AfterSmall, TidyFromSmall DEF Edits

LEMMA EditsTwo ==
    ASSUME NEW q, NEW s, Listed(s), NEW a, Edits(q, s, a), NEW t, Listed(t), NEW b,
           Edits(After(q, s), t, b)
    PROVE  Edits(q, s \o t, b)
  <1> DEFINE one == After(q, s)
             two == After(one, t)
  <1>1. After(q, s \o t) = two /\ TidyFrom(q, s \o t)
    BY ReadingOfTwo, TidyFromTwo DEF Edits
  <1>2. /\ Sections(one.secs) /\ Len(one.secs) = Len(q.secs)
        /\ one.at = q.at /\ one.name = q.name
        /\ \A i \in 1 .. Len(q.secs) : i # q.at => one.secs[i] = q.secs[i]
    BY Zenon DEF Edits
  <1>3. /\ Sections(two.secs) /\ Len(two.secs) = Len(one.secs)
        /\ two.at = one.at /\ two.name = one.name
        /\ \A i \in 1 .. Len(one.secs) : i # one.at => two.secs[i] = one.secs[i]
        /\ two.secs[one.at] = b
    BY Zenon DEF Edits
  <1> HIDE DEF one, two
  <1>4. /\ Sections(two.secs) /\ Len(two.secs) = Len(q.secs)
        /\ two.at = q.at /\ two.name = q.name
        /\ two.secs[q.at] = b
    BY Zenon, <1>2, <1>3
  <1>5. \A i \in 1 .. Len(q.secs) : i # q.at => two.secs[i] = q.secs[i]
    BY Zenon, <1>2, <1>3
  <1> QED
    BY <1>1, <1>4, <1>5 DEF Edits

\* The value of a key, as the section has it.
EntryLine(sec, key) == Line("key", key, ValueOf(sec)[key], "program")

LEMMA EntryEdits ==
    ASSUME NEW q, Sections(q.secs), q.at \in 1 .. Len(q.secs), NEW sec, NEW key
    PROVE  /\ HasValue(sec, key) =>
                Edits(q, Entry(sec, key), KeyRead(q.secs[q.at], EntryLine(sec, key)))
           /\ ~HasValue(sec, key) => Edits(q, Entry(sec, key), q.secs[q.at])
  <1>1. CASE ~HasValue(sec, key)
    <2>1. Entry(sec, key) = << >>
      BY <1>1 DEF Entry
    <2> QED
      BY <1>1, <2>1, EditsNothing
  <1>2. CASE HasValue(sec, key)
    <2> DEFINE l   == EntryLine(sec, key)
               new == ReadLine(q, l)
    <2>1. Entry(sec, key) = << l >>
      BY <1>2 DEF Entry, EntryLine
    <2>2. l.kind = "key" /\ l.by = "program"
      BY DEF EntryLine, Line
    <2>3. q.at # 0 /\ q.at \in 0 .. Len(q.secs)
      BY DEF Sections
    <2> HIDE DEF l
    <2>4. Changes(q, l)
      BY <2>2, <2>3 DEF Changes
    <2>5. /\ Sections(new.secs) /\ Len(new.secs) = Len(q.secs)
          /\ new.at = q.at /\ new.name = q.name
          /\ new.secs[q.at] = KeyRead(q.secs[q.at], l)
          /\ \A i \in 1 .. Len(q.secs) : i # q.at => new.secs[i] = q.secs[i]
      BY <2>3, <2>4, ChangesRead
    <2>6. Fits(q, l)
      BY <2>2, <2>3 DEF Fits
    <2>7. After(q, << l >>) = new /\ TidyFrom(q, << l >>)
      BY <2>6, AfterSmall, TidyFromSmall
    <2> HIDE DEF new
    <2>8. Edits(q, << l >>, KeyRead(q.secs[q.at], l))
      BY Zenon, <2>5, <2>7 DEF Edits
    <2> QED
      BY <1>2, <2>1, <2>8 DEF l
  <1> QED
    BY <1>1, <1>2

\* A section as far as it was read again: the id and whether it is the
\* program's, and of the managed keys those that are done.
Partly(sec, id, auto, done) ==
    FullSection(sec.name, id,
                IF "mac" \in done THEN sec.mac ELSE NoMac,
                IF "creds" \in done THEN sec.creds ELSE NoCreds,
                IF "name" \in done /\ sec.renamed THEN sec.shown ELSE sec.name,
                IF "name" \in done THEN sec.renamed ELSE FALSE,
                auto)

\* A section that has the types of struct Section.
Typed(sec) == sec.renamed \in BOOLEAN /\ sec.auto \in BOOLEAN

\* What a save writes of a section, read back key by key.
LEMMA EntryLineIs ==
    ASSUME NEW sec
    PROVE  /\ \A key : EntryLine(sec, key).key = key
           /\ EntryLine(sec, "id").val = sec.id
           /\ EntryLine(sec, "mac").val = sec.mac
           /\ EntryLine(sec, "creds").val = sec.creds
           /\ EntryLine(sec, "name").val = sec.shown
  BY DEF EntryLine, Line, ValueOf

LEMMA PartlyRead ==
    ASSUME NEW sec, Typed(sec), NEW id, NEW auto, NEW done,
           NEW part, part = Partly(sec, id, auto, done)
    PROVE  /\ KeyRead(part, EntryLine(sec, "id")) = Partly(sec, sec.id, auto, done)
           /\ KeyRead(part, EntryLine(sec, "mac")) = Partly(sec, id, auto, done \cup {"mac"})
           /\ KeyRead(part, EntryLine(sec, "creds")) = Partly(sec, id, auto, done \cup {"creds"})
           /\ sec.renamed => KeyRead(part, EntryLine(sec, "name")) = Partly(sec, id, auto, done \cup {"name"})
           /\ sec.auto => KeyRead(part, EntryLine(sec, "auto")) = Partly(sec, id, sec.auto, done)
  <1> DEFINE mm == IF "mac" \in done THEN sec.mac ELSE NoMac
             cc == IF "creds" \in done THEN sec.creds ELSE NoCreds
             ss == IF "name" \in done /\ sec.renamed THEN sec.shown ELSE sec.name
             rr == IF "name" \in done THEN sec.renamed ELSE FALSE
  <1>0. part = FullSection(sec.name, id, mm, cc, ss, rr, auto)
    BY DEF Partly
  <1> HIDE DEF mm, cc, ss, rr
  <1>6. /\ part.name = sec.name /\ part.id = id /\ part.mac = mm /\ part.creds = cc
        /\ part.shown = ss /\ part.renamed = rr /\ part.auto = auto
    BY <1>0, ShapedFields
  <1>1. KeyRead(part, EntryLine(sec, "id")) = Partly(sec, sec.id, auto, done)
    <2> DEFINE l == EntryLine(sec, "id")
    <2>1. l.key = "id" /\ l.val = sec.id
      BY EntryLineIs
    <2> HIDE DEF l
    <2>2. KeyRead(part, l) = FullSection(sec.name, sec.id, mm, cc, ss, rr, auto)
      BY Zenon, <1>6, <2>1 DEF KeyRead
    <2>3. Partly(sec, sec.id, auto, done) = FullSection(sec.name, sec.id, mm, cc, ss, rr, auto)
      BY DEF Partly, mm, cc, ss, rr
    <2> QED
      BY <2>2, <2>3 DEF l
  <1>2. KeyRead(part, EntryLine(sec, "mac")) = Partly(sec, id, auto, done \cup {"mac"})
    <2> DEFINE l == EntryLine(sec, "mac")
    <2>1. l.key = "mac" /\ l.val = sec.mac
      BY EntryLineIs
    <2> HIDE DEF l
    <2>2. KeyRead(part, l) = FullSection(sec.name, id, sec.mac, cc, ss, rr, auto)
      BY Zenon, <1>6, <2>1 DEF KeyRead
    <2>3. Partly(sec, id, auto, done \cup {"mac"}) = FullSection(sec.name, id, sec.mac, cc, ss, rr, auto)
      BY DEF Partly, mm, cc, ss, rr
    <2> QED
      BY <2>2, <2>3 DEF l
  <1>3. KeyRead(part, EntryLine(sec, "creds")) = Partly(sec, id, auto, done \cup {"creds"})
    <2> DEFINE l == EntryLine(sec, "creds")
    <2>1. l.key = "creds" /\ l.val = sec.creds
      BY EntryLineIs
    <2> HIDE DEF l
    <2>2. KeyRead(part, l) = FullSection(sec.name, id, mm, sec.creds, ss, rr, auto)
      BY Zenon, <1>6, <2>1 DEF KeyRead
    <2>3. Partly(sec, id, auto, done \cup {"creds"}) = FullSection(sec.name, id, mm, sec.creds, ss, rr, auto)
      BY DEF Partly, mm, cc, ss, rr
    <2> QED
      BY <2>2, <2>3 DEF l
  <1>4. ASSUME sec.renamed PROVE KeyRead(part, EntryLine(sec, "name")) = Partly(sec, id, auto, done \cup {"name"})
    <2> DEFINE l == EntryLine(sec, "name")
    <2>1. l.key = "name" /\ l.val = sec.shown
      BY EntryLineIs
    <2> HIDE DEF l
    <2>2. KeyRead(part, l) = FullSection(sec.name, id, mm, cc, sec.shown, TRUE, auto)
      BY Zenon, <1>6, <2>1 DEF KeyRead
    <2>3. sec.renamed = TRUE
      BY <1>4 DEF Typed
    <2>4. Partly(sec, id, auto, done \cup {"name"}) = FullSection(sec.name, id, mm, cc, sec.shown, TRUE, auto)
      BY <2>3 DEF Partly, mm, cc, ss, rr
    <2> QED
      BY <2>2, <2>4 DEF l
  <1>5. ASSUME sec.auto PROVE KeyRead(part, EntryLine(sec, "auto")) = Partly(sec, id, sec.auto, done)
    <2> DEFINE l == EntryLine(sec, "auto")
    <2>1. l.key = "auto"
      BY EntryLineIs
    <2> HIDE DEF l
    <2>2. KeyRead(part, l) = FullSection(sec.name, id, mm, cc, ss, rr, TRUE)
      BY Zenon, <1>6, <2>1 DEF KeyRead
    <2>3. sec.auto = TRUE
      BY <1>5 DEF Typed
    <2>4. Partly(sec, id, sec.auto, done) = FullSection(sec.name, id, mm, cc, ss, rr, TRUE)
      BY <2>3 DEF Partly, mm, cc, ss, rr
    <2> QED
      BY <2>2, <2>4 DEF l
  <1> QED
    BY <1>1, <1>2, <1>3, <1>4, <1>5

LEMMA PartlyUnread ==
    ASSUME NEW sec, Typed(sec), NEW id, NEW auto, NEW done,
           NEW part, part = Partly(sec, id, auto, done)
    PROVE  /\ ~HasValue(sec, "id") /\ id = "" => part = Partly(sec, sec.id, auto, done)
           /\ ~HasValue(sec, "mac") => part = Partly(sec, id, auto, done \cup {"mac"})
           /\ ~HasValue(sec, "creds") => part = Partly(sec, id, auto, done \cup {"creds"})
           /\ ~HasValue(sec, "name") => part = Partly(sec, id, auto, done \cup {"name"})
           /\ ~HasValue(sec, "auto") /\ auto = FALSE => part = Partly(sec, id, sec.auto, done)
  <1>1. ASSUME ~HasValue(sec, "id"), id = ""
        PROVE  part = Partly(sec, sec.id, auto, done)
    BY <1>1 DEF HasValue
  <1>2. ASSUME ~HasValue(sec, "mac")
        PROVE  part = Partly(sec, id, auto, done \cup {"mac"})
    BY <1>2 DEF HasValue, Partly
  <1>3. ASSUME ~HasValue(sec, "creds")
        PROVE  part = Partly(sec, id, auto, done \cup {"creds"})
    BY <1>3 DEF HasValue, Partly
  <1>4. ASSUME ~HasValue(sec, "name")
        PROVE  part = Partly(sec, id, auto, done \cup {"name"})
    BY <1>4 DEF HasValue, Partly, Typed
  <1>5. ASSUME ~HasValue(sec, "auto"), auto = FALSE
        PROVE  part = Partly(sec, id, sec.auto, done)
    BY <1>5 DEF HasValue, Typed
  <1> QED
    BY <1>1, <1>2, <1>3, <1>4, <1>5

\* parse() is in a section that is so far `part`.
In(q, part) == Sections(q.secs) /\ q.at \in 1 .. Len(q.secs) /\ q.secs[q.at] = part

LEMMA EditsIn ==
    ASSUME NEW q, NEW s, NEW a, NEW b, In(q, a), Edits(q, s, b)
    PROVE  In(After(q, s), b)
  <1> DEFINE new == After(q, s)
  <1>1. /\ Sections(new.secs) /\ Len(new.secs) = Len(q.secs) /\ new.at = q.at
        /\ new.secs[q.at] = b
    BY Zenon DEF Edits
  <1>2. q.at \in 1 .. Len(q.secs)
    BY DEF In
  <1> HIDE DEF new
  <1>3. In(new, b)
    BY Zenon, <1>1, <1>2 DEF In
  <1> QED
    BY <1>3 DEF new

\* Two texts in a row, the second being read where the first leaves parse().
LEMMA EditsThen ==
    ASSUME NEW q, NEW s, Listed(s), NEW a, Edits(q, s, a), NEW part, In(q, part),
           NEW t, Listed(t), NEW b, \A x : In(x, a) => Edits(x, t, b)
    PROVE  Edits(q, s \o t, b)
  BY EditsIn, EditsTwo

\* The keys of a section, one by one.
LEMMA EntryPartly ==
    ASSUME NEW sec, Typed(sec), NEW id, NEW auto, NEW done, NEW q,
           In(q, Partly(sec, id, auto, done))
    PROVE  /\ id = "" => Edits(q, Entry(sec, "id"), Partly(sec, sec.id, auto, done))
           /\ Edits(q, Entry(sec, "mac"), Partly(sec, id, auto, done \cup {"mac"}))
           /\ Edits(q, Entry(sec, "creds"), Partly(sec, id, auto, done \cup {"creds"}))
           /\ Edits(q, Entry(sec, "name"), Partly(sec, id, auto, done \cup {"name"}))
           /\ auto = FALSE => Edits(q, Entry(sec, "auto"), Partly(sec, id, sec.auto, done))
  <1> DEFINE part == Partly(sec, id, auto, done)
  <1>0. part = Partly(sec, id, auto, done) /\ In(q, part)
    OBVIOUS
  <1> HIDE DEF part
  <1>1. \A key : /\ HasValue(sec, key) => Edits(q, Entry(sec, key), KeyRead(part, EntryLine(sec, key)))
                 /\ ~HasValue(sec, key) => Edits(q, Entry(sec, key), part)
    BY <1>0, EntryEdits DEF In
  <1>2. (HasValue(sec, "name") <=> sec.renamed) /\ (HasValue(sec, "auto") <=> sec.auto)
    BY DEF HasValue
  <1>3. /\ KeyRead(part, EntryLine(sec, "id")) = Partly(sec, sec.id, auto, done)
        /\ KeyRead(part, EntryLine(sec, "mac")) = Partly(sec, id, auto, done \cup {"mac"})
        /\ KeyRead(part, EntryLine(sec, "creds")) = Partly(sec, id, auto, done \cup {"creds"})
        /\ sec.renamed => KeyRead(part, EntryLine(sec, "name")) = Partly(sec, id, auto, done \cup {"name"})
        /\ sec.auto => KeyRead(part, EntryLine(sec, "auto")) = Partly(sec, id, sec.auto, done)
    BY <1>0, PartlyRead
  <1>4. /\ ~HasValue(sec, "id") /\ id = "" => part = Partly(sec, sec.id, auto, done)
        /\ ~HasValue(sec, "mac") => part = Partly(sec, id, auto, done \cup {"mac"})
        /\ ~HasValue(sec, "creds") => part = Partly(sec, id, auto, done \cup {"creds"})
        /\ ~HasValue(sec, "name") => part = Partly(sec, id, auto, done \cup {"name"})
        /\ ~HasValue(sec, "auto") /\ auto = FALSE => part = Partly(sec, id, sec.auto, done)
    BY <1>0, PartlyUnread
  <1>5. id = "" => Edits(q, Entry(sec, "id"), Partly(sec, sec.id, auto, done))
    BY Zenon, <1>1, <1>3, <1>4
  <1>6. Edits(q, Entry(sec, "mac"), Partly(sec, id, auto, done \cup {"mac"}))
    BY Zenon, <1>1, <1>3, <1>4
  <1>7. Edits(q, Entry(sec, "creds"), Partly(sec, id, auto, done \cup {"creds"}))
    BY Zenon, <1>1, <1>3, <1>4
  <1>8. Edits(q, Entry(sec, "name"), Partly(sec, id, auto, done \cup {"name"}))
    BY Zenon, <1>1, <1>2, <1>3, <1>4
  <1>9. auto = FALSE => Edits(q, Entry(sec, "auto"), Partly(sec, id, sec.auto, done))
    BY Zenon, <1>1, <1>2, <1>3, <1>4
  <1> QED
    BY Zenon, <1>5, <1>6, <1>7, <1>8, <1>9

\* What follows a header is what the section has no line for.
Absent(lns, sec, key) == IF HasLine(lns, key, sec.name) THEN << >> ELSE Entry(sec, key)
Given(lns, sec, key) == IF HasLine(lns, key, sec.name) THEN {} ELSE {key}

LEMMA AbsentPartly ==
    ASSUME NEW sec, Typed(sec), NEW id, NEW auto, NEW done, NEW q,
           In(q, Partly(sec, id, auto, done)), NEW lns, NEW key, key \in Managed
    PROVE  Edits(q, Absent(lns, sec, key), Partly(sec, id, auto, done \cup Given(lns, sec, key)))
  <1> DEFINE part == Partly(sec, id, auto, done)
  <1>1. CASE HasLine(lns, key, sec.name)
    <2>1. Absent(lns, sec, key) = << >> /\ done \cup Given(lns, sec, key) = done
      BY <1>1 DEF Absent, Given
    <2>2. Edits(q, << >>, part)
      BY EditsNothing DEF In
    <2> QED
      BY <2>1, <2>2
  <1>2. CASE ~HasLine(lns, key, sec.name)
    <2>1. Absent(lns, sec, key) = Entry(sec, key) /\ Given(lns, sec, key) = {key}
      BY <1>2 DEF Absent, Given
    <2>2. key = "mac" \/ key = "creds" \/ key = "name"
      BY DEF Managed
    <2>3. Edits(q, Entry(sec, key), Partly(sec, id, auto, done \cup {key}))
      BY <2>2, EntryPartly
    <2> QED
      BY <2>1, <2>3
  <1> QED
    BY <1>1, <1>2

\* The managed keys a section has no line for.
Unlined(lns, name) == { key \in Managed : ~HasLine(lns, key, name) }

LEMMA LackingPartly ==
    ASSUME NEW sec, Typed(sec), NEW id, NEW auto, NEW q, In(q, Partly(sec, id, auto, {})),
           NEW lns, sec.auto => HasLine(lns, "auto", sec.name)
    PROVE  Edits(q, Lacking(lns, sec),
                 Partly(sec, id, auto, Unlined(lns, sec.name)))
  <1> DEFINE A(key) == Absent(lns, sec, key)
             G(key) == Given(lns, sec, key)
             G2     == ({} \cup G("mac")) \cup G("creds")
             G3     == G2 \cup G("name")
  <1>1. A("auto") = << >>
    BY DEF Absent, Entry, HasValue
  <1>2. \A key : Listed(A(key))
    BY EntryIsOwn, ListedSmall DEF OwnKeys, Own, Absent
  <1>3. Lacking(lns, sec) = ((A("mac") \o A("creds")) \o A("name")) \o A("auto")
    BY DEF Lacking, Absent
  <1>4. "mac" \in Managed /\ "creds" \in Managed /\ "name" \in Managed
    BY DEF Managed
  <1>5. Edits(q, A("mac"), Partly(sec, id, auto, {} \cup G("mac")))
    BY <1>4, AbsentPartly
  <1>6. \A x : In(x, Partly(sec, id, auto, {} \cup G("mac")))
                  => Edits(x, A("creds"), Partly(sec, id, auto, G2))
    BY <1>4, AbsentPartly
  <1>7. \A x : In(x, Partly(sec, id, auto, G2)) => Edits(x, A("name"), Partly(sec, id, auto, G3))
    BY <1>4, AbsentPartly
  <1>8. G3 = Unlined(lns, sec.name)
    BY DEF Given, Managed, Unlined
  <1> HIDE DEF A, G, G2, G3
  <1>9. Edits(q, A("mac") \o A("creds"), Partly(sec, id, auto, G2))
    BY <1>2, <1>5, <1>6, EditsThen
  <1>10. Listed(A("mac") \o A("creds")) /\ Listed((A("mac") \o A("creds")) \o A("name"))
    BY <1>2, ListedConcat
  <1>11. Edits(q, (A("mac") \o A("creds")) \o A("name"), Partly(sec, id, auto, G3))
    BY <1>2, <1>7, <1>9, <1>10, EditsThen
  <1>12. Lacking(lns, sec) = (A("mac") \o A("creds")) \o A("name")
    BY <1>1, <1>3, <1>10, ListedEmptyConcat
  <1> QED
    BY <1>8, <1>11, <1>12

\* A section as a start finds it once all of it was read.
LEMMA PartlyWhole ==
    ASSUME NEW sec, Shaped(sec), Typed(sec), NEW done, Managed \subseteq done
    PROVE  Partly(sec, sec.id, sec.auto, done) = OnFile(sec)
  <1>1. "mac" \in done /\ "creds" \in done /\ "name" \in done
    BY DEF Managed
  <1>2. sec = FullSection(sec.name, sec.id, sec.mac, sec.creds, sec.shown, sec.renamed, sec.auto)
    BY ShapedIs
  <1>3. CASE sec.renamed
    BY <1>1, <1>2, <1>3 DEF Partly, OnFile
  <1>4. CASE ~sec.renamed
    <2>1. Partly(sec, sec.id, sec.auto, done) =
             FullSection(sec.name, sec.id, sec.mac, sec.creds, sec.name, sec.renamed, sec.auto)
      BY <1>1, <1>4 DEF Partly
    <2>2. OnFile(sec) = [sec EXCEPT !.shown = sec.name]
      BY <1>4 DEF OnFile
    <2> QED
      BY <1>2, <2>1, <2>2 DEF FullSection
  <1> QED
    BY <1>3, <1>4

\* A section that a save adds at the end.
NewKeys(sec) == Entry(sec, "id") \o Entry(sec, "mac") \o Entry(sec, "creds")
                    \o Entry(sec, "name") \o Entry(sec, "auto")

LEMMA NewSectionPartly ==
    ASSUME NEW sec
    PROVE  NewSection(sec.name, FALSE) = Partly(sec, "", FALSE, {})
  BY DEF NewSection, Partly, FullSection

LEMMA NewKeysRead ==
    ASSUME NEW sec, Shaped(sec), Typed(sec), NEW q, In(q, NewSection(sec.name, FALSE))
    PROVE  Edits(q, NewKeys(sec), OnFile(sec))
  <1> DEFINE no == FALSE
             E(key) == Entry(sec, key)
             D1 == {} \cup {"mac"}
             D2 == D1 \cup {"creds"}
             D3 == D2 \cup {"name"}
  <1>1. In(q, Partly(sec, "", no, {}))
    BY NewSectionPartly
  <1>2. \A key : Listed(E(key))
    BY EntryIsOwn DEF OwnKeys, Own
  <1>3. NewKeys(sec) = (((E("id") \o E("mac")) \o E("creds")) \o E("name")) \o E("auto")
    BY DEF NewKeys
  <1>4. Edits(q, E("id"), Partly(sec, sec.id, no, {}))
    BY <1>1, EntryPartly
  <1>5. \A x : In(x, Partly(sec, sec.id, no, {})) => Edits(x, E("mac"), Partly(sec, sec.id, no, D1))
    BY EntryPartly
  <1>6. \A x : In(x, Partly(sec, sec.id, no, D1)) => Edits(x, E("creds"), Partly(sec, sec.id, no, D2))
    BY EntryPartly
  <1>7. \A x : In(x, Partly(sec, sec.id, no, D2)) => Edits(x, E("name"), Partly(sec, sec.id, no, D3))
    BY EntryPartly
  <1>8. \A x : In(x, Partly(sec, sec.id, no, D3)) => Edits(x, E("auto"), Partly(sec, sec.id, sec.auto, D3))
    BY EntryPartly
  <1>9. Partly(sec, sec.id, sec.auto, D3) = OnFile(sec)
    BY PartlyWhole DEF Managed
  <1> HIDE DEF no, E, D1, D2, D3
  <1>10. Listed(E("id") \o E("mac")) /\ Edits(q, E("id") \o E("mac"), Partly(sec, sec.id, no, D1))
    BY <1>1, <1>2, <1>4, <1>5, EditsThen, ListedConcat
  <1> DEFINE s2 == E("id") \o E("mac")
             s3 == s2 \o E("creds")
             s4 == s3 \o E("name")
  <1>11. Listed(s3) /\ Edits(q, s3, Partly(sec, sec.id, no, D2))
    BY <1>1, <1>2, <1>6, <1>10, EditsThen, ListedConcat
  <1>12. Listed(s4) /\ Edits(q, s4, Partly(sec, sec.id, no, D3))
    BY <1>1, <1>2, <1>7, <1>11, EditsThen, ListedConcat
  <1>13. Edits(q, s4 \o E("auto"), Partly(sec, sec.id, sec.auto, D3))
    BY <1>1, <1>2, <1>8, <1>12, EditsThen
  <1> QED
    BY <1>3, <1>9, <1>13

-----------------------------------------------------------------------------
(* The image of a save, read line by line along the file it is made of.     *)

\* A line of a key that was read in a section of that name.
KeyLine(t, m, key, name) ==
    t[m].kind = "key" /\ t[m].key = key /\ Reading(Begin, t)[m].name = name

\* The managed keys of a section whose line the first n lines have, those
\* without a line among them.
Done(t, n, name) ==
    { key \in Managed : HasLine(LinesOf(t), key, name) => \E m \in 1 .. n : KeyLine(t, m, key, name) }

LEMMA HasLineIs ==
    ASSUME NEW t, Listed(t), NEW key, NEW name
    PROVE  HasLine(LinesOf(t), key, name) <=> \E m \in 1 .. Len(t) : KeyLine(t, m, key, name)
  <1>1. /\ DOMAIN LinesOf(t) = 1 .. Len(t)
        /\ \A i \in 1 .. Len(t) : LinesOf(t)[i] = NotedLine(t, i)
    BY LinesRead, ListedFunction
  <1>2. \A i \in 1 .. Len(t) : /\ NotedLine(t, i).raw = t[i]
                               /\ t[i].kind = "key" => NotedLine(t, i).section = Reading(Begin, t)[i].name
    BY DEF NotedLine
  <1> DEFINE lns == LinesOf(t)
  <1> HIDE DEF lns
  <1>3. HasLine(lns, key, name) <=>
          \E i \in DOMAIN lns : /\ lns[i].raw.kind = "key" /\ lns[i].raw.key = key
                                /\ lns[i].section = name
    BY DEF HasLine
  <1>4. (\E i \in DOMAIN lns : /\ lns[i].raw.kind = "key" /\ lns[i].raw.key = key
                               /\ lns[i].section = name)
          <=> \E m \in 1 .. Len(t) : KeyLine(t, m, key, name)
    BY <1>1, <1>2 DEF KeyLine, lns
  <1> QED
    BY <1>3, <1>4 DEF lns

LEMMA DoneStep ==
    ASSUME NEW t, Listed(t), NEW n \in Nat, n + 1 \in 1 .. Len(t), NEW name
    PROVE  /\ ~ (t[n + 1].kind = "key" /\ t[n + 1].key \in Managed /\ Reading(Begin, t)[n + 1].name = name)
                => Done(t, n + 1, name) = Done(t, n, name)
           /\ t[n + 1].kind = "key" /\ t[n + 1].key \in Managed /\ Reading(Begin, t)[n + 1].name = name
                => Done(t, n + 1, name) = Done(t, n, name) \cup {t[n + 1].key}
  <1>1. /\ \A m \in 1 .. n : m \in 1 .. n + 1
        /\ \A m \in 1 .. n + 1 : m \in 1 .. n \/ m = n + 1
        /\ n + 1 \in 1 .. n + 1
    OBVIOUS
  <1> DEFINE H(key) == HasLine(LinesOf(t), key, name)
  <1>2. \A k : Done(t, k, name) = { key \in Managed : H(key) => \E m \in 1 .. k : KeyLine(t, m, key, name) }
    BY DEF Done
  <1> HIDE DEF H
  <1>3. \A key : (\E m \in 1 .. n + 1 : KeyLine(t, m, key, name)) <=>
                   (\E m \in 1 .. n : KeyLine(t, m, key, name)) \/ KeyLine(t, n + 1, key, name)
    BY <1>1
  <1>4. CASE ~ (t[n + 1].kind = "key" /\ t[n + 1].key \in Managed /\ Reading(Begin, t)[n + 1].name = name)
    <2>1. \A key \in Managed : ~ KeyLine(t, n + 1, key, name)
      BY <1>4 DEF KeyLine
    <2> QED
      BY <1>2, <1>3, <1>4, <2>1
  <1>5. CASE t[n + 1].kind = "key" /\ t[n + 1].key \in Managed /\ Reading(Begin, t)[n + 1].name = name
    <2>1. \A key : KeyLine(t, n + 1, key, name) <=> key = t[n + 1].key
      BY <1>5 DEF KeyLine
    <2> QED
      BY <1>2, <1>3, <1>5, <2>1
  <1> QED
    BY <1>4, <1>5

LEMMA DoneEnds ==
    ASSUME NEW t, Listed(t), NEW name
    PROVE  /\ Done(t, Len(t), name) = Managed
           /\ \A n \in 0 .. Len(t) :
                (\A m \in 1 .. n : t[m].kind = "key" => Reading(Begin, t)[m].name # name)
                    => Done(t, n, name) = Unlined(LinesOf(t), name)
  <1>1. \A key : HasLine(LinesOf(t), key, name) <=> \E m \in 1 .. Len(t) : KeyLine(t, m, key, name)
    BY HasLineIs
  <1>2. Done(t, Len(t), name) = Managed
    BY <1>1 DEF Done
  <1>3. ASSUME NEW n \in 0 .. Len(t), \A m \in 1 .. n : t[m].kind = "key" => Reading(Begin, t)[m].name # name
        PROVE  Done(t, n, name) = Unlined(LinesOf(t), name)
    <2>1. \A key : ~ \E m \in 1 .. n : KeyLine(t, m, key, name)
      BY <1>3 DEF KeyLine
    <2> QED
      BY <2>1 DEF Done, Unlined
  <1> QED
    BY <1>2, <1>3

\* sectionByName() among well-formed sections.
LEMMA ByNameIs ==
    ASSUME NEW secs, Sections(secs), WellFormed(secs), NEW name
    PROVE  /\ \A i \in 1 .. Len(secs) : secs[i].name = name => sectionByName(secs, name) = i
           /\ (\A i \in 1 .. Len(secs) : secs[i].name # name) => sectionByName(secs, name) = 0
           /\ name \in Unnamed => sectionByName(secs, name) = 0
  <1> DEFINE P == { i \in DOMAIN secs : secs[i].name = name }
  <1>1. Len(secs) \in Nat /\ DOMAIN secs = 1 .. Len(secs)
    BY DEF Sections
  <1>2. P \subseteq 1 .. Len(secs) /\ sectionByName(secs, name) = FirstOf(P)
    BY <1>1 DEF sectionByName
  <1>3. \A i \in 1 .. Len(secs) : secs[i].name \notin Unnamed
    BY DEF WellFormed
  <1>4. \A i, j \in 1 .. Len(secs) : i # j => secs[i].name # secs[j].name
    BY DEF WellFormed
  <1>5. ASSUME NEW i \in 1 .. Len(secs), secs[i].name = name PROVE sectionByName(secs, name) = i
    <2>1. P = {i}
      BY <1>1, <1>4, <1>5
    <2>2. FirstOf({i}) = i
      <3>1. {i} \subseteq Nat /\ {i} # {}
        BY <1>1
      <3>2. Min({i}) \in {i}
        BY <3>1, MinIsLeast
      <3> QED
        BY <3>1, <3>2 DEF FirstOf
    <2> QED
      BY <1>2, <2>1, <2>2
  <1>6. ASSUME \A i \in 1 .. Len(secs) : secs[i].name # name PROVE sectionByName(secs, name) = 0
    <2>1. P = {}
      BY <1>1, <1>6
    <2> QED
      BY <1>2, <2>1 DEF FirstOf
  <1> QED
    BY <1>3, <1>5, <1>6

\* parse() in the image (q), where it was in the file (r) after n lines: it
\* has the same sections, with what secs gives them for the lines so far.
Mirrors(q, r, t, n, secs) ==
    /\ Sections(q.secs) /\ Len(q.secs) = Len(r.secs)
    /\ q.at = r.at /\ q.name = r.name
    /\ \A i \in 1 .. Len(r.secs) :
         q.secs[i] = Partly(secs[i], r.secs[i].id, r.secs[i].auto, Done(t, n, secs[i].name))

LEMMA PartlyNames ==
    ASSUME NEW sec, NEW id, NEW auto, NEW done, NEW part, part = Partly(sec, id, auto, done)
    PROVE  part.name = sec.name /\ part.id = id /\ part.auto = auto
  BY DEF Partly, FullSection

LEMMA MirrorsFind ==
    ASSUME NEW q, NEW r, NEW t, NEW n, NEW secs, Mirrors(q, r, t, n, secs),
           Sections(r.secs), NamesGrow(r.secs, secs)
    PROVE  \A key : findSection(q.secs, key) = findSection(r.secs, key)
  <1>1. \A i \in 1 .. Len(r.secs) : /\ q.secs[i].name = secs[i].name /\ q.secs[i].id = r.secs[i].id
                                    /\ secs[i].name = r.secs[i].name
    BY PartlyNames DEF Mirrors, NamesGrow
  <1>2. SameNames(r.secs, q.secs)
    BY <1>1 DEF SameNames, Mirrors
  <1> QED
    BY <1>2, SameNamesFind DEF Mirrors

LEMMA FitsSame ==
    ASSUME NEW r, NEW l, Fits(r, l), NEW q, q.at = r.at, q.name = r.name,
           \A key : findSection(q.secs, key) = findSection(r.secs, key)
    PROVE  Fits(q, l)
  BY DEF Fits

\* A key that a save does not look for, in a section that was read again.
LEMMA KeyReadPartly ==
    ASSUME NEW sec, NEW old, NEW done, NEW l, l.key \notin Managed,
           NEW part, part = Partly(sec, old.id, old.auto, done)
    PROVE  KeyRead(part, l) = Partly(sec, KeyRead(old, l).id, KeyRead(old, l).auto, done)
  <1> DEFINE new == KeyRead(old, l)
             mm == IF "mac" \in done THEN sec.mac ELSE NoMac
             cc == IF "creds" \in done THEN sec.creds ELSE NoCreds
             ss == IF "name" \in done /\ sec.renamed THEN sec.shown ELSE sec.name
             rr == IF "name" \in done THEN sec.renamed ELSE FALSE
             ii == IF l.key = "id" THEN l.val ELSE old.id
             aa == IF l.key = "auto" THEN TRUE ELSE old.auto
  <1>1. part = FullSection(sec.name, old.id, mm, cc, ss, rr, old.auto)
    BY DEF Partly
  <1>2. Partly(sec, ii, aa, done) = FullSection(sec.name, ii, mm, cc, ss, rr, aa)
    BY DEF Partly
  <1>3. l.key # "mac" /\ l.key # "creds" /\ l.key # "name"
    BY DEF Managed
  <1>4. new.id = ii /\ new.auto = aa
    <2>1. new.id = ii
      BY DEF KeyRead, FullSection
    <2>2. new.auto = aa
      BY DEF KeyRead, FullSection
    <2> QED
      BY <2>1, <2>2
  <1> HIDE DEF mm, cc, ss, rr
  <1>5. /\ part.name = sec.name /\ part.id = old.id /\ part.mac = mm /\ part.creds = cc
        /\ part.shown = ss /\ part.renamed = rr /\ part.auto = old.auto
    BY <1>1, ShapedFields
  <1>6. KeyRead(part, l) = FullSection(sec.name, ii, mm, cc, ss, rr, aa)
    BY Zenon, <1>3, <1>5 DEF KeyRead
  <1> HIDE DEF ii, aa, new
  <1> QED
    BY <1>2, <1>4, <1>6 DEF new

\* A line adds nothing to what is done of the sections, or of the others.
DoneBefore(t, n, n2, r, secs) ==
    \A i \in 1 .. Len(r.secs) : Done(t, n2, secs[i].name) = Done(t, n, secs[i].name)
DoneElsewhere(t, n, n2, r, secs) ==
    \A i \in 1 .. Len(r.secs) : i # r.at => Done(t, n2, secs[i].name) = Done(t, n, secs[i].name)

\* A header with its section: the header is copied, and what has no line
\* follows it.
LEMMA MirrorsOpens ==
    ASSUME NEW t, NEW n, NEW n2, NEW r, Sections(r.secs), NEW l, Opens(l), Fits(r, l),
           NEW secs, NamesGrow(r.secs, secs), NEW q, Mirrors(q, r, t, n, secs),
           NEW sec, sec = secs[Len(r.secs) + 1], sec.name = l.val, Typed(sec),
           NEW lns, sec.auto => HasLine(lns, "auto", sec.name),
           DoneBefore(t, n, n2, r, secs),
           Done(t, n2, sec.name) = Unlined(lns, sec.name),
           NEW piece, piece = << l >> \o Lacking(lns, sec)
    PROVE  TidyFrom(q, piece) /\ Mirrors(After(q, piece), ReadLine(r, l), t, n2, secs)
  <1> DEFINE k    == Len(r.secs) + 1
             new  == ReadLine(r, l)
             q1   == ReadLine(q, l)
             rest == Lacking(lns, sec)
             q2   == After(q1, rest)
             no   == FALSE
             done == Done(t, n2, sec.name)
  <1>1. \A key : findSection(q.secs, key) = findSection(r.secs, key)
    BY MirrorsFind
  <1>2. /\ Sections(q.secs) /\ Len(q.secs) = Len(r.secs) /\ q.at = r.at /\ q.name = r.name
        /\ \A i \in 1 .. Len(r.secs) :
             q.secs[i] = Partly(secs[i], r.secs[i].id, r.secs[i].auto, Done(t, n, secs[i].name))
        /\ Len(r.secs) \in Nat
    BY DEF Mirrors, Sections
  <1>3. findSection(r.secs, l.val) = 0 /\ findSection(q.secs, l.val) = 0
    BY <1>1 DEF Opens, Fits
  <1>4. /\ Sections(new.secs) /\ Len(new.secs) = k /\ new.at = k /\ new.name = l.val
        /\ new.secs[k] = NewSection(l.val, no)
        /\ \A i \in 1 .. Len(r.secs) : new.secs[i] = r.secs[i]
    BY <1>3, OpensRead
  <1>5. /\ Sections(q1.secs) /\ Len(q1.secs) = k /\ q1.at = k /\ q1.name = l.val
        /\ q1.secs[k] = NewSection(l.val, no)
        /\ \A i \in 1 .. Len(r.secs) : q1.secs[i] = q.secs[i]
    <2>1. /\ Sections(q1.secs)
          /\ Len(q1.secs) = Len(q.secs) + 1
          /\ q1.at = Len(q.secs) + 1
          /\ q1.secs[Len(q.secs) + 1] = NewSection(l.val, no)
          /\ \A i \in 1 .. Len(q.secs) : q1.secs[i] = q.secs[i]
          /\ q1.name = l.val
      BY <1>2, <1>3, OpensRead
    <2> HIDE DEF q1
    <2> QED
      BY <1>2, <2>1
  <1>6. Fits(q, l)
    BY <1>1, <1>2, FitsSame
  <1>7. After(q, << l >>) = q1 /\ TidyFrom(q, << l >>)
    BY <1>6, AfterSmall, TidyFromSmall
  <1>8. NewSection(l.val, no) = Partly(sec, "", no, {})
    BY NewSectionPartly
  <1>9. new.secs[k].id = "" /\ new.secs[k].auto = no
    <2> DEFINE s == NewSection(l.val, no)
    <2>1. s.id = "" /\ s.auto = no
      BY DEF NewSection
    <2> HIDE DEF s, k, new
    <2> QED
      BY Zenon, <1>4, <2>1 DEF s
  <1>10. Listed(<< l >>) /\ Listed(rest)
    BY LackingIsOwn, ListedSmall DEF OwnKeys, Own
  <1> HIDE DEF k, new, q1, rest, no, done
  <1>11. In(q1, Partly(sec, "", no, {}))
    <2>1. q1.at \in 1 .. Len(q1.secs)
      BY <1>2, <1>5 DEF k
    <2> QED
      BY <1>5, <1>8, <2>1 DEF In
  <1>12. Edits(q1, rest, Partly(sec, "", no, done))
    BY <1>11, LackingPartly DEF rest, done
  <1>13. After(q, piece) = q2 /\ TidyFrom(q, piece)
    <2>1. TidyFrom(After(q, << l >>), rest)
      BY <1>7, <1>12 DEF Edits
    <2>2. TidyFrom(q, << l >> \o rest)
      BY <1>7, <1>10, <2>1, TidyFromTwo
    <2>3. After(q, << l >> \o rest) = After(After(q, << l >>), rest)
      BY <1>10, AfterTwo
    <2> QED
      BY <1>7, <2>2, <2>3 DEF rest
  <1>14. /\ Sections(q2.secs) /\ Len(q2.secs) = Len(q1.secs)
         /\ q2.at = q1.at /\ q2.name = q1.name
         /\ \A i \in 1 .. Len(q1.secs) : i # q1.at => q2.secs[i] = q1.secs[i]
         /\ q2.secs[q1.at] = Partly(sec, "", no, done)
    BY Zenon, <1>12 DEF Edits
  <1> HIDE DEF q2
  <1>15. ASSUME NEW i \in 1 .. k
         PROVE  q2.secs[i] = Partly(secs[i], new.secs[i].id, new.secs[i].auto, Done(t, n2, secs[i].name))
    <2>1. CASE i = k
      BY Zenon, <1>5, <1>9, <1>14, <2>1 DEF k, done
    <2>2. CASE i # k
      <3>1. i \in 1 .. Len(r.secs)
        BY <1>2, <2>2 DEF k
      <3>2. q2.secs[i] = q1.secs[i] /\ q1.secs[i] = q.secs[i] /\ new.secs[i] = r.secs[i]
        BY <1>4, <1>5, <1>14, <2>2, <3>1
      <3>3. q.secs[i] = Partly(secs[i], r.secs[i].id, r.secs[i].auto, Done(t, n, secs[i].name))
        BY <1>2, <3>1
      <3>4. Done(t, n2, secs[i].name) = Done(t, n, secs[i].name)
        BY <3>1 DEF DoneBefore
      <3> QED
        BY Zenon, <3>2, <3>3, <3>4
    <2> QED
      BY <2>1, <2>2
  <1>16. Mirrors(q2, new, t, n2, secs)
    BY <1>4, <1>5, <1>14, <1>15 DEF Mirrors
  <1> QED
    BY <1>13, <1>16 DEF new

\* A managed key: its value or nothing takes its place.
LEMMA MirrorsManaged ==
    ASSUME NEW t, NEW n, NEW n2, NEW r, Sections(r.secs), r.at \in 0 .. Len(r.secs),
           NEW l, Changes(r, l), l.key \in Managed,
           NEW secs, NEW q, Mirrors(q, r, t, n, secs),
           NEW sec, sec = secs[r.at], Typed(sec),
           DoneElsewhere(t, n, n2, r, secs),
           Done(t, n2, sec.name) = Done(t, n, sec.name) \cup {l.key},
           NEW piece, piece = Entry(sec, l.key)
    PROVE  TidyFrom(q, piece) /\ Mirrors(After(q, piece), ReadLine(r, l), t, n2, secs)
  <1> DEFINE at   == r.at
             new  == ReadLine(r, l)
             q2   == After(q, piece)
             id   == r.secs[at].id
             auto == r.secs[at].auto
             done == Done(t, n2, sec.name)
  <1>1. /\ Sections(q.secs) /\ Len(q.secs) = Len(r.secs) /\ q.at = r.at /\ q.name = r.name
        /\ \A i \in 1 .. Len(r.secs) :
             q.secs[i] = Partly(secs[i], r.secs[i].id, r.secs[i].auto, Done(t, n, secs[i].name))
    BY DEF Mirrors
  <1>2. /\ at \in 1 .. Len(r.secs)
        /\ Sections(new.secs)
        /\ Len(new.secs) = Len(r.secs)
        /\ new.at = r.at /\ new.name = r.name
        /\ new.secs[at] = KeyRead(r.secs[at], l)
        /\ \A i \in 1 .. Len(r.secs) : i # at => new.secs[i] = r.secs[i]
    BY ChangesRead
  <1>3. l.key = "mac" \/ l.key = "creds" \/ l.key = "name"
    BY DEF Managed
  <1>4. new.secs[at].id = id /\ new.secs[at].auto = auto
    <2>1. l.key # "id" /\ l.key # "auto"
      BY <1>3
    <2>2. KeyRead(r.secs[at], l).id = id
      BY <2>1, KeyReadFields
    <2>3. KeyRead(r.secs[at], l).auto = auto
      BY Zenon, <2>1, KeyReadFields
    <2> HIDE DEF new
    <2> QED
      BY Zenon, <1>2, <2>2, <2>3
  <1>5. In(q, Partly(sec, id, auto, Done(t, n, sec.name)))
    <2>1. q.at \in 1 .. Len(q.secs)
      BY <1>1, <1>2
    <2>2. q.secs[q.at] = Partly(sec, id, auto, Done(t, n, sec.name))
      BY Zenon, <1>1, <1>2
    <2> QED
      BY <1>1, <2>1, <2>2 DEF In
  <1>6. Edits(q, piece, Partly(sec, id, auto, done))
    BY <1>3, <1>5, EntryPartly
  <1> HIDE DEF new, q2, id, auto, done
  <1>7. /\ TidyFrom(q, piece)
        /\ Sections(q2.secs) /\ Len(q2.secs) = Len(q.secs)
        /\ q2.at = q.at /\ q2.name = q.name
        /\ \A i \in 1 .. Len(q.secs) : i # q.at => q2.secs[i] = q.secs[i]
        /\ q2.secs[q.at] = Partly(sec, id, auto, done)
    BY Zenon, <1>6 DEF Edits, q2
  <1>8. ASSUME NEW i \in 1 .. Len(r.secs)
        PROVE  q2.secs[i] = Partly(secs[i], new.secs[i].id, new.secs[i].auto, Done(t, n2, secs[i].name))
    <2>1. CASE i = at
      BY Zenon, <1>1, <1>4, <1>7, <2>1 DEF done
    <2>2. CASE i # at
      <3>1. q2.secs[i] = q.secs[i] /\ new.secs[i] = r.secs[i]
        BY <1>1, <1>2, <1>7, <2>2
      <3>2. q.secs[i] = Partly(secs[i], r.secs[i].id, r.secs[i].auto, Done(t, n, secs[i].name))
        BY <1>1
      <3>3. Done(t, n2, secs[i].name) = Done(t, n, secs[i].name)
        BY <2>2 DEF DoneElsewhere
      <3> QED
        BY Zenon, <3>1, <3>2, <3>3
    <2> QED
      BY <2>1, <2>2
  <1>9. Mirrors(q2, new, t, n2, secs)
    BY <1>1, <1>2, <1>7, <1>8 DEF Mirrors
  <1> QED
    BY <1>7, <1>9 DEF new, q2

\* Another key of a section is copied.
LEMMA MirrorsKey ==
    ASSUME NEW t, NEW n, NEW n2, NEW r, Sections(r.secs), r.at \in 0 .. Len(r.secs),
           NEW l, Changes(r, l), l.key \notin Managed, Fits(r, l),
           NEW secs, NamesGrow(r.secs, secs), NEW q, Mirrors(q, r, t, n, secs),
           DoneBefore(t, n, n2, r, secs)
    PROVE  TidyFrom(q, << l >>) /\ Mirrors(After(q, << l >>), ReadLine(r, l), t, n2, secs)
  <1> DEFINE at   == r.at
             new  == ReadLine(r, l)
             q2   == ReadLine(q, l)
  <1>1. /\ Sections(q.secs) /\ Len(q.secs) = Len(r.secs) /\ q.at = r.at /\ q.name = r.name
        /\ \A i \in 1 .. Len(r.secs) :
             q.secs[i] = Partly(secs[i], r.secs[i].id, r.secs[i].auto, Done(t, n, secs[i].name))
    BY DEF Mirrors
  <1>2. /\ at \in 1 .. Len(r.secs)
        /\ Sections(new.secs)
        /\ Len(new.secs) = Len(r.secs)
        /\ new.at = r.at /\ new.name = r.name
        /\ new.secs[at] = KeyRead(r.secs[at], l)
        /\ \A i \in 1 .. Len(r.secs) : i # at => new.secs[i] = r.secs[i]
    BY ChangesRead
  <1>3. Fits(q, l)
    <2>1. \A key : findSection(q.secs, key) = findSection(r.secs, key)
      BY MirrorsFind
    <2> QED
      BY <1>1, <2>1, FitsSame
  <1>4. After(q, << l >>) = q2 /\ TidyFrom(q, << l >>)
    BY <1>3, AfterSmall, TidyFromSmall
  <1>5. Changes(q, l) /\ q.at \in 0 .. Len(q.secs)
    BY <1>1 DEF Changes
  <1>6. /\ Sections(q2.secs)
        /\ Len(q2.secs) = Len(q.secs)
        /\ q2.at = q.at /\ q2.name = q.name
        /\ q2.secs[q.at] = KeyRead(q.secs[q.at], l)
        /\ \A i \in 1 .. Len(q.secs) : i # q.at => q2.secs[i] = q.secs[i]
    BY <1>1, <1>5, ChangesRead
  <1> HIDE DEF new, q2
  <1>7. ASSUME NEW i \in 1 .. Len(r.secs)
        PROVE  q2.secs[i] = Partly(secs[i], new.secs[i].id, new.secs[i].auto, Done(t, n2, secs[i].name))
    <2>2. q.secs[i] = Partly(secs[i], r.secs[i].id, r.secs[i].auto, Done(t, n, secs[i].name))
      BY <1>1
    <2>3. Done(t, n2, secs[i].name) = Done(t, n, secs[i].name)
      BY DEF DoneBefore
    <2>4. CASE i = at
      <3>1. new.secs[i] = KeyRead(r.secs[i], l) /\ q2.secs[i] = KeyRead(q.secs[i], l)
        BY Zenon, <1>1, <1>2, <1>6, <2>4
      <3>2. KeyRead(q.secs[i], l) =
              Partly(secs[i], KeyRead(r.secs[i], l).id, KeyRead(r.secs[i], l).auto, Done(t, n, secs[i].name))
        <4> DEFINE old  == r.secs[i]
                   part == q.secs[i]
                   sec  == secs[i]
                   done == Done(t, n, secs[i].name)
        <4>1. part = Partly(sec, old.id, old.auto, done)
          BY <2>2
        <4> HIDE DEF old, part, sec, done
        <4>2. KeyRead(part, l) = Partly(sec, KeyRead(old, l).id, KeyRead(old, l).auto, done)
          BY <4>1, KeyReadPartly
        <4> QED
          BY <4>2 DEF old, part, sec, done
      <3> QED
        BY Zenon, <2>3, <3>1, <3>2
    <2>5. CASE i # at
      <3>1. q2.secs[i] = q.secs[i] /\ new.secs[i] = r.secs[i]
        BY <1>1, <1>2, <1>6, <2>5
      <3> QED
        BY Zenon, <2>2, <2>3, <3>1
    <2> QED
      BY <2>4, <2>5
  <1>8. Mirrors(q2, new, t, n2, secs)
    BY <1>1, <1>2, <1>6, <1>7 DEF Mirrors
  <1> QED
    BY <1>4, <1>8 DEF new, q2

\* Any other line is copied, and changes no section.
LEMMA MirrorsOthers ==
    ASSUME NEW t, NEW n, NEW n2, NEW r, Sections(r.secs),
           NEW l, ~Opens(l), ~Changes(r, l), Fits(r, l),
           NEW secs, NamesGrow(r.secs, secs), NEW q, Mirrors(q, r, t, n, secs),
           DoneBefore(t, n, n2, r, secs)
    PROVE  TidyFrom(q, << l >>) /\ Mirrors(After(q, << l >>), ReadLine(r, l), t, n2, secs)
  <1> DEFINE new  == ReadLine(r, l)
             q2   == ReadLine(q, l)
  <1>1. /\ Sections(q.secs) /\ Len(q.secs) = Len(r.secs) /\ q.at = r.at /\ q.name = r.name
        /\ \A i \in 1 .. Len(r.secs) :
             q.secs[i] = Partly(secs[i], r.secs[i].id, r.secs[i].auto, Done(t, n, secs[i].name))
    BY DEF Mirrors
  <1>2. /\ new.secs = r.secs
        /\ new.at = (IF l.kind \in {"header", "unknown"} THEN 0 ELSE r.at)
        /\ new.name = (IF l.kind = "header" THEN l.val ELSE r.name)
    BY OthersRead
  <1>3. Fits(q, l)
    <2>1. \A key : findSection(q.secs, key) = findSection(r.secs, key)
      BY MirrorsFind
    <2> QED
      BY <1>1, <2>1, FitsSame
  <1>4. After(q, << l >>) = q2 /\ TidyFrom(q, << l >>)
    BY <1>3, AfterSmall, TidyFromSmall
  <1>5. ~Changes(q, l)
    BY <1>1 DEF Changes
  <1>6. /\ q2.secs = q.secs
        /\ q2.at = (IF l.kind \in {"header", "unknown"} THEN 0 ELSE q.at)
        /\ q2.name = (IF l.kind = "header" THEN l.val ELSE q.name)
    BY <1>5, OthersRead
  <1> HIDE DEF new, q2
  <1>7. ASSUME NEW i \in 1 .. Len(r.secs)
        PROVE  q2.secs[i] = Partly(secs[i], new.secs[i].id, new.secs[i].auto, Done(t, n2, secs[i].name))
    <2>1. Done(t, n2, secs[i].name) = Done(t, n, secs[i].name)
      BY DEF DoneBefore
    <2>2. q.secs[i] = Partly(secs[i], r.secs[i].id, r.secs[i].auto, Done(t, n, secs[i].name))
      BY <1>1
    <2> QED
      BY Zenon, <1>2, <1>6, <2>1, <2>2
  <1>8. Mirrors(q2, new, t, n2, secs)
    BY <1>1, <1>2, <1>6, <1>7 DEF Mirrors
  <1> QED
    BY <1>4, <1>8 DEF new, q2

\* The sections in memory are those of a file that was read, and more.
Grew(t, secs) ==
    /\ Listed(t) /\ Tidy(t)
    /\ Sections(secs) /\ WellFormed(secs) /\ Extends(SectionsIn(t), secs)

LEMMA GrewTyped ==
    ASSUME NEW t, NEW secs, Grew(t, secs)
    PROVE  /\ \A i \in 1 .. Len(secs) : Typed(secs[i]) /\ secs[i].name \notin Unnamed
           /\ \A i, j \in 1 .. Len(secs) : i # j => secs[i].name # secs[j].name
  BY DEF Grew, WellFormed, Typed

LEMMA GrewNames ==
    ASSUME NEW t, NEW secs, Grew(t, secs)
    PROVE  \A n \in 0 .. Len(t) : NamesGrow(Reading(Begin, t)[n].secs, secs)
  <1> DEFINE f == Reading(Begin, t)
             N == Len(t)
  <1>1. Listed(t) /\ Tidy(t) /\ Sections(secs) /\ N \in Nat /\ N \in 0 .. N
    BY DEF Grew, Listed
  <1>2. \A n \in 0 .. N : \A m \in 0 .. n : NamesGrow(f[m].secs, f[n].secs)
    BY <1>1, TidyNeat
  <1>3. NamesGrow(f[N].secs, secs)
    BY DEF Grew, Extends, NamesGrow, SectionsIn, Parsed
  <1>4. \A n \in 0 .. N : Len(f[n].secs) \in Nat
    BY <1>1, SectionsRead DEF Sections
  <1>5. Len(secs) \in Nat
    BY <1>1 DEF Sections
  <1> HIDE DEF f, N
  <1>6. \A n \in 0 .. N : NamesGrow(f[n].secs, f[N].secs)
    BY <1>1, <1>2
  <1>7. \A n \in 0 .. N : NamesGrow(f[n].secs, secs)
    BY <1>1, <1>3, <1>4, <1>5, <1>6, NamesGrowOn
  <1> QED
    BY <1>7 DEF f, N

LEMMA GrewAutos ==
    ASSUME NEW t, NEW secs, Grew(t, secs), NEW i \in 1 .. Len(SectionsIn(t))
    PROVE  secs[i].auto => HasLine(LinesOf(t), "auto", secs[i].name)
  <1> DEFINE f   == Reading(Begin, t)
             old == SectionsIn(t)
  <1>1. Listed(t) /\ Tidy(t) /\ Len(t) \in Nat /\ Len(t) \in 0 .. Len(t)
    BY DEF Grew, Listed
  <1>2. Neat(f[Len(t)], HeadersOf(t, Len(t)), AutosOf(t, Len(t)))
    BY <1>1, TidyNeat
  <1>3. old = f[Len(t)].secs
    BY DEF SectionsIn, Parsed
  <1>4. secs[i].name = old[i].name /\ (secs[i].auto = old[i].auto)
    BY DEF Grew, Extends
  <1> SUFFICES ASSUME secs[i].auto PROVE HasLine(LinesOf(t), "auto", secs[i].name)
    OBVIOUS
  <1>5. old[i].auto
    BY Zenon, <1>4
  <1>6. old[i].name \in AutosOf(t, Len(t))
    BY Zenon, <1>2, <1>3, <1>5 DEF Neat
  <1>7. \E m \in 1 .. Len(t) : KeyLine(t, m, "auto", old[i].name)
    BY <1>6 DEF AutosOf, KeyLine
  <1>8. HasLine(LinesOf(t), "auto", old[i].name)
    BY <1>1, <1>7, HasLineIs
  <1> QED
    BY <1>4, <1>8

\* What Rewritten() makes of a line, by the section the line was noted in.
LEMMA RewrittenCases ==
    ASSUME NEW lns, NEW secs, NEW l, NEW at, at = sectionByName(secs, l.section)
    PROVE  /\ l.raw.kind = "key" /\ l.raw.key \in Managed /\ at # 0
                => Rewritten(lns, secs, l) = Entry(secs[at], l.raw.key)
           /\ l.raw.kind = "header" /\ at # 0
                => Rewritten(lns, secs, l) = << l.raw >> \o Lacking(lns, secs[at])
           /\ ~ (l.raw.kind = "key" /\ l.raw.key \in Managed /\ at # 0)
              /\ ~ (l.raw.kind = "header" /\ at # 0)
                => Rewritten(lns, secs, l) = << l.raw >>
  <1>1. ASSUME l.raw.kind = "key", l.raw.key \in Managed, at # 0
        PROVE  Rewritten(lns, secs, l) = Entry(secs[at], l.raw.key)
    BY Zenon, <1>1 DEF Rewritten
  <1>2. ASSUME l.raw.kind = "header", at # 0
        PROVE  Rewritten(lns, secs, l) = << l.raw >> \o Lacking(lns, secs[at])
    BY <1>2 DEF Rewritten
  <1>3. ASSUME ~ (l.raw.kind = "key" /\ l.raw.key \in Managed /\ at # 0),
               ~ (l.raw.kind = "header" /\ at # 0)
        PROVE  Rewritten(lns, secs, l) = << l.raw >>
    BY <1>3 DEF Rewritten
  <1> QED
    BY Zenon, <1>1, <1>2, <1>3

\* One line, and where parse() is before and after it.
StepAt(t, secs, n, r, l, new) ==
    /\ new = ReadLine(r, l) /\ Fits(r, l)
    /\ Neat(r, HeadersOf(t, n), AutosOf(t, n))
    /\ Sections(r.secs) /\ r.at \in 0 .. Len(r.secs)
    /\ NamesGrow(r.secs, secs) /\ NamesGrow(new.secs, secs)
    /\ Len(new.secs) \in Nat /\ Len(new.secs) <= Len(SectionsIn(t))
    /\ Len(SectionsIn(t)) <= Len(secs) /\ Len(secs) \in Nat /\ Len(SectionsIn(t)) \in Nat
    /\ NotedLine(t, n + 1).raw = l
    /\ NotedLine(t, n + 1).section = IF l.kind \in {"header", "key"} THEN new.name ELSE ""

LEMMA StepFacts ==
    ASSUME NEW t, NEW secs, Grew(t, secs), NEW n \in Nat, n + 1 \in 1 .. Len(t),
           NEW r, r = Reading(Begin, t)[n], NEW l, l = t[n + 1],
           NEW new, new = Reading(Begin, t)[n + 1]
    PROVE  StepAt(t, secs, n, r, l, new)
  <1> DEFINE f == Reading(Begin, t)
             N == Len(t)
  <1>1. Listed(t) /\ Tidy(t) /\ Sections(secs) /\ N \in Nat /\ Extends(SectionsIn(t), secs)
    BY DEF Grew, Listed
  <1>2. \A m \in 1 .. N : f[m] = ReadLine(f[m - 1], t[m])
    BY <1>1, ReadingIs
  <1>3. \A m \in 1 .. N : Fits(f[m - 1], t[m])
    BY <1>1 DEF Tidy
  <1>4. (n + 1) - 1 = n /\ n \in 0 .. N /\ n + 1 \in 0 .. N /\ N \in 0 .. N /\ n + 1 \in 0 .. N
    BY <1>1
  <1>5. /\ Neat(f[n], HeadersOf(t, n), AutosOf(t, n))
        /\ \A m \in 0 .. N : NamesGrow(f[m].secs, f[N].secs)
    BY <1>1, <1>4, TidyNeat
  <1>6. NamesGrow(f[n].secs, secs) /\ NamesGrow(f[n + 1].secs, secs)
    BY <1>4, GrewNames
  <1>7. SectionsIn(t) = f[N].secs
    BY DEF SectionsIn, Parsed
  <1>8. \A m \in 0 .. N : Sections(f[m].secs) /\ f[m].at \in 0 .. Len(f[m].secs) /\ Len(f[m].secs) \in Nat
    BY <1>1, SectionsRead DEF Sections
  <1>9. /\ NotedLine(t, n + 1).raw = l
        /\ NotedLine(t, n + 1).section = IF l.kind \in {"header", "key"} THEN new.name ELSE ""
    BY DEF NotedLine
  <1> HIDE DEF f, N
  <1>10. new = ReadLine(r, l) /\ Fits(r, l)
    BY <1>2, <1>3, <1>4 DEF f, N
  <1>11. Len(new.secs) \in Nat /\ Len(new.secs) <= Len(SectionsIn(t))
    <2>1. NamesGrow(f[n + 1].secs, f[N].secs) /\ Len(f[n + 1].secs) \in Nat
      BY <1>4, <1>5, <1>8
    <2> QED
      BY <1>7, <2>1 DEF NamesGrow, f, N
  <1>12. Len(SectionsIn(t)) <= Len(secs) /\ Len(secs) \in Nat /\ Len(SectionsIn(t)) \in Nat
    <2>1. Len(SectionsIn(t)) \in Nat
      BY <1>4, <1>7, <1>8
    <2> QED
      BY <1>1, <2>1 DEF Extends, Sections
  <1>13. Neat(r, HeadersOf(t, n), AutosOf(t, n)) /\ NamesGrow(r.secs, secs) /\ NamesGrow(new.secs, secs)
    BY <1>5, <1>6 DEF f
  <1>14. Sections(r.secs) /\ r.at \in 0 .. Len(r.secs)
    BY <1>4, <1>8 DEF f
  <1> QED
    BY Zenon, <1>9, <1>10, <1>11, <1>12, <1>13, <1>14 DEF StepAt

\* No key was noted under the name of a header before it.
LEMMA NothingBefore ==
    ASSUME NEW t, NEW secs, Grew(t, secs), NEW n \in Nat, n + 1 \in 1 .. Len(t),
           Opens(t[n + 1])
    PROVE  \A m \in 1 .. n + 1 : t[m].kind = "key" => Reading(Begin, t)[m].name # t[n + 1].val
  <1> DEFINE f == Reading(Begin, t)
             l == t[n + 1]
             r == f[n]
  <1>1. Listed(t) /\ Tidy(t) /\ Len(t) \in Nat
    BY DEF Grew, Listed
  <1>2. Fits(r, l) /\ Sections(r.secs)
    <2> DEFINE new == f[n + 1]
    <2>1. r = Reading(Begin, t)[n] /\ l = t[n + 1] /\ new = Reading(Begin, t)[n + 1]
      OBVIOUS
    <2> HIDE DEF f, r, l, new
    <2>2. StepAt(t, secs, n, r, l, new)
      BY <2>1, StepFacts
    <2> QED
      BY <2>2, Zenon DEF StepAt
  <1>3. l.val \notin Unnamed /\ findSection(r.secs, l.val) = 0
    BY <1>2 DEF Opens, Fits, Unnamed
  <1>4. \A i \in 1 .. Len(r.secs) : r.secs[i].name # l.val
    BY <1>2, <1>3, FindSection
  <1>5. l.kind # "key"
    BY DEF Opens
  <1>6. n \in 0 .. Len(t) /\ \A m \in 1 .. n : m \in 0 .. Len(t) /\ m \in 0 .. n
    BY <1>1
  <1>7. \A m \in 1 .. n : /\ Neat(f[m], HeadersOf(t, m), AutosOf(t, m))
                          /\ NamesGrow(f[m].secs, r.secs)
                          /\ Len(f[m].secs) \in Nat
    BY <1>1, <1>6, TidyNeat, SectionsRead DEF Sections
  <1>8. Len(r.secs) \in Nat
    BY <1>2 DEF Sections
  <1> HIDE DEF f, l, r
  <1>9. ASSUME NEW m \in 1 .. n, f[m].name = l.val PROVE FALSE
    <2>1. f[m].name \in Unnamed \/ \E i \in 1 .. Len(f[m].secs) : f[m].secs[i].name = f[m].name
      BY <1>7 DEF Neat
    <2>2. PICK i \in 1 .. Len(f[m].secs) : f[m].secs[i].name = l.val
      BY <1>3, <1>9, <2>1
    <2>3. i \in 1 .. Len(r.secs) /\ r.secs[i].name = l.val
      BY <1>7, <1>8, <2>2 DEF NamesGrow
    <2> QED
      BY <1>4, <2>3
  <1>10. ASSUME NEW m \in 1 .. n + 1, t[m].kind = "key" PROVE f[m].name # l.val
    <2>1. CASE m = n + 1
      BY <1>5, <1>10, <2>1 DEF l
    <2>2. CASE m # n + 1
      BY <1>9, <2>2
    <2> QED
      BY <2>1, <2>2
  <1> QED
    BY <1>10 DEF f, l

LEMMA MirrorsStep ==
    ASSUME NEW t, NEW secs, Grew(t, secs), NEW n \in Nat, n + 1 \in 1 .. Len(t),
           NEW r, r = Reading(Begin, t)[n], NEW q, Mirrors(q, r, t, n, secs),
           NEW new, new = Reading(Begin, t)[n + 1],
           NEW piece, piece = Rewritten(LinesOf(t), secs, NotedLine(t, n + 1))
    PROVE  TidyFrom(q, piece) /\ Mirrors(After(q, piece), new, t, n + 1, secs)
  <1> DEFINE l   == t[n + 1]
             nl  == NotedLine(t, n + 1)
             n2  == n + 1
             lns == LinesOf(t)
             H   == HeadersOf(t, n)
             A   == AutosOf(t, n)
  <1>1. StepAt(t, secs, n, r, l, new)
    <2>1. l = t[n + 1]
      OBVIOUS
    <2> HIDE DEF l
    <2> QED
      BY <2>1, StepFacts
  <1>2. new = ReadLine(r, l) /\ Fits(r, l)
    BY Zenon, <1>1 DEF StepAt
  <1>3. Neat(r, H, A)
    BY Zenon, <1>1 DEF StepAt
  <1>4. Sections(r.secs) /\ r.at \in 0 .. Len(r.secs)
    BY Zenon, <1>1 DEF StepAt
  <1>5. NamesGrow(r.secs, secs) /\ NamesGrow(new.secs, secs)
    BY Zenon, <1>1 DEF StepAt
  <1>6. /\ Len(new.secs) \in Nat /\ Len(new.secs) <= Len(SectionsIn(t))
        /\ Len(SectionsIn(t)) <= Len(secs) /\ Len(secs) \in Nat /\ Len(SectionsIn(t)) \in Nat
    BY Zenon, <1>1 DEF StepAt
  <1>7. /\ nl.raw = l
        /\ nl.section = IF l.kind \in {"header", "key"} THEN new.name ELSE ""
    BY Zenon, <1>1 DEF StepAt
  <1> HIDE DEF l, nl, H, A
  <1>8. /\ \A i \in 1 .. Len(secs) : Typed(secs[i]) /\ secs[i].name \notin Unnamed
        /\ \A i, j \in 1 .. Len(secs) : i # j => secs[i].name # secs[j].name
    BY GrewTyped
  <1>9. \A name : /\ ~ (l.kind = "key" /\ l.key \in Managed /\ new.name = name) => Done(t, n2, name) = Done(t, n, name)
                  /\ l.kind = "key" /\ l.key \in Managed /\ new.name = name
                       => Done(t, n2, name) = Done(t, n, name) \cup {l.key}
    BY DoneStep DEF Grew, l
  <1>10. \A name : /\ \A i \in 1 .. Len(secs) : secs[i].name = name => sectionByName(secs, name) = i
                   /\ name \in Unnamed => sectionByName(secs, name) = 0
    BY ByNameIs DEF Grew
  <1>11. \A i \in 1 .. Len(r.secs) : i \in 1 .. Len(secs) /\ secs[i].name = r.secs[i].name
    <2>1. Len(r.secs) \in Nat
      BY <1>4 DEF Sections
    <2> QED
      BY <1>5, <1>6, <2>1 DEF NamesGrow
  <1> DEFINE at == sectionByName(secs, nl.section)
  <1>12. /\ nl.raw.kind = "key" /\ nl.raw.key \in Managed /\ at # 0
              => Rewritten(lns, secs, nl) = Entry(secs[at], nl.raw.key)
         /\ nl.raw.kind = "header" /\ at # 0
              => Rewritten(lns, secs, nl) = << nl.raw >> \o Lacking(lns, secs[at])
         /\ ~ (nl.raw.kind = "key" /\ nl.raw.key \in Managed /\ at # 0)
            /\ ~ (nl.raw.kind = "header" /\ at # 0)
              => Rewritten(lns, secs, nl) = << nl.raw >>
    BY Zenon, RewrittenCases
  <1>13. piece = Rewritten(lns, secs, nl)
    BY DEF nl
  <1>14. Opens(l) => \A m \in 1 .. n2 : t[m].kind = "key" => Reading(Begin, t)[m].name # l.val
    BY NothingBefore DEF l
  <1>15. n2 \in 0 .. Len(t) /\ Listed(t)
    BY DEF Grew, Listed
  <1>16. \A i \in 1 .. Len(SectionsIn(t)) : secs[i].auto => HasLine(lns, "auto", secs[i].name)
    BY GrewAutos
  <1>17. \A name : (\A m \in 1 .. n2 : t[m].kind = "key" => Reading(Begin, t)[m].name # name)
                       => Done(t, n2, name) = Unlined(lns, name)
    BY <1>15, DoneEnds
  <1> HIDE DEF n2, lns, at
  <1>18. CASE Opens(l)
    <2> DEFINE k   == Len(r.secs) + 1
               sec == secs[k]
    <2>1. findSection(r.secs, l.val) = 0 /\ l.kind = "header"
      BY <1>2, <1>18 DEF Opens, Fits
    <2>2. Len(new.secs) = k /\ new.secs[k] = NewSection(l.val, FALSE) /\ new.name = l.val
      <3> DEFINE rl == ReadLine(r, l)
      <3>1. Len(rl.secs) = k /\ rl.secs[k] = NewSection(l.val, FALSE) /\ rl.name = l.val
        BY <1>4, <1>18, <2>1, OpensRead
      <3> HIDE DEF rl, k
      <3>2. new = rl
        BY <1>2 DEF rl
      <3> QED
        BY Zenon, <3>1, <3>2
    <2>3. Len(r.secs) \in Nat /\ k \in 1 .. Len(new.secs) /\ k \in 1 .. Len(SectionsIn(t)) /\ k \in 1 .. Len(secs)
      <3>1. Len(r.secs) \in Nat
        BY <1>4 DEF Sections
      <3> QED
        BY <1>6, <2>2, <3>1
    <2>4. sec.name = l.val
      <3>1. NewSection(l.val, FALSE).name = l.val
        BY DEF NewSection
      <3>2. new.secs[k].name = l.val
        BY Zenon, <2>2, <3>1
      <3> QED
        BY <1>5, <2>3, <3>2 DEF NamesGrow
    <2> HIDE DEF sec
    <2>5. nl.section = sec.name /\ at = k /\ at # 0
      <3>1. nl.section = sec.name
        BY <1>7, <2>1, <2>2, <2>4
      <3>2. secs[k].name = nl.section
        BY <3>1 DEF sec
      <3>3. at = k
        BY <1>10, <2>3, <3>2 DEF at
      <3> QED
        BY <2>3, <3>1, <3>3
    <2> HIDE DEF k
    <2>6. piece = << l >> \o Lacking(lns, sec)
      BY Zenon, <1>7, <1>12, <1>13, <2>1, <2>5 DEF sec
    <2>7. Typed(sec) /\ (sec.auto => HasLine(lns, "auto", sec.name))
      BY <1>8, <1>16, <2>3 DEF sec
    <2>8. Done(t, n2, sec.name) = Unlined(lns, sec.name)
      BY <1>14, <1>17, <1>18, <2>4
    <2>9. DoneBefore(t, n, n2, r, secs)
      BY <1>9, <2>1 DEF DoneBefore
    <2>10. sec = secs[Len(r.secs) + 1]
      BY DEF sec, k
    <2>11. TidyFrom(q, piece) /\ Mirrors(After(q, piece), ReadLine(r, l), t, n2, secs)
      BY <1>2, <1>4, <1>5, <1>18, <2>4, <2>6, <2>7, <2>8, <2>9, <2>10, MirrorsOpens
    <2> QED
      BY <1>2, <2>11 DEF n2
  <1>19. CASE Changes(r, l)
    <2> DEFINE sec == secs[r.at]
    <2>1. l.kind = "key" /\ r.at # 0
      BY <1>19 DEF Changes
    <2>2. r.at \in 1 .. Len(r.secs) /\ new.name = r.name
      <3> DEFINE rl == ReadLine(r, l)
      <3>1. r.at \in 1 .. Len(r.secs) /\ rl.name = r.name
        BY <1>4, <1>19, ChangesRead
      <3> HIDE DEF rl
      <3>2. new = rl
        BY <1>2 DEF rl
      <3> QED
        BY Zenon, <3>1, <3>2
    <2>3. r.secs[r.at].name = r.name
      BY Zenon, <1>3, <2>1 DEF Neat
    <2>4. sec.name = new.name /\ r.at \in 1 .. Len(secs) /\ nl.section = sec.name
      BY <1>7, <1>11, <2>1, <2>2, <2>3
    <2>5. at = r.at
      BY <1>10, <2>4 DEF at
    <2>6. Typed(sec)
      BY <1>8, <2>4
    <2>7. CASE l.key \in Managed
      <3>1. piece = Entry(sec, l.key)
        BY Zenon, <1>7, <1>12, <1>13, <2>1, <2>5, <2>7
      <3>2. Done(t, n2, sec.name) = Done(t, n, sec.name) \cup {l.key}
        BY <1>9, <2>1, <2>4, <2>7
      <3>3. DoneElsewhere(t, n, n2, r, secs)
        BY <1>8, <1>9, <1>11, <2>4 DEF DoneElsewhere
      <3>4. sec = secs[r.at]
        OBVIOUS
      <3> HIDE DEF sec
      <3>5. TidyFrom(q, piece) /\ Mirrors(After(q, piece), ReadLine(r, l), t, n2, secs)
        BY <1>4, <1>19, <2>6, <2>7, <3>1, <3>2, <3>3, <3>4, MirrorsManaged
      <3> QED
        BY <1>2, <3>5 DEF n2
    <2>8. CASE l.key \notin Managed
      <3>1. piece = << l >>
        <4>1. ~ (nl.raw.kind = "key" /\ nl.raw.key \in Managed /\ at # 0) /\ nl.raw.kind # "header"
          BY <1>7, <2>1, <2>8
        <4> QED
          BY Zenon, <1>7, <1>12, <1>13, <4>1
      <3>2. DoneBefore(t, n, n2, r, secs)
        BY <1>9, <2>8 DEF DoneBefore
      <3>3. TidyFrom(q, << l >>) /\ Mirrors(After(q, << l >>), ReadLine(r, l), t, n2, secs)
        BY <1>2, <1>4, <1>5, <1>19, <2>8, <3>2, MirrorsKey
      <3> QED
        BY <1>2, <3>1, <3>3 DEF n2
    <2> QED
      BY <2>7, <2>8
  <1>20. CASE ~Opens(l) /\ ~Changes(r, l)
    <2>1. l.kind = "key" => r.at = 0 /\ new.name = r.name
      BY <1>2, <1>4, <1>20 DEF Changes, ReadLine
    <2>2. l.kind = "key" /\ l.key \in Managed => new.name \in Unnamed
      BY <1>2, <2>1 DEF Fits
    <2>3. l.kind = "header" => new.name \in Unnamed
      <3>1. l.kind = "header" => l.val \in Unnamed
        BY <1>20 DEF Opens, Unnamed
      <3>2. l.kind = "header" => new.name = l.val
        BY <1>2, <1>20, OthersRead
      <3> QED
        BY <3>1, <3>2
    <2>4. (l.kind = "key" /\ l.key \in Managed) \/ l.kind = "header" => at = 0
      BY <1>7, <1>10, <2>2, <2>3 DEF at
    <2>5. piece = << l >>
      <3>1. /\ ~ (nl.raw.kind = "key" /\ nl.raw.key \in Managed /\ at # 0)
            /\ ~ (nl.raw.kind = "header" /\ at # 0)
        BY <1>7, <2>4
      <3> QED
        BY Zenon, <1>7, <1>12, <1>13, <3>1
    <2>6. DoneBefore(t, n, n2, r, secs)
      BY <1>8, <1>9, <1>11, <2>2 DEF DoneBefore
    <2>7. TidyFrom(q, << l >>) /\ Mirrors(After(q, << l >>), ReadLine(r, l), t, n2, secs)
      BY <1>2, <1>4, <1>5, <1>20, <2>6, MirrorsOthers
    <2> QED
      BY <1>2, <2>5, <2>7 DEF n2
  <1> QED
    BY <1>18, <1>19, <1>20

\* The image of the file's lines, piece by piece.
LEMMA ImageMirrors ==
    ASSUME NEW t, NEW secs, Grew(t, secs)
    PROVE  \A n \in 0 .. Len(t) :
              LET part == Flattened(Pieces(LinesOf(t), secs), n)
              IN  TidyFrom(Begin, part) /\ Mirrors(After(Begin, part), Reading(Begin, t)[n], t, n, secs)
  <1> DEFINE lns  == LinesOf(t)
             P    == Pieces(lns, secs)
             q(n) == After(Begin, Flattened(P, n))
             r    == Reading(Begin, t)
             J(n) == TidyFrom(Begin, Flattened(P, n)) /\ Mirrors(q(n), r[n], t, n, secs)
             G    == { n \in Nat : n <= Len(t) => J(n) }
  <1>1. Listed(t) /\ Listed(secs) /\ Len(t) \in Nat
    BY DEF Grew, Sections, Listed
  <1>2. /\ Listed(lns) /\ Len(lns) = Len(t)
        /\ \A i \in 1 .. Len(t) : lns[i] = NotedLine(t, i)
    BY <1>1, LinesRead
  <1>3. /\ Listed(P) /\ Len(P) = Len(t)
        /\ \A i \in 1 .. Len(t) : P[i] = Rewritten(lns, secs, NotedLine(t, i)) /\ Listed(P[i])
    <2> HIDE DEF lns
    <2>1. /\ Listed(P) /\ Len(P) = Len(lns)
          /\ \A i \in 1 .. Len(lns) : P[i] = Rewritten(lns, secs, lns[i]) /\ Listed(P[i])
      BY <1>1, <1>2, PiecesAre
    <2> HIDE DEF P
    <2> QED
      BY <1>2, <2>1
  <1> HIDE DEF P
  <1>4. /\ Flattened(P, 0) = << >>
        /\ \A n \in 1 .. Len(t) : Flattened(P, n) = Flattened(P, n - 1) \o P[n]
        /\ \A n \in 0 .. Len(t) : Listed(Flattened(P, n))
    BY <1>3, PiecesJoin
  <1>5. r[0] = Begin
    BY <1>1, ReadingIs
  <1>6. 0 \in G
    <2>1. q(0) = Begin /\ TidyFrom(Begin, Flattened(P, 0))
      BY <1>4, AfterSmall, TidyFromSmall
    <2>2. Begin.secs = << >>
      BY DEF Begin
    <2>3. Sections(<< >>) /\ Len(<< >>) = 0
      BY DEF Sections
    <2>4. Mirrors(Begin, Begin, t, 0, secs)
      BY <2>2, <2>3 DEF Mirrors
    <2> QED
      BY <1>5, <2>1, <2>4
  <1>7. ASSUME NEW n \in Nat, n \in G PROVE n + 1 \in G
    <2> SUFFICES ASSUME n + 1 <= Len(t) PROVE J(n + 1)
      OBVIOUS
    <2>1. n + 1 \in 1 .. Len(t) /\ (n + 1) - 1 = n /\ n \in 0 .. Len(t) /\ J(n)
      BY <1>1, <1>7
    <2>2. Listed(Flattened(P, n)) /\ Listed(P[n + 1])
      BY <1>3, <1>4, <2>1
    <2>3. Flattened(P, n + 1) = Flattened(P, n) \o P[n + 1]
      BY <1>4, <2>1
    <2>4. P[n + 1] = Rewritten(lns, secs, NotedLine(t, n + 1))
      BY <1>3, <2>1
    <2>5. TidyFrom(q(n), P[n + 1]) /\ Mirrors(After(q(n), P[n + 1]), r[n + 1], t, n + 1, secs)
      <3> DEFINE s == q(n)
                 u == r[n]
                 v == r[n + 1]
                 p == P[n + 1]
      <3>1. /\ u = Reading(Begin, t)[n] /\ v = Reading(Begin, t)[n + 1]
            /\ p = Rewritten(LinesOf(t), secs, NotedLine(t, n + 1))
            /\ Mirrors(s, u, t, n, secs)
        BY <2>1, <2>4
      <3> HIDE DEF s, u, v, p, r, lns
      <3>2. TidyFrom(s, p) /\ Mirrors(After(s, p), v, t, n + 1, secs)
        BY <2>1, <3>1, MirrorsStep
      <3> QED
        BY <3>2 DEF s, u, v, p
    <2>6. q(n + 1) = After(q(n), P[n + 1])
      <3>1. After(Begin, Flattened(P, n) \o P[n + 1]) = After(After(Begin, Flattened(P, n)), P[n + 1])
        BY <2>2, AfterTwo
      <3> QED
        BY <2>3, <3>1, Zenon
    <2>7. TidyFrom(Begin, Flattened(P, n + 1))
      <3>1. TidyFrom(Begin, Flattened(P, n)) /\ TidyFrom(After(Begin, Flattened(P, n)), P[n + 1])
        BY <2>1, <2>5
      <3>2. TidyFrom(Begin, Flattened(P, n) \o P[n + 1])
        BY <2>2, <3>1, TidyFromTwo
      <3> QED
        BY <2>3, <3>2
    <2> QED
      BY <2>5, <2>6, <2>7
  <1>8. Nat \subseteq G
    <2> HIDE DEF G
    <2> QED  BY <1>6, <1>7, Induction
  <1> QED
    BY <1>1, <1>8 DEF lns, P, r

\* What a start finds of a section.
LEMMA OnFileIs ==
    ASSUME NEW sec, Shaped(sec), Typed(sec)
    PROVE  /\ Shaped(OnFile(sec)) /\ AsFiled(OnFile(sec))
           /\ OnFile(sec).name = sec.name /\ OnFile(sec).id = sec.id /\ OnFile(sec).mac = sec.mac
           /\ OnFile(sec).auto = sec.auto /\ OnFile(sec).renamed = sec.renamed
  <1>1. sec = FullSection(sec.name, sec.id, sec.mac, sec.creds, sec.shown, sec.renamed, sec.auto)
    BY ShapedIs
  <1>2. CASE sec.renamed
    <2>1. OnFile(sec) = sec
      BY <1>2 DEF OnFile
    <2> QED
      BY Zenon, <1>2, <2>1 DEF AsFiled
  <1>3. CASE ~sec.renamed
    <2> DEFINE new == OnFile(sec)
    <2>1. new = [sec EXCEPT !.shown = sec.name]
      BY <1>3 DEF OnFile
    <2> HIDE DEF new
    <2>2. new = FullSection(sec.name, sec.id, sec.mac, sec.creds, sec.name, sec.renamed, sec.auto)
      BY <1>1, <2>1 DEF FullSection
    <2>3. /\ Shaped(new) /\ new.name = sec.name /\ new.id = sec.id /\ new.mac = sec.mac
          /\ new.auto = sec.auto /\ new.renamed = sec.renamed /\ new.shown = sec.name
      BY <2>2, ShapedFields
    <2>4. AsFiled(new)
      BY Zenon, <2>3 DEF AsFiled
    <2> QED
      BY Zenon, <2>3, <2>4 DEF new
  <1> QED
    BY <1>2, <1>3

\* parse() has read the first k sections as they are on file.
Holds(q, secs, k) ==
    /\ Sections(q.secs) /\ Len(q.secs) = k
    /\ \A i \in 1 .. k : q.secs[i] = OnFile(secs[i])

\* The sections of the file, once all its lines were written again.
LEMMA MirrorsEnd ==
    ASSUME NEW t, NEW secs, Grew(t, secs), NEW q, Mirrors(q, Reading(Begin, t)[Len(t)], t, Len(t), secs)
    PROVE  Holds(q, secs, Len(SectionsIn(t)))
  <1> DEFINE old == SectionsIn(t)
             r   == Reading(Begin, t)[Len(t)]
  <1>1. old = r.secs
    BY DEF SectionsIn, Parsed
  <1>2. /\ Sections(q.secs) /\ Len(q.secs) = Len(old)
        /\ \A i \in 1 .. Len(old) :
             q.secs[i] = Partly(secs[i], r.secs[i].id, r.secs[i].auto, Done(t, Len(t), secs[i].name))
    BY Zenon, <1>1 DEF Mirrors
  <1>3. Listed(t) /\ Sections(secs) /\ Len(secs) \in Nat /\ Extends(old, secs)
    BY DEF Grew, Sections
  <1>4. Sections(old) /\ Len(old) \in Nat
    <2>1. Len(t) \in 0 .. Len(t)
      BY <1>3 DEF Listed
    <2>2. Sections(r.secs)
      BY <1>3, <2>1, SectionsRead
    <2> QED
      BY <1>1, <2>2 DEF Sections
  <1> HIDE DEF old, r
  <1>5. ASSUME NEW i \in 1 .. Len(old) PROVE q.secs[i] = OnFile(secs[i])
    <2>1. i \in 1 .. Len(secs)
      BY <1>3, <1>4 DEF Extends
    <2>2. Shaped(secs[i]) /\ Typed(secs[i])
      BY <1>3, <2>1, GrewTyped DEF Sections
    <2>3. secs[i].id = r.secs[i].id /\ (secs[i].auto = r.secs[i].auto)
      BY Zenon, <1>1, <1>3 DEF Extends
    <2>4. Done(t, Len(t), secs[i].name) = Managed
      BY <1>3, DoneEnds
    <2>5. q.secs[i] = Partly(secs[i], secs[i].id, secs[i].auto, Managed)
      BY Zenon, <1>2, <2>3, <2>4
    <2>6. Partly(secs[i], secs[i].id, secs[i].auto, Managed) = OnFile(secs[i])
      BY <2>2, PartlyWhole
    <2> QED
      BY <2>5, <2>6
  <1> QED
    BY <1>2, <1>5 DEF Holds, old

\* The sections that the file has no header for are the new ones.
LEMMA HeadersAre ==
    ASSUME NEW t, NEW secs, Grew(t, secs), NEW i \in 1 .. Len(secs)
    PROVE  (\E m \in 1 .. Len(t) : t[m].kind = "header" /\ NotedLine(t, m).section = secs[i].name)
               <=> i <= Len(SectionsIn(t))
  <1> DEFINE old  == SectionsIn(t)
             f    == Reading(Begin, t)
             name == secs[i].name
  <1>1. Listed(t) /\ Tidy(t) /\ Len(t) \in Nat /\ Len(t) \in 0 .. Len(t) /\ Len(secs) \in Nat
    BY DEF Grew, Listed, Sections
  <1>2. Neat(f[Len(t)], HeadersOf(t, Len(t)), AutosOf(t, Len(t))) /\ Len(f[Len(t)].secs) \in Nat
    BY <1>1, TidyNeat, SectionsRead DEF Sections
  <1>3. old = f[Len(t)].secs
    BY DEF SectionsIn, Parsed
  <1>4. /\ \A k \in 1 .. Len(old) : old[k].name \in HeadersOf(t, Len(t))
        /\ \A h \in HeadersOf(t, Len(t)) : h \in Reserved \/ \E k \in 1 .. Len(old) : old[k].name = h
    BY Zenon, <1>2, <1>3 DEF Neat
  <1>5. \A h : h \in HeadersOf(t, Len(t)) <=> \E m \in 1 .. Len(t) : t[m].kind = "header" /\ t[m].val = h
    BY DEF HeadersOf
  <1>6. ASSUME NEW m \in 1 .. Len(t), t[m].kind = "header" PROVE NotedLine(t, m).section = t[m].val
    <2>1. f[m] = ReadLine(f[m - 1], t[m])
      BY <1>1, ReadingIs
    <2>2. f[m].name = t[m].val
      BY <1>6, <2>1 DEF ReadLine
    <2> QED
      BY <1>6, <2>2 DEF NotedLine
  <1>7. Extends(old, secs) /\ Len(old) \in Nat
    BY <1>2, <1>3 DEF Grew
  <1>8. \A k \in 1 .. Len(old) : k \in 1 .. Len(secs) /\ secs[k].name = old[k].name
    BY <1>1, <1>7 DEF Extends
  <1>9. name \notin Unnamed /\ \A k \in 1 .. Len(secs) : k # i => secs[k].name # name
    BY GrewTyped
  <1> HIDE DEF old, f, name
  <1>10. ASSUME i <= Len(old)
         PROVE  \E m \in 1 .. Len(t) : t[m].kind = "header" /\ NotedLine(t, m).section = name
    <2>1. i \in 1 .. Len(old) /\ old[i].name = name
      BY <1>7, <1>8, <1>10 DEF name
    <2>2. PICK m \in 1 .. Len(t) : t[m].kind = "header" /\ t[m].val = name
      BY <1>4, <1>5, <2>1
    <2> QED
      BY <1>6, <2>2
  <1>11. ASSUME NEW m \in 1 .. Len(t), t[m].kind = "header", NotedLine(t, m).section = name
         PROVE  i <= Len(old)
    <2>1. name \in HeadersOf(t, Len(t))
      BY <1>5, <1>6, <1>11
    <2>2. name \notin Reserved
      BY <1>9 DEF Unnamed
    <2>3. PICK k \in 1 .. Len(old) : old[k].name = name
      BY <1>4, <2>1, <2>2
    <2>4. k = i
      BY <1>8, <1>9, <2>3
    <2> QED
      BY <1>7, <2>3, <2>4
  <1> QED
    BY <1>10, <1>11 DEF old, name

Regroups(h, s, t, u, v, w) ==
    Listed(h) /\ Listed(s) /\ Listed(t) /\ Listed(u) /\ Listed(v) /\ Listed(w)
        => ((((h \o s) \o t) \o u) \o v) \o w = h \o ((((s \o t) \o u) \o v) \o w)

LEMMA Regrouping ==
    ASSUME NEW h, NEW s, NEW t, NEW u, NEW v, NEW w
    PROVE  Regroups(h, s, t, u, v, w)
  <1> DEFINE b == s \o t
             c == b \o u
             d == c \o v
  <1>1. ASSUME Listed(s), Listed(t) PROVE Listed(b)
    BY <1>1, ListedConcat
  <1>2. ASSUME Listed(h), Listed(s), Listed(t) PROVE (h \o s) \o t = h \o b
    BY <1>2, ListedConcatAssociative
  <1> HIDE DEF b
  <1>3. ASSUME Listed(b), Listed(u) PROVE Listed(c)
    BY <1>3, ListedConcat
  <1>4. ASSUME Listed(h), Listed(b), Listed(u) PROVE (h \o b) \o u = h \o c
    BY <1>4, ListedConcatAssociative
  <1> HIDE DEF c
  <1>5. ASSUME Listed(c), Listed(v) PROVE Listed(d)
    BY <1>5, ListedConcat
  <1>6. ASSUME Listed(h), Listed(c), Listed(v) PROVE (h \o c) \o v = h \o d
    BY <1>6, ListedConcatAssociative
  <1> HIDE DEF d
  <1>7. ASSUME Listed(h), Listed(d), Listed(w) PROVE (h \o d) \o w = h \o (d \o w)
    BY <1>7, ListedConcatAssociative
  <1>8. Listed(h) /\ Listed(s) /\ Listed(t) /\ Listed(u) /\ Listed(v) /\ Listed(w)
          => ((((h \o s) \o t) \o u) \o v) \o w = h \o (d \o w)
    BY <1>1, <1>2, <1>3, <1>4, <1>5, <1>6, <1>7, Zenon
  <1> QED
    BY <1>8, Zenon DEF b, c, d, Regroups

LEMMA AppendedIs ==
    ASSUME NEW t, NEW secs, Grew(t, secs), NEW i \in 1 .. Len(secs)
    PROVE  Appended(LinesOf(t), secs[i]) =
             IF i <= Len(SectionsIn(t)) THEN << >>
             ELSE << Header(secs[i].name, "program") >> \o NewKeys(secs[i])
  <1> DEFINE lns == LinesOf(t)
             sec == secs[i]
             E(key) == Entry(sec, key)
             h   == << Header(sec.name, "program") >>
  <1>1. Listed(t)
    BY DEF Grew
  <1>2. /\ DOMAIN lns = 1 .. Len(t)
        /\ \A m \in 1 .. Len(t) : lns[m] = NotedLine(t, m)
    BY <1>1, LinesRead, ListedFunction
  <1>3. \A m : NotedLine(t, m).raw = t[m]
    BY DEF NotedLine
  <1>4. (\E m \in 1 .. Len(t) : t[m].kind = "header" /\ NotedLine(t, m).section = sec.name)
            <=> i <= Len(SectionsIn(t))
    BY HeadersAre
  <1> HIDE DEF lns, sec
  <1>5. (\E m \in DOMAIN lns : lns[m].raw.kind = "header" /\ lns[m].section = sec.name)
            <=> i <= Len(SectionsIn(t))
    BY <1>2, <1>3, <1>4
  <1>6. \A key : Listed(E(key))
    BY EntryIsOwn DEF OwnKeys, Own
  <1>7. Listed(h)
    BY ListedSmall
  <1>8. Appended(lns, sec) =
          IF \E m \in DOMAIN lns : lns[m].raw.kind = "header" /\ lns[m].section = sec.name
          THEN << >>
          ELSE ((((h \o E("id")) \o E("mac")) \o E("creds")) \o E("name")) \o E("auto")
    BY DEF Appended
  <1>9. NewKeys(sec) = (((E("id") \o E("mac")) \o E("creds")) \o E("name")) \o E("auto")
    BY DEF NewKeys
  <1> HIDE DEF E, h
  <1>10. Listed(E("id")) /\ Listed(E("mac")) /\ Listed(E("creds")) /\ Listed(E("name"))
         /\ Listed(E("auto"))
    BY <1>6
  <1>16. ((((h \o E("id")) \o E("mac")) \o E("creds")) \o E("name")) \o E("auto") = h \o NewKeys(sec)
    <2>2. ((((h \o E("id")) \o E("mac")) \o E("creds")) \o E("name")) \o E("auto")
            = h \o ((((E("id") \o E("mac")) \o E("creds")) \o E("name")) \o E("auto"))
      <3>1. Regroups(h, E("id"), E("mac"), E("creds"), E("name"), E("auto"))
        BY Regrouping
      <3> QED
        BY <1>7, <1>10, <3>1, Zenon DEF Regroups
    <2> QED
      BY <1>9, <2>2, Zenon
  <1>17. Appended(lns, sec) =
          IF \E m \in DOMAIN lns : lns[m].raw.kind = "header" /\ lns[m].section = sec.name
          THEN << >> ELSE h \o NewKeys(sec)
    BY <1>8, <1>16, Zenon
  <1>18. Appended(lns, sec) = IF i <= Len(SectionsIn(t)) THEN << >> ELSE h \o NewKeys(sec)
    BY <1>5, <1>17, Zenon
  <1> QED
    BY <1>18 DEF lns, sec, h

\* A new section is read back as it is on file.
LEMMA NewRead ==
    ASSUME NEW secs, Sections(secs), WellFormed(secs), NEW n \in Nat, n + 1 \in 1 .. Len(secs),
           NEW q, Holds(q, secs, n),
           NEW text, text = << Header(secs[n + 1].name, "program") >> \o NewKeys(secs[n + 1])
    PROVE  TidyFrom(q, text) /\ Holds(After(q, text), secs, n + 1)
  <1> DEFINE sec  == secs[n + 1]
             l    == Header(sec.name, "program")
             q1   == ReadLine(q, l)
             keys == NewKeys(sec)
             q2   == After(q1, keys)
  <1>1. Shaped(sec) /\ Typed(sec) /\ Len(secs) \in Nat /\ sec.name \notin Unnamed
    BY DEF Sections, WellFormed, Typed
  <1>2. /\ Sections(q.secs) /\ Len(q.secs) = n
        /\ \A i \in 1 .. n : q.secs[i] = OnFile(secs[i])
    BY DEF Holds
  <1>3. \A i \in 1 .. n : i \in 1 .. Len(secs) /\ Shaped(secs[i]) /\ Typed(secs[i])
    <2> SUFFICES ASSUME NEW i \in 1 .. n
                 PROVE  i \in 1 .. Len(secs) /\ Shaped(secs[i]) /\ Typed(secs[i])
      OBVIOUS
    <2>1. i \in 1 .. Len(secs)
      BY <1>1
    <2>2. Shaped(secs[i])
      BY <2>1 DEF Sections
    <2>3. Typed(secs[i])
      BY <2>1 DEF WellFormed, Typed
    <2> QED
      BY <2>1, <2>2, <2>3
  <1>4. \A i \in 1 .. n : q.secs[i].name = secs[i].name /\ q.secs[i].id = secs[i].id
    BY <1>2, <1>3, OnFileIs
  <1>5. \A i \in 1 .. n : secs[i].name # sec.name /\ ~ (secs[i].id # "" /\ secs[i].id = sec.name)
    <2> SUFFICES ASSUME NEW i \in 1 .. n
                 PROVE  secs[i].name # sec.name /\ ~ (secs[i].id # "" /\ secs[i].id = sec.name)
      OBVIOUS
    <2>1. i \in 1 .. Len(secs) /\ i # n + 1
      BY <1>3
    <2>2. secs[i].name # sec.name /\ (secs[i].id # "" => secs[i].id # sec.id)
      BY <2>1 DEF WellFormed
    <2>3. secs[i].id \in HexIds \cup {""} /\ (sec.name \in HexIds => sec.id = sec.name)
      BY <2>1 DEF WellFormed
    <2> QED
      BY <2>2, <2>3
  <1>6. findSection(q.secs, sec.name) = 0
    <2>1. \A i \in 1 .. Len(q.secs) : q.secs[i].name # sec.name /\ ~ (q.secs[i].id # "" /\ q.secs[i].id = sec.name)
      BY <1>2, <1>4, <1>5
    <2> DEFINE name == sec.name
    <2>2. Sections(q.secs)
      BY <1>2
    <2> HIDE DEF name, sec
    <2> QED
      BY <2>1, <2>2, FindSection DEF name
  <1>7. l.kind = "header" /\ l.val = sec.name
    BY DEF Header, Line
  <1>8. Opens(l) /\ Fits(q, l)
    <2>1. sec.name # "" /\ sec.name \notin Reserved
      BY <1>1 DEF Unnamed
    <2> HIDE DEF l
    <2> QED
      BY <1>6, <1>7, <2>1 DEF Opens, Fits
  <1>9. Listed(<< l >>) /\ Listed(keys)
    <2>1. \A key : Listed(Entry(sec, key))
      BY EntryIsOwn DEF OwnKeys, Own
    <2> QED
      BY <2>1, ListedConcat, ListedSmall DEF NewKeys
  <1> HIDE DEF l, sec, keys
  <1>10. /\ Sections(q1.secs) /\ Len(q1.secs) = n + 1 /\ q1.at = n + 1
         /\ q1.secs[n + 1] = NewSection(sec.name, FALSE)
         /\ \A i \in 1 .. n : q1.secs[i] = q.secs[i]
    <2>1. /\ Sections(q1.secs)
          /\ Len(q1.secs) = Len(q.secs) + 1
          /\ q1.at = Len(q.secs) + 1
          /\ q1.secs[Len(q.secs) + 1] = NewSection(l.val, FALSE)
          /\ \A i \in 1 .. Len(q.secs) : q1.secs[i] = q.secs[i]
      BY <1>2, <1>6, <1>7, <1>8, OpensRead
    <2> HIDE DEF q1
    <2> QED
      BY <1>2, <1>7, <2>1
  <1>11. After(q, << l >>) = q1 /\ TidyFrom(q, << l >>)
    BY <1>8, AfterSmall, TidyFromSmall
  <1> HIDE DEF q1
  <1>12. In(q1, NewSection(sec.name, FALSE))
    BY <1>10 DEF In
  <1>13. Edits(q1, keys, OnFile(sec))
    BY <1>1, <1>12, NewKeysRead DEF keys
  <1>14. /\ Sections(q2.secs) /\ Len(q2.secs) = Len(q1.secs)
         /\ \A i \in 1 .. Len(q1.secs) : i # q1.at => q2.secs[i] = q1.secs[i]
         /\ q2.secs[q1.at] = OnFile(sec) /\ TidyFrom(q1, keys)
    BY Zenon, <1>13 DEF Edits
  <1>15. text = << l >> \o keys
    BY DEF l, keys, sec
  <1>16. After(q, text) = q2
    <2>1. After(q, << l >> \o keys) = After(After(q, << l >>), keys)
      BY <1>9, AfterTwo
    <2> QED
      BY <1>11, <1>15, <2>1
  <1>17. TidyFrom(q, text)
    BY <1>9, <1>11, <1>14, <1>15, TidyFromTwo
  <1> HIDE DEF q2
  <1>18. ASSUME NEW i \in 1 .. n + 1 PROVE q2.secs[i] = OnFile(secs[i])
    <2>1. CASE i = n + 1
      BY <1>10, <1>14, <2>1 DEF sec
    <2>2. CASE i # n + 1
      <3>1. i \in 1 .. n /\ i \in 1 .. Len(q1.secs)
        BY <1>10, <2>2
      <3> QED
        BY <1>2, <1>10, <1>14, <2>2, <3>1
    <2> QED
      BY <2>1, <2>2
  <1>19. Holds(q2, secs, n + 1)
    BY <1>10, <1>14, <1>18 DEF Holds
  <1> QED
    BY <1>16, <1>17, <1>19

LEMMA SectionsInShaped ==
    ASSUME NEW t, Listed(t)
    PROVE  Sections(SectionsIn(t))
  <1>1. Len(t) \in 0 .. Len(t)
    BY DEF Listed
  <1> QED
    BY <1>1, SectionsRead DEF SectionsIn, Parsed

\* A text that is read as the first k of these sections, as they are on file.
Reaches(x, secs, k) ==
    /\ Listed(x) /\ TidyFrom(Begin, x)
    /\ Holds(After(Begin, x), secs, k)

LEMMA ReachesNext ==
    ASSUME NEW secs, Sections(secs), WellFormed(secs), NEW n \in Nat, n + 1 \in 1 .. Len(secs),
           NEW x, Reaches(x, secs, n),
           NEW text, text = << Header(secs[n + 1].name, "program") >> \o NewKeys(secs[n + 1])
    PROVE  Reaches(x \o text, secs, n + 1)
  <1> DEFINE q == After(Begin, x)
  <1>1. Listed(x) /\ TidyFrom(Begin, x) /\ Holds(q, secs, n)
    BY DEF Reaches
  <1>2. Listed(text)
    <2>1. \A key : Listed(Entry(secs[n + 1], key))
      BY EntryIsOwn DEF OwnKeys, Own
    <2>2. Listed(NewKeys(secs[n + 1]))
      BY <2>1, ListedConcat DEF NewKeys
    <2> HIDE DEF Listed
    <2> QED
      BY <2>2, ListedConcat, ListedSmall
  <1>3. Listed(x \o text)
    BY <1>1, <1>2, ListedConcat
  <1>4. After(Begin, x \o text) = After(q, text)
    BY <1>1, <1>2, AfterTwo
  <1>5. TidyFrom(q, text) /\ Holds(After(q, text), secs, n + 1)
    <2> HIDE DEF q
    <2> QED  BY <1>1, NewRead
  <1>6. TidyFrom(Begin, x \o text)
    BY <1>1, <1>2, <1>5, TidyFromTwo
  <1> QED
    BY <1>3, <1>4, <1>5, <1>6 DEF Reaches

\* The lines of the file that was read, written again.
LEMMA PiecesReach ==
    ASSUME NEW t, NEW secs, Grew(t, secs)
    PROVE  Reaches(FlattenSeq(Pieces(LinesOf(t), secs)), secs, Len(SectionsIn(t)))
  <1> DEFINE P == Pieces(LinesOf(t), secs)
             part == Flattened(P, Len(t))
             q == After(Begin, part)
  <1>1. Listed(t) /\ Listed(secs)
    BY DEF Grew, Sections, Listed
  <1>2. Listed(LinesOf(t)) /\ Len(LinesOf(t)) = Len(t)
    BY <1>1, LinesRead
  <1>3. Listed(P) /\ Len(P) = Len(t) /\ \A i \in 1 .. Len(P) : Listed(P[i])
    BY <1>1, <1>2, PiecesAre
  <1>4. Len(t) \in 0 .. Len(t)
    BY <1>1 DEF Listed
  <1>5. TidyFrom(Begin, part) /\ Mirrors(q, Reading(Begin, t)[Len(t)], t, Len(t), secs)
    BY <1>4, ImageMirrors
  <1>6. Listed(part) /\ FlattenSeq(P) = part
    <2> HIDE DEF P
    <2> QED  BY <1>3, <1>4, PiecesJoin
  <1>7. Holds(q, secs, Len(SectionsIn(t)))
    <2> HIDE DEF q
    <2> QED  BY <1>5, MirrorsEnd
  <1> HIDE DEF part, P
  <1>8. Reaches(part, secs, Len(SectionsIn(t)))
    BY <1>5, <1>6, <1>7 DEF Reaches
  <1> QED
    BY <1>6, <1>8 DEF P

\* And the sections that have no header there.
LEMMA ImageReaches ==
    ASSUME NEW t, NEW secs, Grew(t, secs)
    PROVE  Reaches(Image(LinesOf(t), secs), secs, Len(secs))
  <1> DEFINE lns == LinesOf(t)
             N == NewOnes(lns, secs)
             a == FlattenSeq(Pieces(lns, secs))
             K == Len(SectionsIn(t))
             F(n) == a \o Flattened(N, n)
             G == { n \in Nat : n <= Len(secs) => Reaches(F(n), secs, IF n <= K THEN K ELSE n) }
  <1>1. Listed(t) /\ Listed(secs) /\ Sections(secs) /\ WellFormed(secs) /\ Len(secs) \in Nat
    BY DEF Grew, Sections, Listed
  <1>2. K \in Nat /\ K <= Len(secs)
    <2>1. Sections(SectionsIn(t))
      BY <1>1, SectionsInShaped
    <2> QED
      BY <2>1 DEF Grew, Extends, Sections
  <1>3. Listed(lns)
    BY <1>1, LinesRead
  <1>4. /\ Listed(N) /\ Len(N) = Len(secs)
        /\ \A i \in 1 .. Len(secs) : N[i] = Appended(lns, secs[i]) /\ Listed(N[i])
        /\ Image(lns, secs) = a \o FlattenSeq(N)
    <2> HIDE DEF lns
    <2> QED  BY <1>1, <1>3, PiecesAre
  <1>5. \A i \in 1 .. Len(secs) :
            N[i] = IF i <= K THEN << >>
                   ELSE << Header(secs[i].name, "program") >> \o NewKeys(secs[i])
    BY <1>4, AppendedIs
  <1>6. Reaches(a, secs, K)
    BY PiecesReach
  <1> HIDE DEF N, a, lns, K
  <1>7. /\ Flattened(N, 0) = << >>
        /\ \A n \in 1 .. Len(secs) : Flattened(N, n) = Flattened(N, n - 1) \o N[n]
        /\ \A n \in 0 .. Len(secs) : Listed(Flattened(N, n))
        /\ FlattenSeq(N) = Flattened(N, Len(secs))
    BY <1>4, PiecesJoin
  <1>8. Listed(a)
    BY <1>6 DEF Reaches
  <1>9. 0 \in G
    <2>1. F(0) = a
      BY <1>7, <1>8, ListedEmptyConcat
    <2>2. (IF 0 <= K THEN K ELSE 0) = K
      BY <1>2
    <2> HIDE DEF F
    <2>3. Reaches(F(0), secs, IF 0 <= K THEN K ELSE 0)
      BY <1>6, <2>1, <2>2
    <2> QED
      BY <2>3
  <1>10. ASSUME NEW n \in Nat, n \in G PROVE n + 1 \in G
    <2> SUFFICES ASSUME n + 1 <= Len(secs)
                 PROVE  Reaches(F(n + 1), secs, IF n + 1 <= K THEN K ELSE n + 1)
      OBVIOUS
    <2>1. n + 1 \in 1 .. Len(secs) /\ (n + 1) - 1 = n /\ n \in 0 .. Len(secs) /\ n <= Len(secs)
      BY <1>1
    <2>2. Reaches(F(n), secs, IF n <= K THEN K ELSE n)
      BY <1>10, <2>1
    <2>3. F(n + 1) = F(n) \o N[n + 1]
      <3> DEFINE fn == Flattened(N, n)
                 new == N[n + 1]
      <3>1. Flattened(N, n + 1) = fn \o new /\ Listed(fn) /\ Listed(new)
        BY <1>4, <1>7, <2>1
      <3> HIDE DEF fn, new
      <3>2. a \o (fn \o new) = (a \o fn) \o new
        BY <1>8, <3>1, ListedConcatAssociative
      <3> QED
        BY <3>1, <3>2, Zenon DEF fn, new
    <2> HIDE DEF F
    <2>4. CASE n + 1 <= K
      <3>1. N[n + 1] = << >> /\ n <= K
        <4>1. n <= K
          BY <1>2, <2>4
        <4>2. N[n + 1] = IF n + 1 <= K THEN << >>
                         ELSE << Header(secs[n + 1].name, "program") >> \o NewKeys(secs[n + 1])
          BY <1>5, <2>1, Zenon
        <4> QED
          BY <2>4, <4>1, <4>2, Zenon
      <3>2. F(n + 1) = F(n)
        BY <2>2, <2>3, <3>1, ListedEmptyConcat DEF Reaches
      <3> QED
        BY <2>2, <2>4, <3>1, <3>2
    <2>5. CASE ~ (n + 1 <= K)
      <3>1. N[n + 1] = << Header(secs[n + 1].name, "program") >> \o NewKeys(secs[n + 1])
        BY <1>5, <2>1, <2>5
      <3>2. (IF n <= K THEN K ELSE n) = n
        BY <1>2, <2>5
      <3>3. Reaches(F(n), secs, n)
        BY <2>2, <3>2
      <3>4. Reaches(F(n) \o N[n + 1], secs, n + 1)
        BY <1>1, <2>1, <3>1, <3>3, ReachesNext
      <3> QED
        BY <2>3, <2>5, <3>4
    <2> QED
      BY <2>4, <2>5
  <1>11. Nat \subseteq G
    <2> HIDE DEF G
    <2> QED  BY <1>9, <1>10, Induction
  <1>12. Reaches(F(Len(secs)), secs, Len(secs))
    <2>1. Len(secs) \in G
      BY <1>1, <1>11
    <2>2. (IF Len(secs) <= K THEN K ELSE Len(secs)) = Len(secs)
      BY <1>1, <1>2
    <2> HIDE DEF F
    <2>3. Reaches(F(Len(secs)), secs, IF Len(secs) <= K THEN K ELSE Len(secs))
      BY <1>1, <2>1
    <2> QED
      BY <2>2, <2>3
  <1> QED
    BY <1>4, <1>7, <1>12 DEF lns

\* Durable(): each section, as it is on file.
LEMMA DurableIs ==
    ASSUME NEW secs, Sections(secs)
    PROVE  /\ Listed(Durable(secs)) /\ Len(Durable(secs)) = Len(secs)
           /\ \A i \in 1 .. Len(secs) : Durable(secs)[i] = OnFile(secs[i])
  <1> DEFINE S == [i \in DOMAIN secs |-> << OnFile(secs[i]) >>]
             F(n) == Flattened(S, n)
             G == { n \in Nat : n <= Len(secs) =>
                       /\ Len(F(n)) = n
                       /\ \A i \in 1 .. n : F(n)[i] = OnFile(secs[i]) }
  <1>1. Listed(secs) /\ DOMAIN secs = 1 .. Len(secs) /\ Len(secs) \in Nat
    <2>1. Listed(secs)
      BY DEF Sections, Listed
    <2> QED
      BY <2>1, ListedFunction DEF Listed
  <1>2. /\ S = [i \in 1 .. Len(secs) |-> S[i]]
        /\ \A i \in 1 .. Len(secs) : S[i] = << OnFile(secs[i]) >>
    BY <1>1
  <1>3. Durable(secs) = FlattenSeq(S)
    BY DEF Durable
  <1> HIDE DEF S
  <1>4. Listed(S) /\ Len(S) = Len(secs)
    BY <1>1, <1>2, ListedFunction
  <1>5. \A i \in 1 .. Len(S) : Listed(S[i]) /\ Len(S[i]) = 1 /\ S[i][1] = OnFile(secs[i])
    BY <1>2, <1>4, ListedSmall
  <1>6. /\ F(0) = << >>
        /\ \A n \in 1 .. Len(secs) : F(n) = F(n - 1) \o S[n]
        /\ \A n \in 0 .. Len(secs) : Listed(F(n))
        /\ FlattenSeq(S) = F(Len(secs))
    BY <1>4, <1>5, PiecesJoin
  <1> HIDE DEF F
  <1>7. 0 \in G
    BY <1>6, ListedSmall
  <1>8. ASSUME NEW n \in Nat, n \in G PROVE n + 1 \in G
    <2> SUFFICES ASSUME n + 1 <= Len(secs)
                 PROVE  /\ Len(F(n + 1)) = n + 1
                        /\ \A i \in 1 .. n + 1 : F(n + 1)[i] = OnFile(secs[i])
      OBVIOUS
    <2> DEFINE fn  == F(n)
               new == S[n + 1]
               all == F(n + 1)
    <2>1. n + 1 \in 1 .. Len(secs) /\ (n + 1) - 1 = n /\ n \in 0 .. Len(secs) /\ n <= Len(secs)
      BY <1>1
    <2>2. Listed(fn) /\ Len(fn) = n /\ \A i \in 1 .. n : fn[i] = OnFile(secs[i])
      BY <1>6, <1>8, <2>1
    <2>3. Listed(new) /\ Len(new) = 1 /\ new[1] = OnFile(secs[n + 1])
      BY <1>4, <1>5, <2>1
    <2>4. all = fn \o new
      BY <1>6, <2>1
    <2> HIDE DEF fn, new, all, G
    <2>8. Listed(fn) /\ Listed(new)
      BY <2>2, <2>3
    <2>5. /\ Len(all) = Len(fn) + Len(new)
          /\ \A i \in 1 .. Len(fn) : all[i] = fn[i]
          /\ \A i \in 1 .. Len(new) : all[Len(fn) + i] = new[i]
      <3>1. /\ Len(fn \o new) = Len(fn) + Len(new)
            /\ \A i \in 1 .. Len(fn) : (fn \o new)[i] = fn[i]
            /\ \A i \in 1 .. Len(new) : (fn \o new)[Len(fn) + i] = new[i]
        BY <2>8, ListedConcat
      <3> QED
        BY <2>4, <3>1
    <2>6. all[n + 1] = OnFile(secs[n + 1])
      BY <2>2, <2>3, <2>5
    <2>7. Len(all) = n + 1 /\ \A i \in 1 .. n + 1 : all[i] = OnFile(secs[i])
      BY <2>2, <2>3, <2>5, <2>6
    <2> QED
      BY <2>7 DEF all
  <1>9. Nat \subseteq G
    <2> HIDE DEF G
    <2> QED  BY <1>7, <1>8, Induction
  <1>10. Len(secs) \in G /\ Len(secs) \in 0 .. Len(secs)
    BY <1>1, <1>9
  <1> QED
    BY <1>1, <1>3, <1>6, <1>10

\* On file, sections keep their names, their ids and their MACs.
LEMMA OnFileKeeps ==
    ASSUME NEW secs, Sections(secs), WellFormed(secs), Apart(secs),
           NEW filed, Sections(filed), Len(filed) = Len(secs),
           \A i \in 1 .. Len(secs) : filed[i] = OnFile(secs[i])
    PROVE  WellFormed(filed) /\ Apart(filed) /\ \A i \in 1 .. Len(filed) : AsFiled(filed[i])
  <1>1. \A i \in 1 .. Len(secs) :
           /\ filed[i].name = secs[i].name /\ filed[i].id = secs[i].id
           /\ filed[i].mac = secs[i].mac /\ filed[i].auto = secs[i].auto
           /\ filed[i].renamed = secs[i].renamed /\ AsFiled(filed[i])
    <2> SUFFICES ASSUME NEW i \in 1 .. Len(secs)
                 PROVE  /\ filed[i].name = secs[i].name /\ filed[i].id = secs[i].id
                        /\ filed[i].mac = secs[i].mac /\ filed[i].auto = secs[i].auto
                        /\ filed[i].renamed = secs[i].renamed /\ AsFiled(filed[i])
      OBVIOUS
    <2>1. Shaped(secs[i])
      BY DEF Sections
    <2>2. Typed(secs[i])
      BY DEF WellFormed, Typed
    <2> QED
      BY <2>1, <2>2, OnFileIs
  <1>2. WellFormed(filed)
    <2>1. \A i \in 1 .. Len(secs) :
             /\ secs[i].name \notin Unnamed /\ secs[i].id \in HexIds \cup {""}
             /\ secs[i].name \in HexIds => secs[i].id = secs[i].name
             /\ secs[i].renamed \in BOOLEAN /\ secs[i].auto \in BOOLEAN
      BY DEF WellFormed
    <2>2. \A i, j \in 1 .. Len(secs) :
             i # j => secs[i].name # secs[j].name /\ (secs[i].id # "" => secs[i].id # secs[j].id)
      BY DEF WellFormed
    <2>3. \A i \in 1 .. Len(filed) :
             /\ filed[i].name \notin Unnamed /\ filed[i].id \in HexIds \cup {""}
             /\ filed[i].name \in HexIds => filed[i].id = filed[i].name
             /\ filed[i].renamed \in BOOLEAN /\ filed[i].auto \in BOOLEAN
      BY <1>1, <2>1
    <2>4. \A i, j \in 1 .. Len(filed) :
             i # j => filed[i].name # filed[j].name /\ (filed[i].id # "" => filed[i].id # filed[j].id)
      <3> SUFFICES ASSUME NEW i \in 1 .. Len(filed), NEW j \in 1 .. Len(filed), i # j
                   PROVE  filed[i].name # filed[j].name /\ (filed[i].id # "" => filed[i].id # filed[j].id)
        OBVIOUS
      <3>1. i \in 1 .. Len(secs) /\ j \in 1 .. Len(secs)
        OBVIOUS
      <3>2. /\ filed[i].name = secs[i].name /\ filed[i].id = secs[i].id
            /\ filed[j].name = secs[j].name /\ filed[j].id = secs[j].id
        BY <1>1, <3>1
      <3>3. secs[i].name # secs[j].name /\ (secs[i].id # "" => secs[i].id # secs[j].id)
        BY <2>2, <3>1
      <3> QED
        BY <3>2, <3>3
    <2> QED
      BY <2>3, <2>4 DEF WellFormed
  <1>3. Apart(filed)
    BY <1>1 DEF Apart, Unrepeated
  <1> QED
    BY <1>1, <1>2, <1>3

\* The image is read as the sections a save means to write.
LEMMA ImageSections ==
    ASSUME NEW t, NEW secs, Grew(t, secs), Apart(secs)
    PROVE  LET image == Image(LinesOf(t), secs)
           IN  /\ Tidy(image) /\ SectionsIn(image) = Durable(secs)
               /\ WellFormed(SectionsIn(image)) /\ Apart(SectionsIn(image))
  <1> DEFINE image == Image(LinesOf(t), secs)
             filed == SectionsIn(image)
  <1>1. Sections(secs) /\ WellFormed(secs)
    BY DEF Grew
  <1>2. Reaches(image, secs, Len(secs))
    BY ImageReaches
  <1> HIDE DEF image
  <1>3. TidyFrom(Begin, image) /\ Holds(After(Begin, image), secs, Len(secs))
    BY <1>2 DEF Reaches
  <1>4. filed = After(Begin, image).secs
    BY DEF SectionsIn, Parsed, After
  <1>5. Tidy(image)
    BY <1>3 DEF Tidy, TidyFrom
  <1> HIDE DEF filed
  <1>6. Sections(filed) /\ Len(filed) = Len(secs) /\ \A i \in 1 .. Len(secs) : filed[i] = OnFile(secs[i])
    BY <1>3, <1>4 DEF Holds
  <1>7. filed = Durable(secs)
    <2> DEFINE saved == Durable(secs)
    <2>1. Listed(saved) /\ Len(saved) = Len(secs) /\ \A i \in 1 .. Len(secs) : saved[i] = OnFile(secs[i])
      BY <1>1, DurableIs
    <2> HIDE DEF saved
    <2>2. filed = [i \in 1 .. Len(secs) |-> filed[i]] /\ saved = [i \in 1 .. Len(secs) |-> saved[i]]
      BY <1>6, <2>1 DEF Sections, Listed
    <2>3. \A i \in 1 .. Len(secs) : filed[i] = saved[i]
      BY <1>6, <2>1
    <2>4. filed = saved
      BY <2>2, <2>3
    <2> QED
      BY <2>4 DEF saved
  <1>8. WellFormed(filed) /\ Apart(filed)
    BY <1>1, <1>6, OnFileKeeps
  <1> QED
    BY <1>5, <1>7, <1>8 DEF image, filed

\* In a tidy file every section is as a save would leave it.
LEMMA TidyIsFiled ==
    ASSUME NEW t, Listed(t), Tidy(t)
    PROVE  \A i \in 1 .. Len(SectionsIn(t)) : AsFiled(SectionsIn(t)[i])
  <1>1. Len(t) \in 0 .. Len(t)
    BY DEF Listed
  <1>2. Neat(Reading(Begin, t)[Len(t)], HeadersOf(t, Len(t)), AutosOf(t, Len(t)))
    BY <1>1, TidyNeat
  <1> QED
    BY <1>2 DEF Neat, SectionsIn, Parsed

-----------------------------------------------------------------------------
(* The files a program leaves that never read one.                          *)

\* No player's header, and nothing a save looks for.
Impersonal(l) ==
    \/ l.kind = "header" /\ l.val \in Reserved
    \/ l.kind = "key" /\ l.key \notin Managed \cup {"auto"}

LEMMA ImpersonalRead ==
    ASSUME NEW t, Listed(t), \A i \in 1 .. Len(t) : Impersonal(t[i])
    PROVE  Tidy(t) /\ SectionsIn(t) = << >>
  <1> DEFINE f == Reading(Begin, t)
             None(r) == r.secs = << >> /\ r.at = 0
             G == { n \in Nat : n <= Len(t) => None(f[n]) }
  <1>1. f[0] = Begin /\ \A n \in 1 .. Len(t) : f[n] = ReadLine(f[n - 1], t[n])
    BY ReadingIs
  <1>2. Len(t) \in Nat
    BY DEF Listed
  <1> HIDE DEF f
  <1>3. 0 \in G
    <2>1. Begin.secs = << >> /\ Begin.at = 0
      BY DEF Begin
    <2> QED
      BY <1>1, <2>1
  <1>4. ASSUME NEW n \in Nat, n \in G PROVE n + 1 \in G
    <2> SUFFICES ASSUME n + 1 <= Len(t) PROVE None(f[n + 1])
      OBVIOUS
    <2> DEFINE r == f[n]
               l == t[n + 1]
    <2>1. n + 1 \in 1 .. Len(t) /\ (n + 1) - 1 = n /\ None(r)
      BY <1>2, <1>4
    <2>2. f[n + 1] = ReadLine(r, l) /\ Impersonal(l)
      BY <1>1, <2>1
    <2> HIDE DEF r, l
    <2>3. ~Opens(l) /\ ~Changes(r, l)
      BY <2>1, <2>2 DEF Opens, Changes, Impersonal
    <2>4. /\ ReadLine(r, l).secs = r.secs
          /\ ReadLine(r, l).at = (IF l.kind \in {"header", "unknown"} THEN 0 ELSE r.at)
      BY <2>3, OthersRead
    <2> QED
      BY <2>1, <2>2, <2>4
  <1>5. Nat \subseteq G
    <2> HIDE DEF G
    <2> QED  BY <1>3, <1>4, Induction
  <1>6. SectionsIn(t) = << >>
    BY <1>2, <1>5 DEF SectionsIn, Parsed, f
  <1>7. ASSUME NEW i \in 1 .. Len(t) PROVE Fits(f[i - 1], t[i])
    <2>1. Impersonal(t[i])
      OBVIOUS
    <2>2. "" \notin Reserved
      BY DEF Reserved
    <2> QED
      BY <2>1, <2>2 DEF Impersonal, Fits
  <1> QED
    BY <1>6, <1>7 DEF Tidy, f

LEMMA TemplateRead ==
    \A t \in Partial \cup {Template} : Tidy(t) /\ SectionsIn(t) = << >>
  <1>1. /\ Impersonal(Header("global", "program")) /\ Impersonal(Header("default", "program"))
        /\ Impersonal(Line("key", "discovery", "ok", "program"))
        /\ Impersonal(Line("key", "protocol", "ok", "program"))
    BY DEF Impersonal, Header, Line, Reserved, Managed
  <1>2. Impersonal(BadLine("protocol", "program"))
    <2>1. BadLine("protocol", "program").kind = "key" /\ BadLine("protocol", "program").key = "protocol"
      BY DEF BadLine, Line
    <2> QED
      BY <2>1 DEF Impersonal, Managed
  <1>3. ASSUME NEW t \in Partial \cup {Template}
        PROVE  Listed(t) /\ \A i \in 1 .. Len(t) : Impersonal(t[i])
    <2>1. Listed(t)
      BY SmallFiles
    <2>2. CASE t = << >>
      BY <2>2, ListedSmall
    <2>3. CASE t = << Header("default", "program"), BadLine("protocol", "program") >>
      <3>1. Len(t) = 2 /\ t[1] = Header("default", "program") /\ t[2] = BadLine("protocol", "program")
        BY <2>3
      <3> QED
        BY <1>1, <1>2, <2>1, <3>1
    <2>4. CASE t = Template
      <3>1. /\ Len(t) = 4 /\ t[1] = Header("global", "program")
            /\ t[2] = Line("key", "discovery", "ok", "program")
            /\ t[3] = Header("default", "program")
            /\ t[4] = Line("key", "protocol", "ok", "program")
        BY <2>4 DEF Template
      <3> QED
        BY <1>1, <2>1, <3>1
    <2> QED
      BY <2>2, <2>3, <2>4 DEF Partial
  <1> QED
    BY <1>3, ImpersonalRead

LEMMA NothingFiled ==
    /\ WellFormed(<< >>) /\ Apart(<< >>)
    /\ ~Readable(Missing) /\ ~Readable(Torn)
  <1>1. WellFormed(<< >>) /\ Apart(<< >>)
    BY DEF WellFormed, Apart, Unrepeated
  <1>2. ~Readable(Missing)
    BY DEF Readable, Missing
  <1>3. ~Readable(Torn)
    <2> DEFINE l == Line("torn", "", "", "program")
    <2>1. l.kind = "torn"
      BY DEF Line
    <2> HIDE DEF l
    <2>2. ~ReadLine(Begin, l).ok
      BY <2>1 DEF ReadLine
    <2>3. Torn.text = << l >>
      BY DEF Torn, File, l
    <2>4. Parsed(<< l >>) = After(Begin, << l >>)
      BY DEF Parsed, After
    <2>5. Parsed(<< l >>) = ReadLine(Begin, l)
      BY <2>4, AfterSmall
    <2> QED
      BY <2>2, <2>3, <2>5 DEF Readable, ParseOK
  <1> QED
    BY <1>1, <1>2, <1>3

-----------------------------------------------------------------------------
(* The sections in memory follow those on file, step by step.               *)

LEMMA ExtendsOn ==
    ASSUME NEW a, Len(a) \in Nat, NEW b, Len(b) \in Nat, NEW c, Len(c) \in Nat,
           Extends(a, b), Extends(b, c)
    PROVE  Extends(a, c)
  BY DEF Extends

\* An operation that keeps the sections' names and ids.
LEMMA LinkedKeeps ==
    ASSUME FileInv, Linked, proc = "up", Ready(sections'), WellFormed(sections'),
           Apart(sections'), Extends(sections, sections'), UNCHANGED lines
    PROVE  Linked'
  <1>1. PICK t : Whole(t) /\ Tidy(t) /\ lines = LinesOf(t) /\ Extends(SectionsIn(t), sections)
    BY DEF Linked
  <1>2. Len(SectionsIn(t)) \in Nat
    <2>1. Sections(SectionsIn(t))
      BY <1>1, SectionsInShaped DEF Whole
    <2> QED
      BY <2>1 DEF Sections
  <1>3. Len(sections) \in Nat /\ Len(sections') \in Nat
    BY DEF FileInv, Running, Ready, Sections
  <1>4. Extends(SectionsIn(t), sections')
    BY <1>1, <1>2, <1>3, ExtendsOn
  <1> QED
    BY <1>1, <1>4 DEF Linked

\* The file, and what is known of it, stay.
LEMMA OnDiskStays ==
    ASSUME OnDisk, UNCHANGED << disk, older >>, proc' # "template"
    PROVE  OnDisk'
  BY DEF OnDisk

LEMMA NobodyWaits ==
    ASSUME starting' = << >>
    PROVE  Waiting'
  BY ListedSmall DEF Waiting

\* Before a file is read and after the program is gone.
LEMMA DownKeeps ==
    ASSUME proc' # "up", starting' = << >>
    PROVE  Linked' /\ Waiting'
  BY NobodyWaits DEF Linked

\* A file with nothing of value.
LEMMA EmptyIsFiled ==
    /\ Filed(Missing) /\ Filed(Torn)
    /\ \A part \in Partial \cup {Template} : Filed(File(part))
  <1>1. Filed(Missing)
    BY NothingFiled DEF Filed
  <1>2. Filed(Torn)
    BY NothingFiled DEF Filed, Torn, File
  <1>3. ASSUME NEW part \in Partial \cup {Template} PROVE Filed(File(part))
    <2>1. File(part).there /\ File(part).text = part
      BY DEF File
    <2> QED
      BY <2>1, TemplateRead, NothingFiled DEF Filed
  <1> QED
    BY <1>1, <1>2, <1>3

\* The static players of what is read.
LEMMA LoadLinks ==
    ASSUME NEW t, Whole(t), Tidy(t), WellFormed(SectionsIn(t)), Apart(SectionsIn(t)),
           NEW new, new = AssignAll(SectionsIn(t))
    PROVE  /\ WellFormed(new) /\ Apart(new) /\ Extends(SectionsIn(t), new)
           /\ Listed(staticPlayers(new))
           /\ \A k \in 1 .. Len(staticPlayers(new)) : Waits(staticPlayers(new)[k], new)
           /\ \A k, l \in 1 .. Len(staticPlayers(new)) :
                k # l => staticPlayers(new)[k].id # staticPlayers(new)[l].id
  <1> DEFINE read == SectionsIn(t)
  <1>1. Listed(t) /\ Sections(read) /\ \A i \in 1 .. Len(read) : AsFiled(read[i])
    BY SectionsInShaped, TidyIsFiled DEF Whole
  <1> HIDE DEF read
  <1>2. WellFormed(new) /\ Extends(read, new) /\ \A i \in 1 .. Len(new) : AsFiled(new[i])
    BY <1>1, AssignAllKeeps DEF read
  <1>3. Sections(new) /\ Len(new) = Len(read) /\ (Len(read) <= 256 /\ Unrepeated(read) => Unrepeated(new))
    BY <1>1, AssignAllFinishes DEF read, SameButMacs
  <1>4. Apart(new)
    BY <1>3 DEF Apart, read
  <1>5. /\ Listed(staticPlayers(new))
        /\ \A k \in 1 .. Len(staticPlayers(new)) : Waits(staticPlayers(new)[k], new)
        /\ \A k, l \in 1 .. Len(staticPlayers(new)) :
             k # l => staticPlayers(new)[k].id # staticPlayers(new)[l].id
    BY <1>2, <1>3, StaticPlayersAre
  <1> QED
    BY <1>2, <1>4, <1>5 DEF read

LEMMA ListedTail ==
    ASSUME NEW s, Listed(s), s # << >>
    PROVE  /\ Head(s) = s[1] /\ 1 \in 1 .. Len(s)
           /\ Listed(Tail(s)) /\ Len(Tail(s)) = Len(s) - 1
           /\ \A k \in 1 .. Len(Tail(s)) : k + 1 \in 1 .. Len(s) /\ Tail(s)[k] = s[k + 1]
  <1> DEFINE S == { s[i] : i \in 1 .. Len(s) }
             u == Tail(s)
  <1>1. s \in Seq(S) /\ Len(s) \in Nat
    BY DEF Listed
  <1> HIDE DEF S
  <1>2. Len(s) # 0
    BY <1>1
  <1>3. Head(s) = s[1] /\ 1 \in 1 .. Len(s)
    BY <1>1, <1>2
  <1>4. u \in Seq(S) /\ Len(u) = Len(s) - 1 /\ \A k \in 1 .. Len(u) : u[k] = s[k + 1]
    BY <1>1, <1>2
  <1> HIDE DEF u
  <1>5. Listed(u)
    BY <1>4, ListedIsSeq
  <1>6. \A k \in 1 .. Len(u) : k + 1 \in 1 .. Len(s)
    BY <1>1, <1>2, <1>4
  <1> QED
    BY <1>3, <1>4, <1>5, <1>6 DEF u

\* runBridge() starts a player the user wrote.
LEMMA StaticKeeps ==
    ASSUME FileInv, Linked, Waiting, NEW auto \in BOOLEAN, StartStatic(auto)
    PROVE  /\ Linked' /\ Waiting'
           /\ \E i \in 1 .. Len(sections) : sections' = resolve(sections, StaticDevice(sections[i]), auto)
  <1> DEFINE dev  == Head(starting)
             rest == Tail(starting)
  <1>1. /\ starting # << >> /\ starting' = rest /\ proc = "up"
        /\ sections' = resolve(sections, dev, auto) /\ UNCHANGED << lines, proc >>
    BY Zenon DEF StartStatic, Resolve, Free
  <1>2. Ready(sections) /\ WellFormed(sections) /\ Apart(sections) /\ Sections(sections)
    BY <1>1 DEF FileInv, Running, Linked, Ready
  <1>3. /\ Listed(starting)
        /\ \A k \in 1 .. Len(starting) : Waits(starting[k], sections)
        /\ \A k, l \in 1 .. Len(starting) : k # l => starting[k].id # starting[l].id
    BY DEF Waiting
  <1>4. /\ dev = starting[1] /\ 1 \in 1 .. Len(starting)
        /\ Listed(rest) /\ Len(rest) = Len(starting) - 1
        /\ \A k \in 1 .. Len(rest) : k + 1 \in 1 .. Len(starting) /\ rest[k] = starting[k + 1]
    BY <1>1, <1>3, ListedTail
  <1>5. PICK m \in 1 .. Len(sections) : dev = StaticDevice(sections[m])
    BY <1>3, <1>4 DEF Waits
  <1> HIDE DEF dev, rest
  <1> DEFINE new == resolve(sections, dev, auto)
  <1>6. /\ WellFormed(new) /\ Extends(sections, new)
        /\ \A k \in 1 .. Len(sections) : k # m /\ AsFiled(sections[k]) => new[k] = sections[k]
    BY <1>2, <1>5, ResolveStatic
  <1>7. Ready(new) /\ Len(sections) <= Len(new) /\ Apart(new)
    BY <1>2, ResolveKeeps
  <1> HIDE DEF new
  <1>8. sections' = new
    BY <1>1 DEF new
  <1>9. Linked'
    BY <1>1, <1>6, <1>7, <1>8, LinkedKeeps
  <1>10. dev.id = KeyOf(sections[m])
    BY <1>5 DEF StaticDevice
  <1>11. ASSUME NEW k \in 1 .. Len(rest) PROVE Waits(rest[k], new)
    <2>1. k + 1 \in 1 .. Len(starting) /\ k + 1 # 1 /\ rest[k] = starting[k + 1]
      BY <1>4
    <2>2. rest[k].id # dev.id /\ Waits(rest[k], sections)
      BY <1>3, <1>4, <2>1
    <2>3. Len(new) \in Nat
      BY <1>7 DEF Ready, Sections
    <2> QED
      BY <1>2, <1>6, <1>7, <1>10, <2>2, <2>3, WaitsKeeps
  <1>12. ASSUME NEW k \in 1 .. Len(rest), NEW l \in 1 .. Len(rest), k # l
         PROVE  rest[k].id # rest[l].id
    <2>1. /\ k + 1 \in 1 .. Len(starting) /\ l + 1 \in 1 .. Len(starting) /\ k + 1 # l + 1
          /\ rest[k] = starting[k + 1] /\ rest[l] = starting[l + 1]
      BY <1>4, <1>12
    <2> QED
      BY <1>3, <2>1
  <1>13. Waiting'
    BY <1>1, <1>4, <1>8, <1>11, <1>12 DEF Waiting
  <1> QED
    BY <1>1, <1>5, <1>9, <1>13

\* A receiver is announced, or reported gone.
LEMMA DiscoverKeeps ==
    ASSUME FileInv, Linked, Waiting, NEW dev \in Devices, NEW auto \in BOOLEAN, Discover(dev, auto)
    PROVE  Linked' /\ Waiting' /\ sections' = resolve(sections, dev, auto)
  <1>1. /\ starting = << >> /\ starting' = << >> /\ proc = "up"
        /\ sections' = resolve(sections, dev, auto) /\ UNCHANGED << lines, proc >>
    BY Zenon DEF Discover, Resolve, Free
  <1>2. Ready(sections) /\ WellFormed(sections) /\ Apart(sections)
    BY <1>1 DEF FileInv, Running, Linked
  <1>3. Announced(dev)
    BY DevicesAssumption DEF Announced
  <1> DEFINE new == resolve(sections, dev, auto)
  <1>4. WellFormed(new) /\ Extends(sections, new)
    BY <1>2, <1>3, ResolveAnnounced
  <1>5. Ready(new) /\ Apart(new)
    BY <1>2, ResolveKeeps
  <1> HIDE DEF new
  <1>6. sections' = new
    BY <1>1 DEF new
  <1>7. Linked'
    BY <1>1, <1>4, <1>5, <1>6, LinkedKeeps
  <1> QED
    BY <1>1, <1>7, NobodyWaits

\* A change to the section of a player that runs.
LEMMA TouchKeeps ==
    ASSUME FileInv, Linked, Waiting, proc = "up", NEW m \in 1 .. Len(sections),
           KeyOf(sections[m]) \notin { starting[i].id : i \in DOMAIN starting },
           Touched(sections, m, sections'), Ready(sections'), SameMacs(sections, sections'),
           UNCHANGED << lines, starting >>
    PROVE  Linked' /\ Waiting'
  <1>1. Ready(sections) /\ WellFormed(sections) /\ Apart(sections) /\ Sections(sections)
    BY DEF FileInv, Running, Linked, Ready
  <1>2. WellFormed(sections') /\ Extends(sections, sections')
    BY <1>1, TouchedKeeps
  <1>3. Apart(sections')
    BY <1>1 DEF Apart, SameMacs, Unrepeated
  <1>4. Linked'
    BY <1>1, <1>2, <1>3, LinkedKeeps
  <1>5. ASSUME NEW k \in 1 .. Len(starting) PROVE Waits(starting[k], sections')
    <2>1. Waits(starting[k], sections) /\ k \in DOMAIN starting
      BY ListedFunction DEF Waiting
    <2>2. starting[k].id # KeyOf(sections[m])
      BY <2>1
    <2>3. /\ Len(sections') \in Nat /\ Len(sections) <= Len(sections')
          /\ \A i \in 1 .. Len(sections) : i # m /\ AsFiled(sections[i]) => sections'[i] = sections[i]
      BY <1>1 DEF Touched, Sections
    <2> QED
      BY <1>1, <2>1, <2>2, <2>3, WaitsKeeps
  <1>6. Waiting'
    BY <1>5 DEF Waiting
  <1> QED
    BY <1>4, <1>6

\* The key of a player that was started, and the section it names.
LEMMA KeyIs ==
    ASSUME FileInv, proc = "up", NEW key \in Keys
    PROVE  \E m \in 1 .. Len(sections) :
              key = KeyOf(sections[m]) /\ key \notin { starting[i].id : i \in DOMAIN starting }
  <1>1. DOMAIN sections = 1 .. Len(sections)
    BY DEF FileInv, Running, Ready, Sections
  <1> QED
    BY <1>1 DEF Keys

LEMMA CredsLink ==
    ASSUME FileInv, Linked, Waiting, NEW key \in Keys, NEW creds, SaveCreds(key, creds)
    PROVE  Linked' /\ Waiting'
  <1>1. /\ proc = "up" /\ sections' = WithCreds(sections, key, creds)
        /\ UNCHANGED << lines, starting >>
    BY DEF SaveCreds, Free
  <1>2. Ready(sections) /\ WellFormed(sections)
    BY <1>1 DEF FileInv, Running, Linked
  <1>3. PICK m \in 1 .. Len(sections) :
           key = KeyOf(sections[m]) /\ key \notin { starting[i].id : i \in DOMAIN starting }
    BY <1>1, KeyIs
  <1> DEFINE new == WithCreds(sections, key, creds)
  <1>4. Ready(new) /\ SameMacs(sections, new)
    BY <1>2, CredsKeep
  <1>5. Touched(sections, m, new)
    BY <1>2, <1>3, CredsTouch
  <1> HIDE DEF new
  <1>6. sections' = new
    BY <1>1 DEF new
  <1> QED
    BY <1>1, <1>3, <1>4, <1>5, <1>6, TouchKeeps

LEMMA NameLinks ==
    ASSUME FileInv, Linked, Waiting, NEW key \in Keys, NEW name, SavePlayerName(key, name)
    PROVE  Linked' /\ Waiting'
  <1>1. /\ proc = "up" /\ sections' = WithName(sections, key, name)
        /\ sections # WithName(sections, key, name) /\ UNCHANGED << lines, starting >>
    BY DEF SavePlayerName, Free
  <1>2. Ready(sections) /\ WellFormed(sections)
    BY <1>1 DEF FileInv, Running, Linked
  <1>3. PICK m \in 1 .. Len(sections) :
           key = KeyOf(sections[m]) /\ key \notin { starting[i].id : i \in DOMAIN starting }
    BY <1>1, KeyIs
  <1> DEFINE new == WithName(sections, key, name)
  <1>4. Ready(new) /\ SameMacs(sections, new)
    BY <1>2, NameKeeps
  <1>5. Touched(sections, m, new)
    BY <1>1, <1>2, <1>3, NameTouch
  <1> HIDE DEF new
  <1>6. sections' = new
    BY <1>1 DEF new
  <1> QED
    BY <1>1, <1>3, <1>4, <1>5, <1>6, TouchKeeps

\* A start that accepts the file.
LEMMA LoadKeeps ==
    ASSUME FileInv, OnDisk, Load, ParseOK(disk.text)
    PROVE  Linked' /\ Waiting' /\ sections' = AssignAll(SectionsIn(disk.text)) /\ proc' = "up"
  <1> DEFINE t   == disk.text
             new == AssignAll(SectionsIn(t))
  <1>1. /\ disk.there /\ sections' = new /\ lines' = LinesOf(t) /\ proc' = "up"
        /\ starting' = staticPlayers(new)
    BY Zenon DEF Load
  <1>2. Tidy(t) /\ WellFormed(SectionsIn(t)) /\ Apart(SectionsIn(t))
    BY <1>1 DEF OnDisk, Filed, Readable
  <1>3. Whole(t)
    <2>1. Listed(t) /\ FileOK(disk)
      BY DEF FileInv, TypeOK, Kept
    <2> QED
      BY <2>1, ListedFunction DEF Whole, FileOK
  <1> HIDE DEF new
  <1>4. /\ WellFormed(new) /\ Apart(new) /\ Extends(SectionsIn(t), new)
        /\ Listed(staticPlayers(new))
        /\ \A k \in 1 .. Len(staticPlayers(new)) : Waits(staticPlayers(new)[k], new)
        /\ \A k, l \in 1 .. Len(staticPlayers(new)) :
             k # l => staticPlayers(new)[k].id # staticPlayers(new)[l].id
    BY <1>2, <1>3, LoadLinks DEF new
  <1>5. Linked'
    BY <1>1, <1>2, <1>3, <1>4 DEF Linked
  <1>6. Waiting'
    BY <1>1, <1>4 DEF Waiting
  <1> QED
    BY <1>1, <1>5, <1>6 DEF new

\* What a save leaves on the disk.
LEMMA RenamedIs ==
    ASSUME FileInv, Linked, RenameTmp
    PROVE  /\ proc = "up" /\ disk' = File(Image(lines, sections))
           /\ Tidy(disk'.text) /\ SectionsIn(disk'.text) = Durable(sections)
           /\ WellFormed(SectionsIn(disk'.text)) /\ Apart(SectionsIn(disk'.text))
  <1>1. saver.step \in {"rename", "unsynced"} /\ disk' = tmp
    BY DEF RenameTmp, Renaming
  <1>2. proc = "up" /\ tmp = File(Image(lines, sections))
    BY <1>1 DEF FileInv, TypeOK, Idle, Saving
  <1>3. PICK t : Whole(t) /\ Tidy(t) /\ lines = LinesOf(t) /\ Extends(SectionsIn(t), sections)
    BY <1>2 DEF Linked
  <1>4. Grew(t, sections) /\ Apart(sections)
    BY <1>2, <1>3 DEF Grew, Whole, Linked, FileInv, Running, Ready
  <1> DEFINE image == Image(lines, sections)
  <1>5. disk' = File(image) /\ disk'.text = image
    BY <1>1, <1>2 DEF File
  <1>6. /\ Tidy(image) /\ SectionsIn(image) = Durable(sections)
        /\ WellFormed(SectionsIn(image)) /\ Apart(SectionsIn(image))
    BY <1>3, <1>4, ImageSections
  <1> HIDE DEF image
  <1>8. /\ Tidy(disk'.text) /\ SectionsIn(disk'.text) = Durable(sections)
        /\ WellFormed(SectionsIn(disk'.text)) /\ Apart(SectionsIn(disk'.text))
    BY <1>5, <1>6
  <1> QED
    BY <1>2, <1>5, <1>8 DEF image

LEMMA StoreInit == Init => StoreInv
  <1> SUFFICES ASSUME Init PROVE StoreInv
    OBVIOUS
  <1>1. /\ proc = "down" /\ starting = << >> /\ older = {}
        /\ disk \in { File(f) : f \in Files } \cup {Missing}
    BY DEF Init
  <1>2. Linked /\ Waiting
    BY <1>1, ListedSmall DEF Linked, Waiting
  <1>3. ASSUME Readable(disk)
        PROVE  Tidy(disk.text) /\ WellFormed(SectionsIn(disk.text)) /\ Apart(SectionsIn(disk.text))
    <2>1. PICK f \in Files : disk = File(f)
      BY <1>1, <1>3, NothingFiled
    <2>2. disk.text = f
      BY <2>1 DEF File
    <2> QED
      BY <1>3, <2>2, TidyAssumption DEF Readable, Apart
  <1>5. ~disk.there => disk = Missing
    BY <1>1 DEF File
  <1>4. OnDisk
    BY <1>1, <1>3, <1>5 DEF OnDisk, Filed
  <1> QED
    BY <1>2, <1>4, FileInit DEF StoreInv

\* Steps of a save leave the sections alone.
LEMMA SaverKeeps ==
    ASSUME Linked, Waiting, UNCHANGED << sections, lines, starting, proc >>
    PROVE  Linked' /\ Waiting'
  BY DEF Linked, Waiting

LEMMA LinkStep ==
    ASSUME FileInv, Linked, Waiting, OnDisk, [Next]_vars
    PROVE  Linked' /\ Waiting'
  <1>1. CASE UNCHANGED vars
    BY <1>1, SaverKeeps DEF vars
  <1>2. ASSUME NEW part \in Partial, WriteTemplate(part) PROVE Linked' /\ Waiting'
    BY <1>2, DownKeeps DEF WriteTemplate, FileInv, TypeOK
  <1>3. CASE EndTemplate
    BY <1>3, DownKeeps DEF EndTemplate, FileInv, TypeOK
  <1>4. CASE OpenFails
    BY <1>4, DownKeeps DEF OpenFails, FileInv, TypeOK
  <1>5. CASE Load
    <2>1. CASE ParseOK(disk.text)
      BY <1>5, <2>1, LoadKeeps
    <2>2. CASE ~ParseOK(disk.text)
      BY <1>5, <2>2, DownKeeps DEF Load, FileInv, TypeOK
    <2> QED
      BY <2>1, <2>2
  <1>6. ASSUME NEW auto \in BOOLEAN, StartStatic(auto) PROVE Linked' /\ Waiting'
    BY <1>6, StaticKeeps
  <1>7. ASSUME NEW dev \in Devices, NEW auto \in BOOLEAN, Discover(dev, auto)
        PROVE  Linked' /\ Waiting'
    BY <1>7, DiscoverKeeps
  <1>8. ASSUME NEW key \in Keys, NEW creds, SaveCreds(key, creds) PROVE Linked' /\ Waiting'
    BY <1>8, CredsLink
  <1>9. ASSUME NEW key \in Keys, NEW name, SavePlayerName(key, name) PROVE Linked' /\ Waiting'
    BY <1>9, NameLinks
  <1>10. CASE WriteTmp
    BY <1>10, SaverKeeps DEF WriteTmp
  <1>11. CASE WriteFails
    BY <1>11, SaverKeeps DEF WriteFails
  <1>12. CASE SyncTmp
    BY <1>12, SaverKeeps DEF SyncTmp
  <1>17. CASE SyncFails
    BY <1>17, SaverKeeps DEF SyncFails
  <1>13. CASE RenameTmp
    BY <1>13, SaverKeeps DEF RenameTmp
  <1>14. CASE RenameFails
    BY <1>14, SaverKeeps DEF RenameFails
  <1>15. CASE Crash
    BY <1>15, DownKeeps DEF Crash, Gone
  <1>16. CASE HostCrash
    BY <1>16, DownKeeps DEF HostCrash, Gone
  <1>18. CASE WriteBack
    BY <1>18, SaverKeeps DEF WriteBack
  <1> QED
    BY <1>1, <1>2, <1>3, <1>4, <1>5, <1>6, <1>7, <1>8, <1>9, <1>10, <1>11, <1>12, <1>13,
       <1>14, <1>15, <1>16, <1>17, <1>18 DEF Next

LEMMA DiskStep ==
    ASSUME FileInv, Linked, OnDisk, [Next]_vars
    PROVE  OnDisk'
  <1>0. Filed(disk) /\ \A file \in older : Filed(file)
    BY DEF OnDisk
  <1>1. CASE UNCHANGED vars
    BY <1>1 DEF vars, OnDisk
  <1>2. ASSUME NEW part \in Partial, WriteTemplate(part) PROVE OnDisk'
    <2>1. disk' = File(part) /\ disk'.text = part /\ older' = older \cup {disk, Torn}
      BY <1>2 DEF WriteTemplate, File
    <2>2. Filed(disk') /\ Filed(Torn)
      BY <2>1, EmptyIsFiled
    <2> QED
      BY <1>0, <2>1, <2>2 DEF OnDisk
  <1>3. CASE EndTemplate
    <2>1. disk' = File(Template) /\ older' = older \cup {disk} /\ proc' = "down"
      BY <1>3 DEF EndTemplate
    <2>2. Filed(disk')
      BY <2>1, EmptyIsFiled
    <2> QED
      BY <1>0, <2>1, <2>2 DEF OnDisk
  <1>4. CASE OpenFails
    BY <1>4, OnDiskStays DEF OpenFails
  <1>5. CASE Load
    BY <1>5, OnDiskStays DEF Load
  <1>6. ASSUME NEW auto \in BOOLEAN, StartStatic(auto) PROVE OnDisk'
    <2>1. UNCHANGED << disk, older, proc >> /\ proc = "up"
      BY <1>6, Zenon DEF StartStatic, Resolve, Free
    <2> QED
      BY <2>1, OnDiskStays
  <1>7. ASSUME NEW dev, NEW auto \in BOOLEAN, Discover(dev, auto) PROVE OnDisk'
    <2>1. UNCHANGED << disk, older, proc >> /\ proc = "up"
      BY <1>7, Zenon DEF Discover, Resolve, Free
    <2> QED
      BY <2>1, OnDiskStays
  <1>8. ASSUME NEW key, NEW creds, SaveCreds(key, creds) PROVE OnDisk'
    BY <1>8, OnDiskStays DEF SaveCreds, Free
  <1>9. ASSUME NEW key, NEW name, SavePlayerName(key, name) PROVE OnDisk'
    BY <1>9, OnDiskStays DEF SavePlayerName, Free
  <1> DEFINE Steady == disk' = disk /\ older' = older /\ proc' = proc
  <1>17. Steady => OnDisk'
    BY DEF OnDisk
  <1>10. CASE WriteTmp
    BY <1>10, <1>17 DEF WriteTmp
  <1>11. CASE WriteFails
    BY <1>11, <1>17 DEF WriteFails
  <1>12. CASE SyncTmp
    BY <1>12, <1>17 DEF SyncTmp
  <1>18. CASE SyncFails
    BY <1>18, <1>17 DEF SyncFails
  <1>13. CASE RenameTmp
    <2>1. /\ proc' = "up" /\ disk'.there
          /\ Tidy(disk'.text) /\ WellFormed(SectionsIn(disk'.text)) /\ Apart(SectionsIn(disk'.text))
      BY <1>13, RenamedIs DEF RenameTmp, File
    <2>2. older' \subseteq older \cup {disk, Torn}
      BY <1>13 DEF RenameTmp
    <2>3. Filed(disk') /\ Filed(Torn)
      BY <2>1, EmptyIsFiled DEF Filed
    <2> QED
      BY <1>0, <2>1, <2>2, <2>3 DEF OnDisk
  <1>14. CASE RenameFails
    BY <1>14, <1>17 DEF RenameFails
  <1>15. CASE Crash
    BY <1>15, OnDiskStays DEF Crash, Gone
  <1>16. CASE HostCrash
    <2>1. disk' \in older \cup {disk} /\ older' = {} /\ proc' = "down"
      BY <1>16 DEF HostCrash, Gone
    <2> QED
      BY <1>0, <2>1 DEF OnDisk
  <1>19. CASE WriteBack
    <2>1. disk' = disk /\ older' = {} /\ proc' = proc
      BY <1>19 DEF WriteBack
    <2> QED
      BY <2>1 DEF OnDisk
  <1> QED
    BY <1>1, <1>2, <1>3, <1>4, <1>5, <1>6, <1>7, <1>8, <1>9, <1>10, <1>11, <1>12, <1>13,
       <1>14, <1>15, <1>16, <1>18, <1>19 DEF Next

LEMMA StoreStep == StoreInv /\ [Next]_vars => StoreInv'
  BY FileStep, LinkStep, DiskStep DEF StoreInv

\* The inductive invariant of the sections: those in memory are well formed and
\* extend those of the file that was read, the static players that wait are
\* as filed, and what a start may find on the disk is tidy.
THEOREM StoreInvariance == Spec => []StoreInv
  BY StoreInit, StoreStep, PTL DEF Spec

\* No two players have the same virtual MAC, which is what LMS knows them by:
\* neither the hash, nor the probe, nor a user's or a saved MAC gives one
\* twice, over any number of starts, as long as 256 tries are enough.
THEOREM MacsStayDistinct == Spec => []MacsDistinct
  <1>1. StoreInv => MacsDistinct
    <2> SUFFICES ASSUME StoreInv, Len(sections) <= 256,
                        NEW i \in DOMAIN sections, NEW j \in DOMAIN sections, i # j
                 PROVE  sections[i].mac # sections[j].mac
      BY DEF MacsDistinct
    <2>1. FileInv /\ Linked
      BY DEF StoreInv
    <2>2. CASE proc = "up"
      <3>1. Sections(sections) /\ HaveMacs(sections, Len(sections)) /\ Apart(sections)
        BY <2>1, <2>2 DEF FileInv, Running, Ready, Linked
      <3>2. DOMAIN sections = 1 .. Len(sections)
        BY <3>1 DEF Sections
      <3>3. sections[i].mac # NoMac
        BY <3>1, <3>2 DEF HaveMacs
      <3> QED
        BY <3>1, <3>2, <3>3 DEF Apart, Unrepeated
    <2>3. CASE proc # "up"
      <3>1. sections = << >>
        BY <2>1, <2>3 DEF FileInv, TypeOK
      <3> QED
        BY <3>1
    <2> QED
      BY <2>2, <2>3
  <1> QED
    BY <1>1, StoreInvariance, PTL

-----------------------------------------------------------------------------
(* The file implements sections that are saved all at once.                 *)

LEMMA SectionsOfIs ==
    /\ \A file : Readable(file) => SectionsOf(file) = SectionsIn(file.text)
    /\ \A file : ~Readable(file) => SectionsOf(file) = << >>
    /\ \A file : file.text \in Partial \cup {Template} => SectionsOf(file) = << >>
    /\ SectionsOf(Torn) = << >> /\ SectionsOf(Missing) = << >>
  <1>1. /\ \A file : Readable(file) => SectionsOf(file) = SectionsIn(file.text)
        /\ \A file : ~Readable(file) => SectionsOf(file) = << >>
    BY DEF SectionsOf, Readable, SectionsIn, ParseOK
  <1>2. ASSUME NEW file, file.text \in Partial \cup {Template} PROVE SectionsOf(file) = << >>
    BY <1>1, <1>2, TemplateRead
  <1> QED
    BY <1>1, <1>2, NothingFiled

\* What a start may find once the host has gone down.
Olders(files) == { SectionsOf(file) : file \in files }

LEMMA StoreStutters ==
    ASSUME sections' = sections, disk' = disk, older' = older, proc' = "up" <=> proc = "up"
    PROVE  UNCHANGED Store!vars
  <1>1. SectionsOf(disk)' = SectionsOf(disk)
    BY Zenon
  <1>2. { SectionsOf(file) : file \in older }' = { SectionsOf(file) : file \in older }
    BY Zenon
  <1> QED
    BY <1>1, <1>2, Zenon DEF Store!vars

\* What a step does to the sections, the file and the program.
LEMMA StoreOperates ==
    ASSUME proc = "up", proc' = "up", disk' = disk, older' = older, Store!Operation
    PROVE  Store!Next
  <1>1. SectionsOf(disk)' = SectionsOf(disk)
    BY Zenon
  <1>2. { SectionsOf(file) : file \in older }' = { SectionsOf(file) : file \in older }
    BY Zenon
  <1> QED
    BY <1>1, <1>2, Zenon DEF Store!Next, Store!Operate

\* A step that does nothing but to the files.
LEMMA StoreSettles ==
    ASSUME sections' = sections, SectionsOf(disk)' = SectionsOf(disk),
           proc' = "up" <=> proc = "up",
           Olders(older)' \subseteq Olders(older) \cup {SectionsOf(disk)}
    PROVE  Store!Next
  <1>1. Store!Settle
    BY Zenon DEF Store!Settle, Olders
  <1> QED
    BY <1>1, Zenon DEF Store!Next

LEMMA StoreCrashes ==
    ASSUME FileInv, proc' = "down", sections' = << >>, disk' = disk, older' = older
    PROVE  [Store!Next]_(Store!vars)
  <1>1. CASE proc = "up"
    <2>1. ~(proc' = "up")
      OBVIOUS
    <2>3. SectionsOf(disk)' = SectionsOf(disk)
      BY Zenon
    <2>4. { SectionsOf(file) : file \in older }' = { SectionsOf(file) : file \in older }
      BY Zenon
    <2>2. Store!Crash
      BY <1>1, <2>1, <2>3, <2>4, Zenon DEF Store!Crash, Store!Down
    <2> QED
      BY <2>2, Zenon DEF Store!Next
  <1>2. CASE proc # "up"
    <2>1. sections = << >>
      BY <1>2 DEF FileInv, TypeOK
    <2>2. proc' # "up"
      OBVIOUS
    <2>3. UNCHANGED Store!vars
      BY <1>2, <2>1, <2>2, StoreStutters
    <2> QED
      BY <2>3, Zenon
  <1> QED
    BY <1>1, <1>2

LEMMA StoreInitially == Init => Store!Init
  <1> SUFFICES ASSUME Init PROVE Store!Init
    OBVIOUS
  <1>1. sections = << >> /\ proc # "up" /\ { SectionsOf(file) : file \in older } = {}
    BY DEF Init
  <1>2. SectionsOf(disk) \in { SectionsOf(file) : file \in { File(f) : f \in Files } \cup {Missing} }
    BY DEF Init
  <1> QED
    BY <1>1, <1>2, Zenon DEF Store!Init

\* The operators of the instance are those of this module.
LEMMA StoreLookups ==
    /\ \A S : Store!FirstOf(S) = FirstOf(S)
    /\ \A key : Store!fakeMacFor(key) = fakeMacFor(key)
    /\ \A secs, key : Store!findSection(secs, key) = findSection(secs, key)
    /\ \A secs, dev : Store!Match(secs, dev) = Match(secs, dev)
    /\ \A dev : Store!KeyFor(dev) = KeyFor(dev)
    /\ \A sec : Store!KeyOf(sec) = KeyOf(sec)
    /\ \A sec : Store!StaticDevice(sec) = StaticDevice(sec)
    /\ \A sec : Store!OnFile(sec) = OnFile(sec)
  <1>0. \A S : Store!Min(S) = Min(S)
    BY Zenon DEF Min, Store!Min
  <1>1. \A S : Store!FirstOf(S) = FirstOf(S)
    BY <1>0, Zenon DEF FirstOf, Store!FirstOf
  <1>2. \A key : Store!fakeMacFor(key) = fakeMacFor(key)
    BY Zenon DEF fakeMacFor, Store!fakeMacFor
  <1>3. ASSUME NEW secs, NEW key PROVE Store!findSection(secs, key) = findSection(secs, key)
    BY <1>0, <1>1, Zenon DEF findSection, Store!findSection
  <1>4. ASSUME NEW secs, NEW dev PROVE  Store!Match(secs, dev) = Match(secs, dev)
    BY <1>0, <1>1, <1>2, Zenon DEF Match, Store!Match
  <1>5. \A dev : Store!KeyFor(dev) = KeyFor(dev)
    BY Zenon DEF KeyFor, Store!KeyFor
  <1>6. \A sec : Store!KeyOf(sec) = KeyOf(sec)
    BY Zenon DEF KeyOf, Store!KeyOf
  <1>7. \A sec : Store!StaticDevice(sec) = StaticDevice(sec)
    BY <1>6, Zenon DEF StaticDevice, Store!StaticDevice
  <1>8. \A sec : Store!OnFile(sec) = OnFile(sec)
    BY Zenon DEF OnFile, Store!OnFile
  <1> QED
    BY <1>1, <1>2, <1>3, <1>4, <1>5, <1>6, <1>7, <1>8
LEMMA StoreAssign ==
    /\ \A secs, i : Store!assignMac(secs, i) = assignMac(secs, i)
    /\ \A secs : Store!AssignAll(secs) = AssignAll(secs)
  <1>0. \A S : Store!Min(S) = Min(S)
    BY Zenon DEF Min, Store!Min
  <1>1. ASSUME NEW secs, NEW i PROVE Store!assignMac(secs, i) = assignMac(secs, i)
    BY Zenon DEF assignMac, Store!assignMac, fakeMacFor, Store!fakeMacFor, NoMac, Store!NoMac,
                 Min, Store!Min
  <1>2. ASSUME NEW secs PROVE Store!AssignAll(secs) = AssignAll(secs)
    BY Zenon DEF AssignAll, Store!AssignAll, Folded, Store!Folded, assignMac, Store!assignMac,
                 fakeMacFor, Store!fakeMacFor, NoMac, Store!NoMac, Min, Store!Min
  <1> QED
    BY <1>1, <1>2
LEMMA StoreDurable ==
    ASSUME NEW secs
    PROVE  Store!Durable(secs) = Durable(secs)
  <1>1. \A s : Store!FlattenSeq(s) = FlattenSeq(s)
    BY Zenon DEF FlattenSeq, Store!FlattenSeq
  <1> QED
    BY <1>1, StoreLookups, Zenon DEF Durable, Store!Durable
LEMMA StoreChanges ==
    /\ \A secs, dev, auto : Store!resolve(secs, dev, auto) = resolve(secs, dev, auto)
    /\ \A secs, key, creds : Store!WithCreds(secs, key, creds) = WithCreds(secs, key, creds)
    /\ \A secs, key, name : Store!WithName(secs, key, name) = WithName(secs, key, name)
  <1>1. ASSUME NEW secs, NEW key, NEW creds
        PROVE  Store!WithCreds(secs, key, creds) = WithCreds(secs, key, creds)
    BY StoreLookups, Zenon DEF WithCreds, Store!WithCreds
  <1>2. ASSUME NEW secs, NEW key, NEW name
        PROVE  Store!WithName(secs, key, name) = WithName(secs, key, name)
    BY StoreLookups, Zenon DEF WithName, Store!WithName
  <1>3. ASSUME NEW key, NEW name, NEW auto PROVE Store!NewSection(name, auto) = NewSection(name, auto)
    BY Zenon DEF NewSection, Store!NewSection, NoMac, Store!NoMac, NoCreds, Store!NoCreds
  <1>4. ASSUME NEW secs, NEW key, NEW name, NEW auto
        PROVE  Store!ensureSection(secs, key, name, auto) = ensureSection(secs, key, name, auto)
    BY <1>3, StoreLookups, Zenon DEF ensureSection, Store!ensureSection
  <1>5. \A secs, dev : Store!CreatedAt(secs, dev) = CreatedAt(secs, dev)
    BY StoreLookups, Zenon DEF CreatedAt, Store!CreatedAt
  <1>6. \A secs, dev : Store!Grown(secs, dev) = Grown(secs, dev)
    BY <1>4, StoreLookups, Zenon DEF Grown, Store!Grown
  <1>7. ASSUME NEW secs, NEW dev PROVE Store!Created(secs, dev) = Created(secs, dev)
    BY <1>5, <1>6, StoreLookups, StoreAssign, Zenon DEF Created, Store!Created
  <1>8. ASSUME NEW secs, NEW i, NEW dev PROVE Store!Refreshed(secs, i, dev) = Refreshed(secs, i, dev)
    BY StoreAssign, Zenon DEF Refreshed, Store!Refreshed
  <1>9. ASSUME NEW secs, NEW dev, NEW auto
        PROVE  Store!resolve(secs, dev, auto) = resolve(secs, dev, auto)
    BY <1>7, <1>8, StoreLookups, Zenon DEF resolve, Store!resolve
  <1> QED
    BY <1>1, <1>2, <1>9

\* A template is written to a file with nothing on it, and has nothing.
LEMMA TemplateSettles ==
    ASSUME SectionsOf(disk) = << >>, disk'.text \in Partial \cup {Template},
           older' \subseteq older \cup {disk, Torn},
           sections' = sections, proc # "up", proc' # "up"
    PROVE  Store!Next
  <1>1. SectionsOf(disk)' = SectionsOf(disk)
    BY SectionsOfIs
  <1>2. ASSUME NEW file \in older' PROVE SectionsOf(file) \in Olders(older) \cup {SectionsOf(disk)}
    <2>1. CASE file \in older
      BY <2>1, Zenon DEF Olders
    <2>2. CASE file \in {disk, Torn}
      BY <2>2, SectionsOfIs
    <2> QED
      BY <2>1, <2>2
  <1>3. Olders(older)' \subseteq Olders(older) \cup {SectionsOf(disk)}
    BY <1>2 DEF Olders
  <1> QED
    BY <1>1, <1>3, StoreSettles

LEMMA ResolvedOperates ==
    ASSUME FileInv, NEW dev, NEW auto \in BOOLEAN, Resolve(dev, auto),
           dev \in Devices \/ \E i \in 1 .. Len(sections) :
                                 sections' = resolve(sections, StaticDevice(sections[i]), auto)
    PROVE  Store!Next
  <1>1. /\ proc = "up" /\ proc' = "up" /\ disk' = disk /\ older' = older
        /\ sections' = resolve(sections, dev, auto)
    BY Zenon DEF Resolve, Free
  <1>2. DOMAIN sections = 1 .. Len(sections)
    BY <1>1 DEF FileInv, Running, Ready, Sections
  <1>3. Store!Operation
    <2>1. CASE dev \in Devices
      <3>1. Store!Discover(dev, auto)
        BY <1>1, StoreChanges, Zenon DEF Store!Discover
      <3> QED
        BY <2>1, <3>1, Zenon DEF Store!Operation
    <2>2. ASSUME NEW i \in 1 .. Len(sections),
                 sections' = resolve(sections, StaticDevice(sections[i]), auto)
          PROVE  Store!Operation
      <3>1. i \in DOMAIN sections
        BY <1>2
      <3>2. Store!Discover(Store!StaticDevice(sections[i]), auto)
        <4>1. Store!StaticDevice(sections[i]) = StaticDevice(sections[i])
          BY StoreLookups
        <4> QED
          BY <2>2, <4>1, StoreChanges, Zenon DEF Store!Discover
      <3> QED
        BY <3>1, <3>2, Zenon DEF Store!Operation
    <2> QED
      BY <2>1, <2>2
  <1> QED
    BY <1>1, <1>3, StoreOperates

LEMMA PairOperates ==
    ASSUME NEW key \in Keys, NEW creds \in Creds, SaveCreds(key, creds)
    PROVE  Store!Next
  <1>1. /\ proc = "up" /\ proc' = "up" /\ disk' = disk /\ older' = older
        /\ sections' = WithCreds(sections, key, creds)
    BY Zenon DEF SaveCreds, Free
  <1>2. key \in Store!Keys
    BY StoreLookups DEF Keys, Store!Keys
  <1>3. Store!Operation
    BY <1>1, <1>2, StoreChanges, Zenon DEF Store!Operation, Store!Pair
  <1> QED
    BY <1>1, <1>3, StoreOperates

LEMMA RenameOperates ==
    ASSUME NEW key \in Keys, NEW name \in Names, SavePlayerName(key, name)
    PROVE  Store!Next
  <1>1. /\ proc = "up" /\ proc' = "up" /\ disk' = disk /\ older' = older
        /\ sections' = WithName(sections, key, name)
    BY Zenon DEF SavePlayerName, Free
  <1>2. key \in Store!Keys
    BY StoreLookups DEF Keys, Store!Keys
  <1>3. Store!Operation
    BY <1>1, <1>2, StoreChanges, Zenon DEF Store!Operation, Store!Rename
  <1> QED
    BY <1>1, <1>3, StoreOperates

\* Every step of the file is a step of the sections, or none.
LEMMA StoreSteps ==
    ASSUME StoreInv, [Next]_vars
    PROVE  [Store!Next]_(Store!vars)
  <1>0. FileInv /\ Linked /\ Waiting /\ OnDisk
    BY DEF StoreInv
  <1>1. CASE UNCHANGED vars
    <2>1. sections' = sections /\ disk' = disk /\ older' = older /\ proc' = proc
      BY <1>1 DEF vars
    <2> QED
      BY <2>1, StoreStutters, Zenon
  <1>17. sections' = sections /\ disk' = disk /\ older' = older /\ proc' = proc => [Store!Next]_(Store!vars)
    BY StoreStutters, Zenon
  <1>2. ASSUME NEW part \in Partial, WriteTemplate(part) PROVE [Store!Next]_(Store!vars)
    <2>1. /\ ~disk.there /\ disk'.text = part /\ sections' = sections
          /\ older' = older \cup {disk, Torn}
          /\ proc # "up" /\ proc' # "up"
      BY <1>2 DEF WriteTemplate, File
    <2>2. SectionsOf(disk) = << >>
      BY <2>1, SectionsOfIs DEF Readable
    <2> QED
      BY <2>1, <2>2, TemplateSettles, Zenon
  <1>3. CASE EndTemplate
    <2>1. /\ disk'.text = Template /\ sections' = sections /\ older' = older \cup {disk}
          /\ proc # "up" /\ proc' # "up" /\ proc = "template"
      BY <1>3 DEF EndTemplate, File
    <2>2. SectionsOf(disk) = << >>
      BY <1>0, <2>1, SectionsOfIs DEF OnDisk
    <2>3. disk'.text \in Partial \cup {Template}
      BY <2>1
    <2> QED
      BY <2>1, <2>2, <2>3, TemplateSettles, Zenon
  <1>4. CASE OpenFails
    <2>1. sections' = sections /\ disk' = disk /\ older' = older /\ proc # "up" /\ proc' # "up"
      BY <1>4 DEF OpenFails
    <2> QED
      BY <2>1, StoreStutters, Zenon
  <1>5. CASE Load
    <2>0. proc # "up" /\ disk.there /\ disk' = disk /\ older' = older
      BY <1>5 DEF Load
    <2>1. CASE ParseOK(disk.text)
      <3>1. sections' = AssignAll(SectionsIn(disk.text)) /\ proc' = "up"
        BY <1>0, <1>5, <2>1, LoadKeeps
      <3>2. SectionsOf(disk) = SectionsIn(disk.text)
        BY <2>0, <2>1, SectionsOfIs DEF Readable
      <3>3. sections' = AssignAll(SectionsOf(disk))
        BY <3>1, <3>2, Zenon
      <3>5. SectionsOf(disk)' = SectionsOf(disk)
        BY <2>0, Zenon
      <3>6. { SectionsOf(file) : file \in older }' = { SectionsOf(file) : file \in older }
        BY <2>0, Zenon
      <3>4. Store!Start
        BY <2>0, <3>1, <3>3, <3>5, <3>6, StoreAssign, Zenon DEF Store!Start
      <3> QED
        BY <3>4, Zenon DEF Store!Next
    <2>2. CASE ~ParseOK(disk.text)
      <3>1. sections' = sections /\ proc' # "up"
        BY <1>5, <2>2 DEF Load
      <3> QED
        BY <2>0, <3>1, StoreStutters, Zenon
    <2> QED
      BY <2>1, <2>2
  <1>6. ASSUME NEW auto \in BOOLEAN, StartStatic(auto) PROVE [Store!Next]_(Store!vars)
    <2>1. Resolve(Head(starting), auto)
      BY <1>6 DEF StartStatic
    <2>2. \E i \in 1 .. Len(sections) :
             sections' = resolve(sections, StaticDevice(sections[i]), auto)
      BY <1>0, <1>6, StaticKeeps
    <2> QED
      BY <1>0, <2>1, <2>2, ResolvedOperates
  <1>7. ASSUME NEW dev \in Devices, NEW auto \in BOOLEAN, Discover(dev, auto)
        PROVE  [Store!Next]_(Store!vars)
    <2>1. Resolve(dev, auto)
      BY <1>7 DEF Discover
    <2> QED
      BY <1>0, <2>1, ResolvedOperates
  <1>8. ASSUME NEW key \in Keys, NEW creds \in Creds, SaveCreds(key, creds)
        PROVE  [Store!Next]_(Store!vars)
    BY <1>8, PairOperates
  <1>9. ASSUME NEW key \in Keys, NEW name \in Names, SavePlayerName(key, name)
        PROVE  [Store!Next]_(Store!vars)
    BY <1>9, RenameOperates
  <1>10. CASE WriteTmp
    BY <1>10, <1>17 DEF WriteTmp
  <1>11. CASE WriteFails
    BY <1>11, <1>17 DEF WriteFails
  <1>12. CASE SyncTmp
    BY <1>12, <1>17 DEF SyncTmp
  <1>18. CASE SyncFails
    BY <1>18, <1>17 DEF SyncFails
  <1>13. CASE RenameTmp
    <2>1. /\ proc = "up" /\ disk' = File(Image(lines, sections))
          /\ SectionsIn(disk'.text) = Durable(sections)
      BY <1>0, <1>13, RenamedIs
    <2>2. sections' = sections /\ proc' = proc
      BY <1>13 DEF RenameTmp
    <2>3. Readable(disk')
      <3>1. FileInv'
        BY <1>0, FileStep
      <3> QED
        BY <2>1, <2>2, <3>1 DEF FileInv, Kept
    <2>4. SectionsOf(disk') = Durable(sections)
      BY <2>1, <2>3, SectionsOfIs
    <2> DEFINE torn == IF saver.step = "unsynced" THEN {<< >>} ELSE {}
    <2>6. { SectionsOf(file) : file \in older' }
             = { SectionsOf(file) : file \in older } \cup {SectionsOf(disk)} \cup torn
      <3>1. older' = older \cup {disk} \cup (IF saver.step = "unsynced" THEN {Torn} ELSE {})
        BY <1>13 DEF RenameTmp
      <3>2. SectionsOf(Torn) = << >>
        BY SectionsOfIs
      <3>3. CASE saver.step = "unsynced"
        BY <3>1, <3>2, <3>3
      <3>4. CASE saver.step # "unsynced"
        BY <3>1, <3>4
      <3> QED
        BY <3>3, <3>4
    <2>7. torn \in SUBSET {<< >>}
      OBVIOUS
    <2> HIDE DEF torn
    <2>5. Store!Save
      BY <2>1, <2>2, <2>4, <2>6, <2>7, StoreDurable, Zenon DEF Store!Save
    <2> QED
      BY <2>5, Zenon DEF Store!Next
  <1>14. CASE RenameFails
    BY <1>14, <1>17 DEF RenameFails
  <1>15. CASE Crash
    <2>1. proc' = "down" /\ sections' = << >> /\ disk' = disk /\ older' = older
      BY <1>15 DEF Crash, Gone
    <2> QED
      BY <1>0, <2>1, StoreCrashes
  <1>16. CASE HostCrash
    <2>1. /\ proc' = "down" /\ sections' = << >>
          /\ disk' \in older \cup {disk} /\ older' = {}
      BY <1>16 DEF HostCrash, Gone
    <2>2. SectionsOf(disk') \in { SectionsOf(file) : file \in older } \cup {SectionsOf(disk)}
      BY <2>1
    <2>3. { SectionsOf(file) : file \in older' } = {}
      BY <2>1
    <2>4. ~(proc' = "up")
      BY <2>1
    <2>5. Store!HostCrash
      BY <2>1, <2>2, <2>3, <2>4, Zenon DEF Store!HostCrash, Store!Down
    <2> QED
      BY <2>5, Zenon DEF Store!Next
  <1>19. CASE WriteBack
    <2>1. sections' = sections /\ disk' = disk /\ proc' = proc /\ older' = {}
      BY <1>19 DEF WriteBack
    <2>2. SectionsOf(disk)' = SectionsOf(disk)
      BY <2>1, Zenon
    <2>3. Olders(older)' \subseteq Olders(older) \cup {SectionsOf(disk)}
      BY <2>1 DEF Olders
    <2> QED
      BY <2>1, <2>2, <2>3, StoreSettles
  <1> QED
    BY <1>1, <1>2, <1>3, <1>4, <1>5, <1>6, <1>7, <1>8, <1>9, <1>10, <1>11, <1>12, <1>13,
       <1>14, <1>15, <1>16, <1>18, <1>19 DEF Next

\* The file, its line buffer, the temporary file, the rename and the crashes
\* implement sections that are saved all at once: a start finds the sections of
\* one save, whole, under the ids, MACs, credentials and LMS names they had
\* (saveLocked() and parse(), persistence.cpp): of the last save, or of one that
\* was not written back yet when the host went down, or none if it was not synced.
THEOREM StoreImplements == Spec => ImplementsStore
  <1>1. StoreInv /\ [Next]_vars => [Store!Next]_(Store!vars)
    BY StoreSteps
  <1> QED
    BY <1>1, StoreInitially, StoreInvariance, PTL DEF Spec, ImplementsStore, Store!Spec

-----------------------------------------------------------------------------
(* The user's lines.                                                        *)

\* A concatenation of listed parts.
Joins(x, y, c) == Listed(x) /\ Listed(y) /\ c = x \o y

\* What is joined at the end of a part is joined at the end of the whole.
LEMMA JoinLater ==
    \A x, y, z, c, d, e : Joins(x, y, c) /\ Joins(c, z, d) /\ Joins(y, z, e) => Joins(x, e, d)
  <1> SUFFICES ASSUME NEW x, NEW y, NEW z, Listed(x), Listed(y), Listed(z)
               PROVE  (x \o y) \o z = x \o (y \o z) /\ Listed(y \o z)
    BY DEF Joins
  <1>1. (x \o y) \o z = x \o (y \o z)
    BY ListedConcatAssociative
  <1>2. Listed(y \o z)
    BY ListedConcat
  <1> QED
    BY <1>1, <1>2

\* Two rows of pieces that are joined one after the other.
LEMMA PiecesOfTwo ==
    ASSUME NEW a, Listed(a), NEW b, Listed(b),
           \A i \in 1 .. Len(a) : Listed(a[i]), \A i \in 1 .. Len(b) : Listed(b[i])
    PROVE  FlattenSeq(a \o b) = FlattenSeq(a) \o FlattenSeq(b)
  <1> DEFINE c == a \o b
             A(n) == Flattened(a, n)
             B(n) == Flattened(b, n)
             C(n) == Flattened(c, n)
  <1>1. /\ Listed(c) /\ Len(c) = Len(a) + Len(b) /\ Len(a) \in Nat /\ Len(b) \in Nat
        /\ \A i \in 1 .. Len(a) : c[i] = a[i]
        /\ \A i \in 1 .. Len(b) : c[Len(a) + i] = b[i]
    <2>1. Len(a) \in Nat /\ Len(b) \in Nat
      BY DEF Listed
    <2> QED
      BY <2>1, ListedConcat
  <1> HIDE DEF c
  <1>2. \A i \in 1 .. Len(c) : Listed(c[i])
    <2> SUFFICES ASSUME NEW i \in 1 .. Len(c) PROVE Listed(c[i])
      OBVIOUS
    <2>1. CASE i <= Len(a)
      BY <1>1, <2>1
    <2>2. CASE ~ (i <= Len(a))
      <3>1. i - Len(a) \in 1 .. Len(b) /\ Len(a) + (i - Len(a)) = i
        BY <1>1, <2>2
      <3> QED
        BY <1>1, <3>1
    <2> QED
      BY <2>1, <2>2
  <1>3. /\ A(0) = << >> /\ \A n \in 1 .. Len(a) : A(n) = A(n - 1) \o a[n]
        /\ \A n \in 0 .. Len(a) : Listed(A(n))
        /\ FlattenSeq(a) = A(Len(a))
    BY PiecesJoin
  <1>4. /\ B(0) = << >> /\ \A n \in 1 .. Len(b) : B(n) = B(n - 1) \o b[n]
        /\ \A n \in 0 .. Len(b) : Listed(B(n))
        /\ FlattenSeq(b) = B(Len(b))
    BY PiecesJoin
  <1>5. /\ C(0) = << >> /\ \A n \in 1 .. Len(c) : C(n) = C(n - 1) \o c[n]
        /\ FlattenSeq(c) = C(Len(c))
    BY <1>1, <1>2, PiecesJoin
  <1> HIDE DEF A, B, C
  <1>6. C(Len(a)) = A(Len(a))
    <2> DEFINE G == { n \in Nat : n <= Len(a) => C(n) = A(n) }
    <2>1. 0 \in G
      BY <1>3, <1>5
    <2>2. ASSUME NEW n \in Nat, n \in G PROVE n + 1 \in G
      <3> SUFFICES ASSUME n + 1 <= Len(a) PROVE C(n + 1) = A(n + 1)
        OBVIOUS
      <3>1. n + 1 \in 1 .. Len(a) /\ n + 1 \in 1 .. Len(c) /\ (n + 1) - 1 = n /\ C(n) = A(n)
        BY <1>1, <2>2
      <3>2. C(n + 1) = C(n) \o c[n + 1] /\ A(n + 1) = A(n) \o a[n + 1] /\ c[n + 1] = a[n + 1]
        BY <1>1, <1>3, <1>5, <3>1
      <3> QED
        BY <3>1, <3>2
    <2> HIDE DEF G
    <2>3. Nat \subseteq G
      BY <2>1, <2>2, Induction
    <2> QED
      BY <1>1, <2>3 DEF G
  <1>7. C(Len(a) + Len(b)) = A(Len(a)) \o B(Len(b))
    <2> DEFINE G == { n \in Nat : n <= Len(b) => C(Len(a) + n) = A(Len(a)) \o B(n) }
    <2>0. Listed(A(Len(a)))
      BY <1>1, <1>3
    <2>1. 0 \in G
      <3>1. A(Len(a)) \o << >> = A(Len(a))
        BY <2>0, ListedEmptyConcat
      <3>2. Len(a) + 0 = Len(a)
        BY <1>1
      <3>3. C(Len(a) + 0) = A(Len(a)) \o B(0)
        BY <1>4, <1>6, <3>1, <3>2, Zenon
      <3> QED
        BY <3>3
    <2>2. ASSUME NEW n \in Nat, n \in G PROVE n + 1 \in G
      <3> SUFFICES ASSUME n + 1 <= Len(b) PROVE C(Len(a) + (n + 1)) = A(Len(a)) \o B(n + 1)
        OBVIOUS
      <3>1. /\ n + 1 \in 1 .. Len(b) /\ Len(a) + (n + 1) \in 1 .. Len(c) /\ n \in 0 .. Len(b)
            /\ (n + 1) - 1 = n /\ (Len(a) + (n + 1)) - 1 = Len(a) + n
            /\ C(Len(a) + n) = A(Len(a)) \o B(n)
        BY <1>1, <2>2
      <3>2. C(Len(a) + (n + 1)) = C(Len(a) + n) \o b[n + 1]
        BY <1>1, <1>5, <3>1
      <3>3. B(n + 1) = B(n) \o b[n + 1] /\ Listed(B(n)) /\ Listed(b[n + 1])
        BY <1>4, <3>1
      <3>4. /\ Joins(A(Len(a)), B(n), C(Len(a) + n))
            /\ Joins(B(n), b[n + 1], B(n + 1))
        BY <2>0, <3>1, <3>3 DEF Joins
      <3>5. Joins(C(Len(a) + n), b[n + 1], C(Len(a) + (n + 1)))
        <4>1. Listed(A(Len(a)) \o B(n))
          BY <2>0, <3>3, ListedConcat
        <4> QED
          BY <3>1, <3>2, <3>3, <4>1 DEF Joins
      <3>6. Joins(A(Len(a)), B(n + 1), C(Len(a) + (n + 1)))
        <4> DEFINE x == A(Len(a))
                   y == B(n)
                   y2 == B(n + 1)
                   m == C(Len(a) + n)
                   d == C(Len(a) + (n + 1))
                   z == b[n + 1]
        <4>1. Joins(x, y, m) /\ Joins(m, z, d) /\ Joins(y, z, y2)
          BY <3>4, <3>5
        <4> HIDE DEF x, y, y2, m, d, z
        <4>2. Joins(x, y2, d)
          BY <4>1, JoinLater, Zenon
        <4> QED
          BY <4>2 DEF x, y2, d
      <3> QED
        BY <3>6 DEF Joins
    <2> HIDE DEF G
    <2>3. Nat \subseteq G
      BY <2>1, <2>2, Induction
    <2> QED
      BY <1>1, <2>3 DEF G
  <1>8. FlattenSeq(c) = FlattenSeq(a) \o FlattenSeq(b)
    BY <1>1, <1>3, <1>4, <1>5, <1>7
  <1> QED
    BY <1>8 DEF c

\* A line of the user, with the header it is under, and those of a text.
Theirs(l, under) == IF l.by = "user" THEN << << l, under >> >> ELSE << >>
TheirsOf(r, text) == [i \in DOMAIN text |-> Theirs(text[i], Reading(r, text)[i].under)]
AllTheirs(r, text) == FlattenSeq(TheirsOf(r, text))

LEMMA UserLinesAre == \A text : UserLines(text) = AllTheirs(Begin, text)
  BY Zenon DEF UserLines, AllTheirs, TheirsOf, Theirs

LEMMA TheirsAre ==
    ASSUME NEW r, NEW text, Listed(text)
    PROVE  /\ Listed(TheirsOf(r, text)) /\ Len(TheirsOf(r, text)) = Len(text)
           /\ \A i \in 1 .. Len(text) :
                /\ TheirsOf(r, text)[i] = Theirs(text[i], Reading(r, text)[i].under)
                /\ Listed(TheirsOf(r, text)[i])
  <1> DEFINE f == TheirsOf(r, text)
  <1>1. DOMAIN text = 1 .. Len(text)
    BY ListedFunction
  <1>2. f = [i \in 1 .. Len(text) |-> f[i]]
        /\ \A i \in 1 .. Len(text) : f[i] = Theirs(text[i], Reading(r, text)[i].under)
    BY <1>1 DEF TheirsOf
  <1> HIDE DEF f
  <1>3. Listed(f) /\ Len(f) = Len(text)
    BY <1>2, ListedFunction
  <1>4. \A l, under : Listed(Theirs(l, under))
    BY ListedSmall DEF Theirs
  <1> QED
    BY <1>2, <1>3, <1>4 DEF f

LEMMA AllTheirsListed == \A r, t : Listed(t) => Listed(AllTheirs(r, t))
  <1> SUFFICES ASSUME NEW r, NEW t, Listed(t) PROVE Listed(AllTheirs(r, t))
    OBVIOUS
  <1> DEFINE a == TheirsOf(r, t)
  <1>1. Listed(a) /\ Len(a) = Len(t) /\ \A i \in 1 .. Len(t) : Listed(a[i])
    BY TheirsAre
  <1>2. Len(t) \in 0 .. Len(t)
    BY DEF Listed
  <1> HIDE DEF a
  <1>3. Listed(FlattenSeq(a))
    BY <1>1, <1>2, PiecesJoin
  <1> QED
    BY <1>3 DEF AllTheirs, a

\* One text after another: the user's lines of both, each under its header.
LEMMA TheirsOfTwo ==
    ASSUME NEW r, NEW s, Listed(s), NEW t, Listed(t), NEW u, u = s \o t
    PROVE  Joins(AllTheirs(r, s), AllTheirs(After(r, s), t), AllTheirs(r, u))
  <1> DEFINE a == TheirsOf(r, s)
             b == TheirsOf(After(r, s), t)
             c == TheirsOf(r, u)
  <1>1. /\ Listed(u) /\ Len(u) = Len(s) + Len(t) /\ Len(s) \in Nat /\ Len(t) \in Nat
        /\ \A i \in 1 .. Len(s) : u[i] = s[i]
        /\ \A i \in 1 .. Len(t) : u[Len(s) + i] = t[i]
    <2>1. Len(s) \in Nat /\ Len(t) \in Nat
      BY DEF Listed
    <2> QED
      BY <2>1, ListedConcat
  <1>2. /\ \A n \in 0 .. Len(s) : Reading(r, u)[n] = Reading(r, s)[n]
        /\ \A n \in 0 .. Len(t) : Reading(r, u)[Len(s) + n] = Reading(After(r, s), t)[n]
    BY ReadingOfTwo
  <1>3. /\ Listed(a) /\ Len(a) = Len(s) /\ Listed(b) /\ Len(b) = Len(t)
        /\ \A i \in 1 .. Len(s) : a[i] = Theirs(s[i], Reading(r, s)[i].under) /\ Listed(a[i])
        /\ \A i \in 1 .. Len(t) :
             b[i] = Theirs(t[i], Reading(After(r, s), t)[i].under) /\ Listed(b[i])
    BY TheirsAre
  <1>4. /\ Listed(c) /\ Len(c) = Len(u)
        /\ \A i \in 1 .. Len(u) : c[i] = Theirs(u[i], Reading(r, u)[i].under)
    <2>1. Listed(u)
      BY <1>1
    <2> QED
      BY <2>1, TheirsAre
  <1> HIDE DEF a, b, c
  <1> DEFINE d == a \o b
  <1>5. /\ Listed(d) /\ Len(d) = Len(u)
        /\ \A i \in 1 .. Len(s) : d[i] = a[i]
        /\ \A i \in 1 .. Len(t) : d[Len(s) + i] = b[i]
    <2>1. Listed(a) /\ Listed(b)
      BY <1>3
    <2>2. /\ Listed(d) /\ Len(d) = Len(a) + Len(b)
          /\ \A i \in 1 .. Len(a) : d[i] = a[i]
          /\ \A i \in 1 .. Len(b) : d[Len(a) + i] = b[i]
      BY <2>1, ListedConcat
    <2> HIDE DEF d
    <2> QED
      BY <1>1, <1>3, <2>2
  <1> HIDE DEF d
  <1>6. \A i \in 1 .. Len(u) : c[i] = d[i]
    <2> SUFFICES ASSUME NEW i \in 1 .. Len(u) PROVE c[i] = d[i]
      OBVIOUS
    <2>1. CASE i <= Len(s)
      <3>1. i \in 1 .. Len(s) /\ i \in 0 .. Len(s)
        BY <1>1, <2>1
      <3> QED
        BY <1>1, <1>2, <1>3, <1>4, <1>5, <3>1
    <2>2. CASE ~ (i <= Len(s))
      <3> DEFINE k == i - Len(s)
      <3>1. k \in 1 .. Len(t) /\ k \in 0 .. Len(t) /\ Len(s) + k = i
        BY <1>1, <2>2
      <3> HIDE DEF k
      <3>2. d[i] = b[k] /\ u[i] = t[k] /\ Reading(r, u)[i] = Reading(After(r, s), t)[k]
        BY <1>1, <1>2, <1>5, <3>1
      <3> QED
        BY <1>3, <1>4, <3>1, <3>2
    <2> QED
      BY <2>1, <2>2
  <1>7. c = d
    <2>1. c = [i \in 1 .. Len(u) |-> c[i]] /\ d = [i \in 1 .. Len(u) |-> d[i]]
      BY <1>4, <1>5 DEF Listed
    <2> QED
      BY <1>6, <2>1
  <1>8. FlattenSeq(d) = FlattenSeq(a) \o FlattenSeq(b)
    <2>1. /\ Listed(a) /\ Listed(b)
          /\ \A i \in 1 .. Len(a) : Listed(a[i])
          /\ \A i \in 1 .. Len(b) : Listed(b[i])
      BY <1>3
    <2> QED
      BY <2>1, PiecesOfTwo DEF d
  <1>9. /\ FlattenSeq(a) = AllTheirs(r, s) /\ FlattenSeq(b) = AllTheirs(After(r, s), t)
        /\ FlattenSeq(c) = AllTheirs(r, u)
    BY Zenon DEF AllTheirs, a, b, c
  <1>10. Listed(FlattenSeq(a)) /\ Listed(FlattenSeq(b))
    BY <1>9, AllTheirsListed
  <1>11. Joins(FlattenSeq(a), FlattenSeq(b), FlattenSeq(c))
    BY <1>7, <1>8, <1>10 DEF Joins
  <1> QED
    BY <1>9, <1>11, Zenon

LEMMA TheirsJoin ==
    \A r, s, t, u : Joins(s, t, u) =>
        Joins(AllTheirs(r, s), AllTheirs(After(r, s), t), AllTheirs(r, u))
  <1> SUFFICES ASSUME NEW r, NEW s, NEW t, NEW u, Joins(s, t, u)
               PROVE  Joins(AllTheirs(r, s), AllTheirs(After(r, s), t), AllTheirs(r, u))
    OBVIOUS
  <1>1. Listed(s) /\ Listed(t) /\ u = s \o t
    BY DEF Joins
  <1> QED
    BY <1>1, TheirsOfTwo

\* A line, and the lines the program writes.
LEMMA TheirsOfFew ==
    ASSUME NEW r
    PROVE  /\ AllTheirs(r, << >>) = << >>
           /\ \A l : AllTheirs(r, << l >>) = Theirs(l, ReadLine(r, l).under)
  <1>1. AllTheirs(r, << >>) = << >>
    <2> DEFINE a == TheirsOf(r, << >>)
    <2>1. Listed(a) /\ Len(a) = 0
      BY ListedSmall, TheirsAre
    <2> HIDE DEF a
    <2>2. \A i \in 1 .. Len(a) : Listed(a[i])
      BY <2>1
    <2>3. FlattenSeq(a) = Flattened(a, 0) /\ Flattened(a, 0) = << >>
      BY <2>1, <2>2, PiecesJoin
    <2> QED
      BY <2>3 DEF AllTheirs, a
  <1>2. ASSUME NEW l PROVE AllTheirs(r, << l >>) = Theirs(l, ReadLine(r, l).under)
    <2> DEFINE t == << l >>
               a == TheirsOf(r, t)
    <2>1. Listed(t) /\ Len(t) = 1 /\ t[1] = l /\ 1 \in 1 .. 1
      BY ListedSmall
    <2>2. After(r, t) = ReadLine(r, l)
      BY AfterSmall
    <2> HIDE DEF t
    <2>3. Reading(r, t)[1] = ReadLine(r, l)
      BY <2>1, <2>2 DEF After
    <2>4. /\ Listed(a) /\ Len(a) = 1
          /\ \A i \in 1 .. 1 : a[i] = Theirs(t[i], Reading(r, t)[i].under) /\ Listed(a[i])
      BY <2>1, TheirsAre
    <2>5. a[1] = Theirs(l, ReadLine(r, l).under) /\ Listed(a[1])
      BY <2>1, <2>3, <2>4
    <2> HIDE DEF a
    <2>6. FlattenSeq(a) = Flattened(a, 1) /\ Flattened(a, 1) = Flattened(a, 0) \o a[1]
          /\ Flattened(a, 0) = << >>
      <3>1. \A i \in 1 .. Len(a) : Listed(a[i])
        BY <2>4
      <3>2. /\ FlattenSeq(a) = Flattened(a, Len(a)) /\ Flattened(a, 0) = << >>
            /\ \A n \in 1 .. Len(a) : Flattened(a, n) = Flattened(a, n - 1) \o a[n]
        BY <2>4, <3>1, PiecesJoin
      <3>3. 1 \in 1 .. Len(a) /\ 1 - 1 = 0 /\ Len(a) = 1
        BY <2>4
      <3> QED
        BY <3>2, <3>3
    <2>7. << >> \o a[1] = a[1]
      BY <2>5, ListedEmptyConcat
    <2>8. FlattenSeq(a) = Theirs(l, ReadLine(r, l).under)
      BY <2>5, <2>6, <2>7
    <2> QED
      BY <2>8 DEF AllTheirs, a, t
  <1> QED
    BY <1>1, <1>2

LEMMA NothingOfTheirs ==
    ASSUME NEW r, NEW t, Listed(t), \A i \in 1 .. Len(t) : t[i].by # "user"
    PROVE  AllTheirs(r, t) = << >>
  <1> DEFINE a == TheirsOf(r, t)
             G == { n \in Nat : n <= Len(t) => Flattened(a, n) = << >> }
  <1>1. /\ Listed(a) /\ Len(a) = Len(t) /\ Len(t) \in Nat
        /\ \A i \in 1 .. Len(t) : a[i] = Theirs(t[i], Reading(r, t)[i].under) /\ Listed(a[i])
    BY TheirsAre DEF Listed
  <1> HIDE DEF a
  <1>2. \A i \in 1 .. Len(t) : a[i] = << >>
    BY <1>1 DEF Theirs
  <1>3. /\ FlattenSeq(a) = Flattened(a, Len(t)) /\ Flattened(a, 0) = << >>
        /\ \A n \in 1 .. Len(t) : Flattened(a, n) = Flattened(a, n - 1) \o a[n]
    BY <1>1, PiecesJoin
  <1>4. 0 \in G
    BY <1>3
  <1>5. ASSUME NEW n \in Nat, n \in G PROVE n + 1 \in G
    <2> SUFFICES ASSUME n + 1 <= Len(t) PROVE Flattened(a, n + 1) = << >>
      OBVIOUS
    <2>1. n + 1 \in 1 .. Len(t) /\ (n + 1) - 1 = n /\ Flattened(a, n) = << >>
      BY <1>1, <1>5
    <2>2. Flattened(a, n + 1) = << >> \o << >>
      BY <1>2, <1>3, <2>1
    <2>3. << >> \o << >> = << >>
      BY ListedSmall, ListedEmptyConcat
    <2> QED
      BY <2>2, <2>3
  <1>6. Nat \subseteq G
    <2> HIDE DEF G
    <2> QED  BY <1>4, <1>5, Induction
  <1>7. FlattenSeq(a) = << >>
    BY <1>1, <1>3, <1>6
  <1> QED
    BY <1>7 DEF AllTheirs, a

LEMMA NothingTheirsInOwn == \A r, t : Own(t) => AllTheirs(r, t) = << >>
  <1> SUFFICES ASSUME NEW r, NEW t, Own(t) PROVE AllTheirs(r, t) = << >>
    OBVIOUS
  <1>1. Listed(t) /\ \A i \in 1 .. Len(t) : t[i].by # "user"
    BY DEF Own
  <1> QED
    BY <1>1, NothingOfTheirs
\* What takes the place of a line has that line in it when it is the user's,
\* under the same header, and nothing else of theirs.
LEMMA TheirsOfPiece ==
    ASSUME NEW lns, NEW secs, NEW l, NEW q, NEW r, q.under = r.under,
           l.raw.by = "user" /\ l.raw.kind = "key" /\ l.raw.key \in Managed
               => sectionByName(secs, l.section) = 0
    PROVE  AllTheirs(q, Rewritten(lns, secs, l)) = Theirs(l.raw, ReadLine(r, l.raw).under)
  <1> DEFINE piece == Rewritten(lns, secs, l)
             x == l.raw
  <1>1. ReadLine(q, x).under = ReadLine(r, x).under
    BY DEF ReadLine
  <1>2. ASSUME NEW own, OwnKeys(own), piece = << x >> \o own
        PROVE  AllTheirs(q, piece) = Theirs(x, ReadLine(r, x).under)
    <2> HIDE DEF piece, x
    <2>1. Listed(<< x >>) /\ Listed(own) /\ Own(own)
      BY <1>2, ListedSmall DEF OwnKeys, Own
    <2>2. Joins(AllTheirs(q, << x >>), AllTheirs(After(q, << x >>), own), AllTheirs(q, piece))
      <3>1. Joins(<< x >>, own, piece)
        BY <1>2, <2>1 DEF Joins
      <3> QED
        BY <3>1, TheirsJoin, Zenon
    <2>3. /\ AllTheirs(q, << x >>) = Theirs(x, ReadLine(q, x).under)
          /\ AllTheirs(After(q, << x >>), own) = << >>
      BY <2>1, TheirsOfFew, NothingTheirsInOwn
    <2>4. Listed(Theirs(x, ReadLine(q, x).under))
      BY ListedSmall DEF Theirs
    <2>5. Theirs(x, ReadLine(q, x).under) \o << >> = Theirs(x, ReadLine(q, x).under)
      BY <2>4, ListedEmptyConcat
    <2> QED
      BY <1>1, <2>2, <2>3, <2>5 DEF Joins
  <1>3. CASE OwnKeys(piece) /\ x.by # "user"
    <2> HIDE DEF piece, x
    <2>1. AllTheirs(q, piece) = << >>
      BY <1>3, NothingTheirsInOwn DEF OwnKeys
    <2> QED
      BY <1>3, <2>1 DEF Theirs, x, piece
  <1>4. \/ \E own : OwnKeys(own) /\ piece = << x >> \o own
        \/ OwnKeys(piece) /\ x.by # "user"
    BY RewrittenIs
  <1> QED
    BY <1>2, <1>3, <1>4

\* In a tidy file the user's lines are not what a save replaces.
LEMMA TheirsAreCopied ==
    ASSUME NEW t, Listed(t), Tidy(t), NEW secs, Sections(secs), WellFormed(secs),
           NEW n \in 1 .. Len(t),
           t[n].by = "user", t[n].kind = "key", t[n].key \in Managed
    PROVE  sectionByName(secs, LinesOf(t)[n].section) = 0
  <1> DEFINE r == Reading(Begin, t)[n - 1]
  <1>1. Reading(Begin, t)[n] = ReadLine(r, t[n])
    BY ReadingIs
  <1>2. Fits(r, t[n])
    BY DEF Tidy
  <1> HIDE DEF r
  <1>3. r.name \in Unnamed
    BY <1>2 DEF Fits
  <1>4. LinesOf(t)[n] = NotedLine(t, n)
    BY LinesRead
  <1>5. NotedLine(t, n).section = Reading(Begin, t)[n].name
    BY DEF NotedLine
  <1>6. ReadLine(r, t[n]).name = r.name
    BY DEF ReadLine
  <1>7. LinesOf(t)[n].section \in Unnamed
    BY <1>1, <1>3, <1>4, <1>5, <1>6
  <1> QED
    BY <1>7, ByNameIs

\* A save keeps them all, in order.
LEMMA ImageKeepsTheirs ==
    ASSUME NEW t, Listed(t), Tidy(t), NEW secs, Sections(secs), WellFormed(secs)
    PROVE  UserLines(Image(LinesOf(t), secs)) = UserLines(t)
  <1> DEFINE lns == LinesOf(t)
             P == Pieces(lns, secs)
             N == NewOnes(lns, secs)
             U == TheirsOf(Begin, t)
             F(n) == Flattened(P, n)
             V(n) == Flattened(U, n)
             G == { n \in Nat : n <= Len(t) => AllTheirs(Begin, F(n)) = V(n) }
  <1>0. Listed(secs) /\ Len(t) \in Nat
    BY DEF Sections, Listed
  <1>1. /\ Listed(lns) /\ Len(lns) = Len(t)
        /\ \A i \in 1 .. Len(t) : lns[i].raw = t[i]
    <2>1. /\ Listed(lns) /\ Len(lns) = Len(t)
          /\ \A i \in 1 .. Len(t) : lns[i] = NotedLine(t, i)
      BY LinesRead
    <2> HIDE DEF lns
    <2>2. \A i : NotedLine(t, i).raw = t[i]
      BY DEF NotedLine
    <2> QED
      BY <2>1, <2>2
  <1>2. \A n \in 0 .. Len(t) : Follows(After(Begin, F(n)), Reading(Begin, t)[n])
    BY <1>0, ImageFollows
  <1>3. \A i \in 1 .. Len(t) :
           t[i].by = "user" /\ t[i].kind = "key" /\ t[i].key \in Managed
               => sectionByName(secs, lns[i].section) = 0
    BY TheirsAreCopied
  <1> HIDE DEF lns
  <1>4. /\ Listed(P) /\ Len(P) = Len(t)
        /\ \A i \in 1 .. Len(t) : P[i] = Rewritten(lns, secs, lns[i]) /\ Listed(P[i])
        /\ Image(lns, secs) = FlattenSeq(P) \o FlattenSeq(N)
    BY <1>0, <1>1, PiecesAre
  <1>5. Own(FlattenSeq(N))
    BY <1>0, <1>1, NewOnesAreOwn
  <1> HIDE DEF P, N
  <1>6. /\ F(0) = << >> /\ FlattenSeq(P) = F(Len(t))
        /\ \A n \in 1 .. Len(t) : F(n) = F(n - 1) \o P[n]
        /\ \A n \in 0 .. Len(t) : Listed(F(n))
    BY <1>4, PiecesJoin
  <1>7. /\ Listed(U) /\ Len(U) = Len(t)
        /\ \A i \in 1 .. Len(t) : U[i] = Theirs(t[i], Reading(Begin, t)[i].under) /\ Listed(U[i])
    BY TheirsAre
  <1>8. FlattenSeq(U) = UserLines(t)
    BY UserLinesAre DEF AllTheirs
  <1> HIDE DEF U
  <1>9. /\ V(0) = << >> /\ FlattenSeq(U) = V(Len(t))
        /\ \A n \in 1 .. Len(t) : V(n) = V(n - 1) \o U[n]
        /\ \A n \in 0 .. Len(t) : Listed(V(n))
    BY <1>7, PiecesJoin
  <1>10. \A n \in 1 .. Len(t) : Reading(Begin, t)[n] = ReadLine(Reading(Begin, t)[n - 1], t[n])
    BY ReadingIs
  <1> HIDE DEF F, V
  <1>11. 0 \in G
    BY <1>6, <1>9, TheirsOfFew
  <1>12. ASSUME NEW n \in Nat, n \in G PROVE n + 1 \in G
    <2> SUFFICES ASSUME n + 1 <= Len(t) PROVE AllTheirs(Begin, F(n + 1)) = V(n + 1)
      OBVIOUS
    <2> DEFINE q == After(Begin, F(n))
               r == Reading(Begin, t)[n]
               l == lns[n + 1]
               piece == Rewritten(lns, secs, l)
    <2>1. n + 1 \in 1 .. Len(t) /\ (n + 1) - 1 = n /\ n \in 0 .. Len(t)
          /\ AllTheirs(Begin, F(n)) = V(n)
      BY <1>0, <1>12
    <2>2. F(n + 1) = F(n) \o piece /\ Listed(F(n)) /\ Listed(piece)
      BY <1>4, <1>6, <2>1
    <2>3. V(n + 1) = V(n) \o U[n + 1] /\ U[n + 1] = Theirs(t[n + 1], Reading(Begin, t)[n + 1].under)
      BY <1>7, <1>9, <2>1
    <2>4. Reading(Begin, t)[n + 1] = ReadLine(r, t[n + 1]) /\ l.raw = t[n + 1]
      BY <1>1, <1>10, <2>1
    <2>5. q.under = r.under
      BY <1>2, <2>1 DEF Follows
    <2>6. l.raw.by = "user" /\ l.raw.kind = "key" /\ l.raw.key \in Managed
              => sectionByName(secs, l.section) = 0
      BY <1>3, <2>1, <2>4
    <2> HIDE DEF q, r, l, G
    <2>7. AllTheirs(q, piece) = Theirs(l.raw, ReadLine(r, l.raw).under)
      BY <2>5, <2>6, TheirsOfPiece
    <2> HIDE DEF piece
    <2> DEFINE f == F(n)
               f2 == F(n + 1)
    <2>8. Joins(AllTheirs(Begin, f), AllTheirs(q, piece), AllTheirs(Begin, f2))
      <3>1. Joins(f, piece, f2)
        BY <2>2 DEF Joins
      <3>2. q = After(Begin, f)
        BY DEF q
      <3> HIDE DEF f, f2
      <3> QED
        BY <3>1, <3>2, TheirsJoin, Zenon
    <2>9. AllTheirs(q, piece) = U[n + 1]
      BY <2>3, <2>4, <2>7
    <2> QED
      BY <2>1, <2>3, <2>8, <2>9 DEF Joins
  <1>13. Nat \subseteq G
    <2> HIDE DEF G
    <2> QED  BY <1>11, <1>12, Induction
  <1>14. AllTheirs(Begin, FlattenSeq(P)) = UserLines(t)
    BY <1>0, <1>6, <1>8, <1>9, <1>13
  <1> DEFINE a == FlattenSeq(P)
             b == FlattenSeq(N)
  <1>15. Listed(a) /\ Listed(b) /\ Listed(UserLines(t))
    BY <1>0, <1>5, <1>6, <1>8, <1>9 DEF Own
  <1> HIDE DEF a, b, G
  <1> DEFINE image == a \o b
  <1>16. Joins(AllTheirs(Begin, a), AllTheirs(After(Begin, a), b), AllTheirs(Begin, image))
    <2>1. Joins(a, b, image)
      BY <1>15 DEF Joins
    <2> HIDE DEF image
    <2> QED
      BY <2>1, TheirsJoin, Zenon
  <1>17. AllTheirs(After(Begin, a), b) = << >>
    BY <1>5, NothingTheirsInOwn DEF b
  <1> HIDE DEF image
  <1>18. AllTheirs(Begin, image) = UserLines(t)
    <2>1. UserLines(t) \o << >> = UserLines(t)
      BY <1>15, ListedEmptyConcat
    <2> QED
      BY <1>14, <1>16, <1>17, <2>1 DEF a, Joins
  <1> QED
    BY <1>4, <1>18, UserLinesAre DEF image, a, b, lns

\* The user has no part in it.
Foreign(l) == l.by = "program"
Unauthored(t) == Listed(t) /\ \A i \in 1 .. Len(t) : Foreign(t[i])

\* The user's lines in what the program itself leaves: none.
LEMMA NoneOfTheirs == \A t \in Partial \cup {Template, Torn.text} : UserLines(t) = << >>
  <1>1. ASSUME NEW t, Unauthored(t)
        PROVE  UserLines(t) = << >>
    <2>1. Listed(t) /\ \A i \in 1 .. Len(t) : t[i].by # "user"
      BY <1>1 DEF Unauthored, Foreign
    <2>2. AllTheirs(Begin, t) = << >>
      BY <2>1, NothingOfTheirs
    <2> QED
      BY <2>2, UserLinesAre
  <1>2. /\ Foreign(Header("global", "program")) /\ Foreign(Header("default", "program"))
        /\ Foreign(Line("key", "discovery", "ok", "program"))
        /\ Foreign(Line("key", "protocol", "ok", "program"))
        /\ Foreign(BadLine("protocol", "program"))
        /\ Foreign(Line("torn", "", "", "program"))
    BY DEF Foreign, Header, Line, BadLine
  <1>3. ASSUME NEW t \in Partial \cup {Template} PROVE UserLines(t) = << >>
    <2>1. Listed(t)
      BY SmallFiles
    <2>2. CASE t = << >>
      <3>1. Unauthored(t)
        BY <2>2, ListedSmall DEF Unauthored
      <3> QED
        BY <1>1, <3>1
    <2>3. CASE t = << Header("default", "program"), BadLine("protocol", "program") >>
      <3>1. /\ Len(t) = 2 /\ Foreign(t[1]) /\ Foreign(t[2])
        BY <1>2, <2>3
      <3>2. \A i \in 1 .. Len(t) : Foreign(t[i])
        BY <3>1
      <3> QED
        BY <1>1, <2>1, <3>2 DEF Unauthored
    <2>4. CASE t = Template
      <3>1. /\ Len(t) = 4 /\ Foreign(t[1]) /\ Foreign(t[2]) /\ Foreign(t[3]) /\ Foreign(t[4])
        BY <1>2, <2>4 DEF Template
      <3>2. \A i \in 1 .. Len(t) : Foreign(t[i])
        BY <3>1
      <3> QED
        BY <1>1, <2>1, <3>2 DEF Unauthored
    <2> QED
      BY <2>2, <2>3, <2>4 DEF Partial
  <1>4. UserLines(Torn.text) = << >>
    <2> DEFINE t == Torn.text
    <2>1. Listed(t) /\ Len(t) = 1 /\ Foreign(t[1])
      BY <1>2, ListedSmall DEF Torn, File
    <2> HIDE DEF t
    <2>2. \A i \in 1 .. Len(t) : Foreign(t[i])
      BY <2>1
    <2>3. UserLines(t) = << >>
      BY <1>1, <2>1, <2>2 DEF Unauthored
    <2> QED
      BY <2>3 DEF t
  <1> QED
    BY <1>3, <1>4

\* What was read has the user's lines that are in the file now, and so has what
\* a crash of the host may bring back, unless that tears the file.
Preserved ==
    /\ proc = "up" =>
        \E t : Whole(t) /\ Tidy(t) /\ lines = LinesOf(t) /\ UserLines(disk.text) = UserLines(t)
    /\ \A file \in older : file # Torn => UserLines(file.text) = UserLines(disk.text)

\* A save that ends puts the user's lines where they were.
LEMMA RenameKeepsTheirs ==
    ASSUME FileInv, Linked, Preserved, RenameTmp
    PROVE  Preserved' /\ UserLines(disk'.text) = UserLines(disk.text)
  <1>1. proc = "up" /\ disk' = File(Image(lines, sections)) /\ proc' = proc /\ lines' = lines
    BY RenamedIs DEF RenameTmp
  <1>2. PICK t : /\ Whole(t) /\ Tidy(t) /\ lines = LinesOf(t)
                 /\ UserLines(disk.text) = UserLines(t)
    BY <1>1 DEF Preserved
  <1>3. Sections(sections) /\ WellFormed(sections)
    BY <1>1 DEF FileInv, Running, Ready, Linked
  <1> DEFINE image == Image(lines, sections)
  <1>4. UserLines(image) = UserLines(t)
    BY <1>2, <1>3, ImageKeepsTheirs DEF Whole
  <1>5. disk'.text = image
    BY <1>1 DEF File
  <1> HIDE DEF image
  <1>6. UserLines(disk'.text) = UserLines(disk.text)
    BY <1>2, <1>4, <1>5
  <1>8. older' \subseteq older \cup {disk, Torn}
    BY DEF RenameTmp
  <1>7. Preserved'
    BY <1>1, <1>2, <1>6, <1>8 DEF Preserved
  <1> QED
    BY <1>6, <1>7

\* A template is written where nothing is on file, and has nothing of theirs.
LEMMA TemplateKeepsTheirs ==
    ASSUME OnDisk, Preserved, ~disk.there \/ proc = "template",
           disk'.text \in Partial \cup {Template}, proc' # "up",
           older' \subseteq older \cup {disk, Torn}
    PROVE  Preserved' /\ UserLines(disk'.text) = UserLines(disk.text)
  <1>1. UserLines(disk'.text) = << >>
    BY NoneOfTheirs
  <1>2. UserLines(disk.text) = << >>
    <2>1. CASE ~disk.there
      <3>1. disk = Missing
        BY <2>1 DEF OnDisk, Filed
      <3>2. Missing.text \in Partial
        BY DEF Missing, Partial
      <3> QED
        BY <3>1, <3>2, NoneOfTheirs
    <2>2. CASE proc = "template"
      <3>1. disk.text \in Partial
        BY <2>2 DEF OnDisk
      <3> QED
        BY <3>1, NoneOfTheirs
    <2> QED
      BY <2>1, <2>2
  <1> QED
    BY <1>1, <1>2 DEF Preserved

\* What a crash of the host leaves.
LEMMA CrashKeepsTheirs ==
    ASSUME Preserved, HostCrash
    PROVE  Preserved' /\ (disk' = Torn \/ UserLines(disk'.text) = UserLines(disk.text))
  <1>1. proc' = "down" /\ disk' \in older \cup {disk} /\ older' = {}
    BY DEF HostCrash, Gone
  <1> QED
    BY <1>1 DEF Preserved

LEMMA LoadPreserves ==
    ASSUME FileInv, OnDisk, Preserved, Load
    PROVE  Preserved'
  <1>0. disk' = disk /\ older' = older
    BY DEF Load
  <1>1. CASE ParseOK(disk.text)
    <2> DEFINE t == disk.text
    <2>1. disk.there /\ lines' = LinesOf(t) /\ disk' = disk
      BY <1>1 DEF Load
    <2>2. Tidy(t)
      BY <1>1, <2>1 DEF OnDisk, Filed, Readable
    <2>3. Whole(t)
      <3>1. Listed(t) /\ FileOK(disk)
        BY DEF FileInv, TypeOK, Kept
      <3> QED
        BY <1>1, <3>1, ListedFunction DEF Whole, FileOK
    <2>4. Whole(t) /\ Tidy(t) /\ lines' = LinesOf(t) /\ UserLines(disk'.text) = UserLines(t)
      BY <2>1, <2>2, <2>3
    <2> HIDE DEF t
    <2> QED
      BY <1>0, <2>4 DEF Preserved
  <1>2. CASE ~ParseOK(disk.text)
    <2>1. proc' # "up"
      BY <1>2 DEF Load
    <2> QED
      BY <1>0, <2>1 DEF Preserved
  <1> QED
    BY <1>1, <1>2

LEMMA PreservedStays ==
    ASSUME Preserved, UNCHANGED << lines, disk, older, proc >>
    PROVE  Preserved'
  BY DEF Preserved

\* Every step.
LEMMA PreservedStep ==
    ASSUME StoreInv, Preserved, [Next]_vars
    PROVE  /\ Preserved'
           /\ disk' # disk => disk' = Torn \/ UserLines(disk'.text) = UserLines(disk.text)
  <1> DEFINE Goal == /\ Preserved'
                     /\ disk' # disk => disk' = Torn \/ UserLines(disk'.text) = UserLines(disk.text)
  <1>0. FileInv /\ Linked /\ OnDisk
    BY DEF StoreInv
  <1>20. UNCHANGED << lines, disk, older, proc >> => Goal
    BY PreservedStays
  <1>1. CASE UNCHANGED vars
    BY <1>1, <1>20 DEF vars
  <1>2. ASSUME NEW part \in Partial, WriteTemplate(part) PROVE Goal
    <2>1. /\ ~disk.there /\ disk'.text = part /\ proc' # "up" /\ older' = older \cup {disk, Torn}
      BY <1>2 DEF WriteTemplate, File
    <2> QED
      BY <1>0, <2>1, TemplateKeepsTheirs
  <1>3. CASE EndTemplate
    <2>1. /\ proc = "template" /\ disk'.text = Template /\ proc' # "up" /\ older' = older \cup {disk}
      BY <1>3 DEF EndTemplate, File
    <2> QED
      BY <1>0, <2>1, TemplateKeepsTheirs
  <1>4. CASE OpenFails
    BY <1>4 DEF OpenFails, Preserved
  <1>5. CASE Load
    BY <1>0, <1>5, LoadPreserves DEF Load
  <1>6. ASSUME NEW auto \in BOOLEAN, StartStatic(auto) PROVE Goal
    BY <1>6, <1>20, Zenon DEF StartStatic, Resolve
  <1>7. ASSUME NEW dev, NEW auto \in BOOLEAN, Discover(dev, auto) PROVE Goal
    BY <1>7, <1>20, Zenon DEF Discover, Resolve
  <1>8. ASSUME NEW key, NEW creds, SaveCreds(key, creds) PROVE Goal
    BY <1>8, <1>20 DEF SaveCreds
  <1>9. ASSUME NEW key, NEW name, SavePlayerName(key, name) PROVE Goal
    BY <1>9, <1>20 DEF SavePlayerName
  <1>10. CASE WriteTmp
    BY <1>10, <1>20 DEF WriteTmp
  <1>11. CASE WriteFails
    BY <1>11, <1>20 DEF WriteFails
  <1>12. CASE SyncTmp
    BY <1>12, <1>20 DEF SyncTmp
  <1>17. CASE SyncFails
    BY <1>17, <1>20 DEF SyncFails
  <1>13. CASE RenameTmp
    BY <1>0, <1>13, RenameKeepsTheirs
  <1>14. CASE RenameFails
    BY <1>14, <1>20 DEF RenameFails
  <1>15. CASE Crash
    BY <1>15 DEF Crash, Gone, Preserved
  <1>16. CASE HostCrash
    BY <1>16, CrashKeepsTheirs
  <1>18. CASE WriteBack
    BY <1>18 DEF WriteBack, Preserved
  <1> QED
    BY <1>1, <1>2, <1>3, <1>4, <1>5, <1>6, <1>7, <1>8, <1>9, <1>10, <1>11, <1>12, <1>13,
       <1>14, <1>15, <1>16, <1>17, <1>18 DEF Next

\* The lines a user wrote outlive every save, whatever was saved, learnt and
\* renamed since they were read, in order and under their headers, and every
\* crash that does not tear the file.
THEOREM UserLinesAreKept == Spec => KeepsUserLines
  <1>1. Init => Preserved
    BY DEF Init, Preserved
  <1>2. StoreInv /\ Preserved /\ [Next]_vars => Preserved'
    BY PreservedStep
  <1>3. StoreInv /\ Preserved /\ [Next]_vars
            => [ disk' # disk
                    => disk' = Torn \/ UserLines(disk'.text) = UserLines(disk.text) ]_vars
    BY PreservedStep
  <1> QED
    BY <1>1, <1>2, <1>3, StoreInit, StoreStep, PTL DEF Spec, KeepsUserLines
=============================================================================
