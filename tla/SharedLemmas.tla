---------------------------- MODULE SharedLemmas ----------------------------
(* What the proofs share.  About naturals and sequences, what the library    *)
(* does not state: induction over a set of naturals (the library's induction *)
(* theorems have a predicate as a parameter; this one has a set, and follows *)
(* from its WFMin), parts of a sequence, and the concatenation of a sequence *)
(* of sequences.  About player sections, what their operators keep: that a   *)
(* MAC is found which no other section has, that reading a file leaves every *)
(* section with one, and that a device that is resolved disturbs none.       *)
EXTENDS Integers, PlayerSections, SequencesExt, SequenceTheorems,
        FiniteSetTheorems, WellFoundedInduction, TLAPS

-----------------------------------------------------------------------------
(* The naturals.                                                            *)

\* A non-empty set of naturals has a least element.
LEMMA Least ==
    ASSUME NEW T, T \subseteq Nat, T # {}
    PROVE  \E n \in T : \A m \in T : n <= m
  <1>1. PICK n \in T : \A m \in T : << m, n >> \notin OpToRel(<, Nat)
    BY NatLessThanWellFounded, WFMin, Zenon
  <1>2. \A m \in Nat : m < n => << m, n >> \in OpToRel(<, Nat)
    BY Zenon DEF OpToRel
  <1>3. n \in Nat /\ \A m \in T : m \in Nat /\ ~ (m < n)
    BY <1>1, <1>2, Zenon
  <1>4. \A m \in T : n <= m
    BY <1>3
  <1> QED
    BY <1>4, Zenon

\* Induction: a set with 0 and every successor of its members has them all.
LEMMA Induction ==
    ASSUME NEW G, 0 \in G, \A n \in Nat : n \in G => n + 1 \in G
    PROVE  Nat \subseteq G
  <1> DEFINE T == Nat \ G
  <1> SUFFICES ASSUME T # {} PROVE FALSE
    OBVIOUS
  <1>1. T \subseteq Nat
    OBVIOUS
  <1>2. PICK n \in T : \A m \in T : n <= m
    <2> HIDE DEF T
    <2> QED  BY <1>1, Least
  <1>3. n # 0
    OBVIOUS
  <1>4. n - 1 \in Nat /\ n - 1 \in G
    BY <1>2, <1>3
  <1> QED
    BY <1>4, n = (n - 1) + 1

\* Min() of a non-empty set of naturals is its least element.
LEMMA MinIsLeast ==
    ASSUME NEW T, T \subseteq Nat, T # {}
    PROVE  Min(T) \in T /\ \A m \in T : Min(T) <= m
  BY Least, Zenon DEF Min

-----------------------------------------------------------------------------
(* Parts and concatenations.                                                *)

\* Three sequences are joined in either order.  The name keeps the equation
\* from the provers until it is wanted.
Associates(s, t, u) == (s \o t) \o u = s \o (t \o u)

LEMMA Associated ==
    ASSUME NEW S, NEW s \in Seq(S), NEW t \in Seq(S), NEW u \in Seq(S)
    PROVE  Associates(s, t, u)
  BY ConcatAssociative DEF Associates

\* The part of a sequence behind its first m elements, up to the n-th.
LEMMA PartOf ==
    ASSUME NEW S, NEW s \in Seq(S), NEW m \in 0 .. Len(s), NEW n \in m .. Len(s)
    PROVE  /\ SubSeq(s, m + 1, n) \in Seq(S) /\ Len(SubSeq(s, m + 1, n)) = n - m
           /\ \A i \in 1 .. n - m : SubSeq(s, m + 1, n)[i] = s[m + i]
           /\ SubSeq(s, m + 1, n) = << >> <=> m = n
  <1>1. Len(s) \in Nat /\ m \in Int /\ n \in Int /\ m + 1 \in Int
    BY LenProperties
  <1>2. \A i \in m + 1 .. n : s[i] \in S
    BY <1>1, ElementOfSeq
  <1>3. /\ SubSeq(s, m + 1, n) \in Seq(S)
        /\ Len(SubSeq(s, m + 1, n)) = IF m + 1 <= n THEN n - (m + 1) + 1 ELSE 0
        /\ \A i \in 1 .. n - (m + 1) + 1 : SubSeq(s, m + 1, n)[i] = s[(m + 1) + i - 1]
    BY <1>1, <1>2, SubSeqProperties
  <1>4. SubSeq(s, m + 1, n) = << >> <=> Len(SubSeq(s, m + 1, n)) = 0
    BY <1>3, EmptySeq
  <1> QED BY <1>1, <1>3, <1>4

\* A sequence is what is cut off in front and what is left.
LEMMA CutInTwo ==
    ASSUME NEW S, NEW s \in Seq(S), NEW m \in 0 .. Len(s)
    PROVE  /\ s = SubSeq(s, 1, m) \o SubSeq(s, m + 1, Len(s))
           /\ SubSeq(s, 1, m) \in Seq(S) /\ Len(SubSeq(s, 1, m)) = m
           /\ SubSeq(s, m + 1, Len(s)) \in Seq(S)
           /\ Len(SubSeq(s, m + 1, Len(s))) = Len(s) - m
           /\ \A i \in 1 .. m : SubSeq(s, 1, m)[i] = s[i]
  <1>1. Len(s) \in Nat /\ 0 \in 0 .. Len(s) /\ m \in 0 .. Len(s) /\ Len(s) \in m .. Len(s)
    BY LenProperties
  <1> DEFINE p == SubSeq(s, 1, m)
             q == SubSeq(s, m + 1, Len(s))
  <1>2. p \in Seq(S) /\ Len(p) = m /\ \A i \in 1 .. m : p[i] = s[i]
    <2>1. /\ SubSeq(s, 0 + 1, m) \in Seq(S) /\ Len(SubSeq(s, 0 + 1, m)) = m - 0
          /\ \A i \in 1 .. m - 0 : SubSeq(s, 0 + 1, m)[i] = s[0 + i]
      BY <1>1, PartOf
    <2> QED
      BY <1>1, <2>1
  <1>3. q \in Seq(S) /\ Len(q) = Len(s) - m /\ \A i \in 1 .. Len(s) - m : q[i] = s[m + i]
    BY <1>1, PartOf
  <1> HIDE DEF p, q
  <1>4. /\ p \o q \in Seq(S) /\ Len(p \o q) = Len(s)
        /\ \A i \in 1 .. Len(s) : (p \o q)[i] = s[i]
    <2>1. /\ p \o q \in Seq(S) /\ Len(p \o q) = Len(p) + Len(q)
          /\ \A i \in 1 .. Len(p) + Len(q) :
                (p \o q)[i] = IF i <= Len(p) THEN p[i] ELSE q[i - Len(p)]
      BY <1>2, <1>3, ConcatProperties
    <2>2. Len(p \o q) = Len(s)
      BY <1>1, <1>2, <1>3, <2>1
    <2>3. ASSUME NEW i \in 1 .. Len(s)
          PROVE  (p \o q)[i] = s[i]
      <3>1. i \in 1 .. Len(p) + Len(q)
        BY <1>1, <1>2, <1>3
      <3>2. (p \o q)[i] = IF i <= Len(p) THEN p[i] ELSE q[i - Len(p)]
        BY <2>1, <3>1
      <3>3. CASE i <= m
        BY <1>1, <1>2, <3>2, <3>3
      <3>4. CASE ~ (i <= m)
        <4>1. i - m \in 1 .. Len(s) - m /\ m + (i - m) = i
          BY <1>1, <3>4
        <4> QED
          BY <1>2, <1>3, <3>2, <3>4, <4>1
      <3> QED
        BY <3>3, <3>4
    <2> QED
      BY <2>1, <2>2, <2>3
  <1>5. p \o q = s
    BY <1>4, SeqEqual
  <1> QED
    BY <1>2, <1>3, <1>5 DEF p, q

-----------------------------------------------------------------------------
(* Prefixes.                                                                *)

LEMMA PrefixMeans ==
    ASSUME NEW S, NEW s \in Seq(S), NEW t \in Seq(S)
    PROVE  IsPrefix(s, t) <=> Len(s) <= Len(t) /\ \A i \in 1 .. Len(s) : t[i] = s[i]
  <1> SUFFICES ASSUME Len(s) <= Len(t)
               PROVE  SubSeq(s, 1, Len(s)) = SubSeq(t, 1, Len(s))
                        <=> \A i \in 1 .. Len(s) : t[i] = s[i]
    BY DEF IsPrefix
  <1>1. Len(s) \in Nat /\ Len(t) \in Nat /\ Len(s) \in 0 .. Len(t)
    BY LenProperties
  <1> DEFINE p == SubSeq(t, 1, Len(s))
  <1>2. p \in Seq(S) /\ Len(p) = Len(s) /\ \A i \in 1 .. Len(s) : p[i] = t[i]
    BY <1>1, CutInTwo
  <1>3. SubSeq(s, 1, Len(s)) = s
    BY SubSeqFull
  <1> HIDE DEF p
  <1>4. s = p <=> \A i \in 1 .. Len(s) : t[i] = s[i]
    <2>1. ASSUME \A i \in 1 .. Len(s) : t[i] = s[i]
          PROVE  s = p
      <3>1. \A i \in 1 .. Len(s) : s[i] = p[i]
        BY <1>2, <2>1
      <3> QED
        BY <1>2, <3>1, SeqEqual
    <2> QED
      BY <1>2, <2>1
  <1> QED
    BY <1>3, <1>4 DEF p

LEMMA PrefixOfPrefix ==
    ASSUME NEW S, NEW s \in Seq(S), NEW t \in Seq(S), NEW u \in Seq(S),
           IsPrefix(s, t), IsPrefix(t, u)
    PROVE  IsPrefix(s, u)
  <1>1. Len(s) \in Nat /\ Len(t) \in Nat /\ Len(u) \in Nat
    BY LenProperties
  <1>2. Len(s) <= Len(t) /\ \A i \in 1 .. Len(s) : t[i] = s[i]
    BY PrefixMeans
  <1>3. Len(t) <= Len(u) /\ \A i \in 1 .. Len(t) : u[i] = t[i]
    BY PrefixMeans
  <1>4. Len(s) <= Len(u) /\ \A i \in 1 .. Len(s) : u[i] = s[i]
    BY <1>1, <1>2, <1>3
  <1> QED
    BY <1>4, PrefixMeans

LEMMA PrefixOfConcat ==
    ASSUME NEW S, NEW s \in Seq(S), NEW t \in Seq(S)
    PROVE  /\ IsPrefix(s, s \o t)
           /\ \A u \in Seq(S) : IsPrefix(t, u) => IsPrefix(s \o t, s \o u)
  <1>1. Len(s) \in Nat /\ Len(t) \in Nat
    BY LenProperties
  <1>2. \A u \in Seq(S) : /\ s \o u \in Seq(S) /\ Len(s \o u) = Len(s) + Len(u) /\ Len(u) \in Nat
                          /\ \A i \in 1 .. Len(s) + Len(u) :
                                (s \o u)[i] = IF i <= Len(s) THEN s[i] ELSE u[i - Len(s)]
    BY ConcatProperties, LenProperties
  <1>3. IsPrefix(s, s \o t)
    <2> DEFINE x == s \o t
    <2>1. x \in Seq(S) /\ Len(s) <= Len(x) /\ \A i \in 1 .. Len(s) : x[i] = s[i]
      BY <1>1, <1>2
    <2> HIDE DEF x
    <2> QED
      BY <2>1, PrefixMeans DEF x
  <1>4. ASSUME NEW u \in Seq(S), IsPrefix(t, u)
        PROVE  IsPrefix(s \o t, s \o u)
    <2> DEFINE x == s \o t
               y == s \o u
    <2>1. Len(t) <= Len(u) /\ \A i \in 1 .. Len(t) : u[i] = t[i]
      BY <1>4, PrefixMeans
    <2>2. /\ x \in Seq(S) /\ Len(x) = Len(s) + Len(t)
          /\ \A i \in 1 .. Len(s) + Len(t) : x[i] = IF i <= Len(s) THEN s[i] ELSE t[i - Len(s)]
          /\ y \in Seq(S) /\ Len(y) = Len(s) + Len(u) /\ Len(u) \in Nat
          /\ \A i \in 1 .. Len(s) + Len(u) : y[i] = IF i <= Len(s) THEN s[i] ELSE u[i - Len(s)]
      BY <1>2
    <2> HIDE DEF x, y
    <2>3. Len(x) <= Len(y)
      BY <1>1, <2>1, <2>2
    <2>4. ASSUME NEW i \in 1 .. Len(x)
          PROVE  y[i] = x[i]
      <3>1. i \in 1 .. Len(s) + Len(t) /\ i \in 1 .. Len(s) + Len(u)
        BY <1>1, <2>1, <2>2
      <3>2. ~ (i <= Len(s)) => i - Len(s) \in 1 .. Len(t)
        BY <1>1, <3>1
      <3> QED
        BY <2>1, <2>2, <3>1, <3>2
    <2> QED
      BY <2>2, <2>3, <2>4, PrefixMeans DEF x, y
  <1> QED
    BY <1>3, <1>4

-----------------------------------------------------------------------------
(* FlattenSeq(), the concatenation of a sequence of sequences.               *)

\* The body of the function FlattenSeq() is defined with, that function, and
\* its value: the concatenation of the first n sequences.
FlatStep(seqs, f, i) == IF i = 1 THEN seqs[i] ELSE f[i - 1] \o seqs[i]
FlatOf(seqs) == CHOOSE f : f = [i \in 1 .. Len(seqs) |-> FlatStep(seqs, f, i)]
Flattened(seqs, n) == IF n = 0 THEN << >> ELSE FlatOf(seqs)[n]

LEMMA FlattenIsFlat ==
    ASSUME NEW seqs, Len(seqs) # 0
    PROVE  FlattenSeq(seqs) = FlatOf(seqs)[Len(seqs)]
  BY Zenon DEF FlattenSeq, FlatOf, FlatStep

\* The function exists: it is built one argument at a time.
LEMMA FlatIsDefined ==
    ASSUME NEW seqs, Len(seqs) \in Nat
    PROVE  FlatOf(seqs) = [i \in 1 .. Len(seqs) |-> FlatStep(seqs, FlatOf(seqs), i)]
  <1> DEFINE IsFlat(f, n) == f = [i \in 1 .. n |-> FlatStep(seqs, f, i)]
             Built == { n \in Nat : n <= Len(seqs) => \E f : IsFlat(f, n) }
  <1>1. 0 \in Built
    <2>1. IsFlat([i \in 1 .. 0 |-> << >>], 0)
      BY Z3
    <2> QED
      BY <2>1
  <1>2. ASSUME NEW n \in Nat, n \in Built
        PROVE  n + 1 \in Built
    <2> SUFFICES ASSUME n + 1 <= Len(seqs) PROVE \E f : IsFlat(f, n + 1)
      OBVIOUS
    <2>1. PICK f : IsFlat(f, n)
      BY <1>2
    <2> DEFINE g == [i \in 1 .. n + 1 |->
                        IF i = n + 1 THEN FlatStep(seqs, f, n + 1) ELSE f[i]]
    <2>2. \A i \in 1 .. n : g[i] = f[i] /\ f[i] = FlatStep(seqs, f, i)
      BY <2>1
    <2>3. \A i \in 1 .. n + 1 : FlatStep(seqs, g, i) = FlatStep(seqs, f, i)
      <3>1. \A i \in 1 .. n + 1 : i # 1 => g[i - 1] = f[i - 1]
        BY <2>2
      <3> QED
        BY <3>1 DEF FlatStep
    <2>4. \A i \in 1 .. n + 1 : g[i] = FlatStep(seqs, g, i)
      BY <2>2, <2>3
    <2>5. g = [i \in 1 .. n + 1 |-> g[i]]
      OBVIOUS
    <2> HIDE DEF g
    <2> QED
      BY <2>4, <2>5
  <1>3. Len(seqs) \in Built
    <2> HIDE DEF Built
    <2> QED
      BY <1>1, <1>2, Induction
  <1>4. \E f : IsFlat(f, Len(seqs))
    BY <1>3
  <1> QED
    BY <1>4, Zenon DEF FlatOf

\* The concatenation grows by one sequence at a time.
LEMMA FlattenedGrows ==
    ASSUME NEW S, NEW seqs \in Seq(Seq(S))
    PROVE  /\ Flattened(seqs, 0) = << >>
           /\ \A n \in 1 .. Len(seqs) : Flattened(seqs, n) = Flattened(seqs, n - 1) \o seqs[n]
           /\ \A n \in 0 .. Len(seqs) : Flattened(seqs, n) \in Seq(S)
           /\ FlattenSeq(seqs) = Flattened(seqs, Len(seqs))
  <1>1. Len(seqs) \in Nat /\ \A n \in 1 .. Len(seqs) : seqs[n] \in Seq(S)
    BY LenProperties, ElementOfSeq
  <1>2. Flattened(seqs, 0) = << >>
    BY DEF Flattened
  <1>3. ASSUME NEW n \in 1 .. Len(seqs)
        PROVE  Flattened(seqs, n) = Flattened(seqs, n - 1) \o seqs[n]
    <2>1. FlatOf(seqs)[n] = FlatStep(seqs, FlatOf(seqs), n)
      BY <1>1, FlatIsDefined
    <2>2. CASE n = 1
      <3>1. << >> \o seqs[n] = seqs[n]
        BY <1>1, ConcatEmptySeq
      <3> QED
        BY <2>1, <2>2, <3>1 DEF Flattened, FlatStep
    <2>3. CASE n # 1
      <3>1. n # 0 /\ n - 1 # 0
        BY <1>1, <2>3
      <3> QED
        BY <2>1, <2>3, <3>1, Zenon DEF Flattened, FlatStep
    <2> QED
      BY <2>2, <2>3
  <1>4. \A n \in 0 .. Len(seqs) : Flattened(seqs, n) \in Seq(S)
    <2> DEFINE Typed == { n \in Nat : n <= Len(seqs) => Flattened(seqs, n) \in Seq(S) }
    <2>1. 0 \in Typed
      BY <1>2, EmptySeq
    <2>2. ASSUME NEW n \in Nat, n \in Typed
          PROVE  n + 1 \in Typed
      <3> SUFFICES ASSUME n + 1 <= Len(seqs) PROVE Flattened(seqs, n + 1) \in Seq(S)
        OBVIOUS
      <3>1. n + 1 \in 1 .. Len(seqs) /\ (n + 1) - 1 = n
        BY <1>1
      <3>2. Flattened(seqs, n) \in Seq(S) /\ seqs[n + 1] \in Seq(S)
        BY <1>1, <2>2, <3>1
      <3>3. Flattened(seqs, n + 1) = Flattened(seqs, n) \o seqs[n + 1]
        BY <1>3, <3>1
      <3> QED
        BY <3>2, <3>3, ConcatProperties
    <2>3. Nat \subseteq Typed
      <3> HIDE DEF Typed
      <3> QED
        BY <2>1, <2>2, Induction
    <2> QED
      BY <1>1, <2>3
  <1>5. FlattenSeq(seqs) = Flattened(seqs, Len(seqs))
    <2>1. CASE Len(seqs) = 0
      BY <2>1, <1>2, EmptySeq DEF FlattenSeq
    <2>2. CASE Len(seqs) # 0
      BY <2>2, FlattenIsFlat DEF Flattened
    <2> QED
      BY <2>1, <2>2
  <1> QED
    BY <1>2, <1>3, <1>4, <1>5

\* What is joined first stays in front.
LEMMA FlattenedInFront ==
    ASSUME NEW S, NEW seqs \in Seq(Seq(S)), NEW m \in 0 .. Len(seqs)
    PROVE  \A n \in m .. Len(seqs) :
              /\ Len(Flattened(seqs, m)) <= Len(Flattened(seqs, n))
              /\ \A i \in 1 .. Len(Flattened(seqs, m)) : Flattened(seqs, n)[i] = Flattened(seqs, m)[i]
  <1> DEFINE InFront(n) == /\ Len(Flattened(seqs, m)) <= Len(Flattened(seqs, n))
                           /\ \A i \in 1 .. Len(Flattened(seqs, m)) :
                                  Flattened(seqs, n)[i] = Flattened(seqs, m)[i]
             G == { d \in Nat : m + d <= Len(seqs) => InFront(m + d) }
  <1>1. /\ Len(seqs) \in Nat /\ \A n \in 1 .. Len(seqs) : seqs[n] \in Seq(S)
        /\ \A n \in 0 .. Len(seqs) : Flattened(seqs, n) \in Seq(S) /\ Len(Flattened(seqs, n)) \in Nat
    BY LenProperties, ElementOfSeq, FlattenedGrows
  <1>2. 0 \in G
    <2>1. m + 0 = m /\ m \in 0 .. Len(seqs)
      BY <1>1
    <2> QED
      BY <1>1, <2>1
  <1>3. ASSUME NEW d \in Nat, d \in G
        PROVE  d + 1 \in G
    <2> SUFFICES ASSUME m + (d + 1) <= Len(seqs) PROVE InFront(m + (d + 1))
      OBVIOUS
    <2> DEFINE n == m + d
               j == Flattened(seqs, n)
    <2>1. /\ n \in 0 .. Len(seqs) /\ n + 1 \in 1 .. Len(seqs) /\ (n + 1) - 1 = n
          /\ m + (d + 1) = n + 1
      BY <1>1
    <2>2. InFront(n)
      BY <1>3, <2>1
    <2> HIDE DEF n
    <2>3. Flattened(seqs, n + 1) = j \o seqs[n + 1]
      BY <2>1, FlattenedGrows
    <2>4. j \in Seq(S) /\ Len(j) \in Nat /\ seqs[n + 1] \in Seq(S) /\ Len(seqs[n + 1]) \in Nat
      BY <1>1, <2>1, LenProperties
    <2>5. /\ Len(j \o seqs[n + 1]) = Len(j) + Len(seqs[n + 1])
          /\ \A i \in 1 .. Len(j) + Len(seqs[n + 1]) :
                (j \o seqs[n + 1])[i] = IF i <= Len(j) THEN j[i] ELSE seqs[n + 1][i - Len(j)]
      <3> HIDE DEF j
      <3> QED
        BY <2>4, ConcatProperties
    <2>6. Len(Flattened(seqs, m)) \in Nat
      BY <1>1
    <2>7. /\ Len(Flattened(seqs, m)) <= Len(j)
          /\ \A i \in 1 .. Len(Flattened(seqs, m)) : j[i] = Flattened(seqs, m)[i]
      BY <2>2
    <2> HIDE DEF j
    <2>8. InFront(n + 1)
      BY <2>3, <2>4, <2>5, <2>6, <2>7, SMTT(120)
    <2> QED
      BY <2>1, <2>8
  <1>4. Nat \subseteq G
    <2> HIDE DEF G
    <2> QED
      BY <1>2, <1>3, Induction
  <1> SUFFICES ASSUME NEW n \in m .. Len(seqs) PROVE InFront(n)
    OBVIOUS
  <1>5. n - m \in Nat /\ m + (n - m) = n /\ n <= Len(seqs)
    BY <1>1
  <1>6. n - m \in G
    BY <1>4, <1>5
  <1> QED
    BY <1>5, <1>6

LEMMA FlattenedIsPrefix ==
    ASSUME NEW S, NEW seqs \in Seq(Seq(S)), NEW m \in 0 .. Len(seqs), NEW n \in m .. Len(seqs)
    PROVE  IsPrefix(Flattened(seqs, m), Flattened(seqs, n))
  <1>1. Len(seqs) \in Nat /\ n \in 0 .. Len(seqs)
    BY LenProperties
  <1>2. Flattened(seqs, m) \in Seq(S) /\ Flattened(seqs, n) \in Seq(S)
    BY <1>1, FlattenedGrows
  <1>3. /\ Len(Flattened(seqs, m)) <= Len(Flattened(seqs, n))
        /\ \A i \in 1 .. Len(Flattened(seqs, m)) : Flattened(seqs, n)[i] = Flattened(seqs, m)[i]
    BY FlattenedInFront
  <1> QED
    BY <1>2, <1>3, PrefixMeans

-----------------------------------------------------------------------------
(* The elements of a sequence.                                               *)

\* The elements of a concatenation are those of its parts.
LEMMA ElementsOfConcat ==
    ASSUME NEW S, NEW s \in Seq(S), NEW t \in Seq(S)
    PROVE  ToSet(s \o t) = ToSet(s) \cup ToSet(t)
  <1>1. Len(s) \in Nat /\ Len(t) \in Nat /\ DOMAIN s = 1 .. Len(s) /\ DOMAIN t = 1 .. Len(t)
    BY LenProperties
  <1>2. /\ s \o t \in Seq(S) /\ DOMAIN (s \o t) = 1 .. Len(s) + Len(t)
        /\ \A i \in 1 .. Len(s) + Len(t) :
              (s \o t)[i] = IF i <= Len(s) THEN s[i] ELSE t[i - Len(s)]
    <2>1. s \o t \in Seq(S) /\ Len(s \o t) = Len(s) + Len(t)
      BY ConcatProperties
    <2>2. DOMAIN (s \o t) = 1 .. Len(s \o t)
      BY <2>1, LenProperties
    <2> QED
      BY <2>1, <2>2, ConcatProperties
  <1> DEFINE a == s \o t
  <1> HIDE DEF a
  <1>3. /\ DOMAIN a = 1 .. Len(s) + Len(t)
        /\ \A i \in 1 .. Len(s) + Len(t) : a[i] = IF i <= Len(s) THEN s[i] ELSE t[i - Len(s)]
    BY <1>2 DEF a
  <1>4. ASSUME NEW x \in ToSet(a)
        PROVE  x \in ToSet(s) \cup ToSet(t)
    <2>1. PICK i \in 1 .. Len(s) + Len(t) : x = a[i]
      BY <1>3 DEF ToSet
    <2>2. CASE i <= Len(s)
      <3>1. i \in DOMAIN s /\ x = s[i]
        BY <1>1, <1>3, <2>1, <2>2
      <3> QED
        BY <3>1 DEF ToSet
    <2>3. CASE ~ (i <= Len(s))
      <3>1. i - Len(s) \in DOMAIN t /\ x = t[i - Len(s)]
        BY <1>1, <1>3, <2>1, <2>3
      <3> QED
        BY <3>1 DEF ToSet
    <2> QED
      BY <2>2, <2>3
  <1>5. ASSUME NEW x \in ToSet(s)
        PROVE  x \in ToSet(a)
    <2>1. PICK i \in DOMAIN s : x = s[i]
      BY DEF ToSet
    <2>2. i \in DOMAIN a /\ x = a[i]
      BY <1>1, <1>3, <2>1
    <2> QED
      BY <2>2 DEF ToSet
  <1>6. ASSUME NEW x \in ToSet(t)
        PROVE  x \in ToSet(a)
    <2>1. PICK i \in DOMAIN t : x = t[i]
      BY DEF ToSet
    <2>2. Len(s) + i \in DOMAIN a /\ x = a[Len(s) + i]
      BY <1>1, <1>3, <2>1
    <2> QED
      BY <2>2 DEF ToSet
  <1>7. ToSet(a) = ToSet(s) \cup ToSet(t)
    BY <1>4, <1>5, <1>6
  <1> QED
    BY <1>7 DEF a

\* The elements of a sequence, of its parts and of one with one more.
LEMMA ElementsOf ==
    ASSUME NEW S, NEW s \in Seq(S)
    PROVE  /\ ToSet(<< >>) = {} /\ ToSet(s) \subseteq S
           /\ \A i \in 1 .. Len(s) : s[i] \in ToSet(s)
           /\ \A x \in ToSet(s) : \E i \in 1 .. Len(s) : x = s[i]
           /\ \A x \in S : ToSet(Append(s, x)) = ToSet(s) \cup {x}
           /\ s # << >> => ToSet(s) = {Head(s)} \cup ToSet(Tail(s))
  <1>1. Len(s) \in Nat /\ DOMAIN s = 1 .. Len(s) /\ \A i \in 1 .. Len(s) : s[i] \in S
    BY LenProperties, ElementOfSeq
  <1>2. ToSet(<< >>) = {}
    BY DEF ToSet
  <1>3. /\ \A i \in 1 .. Len(s) : s[i] \in ToSet(s)
        /\ \A x \in ToSet(s) : \E i \in 1 .. Len(s) : x = s[i]
    BY <1>1, Zenon DEF ToSet
  <1>4. \A x : ToSet(<< x >>) = {x}
    BY DEF ToSet
  <1>5. ASSUME NEW x \in S
        PROVE  ToSet(Append(s, x)) = ToSet(s) \cup {x}
    <2> DEFINE e == << x >>
    <2>1. e \in Seq(S) /\ Append(s, x) = s \o e /\ ToSet(e) = {x}
      BY <1>4, AppendIsConcat
    <2> HIDE DEF e
    <2> QED
      BY <2>1, ElementsOfConcat
  <1>6. ASSUME s # << >>
        PROVE  ToSet(s) = {Head(s)} \cup ToSet(Tail(s))
    <2> DEFINE h == Head(s)
               l == Tail(s)
               e == << h >>
    <2>1. h \in S /\ l \in Seq(S)
      BY <1>6, HeadTailProperties
    <2>2. s = e \o l
      <3>1. 1 \in 1 .. Len(s) /\ Len(s) \in 1 .. Len(s)
        BY <1>6, EmptySeq
      <3>2. SubSeq(s, 1, Len(s)) = << s[1] >> \o SubSeq(s, 1 + 1, Len(s))
        BY <3>1, SubSeqRecursiveFirst
      <3>3. SubSeq(s, 1, Len(s)) = s /\ Tail(s) = SubSeq(s, 2, Len(s)) /\ 1 + 1 = 2
        BY <1>6, SubSeqFull, TailIsSubSeq
      <3>4. Head(s) = s[1]
        BY DEF Head
      <3> QED
        BY <3>2, <3>3, <3>4
    <2>3. e \in Seq(S) /\ ToSet(e) = {h}
      BY <1>4, <2>1
    <2> HIDE DEF h, l, e
    <2>4. ToSet(e \o l) = ToSet(e) \cup ToSet(l)
      BY <2>1, <2>3, ElementsOfConcat
    <2>5. ToSet(s) = {h} \cup ToSet(l)
      BY <2>2, <2>3, <2>4
    <2> QED
      BY <2>5 DEF h, l
  <1> QED
    BY <1>1, <1>2, <1>3, <1>5, <1>6

\* Every element of the sequences is in their concatenation.
LEMMA ElementsOfFlatten ==
    ASSUME NEW S, NEW seqs \in Seq(Seq(S)), NEW b \in 1 .. Len(seqs)
    PROVE  ToSet(seqs[b]) \subseteq ToSet(FlattenSeq(seqs))
  <1> DEFINE f(n) == Flattened(seqs, n)
             N == Len(seqs)
  <1>1. N \in Nat /\ b \in 0 .. N /\ N \in b .. N /\ b - 1 \in 0 .. N /\ seqs[b] \in Seq(S)
    BY LenProperties, ElementOfSeq
  <1>2. /\ f(b) = f(b - 1) \o seqs[b] /\ f(b - 1) \in Seq(S) /\ f(b) \in Seq(S) /\ f(N) \in Seq(S)
        /\ FlattenSeq(seqs) = f(N)
    <2>1. 0 \in 0 .. N /\ N \in 0 .. N
      BY <1>1
    <2> QED
      BY <1>1, <2>1, FlattenedGrows
  <1>3. /\ Len(f(b)) <= Len(f(N))
        /\ \A i \in 1 .. Len(f(b)) : f(N)[i] = f(b)[i]
    BY <1>1, FlattenedInFront
  <1> DEFINE x == f(b)
             y == f(N)
             z == f(b - 1)
             d == seqs[b]
  <1>4. /\ x = z \o d /\ x \in Seq(S) /\ z \in Seq(S) /\ d \in Seq(S) /\ y \in Seq(S)
        /\ Len(x) <= Len(y) /\ \A i \in 1 .. Len(x) : y[i] = x[i]
    BY <1>1, <1>2, <1>3
  <1> HIDE DEF f, x, y, z, d
  <1>5. ToSet(d) \subseteq ToSet(x)
    BY <1>4, ElementsOfConcat
  <1>6. ASSUME NEW u \in ToSet(x)
        PROVE  u \in ToSet(y)
    <2>3. x \in Seq(S) /\ y \in Seq(S)
      BY <1>4
    <2>1. PICK i \in 1 .. Len(x) : u = x[i]
      BY <2>3, ElementsOf
    <2>2. Len(x) \in Nat /\ Len(y) \in Nat /\ i \in 1 .. Len(y) /\ u = y[i]
      BY <1>4, <2>1, LenProperties
    <2>4. y[i] \in ToSet(y)
      BY <2>2, <2>3, ElementsOf
    <2> QED
      BY <2>2, <2>4
  <1> QED
    BY <1>2, <1>5, <1>6 DEF y, d

-----------------------------------------------------------------------------
(* Sections.                                                                *)

\* The first n sections have a MAC.
HaveMacs(secs, n) == \A i \in 1 .. n : secs[i].mac # NoMac

\* `other` has the same sections as `secs`, but for MACs that were missing.
SameButMacs(secs, other) ==
    /\ Len(other) = Len(secs)
    /\ \A i \in 1 .. Len(secs) :
        /\ secs[i].mac # NoMac => other[i].mac = secs[i].mac
        /\ other[i] = [secs[i] EXCEPT !.mac = other[i].mac]

\* The k-th MAC that assignMacLocked() tries for a section.
Tried(sec, k) == << fakeMacFor(KeyOf(sec))[1], (1 + k) % 256 >>

\* What assignMac() does to a section without a MAC.
LEMMA AssignMacIs ==
    ASSUME NEW secs, NEW i, secs[i].mac = NoMac
    PROVE  LET taken == { secs[j].mac : j \in DOMAIN secs \ {i} }
               tries == { k \in 0 .. Len(secs) : Tried(secs[i], k) \notin taken }
           IN  assignMac(secs, i) = [secs EXCEPT ![i].mac = Tried(secs[i], Min(tries))]
  <1> DEFINE base == fakeMacFor(KeyOf(secs[i]))
             Bumped(k) == << base[1], (base[2] + k) % 256 >>
             taken == { secs[j].mac : j \in DOMAIN secs \ {i} }
             bumps == { k \in 0 .. Len(secs) : Bumped(k) \notin taken }
             tries == { k \in 0 .. Len(secs) : Tried(secs[i], k) \notin taken }
  <1>1. base[2] = 1
    BY DEF fakeMacFor
  <1>2. assignMac(secs, i) = [secs EXCEPT ![i].mac = Bumped(Min(bumps))]
    BY Zenon DEF assignMac, KeyOf
  <1>3. \A k : Bumped(k) = Tried(secs[i], k)
    BY <1>1, Zenon DEF Tried
  <1> HIDE DEF base, Bumped, taken
  <1>4. bumps = tries
    BY <1>3
  <1> HIDE DEF bumps, tries
  <1>5. assignMac(secs, i) = [secs EXCEPT ![i].mac = Tried(secs[i], Min(tries))]
    BY <1>2, <1>3, <1>4, Zenon
  <1> QED
    BY <1>5, Zenon DEF taken, tries

\* The bytes of 256 tries differ.
LEMMA TriesDiffer ==
    ASSUME NEW k \in 0 .. 255, NEW m \in 0 .. 255, (1 + k) % 256 = (1 + m) % 256
    PROVE  k = m
  <1>1. k < 255 => (1 + k) % 256 = 1 + k
    OBVIOUS
  <1>2. m < 255 => (1 + m) % 256 = 1 + m
    OBVIOUS
  <1> QED
    BY <1>1, <1>2

\* With no more than 256 sections one of the tries is free: the bytes of the
\* first Len(secs) tries differ, and the other sections are one fewer.
LEMMA OneTryIsFree ==
    ASSUME NEW secs, Sections(secs), Len(secs) <= 256, NEW i \in 1 .. Len(secs)
    PROVE  \E k \in 0 .. Len(secs) :
                Tried(secs[i], k) \notin { secs[j].mac : j \in DOMAIN secs \ {i} }
  <1> DEFINE taken  == { secs[j].mac : j \in DOMAIN secs \ {i} }
             tries  == 0 .. Len(secs) - 1
             others == (1 .. Len(secs)) \ {i}
             f      == [k \in tries |-> CHOOSE j \in others : secs[j].mac = Tried(secs[i], k)]
  <1>1. DOMAIN secs = 1 .. Len(secs) /\ Len(secs) \in Nat
    BY DEF Sections
  <1> SUFFICES ASSUME \A k \in 0 .. Len(secs) : Tried(secs[i], k) \in taken
               PROVE  FALSE
    OBVIOUS
  <1>2. IsFiniteSet(tries) /\ Cardinality(tries) = Len(secs)
    <2>1. 0 \in Int /\ Len(secs) - 1 \in Int /\ ~ (0 > Len(secs) - 1)
      BY <1>1
    <2>2. IsFiniteSet(tries) /\ Cardinality(tries) = (Len(secs) - 1) - 0 + 1
      BY <2>1, FS_Interval, Zenon
    <2> QED
      BY <1>1, <2>2
  <1>3. IsFiniteSet(others) /\ Cardinality(others) = Len(secs) - 1
    <2>1. 1 \in Int /\ Len(secs) \in Int /\ ~ (1 > Len(secs))
      BY <1>1
    <2>2. IsFiniteSet(1 .. Len(secs)) /\ Cardinality(1 .. Len(secs)) = Len(secs) - 1 + 1
      BY <2>1, FS_Interval, Zenon
    <2>3. IsFiniteSet(others) /\ Cardinality(others) = (Len(secs) - 1 + 1) - 1
      BY <2>2, FS_RemoveElement, Zenon
    <2> QED
      BY <1>1, <2>3
  <1>4. ASSUME NEW k \in tries
        PROVE  f[k] \in others /\ secs[f[k]].mac = Tried(secs[i], k)
    <2>1. \E j \in others : secs[j].mac = Tried(secs[i], k)
      <3>1. k \in 0 .. Len(secs)
        BY <1>1
      <3>2. Tried(secs[i], k) \in taken
        BY <3>1
      <3>3. \A mac \in taken : \E j \in DOMAIN secs \ {i} : secs[j].mac = mac
        BY Zenon
      <3> QED
        BY <1>1, <3>2, <3>3, Zenon
    <2>2. f[k] = CHOOSE j \in others : secs[j].mac = Tried(secs[i], k)
      OBVIOUS
    <2> HIDE DEF f, others
    <2> QED
      BY <2>1, <2>2, Zenon
  <1>5. f \in [tries -> others]
    BY <1>4
  <1>6. \E k, m \in tries : k # m /\ f[k] = f[m]
    <2> HIDE DEF f, tries, others
    <2> QED  BY <1>1, <1>2, <1>3, <1>5, FS_PigeonHole, SMTT(120)
  <1>7. PICK k \in tries, m \in tries : k # m /\ f[k] = f[m]
    BY <1>6
  <1>8. Tried(secs[i], k) = Tried(secs[i], m)
    BY <1>4, <1>7
  <1>9. (1 + k) % 256 = (1 + m) % 256
    BY <1>8 DEF Tried
  <1> QED
    <2>1. \A n \in tries : n \in 0 .. 255
      <3> HIDE DEF f, taken
      <3>1. PICK len \in Nat : len = Len(secs)
        BY <1>1
      <3> QED
        BY <3>1
    <2> QED
      BY <1>7, <1>9, <2>1, TriesDiffer, Zenon

\* assignMac() gives the section a MAC, changes nothing else, and takes none
\* that is there.
LEMMA AssignMac ==
    ASSUME NEW secs, Sections(secs), NEW i \in 1 .. Len(secs)
    PROVE  LET new == assignMac(secs, i)
           IN  /\ Sections(new) /\ SameButMacs(secs, new)
               /\ new[i].mac # NoMac
               /\ \A j \in 1 .. Len(secs) : j # i => new[j] = secs[j]
               /\ Len(secs) <= 256 /\ Unrepeated(secs) => Unrepeated(new)
  <1> DEFINE new   == assignMac(secs, i)
             taken == { secs[j].mac : j \in DOMAIN secs \ {i} }
             tries == { k \in 0 .. Len(secs) : Tried(secs[i], k) \notin taken }
             mac   == Tried(secs[i], Min(tries))
  <1>1. Len(secs) \in Nat /\ DOMAIN secs = 1 .. Len(secs)
    BY DEF Sections
  <1>2. CASE secs[i].mac # NoMac
    <2>1. new = secs
      BY <1>2 DEF assignMac
    <2>2. \A j \in 1 .. Len(secs) : secs[j] = [secs[j] EXCEPT !.mac = secs[j].mac]
      BY DEF Sections, Shaped
    <2> QED
      BY <1>2, <2>1, <2>2 DEF SameButMacs
  <1>3. CASE secs[i].mac = NoMac
    <2>1. new = [secs EXCEPT ![i].mac = mac]
      BY <1>3, AssignMacIs
    <2>2. mac # NoMac
      BY DEF Tried, NoMac
    <2>3. /\ new = [j \in 1 .. Len(secs) |-> new[j]] /\ Len(new) = Len(secs)
          /\ \A j \in 1 .. Len(secs) : j # i => new[j] = secs[j]
          /\ new[i] = [secs[i] EXCEPT !.mac = mac]
      <3> HIDE DEF mac
      <3>1. secs = [j \in 1 .. Len(secs) |-> secs[j]]
        BY DEF Sections
      <3>2. new = [j \in 1 .. Len(secs) |->
                       IF j = i THEN [secs[i] EXCEPT !.mac = mac] ELSE secs[j]]
        BY <2>1, <3>1
      <3>3. Len(new) = Len(secs)
        BY <1>1, <3>2
      <3> QED
        BY <3>2, <3>3
    <2> HIDE DEF new, mac, taken, tries
    <2>4. Shaped(secs[i]) /\ new[i].mac = mac /\ Shaped(new[i])
      BY <2>3 DEF Sections, Shaped
    <2>5. Sections(new)
      BY <1>1, <2>3, <2>4 DEF Sections
    <2>6. SameButMacs(secs, new)
      <3>1. \A j \in 1 .. Len(secs) : j # i => new[j] = [secs[j] EXCEPT !.mac = new[j].mac]
        BY <2>3 DEF Sections, Shaped
      <3> QED
        BY <1>3, <2>3, <2>4, <3>1 DEF SameButMacs
    <2>7. ASSUME Len(secs) <= 256, Unrepeated(secs)
          PROVE  Unrepeated(new)
      <3>1. tries # {} /\ tries \subseteq Nat
        <4>1. \E k \in 0 .. Len(secs) : Tried(secs[i], k) \notin taken
          BY <2>7, OneTryIsFree, Zenon DEF taken
        <4> QED
          BY <1>1, <4>1 DEF tries
      <3>2. Min(tries) \in tries
        BY <3>1, MinIsLeast
      <3>3. mac \notin taken
        BY <3>2 DEF tries, mac
      <3>4. \A j \in 1 .. Len(secs) : j # i => secs[j].mac # mac
        BY <1>1, <3>3 DEF taken
      <3> QED
        BY <2>3, <2>4, <2>7, <3>4 DEF Unrepeated
    <2> QED
      BY <2>2, <2>3, <2>4, <2>5, <2>6, <2>7 DEF new
  <1> QED
    BY <1>2, <1>3

-----------------------------------------------------------------------------
(* The last loop of parse().                                                *)

\* The body of the function AssignAll() folds with, and that function.
LoopStep(secs, f, n) ==
    IF n = 0 THEN secs
    ELSE CHOOSE next \in { assignMac(acc, [i \in DOMAIN secs |-> i][n]) : acc \in {f[n - 1]} } : TRUE

LoopOf(secs) ==
    CHOOSE f : f = [n \in 0 .. Len([i \in DOMAIN secs |-> i]) |-> LoopStep(secs, f, n)]

LEMMA AssignAllIsLoop ==
    ASSUME NEW secs
    PROVE  AssignAll(secs) = LoopOf(secs)[Len([i \in DOMAIN secs |-> i])]
  BY Zenon DEF AssignAll, Folded, LoopOf, LoopStep

\* A turn of the loop uses the sections the turn before it left.
LEMMA LoopStepIs ==
    ASSUME NEW secs, NEW f
    PROVE  /\ LoopStep(secs, f, 0) = secs
           /\ \A n \in DOMAIN secs :
                n # 0 => LoopStep(secs, f, n) = assignMac(f[n - 1], n)
  <1>1. LoopStep(secs, f, 0) = secs
    BY DEF LoopStep
  <1>2. ASSUME NEW n \in DOMAIN secs, n # 0
        PROVE  LoopStep(secs, f, n) = assignMac(f[n - 1], n)
    <2>1. [i \in DOMAIN secs |-> i][n] = n
      BY <1>2
    <2>2. LoopStep(secs, f, n) =
              CHOOSE next \in { assignMac(acc, n) : acc \in {f[n - 1]} } : TRUE
      BY <1>2, <2>1, Zenon DEF LoopStep
    <2>3. { assignMac(acc, n) : acc \in {f[n - 1]} } = { assignMac(f[n - 1], n) }
      BY Zenon
    <2> QED
      BY <2>2, <2>3, Zenon
  <1> QED
    BY <1>1, <1>2

\* The function exists: it is built one argument at a time.
LEMMA LoopIsDefined ==
    ASSUME NEW secs, Sections(secs)
    PROVE  LoopOf(secs) = [n \in 0 .. Len(secs) |-> LoopStep(secs, LoopOf(secs), n)]
  <1> DEFINE IsLoop(f, n) == f = [m \in 0 .. n |-> LoopStep(secs, f, m)]
             Built == { n \in Nat : n <= Len(secs) => \E f : IsLoop(f, n) }
  <1>1. Len(secs) \in Nat /\ DOMAIN secs = 1 .. Len(secs)
    BY DEF Sections
  <1>2. 0 \in Built
    <2>1. IsLoop([m \in 0 .. 0 |-> secs], 0)
      BY LoopStepIs DEF LoopStep
    <2> QED
      BY <2>1
  <1>3. ASSUME NEW n \in Nat, n \in Built
        PROVE  n + 1 \in Built
    <2> SUFFICES ASSUME n + 1 <= Len(secs) PROVE \E f : IsLoop(f, n + 1)
      OBVIOUS
    <2>1. PICK f : IsLoop(f, n)
      BY <1>1, <1>3
    <2> DEFINE g == [m \in 0 .. n + 1 |-> IF m = n + 1 THEN assignMac(f[n], n + 1) ELSE f[m]]
    <2>2. \A m \in 0 .. n : g[m] = f[m] /\ f[m] = LoopStep(secs, f, m)
      BY <2>1
    <2>3. g[n + 1] = assignMac(f[n], n + 1)
      OBVIOUS
    <2>4. g[n + 1] = LoopStep(secs, g, n + 1)
      <3>1. n + 1 \in DOMAIN secs
        BY <1>1
      <3>2. g[n] = f[n] /\ (n + 1) - 1 = n /\ n + 1 # 0
        BY <2>2
      <3> HIDE DEF g
      <3>3. LoopStep(secs, g, n + 1) = assignMac(g[(n + 1) - 1], n + 1)
        BY <3>1, <3>2, LoopStepIs, Zenon
      <3> QED
        BY <2>3, <3>2, <3>3
    <2>5. ASSUME NEW m \in 0 .. n
          PROVE  g[m] = LoopStep(secs, g, m)
      <3>1. CASE m = 0
        <4>1. LoopStep(secs, f, 0) = secs /\ LoopStep(secs, g, 0) = secs
          BY LoopStepIs, Zenon
        <4> HIDE DEF g
        <4> QED
          BY <2>2, <3>1, <4>1
      <3>2. CASE m # 0
        <4>1. m \in DOMAIN secs /\ m - 1 \in 0 .. n
          BY <1>1, <3>2
        <4>2. g[m - 1] = f[m - 1] /\ g[m] = f[m] /\ f[m] = LoopStep(secs, f, m)
          BY <2>2, <4>1
        <4> HIDE DEF g
        <4>3. /\ LoopStep(secs, f, m) = assignMac(f[m - 1], m)
              /\ LoopStep(secs, g, m) = assignMac(g[m - 1], m)
          BY <3>2, <4>1, LoopStepIs, Zenon
        <4> QED
          BY <4>2, <4>3
      <3> QED
        BY <3>1, <3>2
    <2>6. g = [m \in 0 .. n + 1 |-> g[m]]
      OBVIOUS
    <2>7. \A m \in 0 .. n + 1 : g[m] = LoopStep(secs, g, m)
      BY <2>4, <2>5
    <2> HIDE DEF g
    <2> QED
      BY <2>6, <2>7
  <1>4. Len(secs) \in Built
    <2> HIDE DEF Built
    <2>1. Nat \subseteq Built
      BY <1>2, <1>3, Induction
    <2> QED
      BY <1>1, <2>1
  <1>5. \E f : IsLoop(f, Len(secs))
    BY <1>1, <1>4
  <1>6. Len([i \in DOMAIN secs |-> i]) = Len(secs)
    BY <1>1
  <1> QED
    BY <1>5, <1>6, Zenon DEF LoopOf

\* Every section of a file that was read gets a MAC; nothing else changes, and
\* no MAC is there twice when none was in the file.
LEMMA AssignAllFinishes ==
    ASSUME NEW secs, Sections(secs)
    PROVE  LET new == AssignAll(secs)
           IN  /\ Sections(new) /\ SameButMacs(secs, new)
               /\ HaveMacs(new, Len(new))
               /\ Len(secs) <= 256 /\ Unrepeated(secs) => Unrepeated(new)
  <1> DEFINE f == LoopOf(secs)
             Done(s, n) == /\ Sections(s) /\ SameButMacs(secs, s)
                           /\ HaveMacs(s, n)
                           /\ Len(secs) <= 256 /\ Unrepeated(secs) => Unrepeated(s)
             Reached == { n \in Nat : n <= Len(secs) => Done(f[n], n) }
  <1>1. Len(secs) \in Nat /\ DOMAIN secs = 1 .. Len(secs)
    BY DEF Sections
  <1>2. f = [n \in 0 .. Len(secs) |-> LoopStep(secs, f, n)]
    BY LoopIsDefined
  <1> HIDE DEF f
  <1>3. 0 \in Reached
    <2>1. f[0] = LoopStep(secs, f, 0)
      BY <1>1, <1>2
    <2>2. f[0] = secs
      BY <2>1, LoopStepIs, Zenon
    <2>3. SameButMacs(secs, secs)
      BY DEF SameButMacs, Sections, Shaped
    <2> QED
      BY <2>2, <2>3 DEF HaveMacs
  <1>4. ASSUME NEW n \in Nat, n \in Reached
        PROVE  n + 1 \in Reached
    <2> SUFFICES ASSUME n + 1 <= Len(secs) PROVE Done(f[n + 1], n + 1)
      OBVIOUS
    <2>1. n + 1 \in DOMAIN secs /\ n + 1 # 0 /\ (n + 1) - 1 = n /\ n + 1 \in 0 .. Len(secs)
      BY <1>1
    <2>2. Done(f[n], n)
      BY <1>1, <1>4
    <2> DEFINE old == f[n]
               new == assignMac(old, n + 1)
    <2>3. f[n + 1] = new
      <3>1. f[n + 1] = LoopStep(secs, f, n + 1)
        BY <1>2, <2>1
      <3>2. LoopStep(secs, f, n + 1) = assignMac(f[(n + 1) - 1], n + 1)
        BY <2>1, LoopStepIs, Zenon
      <3> QED
        BY <2>1, <3>1, <3>2
    <2>4. Len(old) = Len(secs) /\ n + 1 \in 1 .. Len(old)
      BY <1>1, <2>1, <2>2 DEF SameButMacs
    <2>5. /\ Sections(new) /\ SameButMacs(old, new)
          /\ new[n + 1].mac # NoMac
          /\ \A j \in 1 .. Len(old) : j # n + 1 => new[j] = old[j]
          /\ Len(old) <= 256 /\ Unrepeated(old) => Unrepeated(new)
      BY <2>2, <2>4, AssignMac
    <2> HIDE DEF old, new
    <2>6. SameButMacs(secs, new)
      <3>1. SameButMacs(secs, old) /\ SameButMacs(old, new)
        BY <2>2, <2>5 DEF old
      <3> SUFFICES ASSUME NEW i \in 1 .. Len(secs)
                   PROVE  /\ secs[i].mac # NoMac => new[i].mac = secs[i].mac
                          /\ new[i] = [secs[i] EXCEPT !.mac = new[i].mac]
        BY <3>1 DEF SameButMacs
      <3>2. /\ secs[i].mac # NoMac => old[i].mac = secs[i].mac
            /\ old[i].mac # NoMac => new[i].mac = old[i].mac
            /\ old[i] = [secs[i] EXCEPT !.mac = old[i].mac]
            /\ new[i] = [old[i] EXCEPT !.mac = new[i].mac]
        BY <3>1 DEF SameButMacs
      <3>3. [[secs[i] EXCEPT !.mac = old[i].mac] EXCEPT !.mac = new[i].mac]
                = [secs[i] EXCEPT !.mac = new[i].mac]
        <4>1. Shaped(secs[i])
          BY DEF Sections
        <4> QED
          BY <4>1 DEF Shaped
      <3> QED
        BY <3>2, <3>3
    <2>7. HaveMacs(new, n + 1)
      <3>1. HaveMacs(old, n)
        BY <2>2 DEF old
      <3> QED
        BY <2>4, <2>5, <3>1 DEF HaveMacs
    <2>8. Len(secs) <= 256 /\ Unrepeated(secs) => Unrepeated(old)
      BY <2>2 DEF old
    <2> QED
      BY <2>3, <2>4, <2>5, <2>6, <2>7, <2>8
  <1>5. Done(f[Len(secs)], Len(secs))
    <2>1. Nat \subseteq Reached
      <3> HIDE DEF Reached
      <3> QED  BY <1>3, <1>4, Induction
    <2> QED
      BY <1>1, <2>1
  <1>6. AssignAll(secs) = f[Len(secs)]
    <2>1. Len([i \in DOMAIN secs |-> i]) = Len(secs)
      BY <1>1
    <2> QED
      BY <2>1, AssignAllIsLoop, Zenon DEF f
  <1>7. Len(f[Len(secs)]) = Len(secs)
    BY <1>5 DEF SameButMacs
  <1> QED
    BY <1>5, <1>6, <1>7

-----------------------------------------------------------------------------
(* resolve().                                                               *)

\* The least of a set of positions, or 0.
LEMMA FirstOfIs ==
    ASSUME NEW n \in Nat, NEW S, S \subseteq 1 .. n
    PROVE  FirstOf(S) \in 0 .. n
  <1>1. CASE S = {}
    BY <1>1 DEF FirstOf
  <1>2. CASE S # {}
    <2>1. S \subseteq Nat
      OBVIOUS
    <2>2. Min(S) \in S
      BY <1>2, <2>1, MinIsLeast
    <2>3. FirstOf(S) = Min(S)
      BY <1>2, Zenon DEF FirstOf
    <2>4. FirstOf(S) \in 1 .. n
      BY <2>2, <2>3, Zenon
    <2> QED
      BY <2>4
  <1> QED
    BY <1>1, <1>2

\* A lookup answers with the position of a section, or 0.
LEMMA Lookups ==
    ASSUME NEW secs, Sections(secs), NEW key, NEW dev
    PROVE  findSection(secs, key) \in 0 .. Len(secs) /\ Match(secs, dev) \in 0 .. Len(secs)
  <1> DEFINE byId   == { i \in DOMAIN secs : secs[i].id # "" /\ secs[i].id = key }
             byName == { i \in DOMAIN secs : secs[i].name = key }
             devId   == { i \in DOMAIN secs : dev.id # "" /\ secs[i].id = dev.id }
             devMac  == { i \in DOMAIN secs :
                            dev.id \in HexIds /\ secs[i].mac = fakeMacFor(dev.id) }
             devName == { i \in DOMAIN secs : dev.name # "" /\ secs[i].name = dev.name }
  <1>1. Len(secs) \in Nat /\ DOMAIN secs = 1 .. Len(secs)
    BY DEF Sections
  <1>2. /\ FirstOf(byId) \in 0 .. Len(secs) /\ FirstOf(byName) \in 0 .. Len(secs)
        /\ FirstOf(devId) \in 0 .. Len(secs) /\ FirstOf(devMac) \in 0 .. Len(secs)
        /\ FirstOf(devName) \in 0 .. Len(secs)
    <2>1. /\ byId \subseteq 1 .. Len(secs) /\ byName \subseteq 1 .. Len(secs)
          /\ devId \subseteq 1 .. Len(secs) /\ devMac \subseteq 1 .. Len(secs)
          /\ devName \subseteq 1 .. Len(secs)
      BY <1>1
    <2> HIDE DEF byId, byName, devId, devMac, devName
    <2> QED
      BY <1>1, <2>1, FirstOfIs
  <1>3. findSection(secs, key) = IF byId # {} THEN FirstOf(byId) ELSE FirstOf(byName)
    BY Zenon DEF findSection, FirstOf
  <1>4. Match(secs, dev) = IF devId # {} THEN FirstOf(devId)
                           ELSE IF devMac # {} THEN FirstOf(devMac) ELSE FirstOf(devName)
    BY Zenon DEF Match, FirstOf
  <1> HIDE DEF byId, byName, devId, devMac, devName
  <1> QED
    BY <1>2, <1>3, <1>4

\* `other` has the MACs of `secs`, section by section.
SameMacs(secs, other) ==
    Len(other) = Len(secs) /\ \A i \in 1 .. Len(secs) : other[i].mac = secs[i].mac

LEMMA SameMacsKeep ==
    ASSUME NEW secs, NEW other, SameMacs(secs, other)
    PROVE  /\ HaveMacs(secs, Len(secs)) <=> HaveMacs(other, Len(other))
           /\ Unrepeated(secs) <=> Unrepeated(other)
  BY DEF SameMacs, HaveMacs, Unrepeated

\* A section is replaced by one with its MAC.
LEMMA Replaced ==
    ASSUME NEW secs, Sections(secs), NEW i \in 1 .. Len(secs),
           NEW sec, Shaped(sec), sec.mac = secs[i].mac
    PROVE  LET new == [secs EXCEPT ![i] = sec]
           IN  Sections(new) /\ SameMacs(secs, new)
  <1> DEFINE new == [secs EXCEPT ![i] = sec]
  <1>1. Len(secs) \in Nat /\ secs = [j \in 1 .. Len(secs) |-> secs[j]]
    BY DEF Sections
  <1>2. new = [j \in 1 .. Len(secs) |-> IF j = i THEN sec ELSE secs[j]]
    BY <1>1
  <1>3. Len(new) = Len(secs) /\ new = [j \in 1 .. Len(secs) |-> new[j]]
    BY <1>1, <1>2
  <1>4. \A j \in 1 .. Len(secs) : Shaped(new[j]) /\ new[j].mac = secs[j].mac
    BY <1>2 DEF Sections
  <1> HIDE DEF new
  <1>5. Sections(new) /\ SameMacs(secs, new)
    BY <1>1, <1>3, <1>4 DEF Sections, SameMacs
  <1> QED
    BY <1>5 DEF new

\* A new section has no MAC yet.
LEMMA Added ==
    ASSUME NEW secs, Sections(secs), NEW name
    PROVE  LET new == Append(secs, NewSection(name, TRUE))
           IN  /\ Sections(new) /\ Len(new) = Len(secs) + 1
               /\ \A i \in 1 .. Len(secs) : new[i] = secs[i]
               /\ new[Len(secs) + 1] = NewSection(name, TRUE)
  <1> DEFINE sec == NewSection(name, TRUE)
             All == { secs[i] : i \in 1 .. Len(secs) } \cup {sec}
             new == Append(secs, sec)
  <1>1. Len(secs) \in Nat /\ secs = [i \in 1 .. Len(secs) |-> secs[i]]
    BY DEF Sections
  <1>2. secs \in Seq(All) /\ sec \in All
    <2> HIDE DEF sec
    <2> QED  BY <1>1
  <1>3. Shaped(sec)
    BY DEF NewSection, Shaped
  <1> HIDE DEF sec, All
  <1>4. /\ new \in Seq(All) /\ Len(new) = Len(secs) + 1
        /\ \A i \in 1 .. Len(secs) : new[i] = secs[i]
        /\ new[Len(secs) + 1] = sec
    BY <1>2
  <1>5. new = [i \in 1 .. Len(new) |-> new[i]]
    <2> HIDE DEF new
    <2>1. new \in [1 .. Len(new) -> All]
      BY <1>4
    <2> QED
      BY <2>1
  <1>6. Sections(new)
    BY <1>1, <1>3, <1>4, <1>5 DEF Sections
  <1> QED
    BY <1>4, <1>6 DEF sec

\* What the sections have once the program runs: each a MAC, and none the MAC
\* of another while the 256 tries of assignMacLocked() are enough, unless the
\* file had one twice.
Ready(secs) == Sections(secs) /\ HaveMacs(secs, Len(secs))
Apart(secs) == Len(secs) <= 256 => Unrepeated(secs)
Assigned(secs) == Ready(secs) /\ Apart(secs)

LEMMA ShapedKeeps ==
    ASSUME NEW sec, Shaped(sec), NEW id, NEW shown
    PROVE  /\ Shaped([sec EXCEPT !.id = id, !.shown = shown])
           /\ [sec EXCEPT !.id = id, !.shown = shown].mac = sec.mac
           /\ Shaped([sec EXCEPT !.shown = shown])
           /\ [sec EXCEPT !.shown = shown].mac = sec.mac
  <1> DEFINE With(i, s) == [name |-> sec.name, id |-> i, mac |-> sec.mac, creds |-> sec.creds,
                            shown |-> s, renamed |-> sec.renamed, auto |-> sec.auto]
  <1>1. sec = With(sec.id, sec.shown)
    BY Zenon DEF Shaped
  <1>2. \A i, s : [With(i, s) EXCEPT !.id = id] = With(id, s)
    OBVIOUS
  <1>3. \A i, s : [With(i, s) EXCEPT !.shown = shown] = With(i, shown)
    OBVIOUS
  <1>4. \A i, s : Shaped(With(i, s)) /\ With(i, s).mac = sec.mac
    BY DEF Shaped
  <1>5. [sec EXCEPT !.id = id, !.shown = shown] = [[sec EXCEPT !.id = id] EXCEPT !.shown = shown]
    BY Zenon
  <1> HIDE DEF With
  <1>6. [sec EXCEPT !.id = id] = With(id, sec.shown)
    BY <1>1, <1>2, Zenon
  <1>7. [With(id, sec.shown) EXCEPT !.shown = shown] = With(id, shown)
    BY <1>3, Zenon
  <1>8. [sec EXCEPT !.id = id, !.shown = shown] = With(id, shown)
    BY <1>5, <1>6, <1>7, Zenon
  <1>9. [sec EXCEPT !.shown = shown] = With(sec.id, shown)
    BY <1>1, <1>3, Zenon
  <1> QED
    <2>1. Shaped([sec EXCEPT !.id = id, !.shown = shown]) /\ Shaped([sec EXCEPT !.shown = shown])
      BY <1>4, <1>8, <1>9
    <2>2. [sec EXCEPT !.id = id, !.shown = shown].mac = sec.mac
      BY <1>4, <1>8
    <2>3. [sec EXCEPT !.shown = shown].mac = sec.mac
      BY <1>4, <1>9
    <2> QED
      BY <2>1, <2>2, <2>3, Zenon

\* A section is named, shown or identified anew: its MAC stays.
LEMMA Retouched ==
    ASSUME NEW secs, Sections(secs), NEW i \in 1 .. Len(secs), NEW id, NEW shown
    PROVE  /\ Sections([secs EXCEPT ![i].id = id, ![i].shown = shown])
           /\ SameMacs(secs, [secs EXCEPT ![i].id = id, ![i].shown = shown])
           /\ Sections([secs EXCEPT ![i].shown = shown])
           /\ SameMacs(secs, [secs EXCEPT ![i].shown = shown])
  <1> DEFINE both == [secs[i] EXCEPT !.id = id, !.shown = shown]
             one  == [secs[i] EXCEPT !.shown = shown]
  <1>1. Shaped(secs[i]) /\ secs = [j \in 1 .. Len(secs) |-> secs[j]]
    BY DEF Sections
  <1>2. Shaped(both) /\ both.mac = secs[i].mac /\ Shaped(one) /\ one.mac = secs[i].mac
    <2>1. /\ Shaped([secs[i] EXCEPT !.id = id, !.shown = shown])
          /\ [secs[i] EXCEPT !.id = id, !.shown = shown].mac = secs[i].mac
          /\ Shaped([secs[i] EXCEPT !.shown = shown])
          /\ [secs[i] EXCEPT !.shown = shown].mac = secs[i].mac
      BY <1>1, ShapedKeeps
    <2> QED
      BY <2>1, Zenon
  <1>3. /\ [secs EXCEPT ![i].id = id, ![i].shown = shown] = [secs EXCEPT ![i] = both]
        /\ [secs EXCEPT ![i].shown = shown] = [secs EXCEPT ![i] = one]
    BY <1>1
  <1> HIDE DEF both, one
  <1>4. /\ Sections([secs EXCEPT ![i] = both]) /\ SameMacs(secs, [secs EXCEPT ![i] = both])
        /\ Sections([secs EXCEPT ![i] = one]) /\ SameMacs(secs, [secs EXCEPT ![i] = one])
    BY <1>2, Replaced, Zenon
  <1> QED
    BY <1>3, <1>4, Zenon

\* resolve() of a device that no section matches.
LEMMA CreatedKeeps ==
    ASSUME NEW secs, Ready(secs), NEW dev
    PROVE  LET new == Created(secs, dev)
           IN  /\ Ready(new) /\ Len(secs) <= Len(new)
               /\ Apart(secs) => Apart(new)
               /\ CreatedAt(secs, dev) \in 1 .. Len(new)
  <1> DEFINE at    == CreatedAt(secs, dev)
             grown == Grown(secs, dev)
             id    == IF KeyFor(dev) \in HexIds THEN dev.id ELSE grown[at].id
             named == [grown EXCEPT ![at].id = id, ![at].shown = grown[at].name]
             found == findSection(secs, KeyFor(dev))
  <1>1. Len(secs) \in Nat /\ Sections(secs) /\ found \in 0 .. Len(secs)
    BY Lookups DEF Ready, Sections
  <1>2. /\ Sections(grown) /\ at \in 1 .. Len(grown) /\ Len(grown) \in {Len(secs), Len(secs) + 1}
        /\ \A i \in 1 .. Len(grown) : i # at => i \in 1 .. Len(secs) /\ grown[i].mac # NoMac
        /\ Apart(secs) /\ Len(secs) <= 256 => Unrepeated(grown)
    <2>1. CASE found # 0
      <3>1. grown = secs /\ at = found
        BY <2>1, Zenon DEF Grown, ensureSection, CreatedAt
      <3> HIDE DEF grown, at, found
      <3> QED
        BY <1>1, <2>1, <3>1 DEF Ready, HaveMacs, Apart
    <2>2. CASE found = 0
      <3> DEFINE name == IF dev.name = "" THEN KeyFor(dev) ELSE dev.name
                 own  == IF name = "" THEN KeyFor(dev) ELSE name
      <3>1. grown = Append(secs, NewSection(own, TRUE)) /\ at = Len(secs) + 1
        BY <2>2, Zenon DEF Grown, ensureSection, CreatedAt
      <3> HIDE DEF grown, at, found, name, own
      <3>2. /\ Sections(grown) /\ Len(grown) = Len(secs) + 1
            /\ \A i \in 1 .. Len(secs) : grown[i] = secs[i]
            /\ grown[Len(secs) + 1] = NewSection(own, TRUE)
        BY <1>1, <3>1, Added
      <3>3. grown[at].mac = NoMac
        <4>1. NewSection(own, TRUE).mac = NoMac
          BY DEF NewSection
        <4> QED
          BY <3>1, <3>2, <4>1, Zenon
      <3>4. \A i \in 1 .. Len(grown) : i # at => i \in 1 .. Len(secs) /\ grown[i].mac # NoMac
        BY <1>1, <3>1, <3>2 DEF Ready, HaveMacs
      <3>5. ASSUME Apart(secs), Len(secs) <= 256 PROVE Unrepeated(grown)
        <4>1. Unrepeated(secs)
          BY <3>5 DEF Apart
        <4>2. \A i \in 1 .. Len(grown) : i # at => grown[i] = secs[i]
          BY <3>2, <3>4
        <4> QED
          BY <3>3, <3>4, <4>1, <4>2 DEF Unrepeated
      <3>6. at \in 1 .. Len(grown) /\ Len(grown) \in {Len(secs), Len(secs) + 1}
        BY <1>1, <3>1, <3>2
      <3> QED
        BY <3>2, <3>4, <3>5, <3>6, Zenon
    <2> QED
      BY <2>1, <2>2
  <1>3. Created(secs, dev) = assignMac(named, at)
    BY DEF Created
  <1> HIDE DEF at, grown, id, found
  <1>4. Sections(named) /\ SameMacs(grown, named)
    BY <1>2, Retouched
  <1> HIDE DEF named
  <1> DEFINE new == assignMac(named, at)
  <1>5. Len(named) = Len(grown) /\ at \in 1 .. Len(named)
    BY <1>2, <1>4 DEF SameMacs
  <1>6. /\ Sections(new) /\ SameButMacs(named, new)
        /\ new[at].mac # NoMac
        /\ \A j \in 1 .. Len(named) : j # at => new[j] = named[j]
        /\ Len(named) <= 256 /\ Unrepeated(named) => Unrepeated(new)
    BY <1>4, <1>5, AssignMac
  <1> HIDE DEF new
  <1>7. Len(new) = Len(grown)
    BY <1>5, <1>6 DEF SameButMacs
  <1>8. HaveMacs(new, Len(new))
    BY <1>2, <1>4, <1>5, <1>6, <1>7 DEF HaveMacs, SameMacs
  <1>9. Apart(secs) => Apart(new)
    <2>1. Unrepeated(grown) => Unrepeated(named)
      BY <1>4, SameMacsKeep
    <2>2. Len(new) <= 256 => Len(secs) <= 256 /\ Len(named) <= 256
      BY <1>1, <1>2, <1>5, <1>7
    <2> QED
      BY <1>2, <1>6, <2>1, <2>2 DEF Apart
  <1> QED
    BY <1>1, <1>2, <1>3, <1>6, <1>7, <1>8, <1>9 DEF Ready, at, new

\* resolve() keeps a MAC for each section and no MAC twice; it answers with
\* the position of a section, or with none.
LEMMA ResolveKeeps ==
    ASSUME NEW secs, Ready(secs), NEW dev, NEW auto \in BOOLEAN
    PROVE  LET new == resolve(secs, dev, auto)
           IN  /\ Ready(new) /\ Len(secs) <= Len(new)
               /\ Apart(secs) => Apart(new)
               /\ ResolvedAt(secs, dev, auto) \in 0 .. Len(new)
  <1> DEFINE i == Match(secs, dev)
  <1>1. Len(secs) \in Nat /\ Sections(secs) /\ i \in 0 .. Len(secs)
    BY Lookups DEF Ready, Sections
  <1>2. CASE i # 0
    <2> DEFINE mid   == assignMac(secs, i)
               shown == IF ~secs[i].renamed /\ dev.name # "" THEN dev.name ELSE mid[i].shown
               new   == [mid EXCEPT ![i].shown = shown]
    <2>1. resolve(secs, dev, auto) = new /\ ResolvedAt(secs, dev, auto) = i
      BY <1>2 DEF resolve, Refreshed, ResolvedAt
    <2>2. i \in 1 .. Len(secs) /\ secs[i].mac # NoMac
      BY <1>1, <1>2 DEF Ready, HaveMacs
    <2>3. mid = secs
      BY <2>2 DEF assignMac
    <2> HIDE DEF i, mid, shown
    <2>4. Sections(new) /\ SameMacs(secs, new)
      BY <1>1, <2>2, <2>3, Retouched
    <2> HIDE DEF new
    <2>5. Ready(new) /\ (Apart(secs) => Apart(new)) /\ Len(new) = Len(secs)
      BY <2>4, SameMacsKeep DEF Ready, Apart, SameMacs
    <2> QED
      BY <1>1, <2>1, <2>5
  <1>3. CASE i = 0 /\ auto
    <2>1. /\ resolve(secs, dev, auto) = Created(secs, dev)
          /\ ResolvedAt(secs, dev, auto) = CreatedAt(secs, dev)
      BY <1>3, Zenon DEF resolve, ResolvedAt
    <2> QED
      BY <1>1, <2>1, CreatedKeeps
  <1>4. CASE i = 0 /\ ~auto
    <2>1. resolve(secs, dev, auto) = secs /\ ResolvedAt(secs, dev, auto) = 0
      BY <1>4, Zenon DEF resolve, ResolvedAt
    <2> QED
      BY <1>1, <2>1
  <1> QED
    BY <1>2, <1>3, <1>4

-----------------------------------------------------------------------------
(* How a section is found, changed and created.                             *)

\* The section a key is found in has it as its id or as its header name, and
\* as its id when any section has.
LEMMA FindSection ==
    ASSUME NEW secs, Sections(secs), NEW key
    PROVE  /\ findSection(secs, key) \in 0 .. Len(secs)
           /\ findSection(secs, key) = 0 <=>
                \A i \in 1 .. Len(secs) : secs[i].name # key /\ ~ (secs[i].id # "" /\ secs[i].id = key)
           /\ findSection(secs, key) # 0 =>
                \/ secs[findSection(secs, key)].id # "" /\ secs[findSection(secs, key)].id = key
                \/ /\ secs[findSection(secs, key)].name = key
                   /\ \A i \in 1 .. Len(secs) : ~ (secs[i].id # "" /\ secs[i].id = key)
                   /\ \A i \in 1 .. Len(secs) : secs[i].name = key => findSection(secs, key) <= i
  <1> DEFINE byId   == { i \in DOMAIN secs : secs[i].id # "" /\ secs[i].id = key }
             byName == { i \in DOMAIN secs : secs[i].name = key }
             at     == findSection(secs, key)
  <1>1. Len(secs) \in Nat /\ DOMAIN secs = 1 .. Len(secs)
    BY DEF Sections
  <1>2. /\ byId # {} => at = Min(byId)
        /\ byId = {} /\ byName # {} => at = Min(byName)
        /\ byId = {} /\ byName = {} => at = 0
    BY Zenon DEF findSection, FirstOf
  <1>3. /\ byId \subseteq Nat /\ byName \subseteq Nat
        /\ byId # {} => Min(byId) \in byId
        /\ byName # {} => Min(byName) \in byName /\ \A i \in byName : Min(byName) <= i
    <2>1. byId \subseteq 1 .. Len(secs) /\ byName \subseteq 1 .. Len(secs)
      BY <1>1
    <2> HIDE DEF byId, byName
    <2>2. byId \subseteq Nat /\ byName \subseteq Nat
      BY <2>1
    <2> QED
      BY <2>2, MinIsLeast
  <1>4. at \in 0 .. Len(secs)
    BY Lookups
  <1> HIDE DEF at
  <1>5. CASE byId # {}
    <2>1. at \in byId
      BY <1>2, <1>3, <1>5
    <2>2. at \in 1 .. Len(secs) /\ secs[at].id # "" /\ secs[at].id = key
      BY <1>1, <2>1
    <2>3. at # 0
      <3>1. 0 \notin 1 .. Len(secs)
        BY <1>1
      <3> QED
        BY <2>2, <3>1, Zenon
    <2> QED
      BY <1>4, <2>2, <2>3 DEF at
  <1>6. CASE byId = {} /\ byName # {}
    <2>1. at \in byName /\ \A i \in byName : at <= i
      BY <1>2, <1>3, <1>6
    <2>2. at \in 1 .. Len(secs) /\ secs[at].name = key
      BY <1>1, <2>1
    <2>3. \A i \in 1 .. Len(secs) : ~ (secs[i].id # "" /\ secs[i].id = key)
      BY <1>1, <1>6
    <2>4. \A i \in 1 .. Len(secs) : secs[i].name = key => at <= i
      BY <1>1, <2>1
    <2>5. at # 0
      BY <1>1, <2>2
    <2> QED
      BY <1>4, <2>2, <2>3, <2>4, <2>5 DEF at
  <1>7. CASE byId = {} /\ byName = {}
    <2>1. at = 0
      BY <1>2, <1>7
    <2> QED
      BY <1>1, <1>4, <1>7, <2>1 DEF at
  <1> QED
    BY <1>5, <1>6, <1>7

\* One section is changed.
LEMMA OneChanged ==
    ASSUME NEW secs, Sections(secs), NEW at \in 1 .. Len(secs), NEW sec, Shaped(sec)
    PROVE  LET new == [secs EXCEPT ![at] = sec]
           IN  /\ Sections(new) /\ Len(new) = Len(secs)
               /\ new[at] = sec
               /\ \A i \in 1 .. Len(secs) : i # at => new[i] = secs[i]
  <1> DEFINE new == [secs EXCEPT ![at] = sec]
  <1>1. Len(secs) \in Nat /\ secs = [j \in 1 .. Len(secs) |-> secs[j]]
    BY DEF Sections
  <1>2. new = [j \in 1 .. Len(secs) |-> IF j = at THEN sec ELSE secs[j]]
    BY <1>1
  <1>3. Len(new) = Len(secs) /\ new = [j \in 1 .. Len(secs) |-> new[j]]
    BY <1>1, <1>2
  <1>4. /\ new[at] = sec
        /\ \A i \in 1 .. Len(secs) : i # at => new[i] = secs[i]
        /\ \A i \in 1 .. Len(secs) : Shaped(new[i])
    BY <1>2 DEF Sections
  <1> HIDE DEF new
  <1> QED
    BY <1>1, <1>3, <1>4 DEF Sections, new

\* A section with every field given.
FullSection(name, id, mac, creds, shown, renamed, auto) ==
    [name |-> name, id |-> id, mac |-> mac, creds |-> creds,
     shown |-> shown, renamed |-> renamed, auto |-> auto]

LEMMA ShapedFields ==
    \A sec, name, id, mac, creds, shown, renamed, auto :
        sec = FullSection(name, id, mac, creds, shown, renamed, auto) =>
            /\ Shaped(sec)
            /\ sec.name = name /\ sec.id = id /\ sec.mac = mac /\ sec.creds = creds
            /\ sec.shown = shown /\ sec.renamed = renamed /\ sec.auto = auto
  BY DEF FullSection, Shaped

LEMMA ShapedIs ==
    ASSUME NEW sec, Shaped(sec)
    PROVE  sec = FullSection(sec.name, sec.id, sec.mac, sec.creds, sec.shown, sec.renamed, sec.auto)
  BY Zenon DEF Shaped, FullSection

LEMMA MatchIs ==
    ASSUME NEW secs, Sections(secs), NEW dev
    PROVE  /\ Match(secs, dev) \in 0 .. Len(secs)
           /\ Match(secs, dev) # 0 =>
                \/ dev.id # "" /\ secs[Match(secs, dev)].id = dev.id
                \/ dev.id \in HexIds /\ \A i \in 1 .. Len(secs) : ~ (dev.id # "" /\ secs[i].id = dev.id)
                \/ dev.name # "" /\ secs[Match(secs, dev)].name = dev.name
           /\ Match(secs, dev) = 0 =>
                \A i \in 1 .. Len(secs) : /\ ~ (dev.id # "" /\ secs[i].id = dev.id)
                                          /\ ~ (dev.name # "" /\ secs[i].name = dev.name)
  <1> DEFINE byId   == { i \in DOMAIN secs : dev.id # "" /\ secs[i].id = dev.id }
             byMac  == { i \in DOMAIN secs :
                           dev.id \in HexIds /\ secs[i].mac = fakeMacFor(dev.id) }
             byName == { i \in DOMAIN secs : dev.name # "" /\ secs[i].name = dev.name }
             at     == Match(secs, dev)
  <1>1. Len(secs) \in Nat /\ DOMAIN secs = 1 .. Len(secs)
    BY DEF Sections
  <1>2. /\ byId # {} => at = Min(byId)
        /\ byId = {} /\ byMac # {} => at = Min(byMac)
        /\ byId = {} /\ byMac = {} /\ byName # {} => at = Min(byName)
        /\ byId = {} /\ byMac = {} /\ byName = {} => at = 0
    BY Zenon DEF Match, FirstOf
  <1>3. /\ byId # {} => Min(byId) \in byId
        /\ byName # {} => Min(byName) \in byName
    <2>1. byId \subseteq 1 .. Len(secs) /\ byName \subseteq 1 .. Len(secs)
      BY <1>1
    <2> HIDE DEF byId, byName
    <2>2. byId \subseteq Nat /\ byName \subseteq Nat
      BY <2>1
    <2> QED
      BY <2>2, MinIsLeast
  <1>4. at \in 0 .. Len(secs)
    BY Lookups
  <1>5. byMac # {} => dev.id \in HexIds
    OBVIOUS
  <1>6. /\ byId = {} => \A i \in 1 .. Len(secs) : ~ (dev.id # "" /\ secs[i].id = dev.id)
        /\ byName = {} => \A i \in 1 .. Len(secs) : ~ (dev.name # "" /\ secs[i].name = dev.name)
    <2>1. \A i \in 1 .. Len(secs) : dev.id # "" /\ secs[i].id = dev.id => i \in byId
      BY <1>1
    <2>2. \A i \in 1 .. Len(secs) : dev.name # "" /\ secs[i].name = dev.name => i \in byName
      BY <1>1
    <2> HIDE DEF byId, byName
    <2> QED
      BY <2>1, <2>2
  <1>7. 0 \notin 1 .. Len(secs) /\ byId \subseteq 1 .. Len(secs) /\ byName \subseteq 1 .. Len(secs)
    <2>1. byId \subseteq 1 .. Len(secs) /\ byName \subseteq 1 .. Len(secs)
      BY <1>1
    <2> HIDE DEF byId, byName
    <2>2. 0 \notin 1 .. Len(secs)
      BY <1>1
    <2> QED
      BY <2>1, <2>2
  <1>8. /\ \A i \in byId : dev.id # "" /\ secs[i].id = dev.id
        /\ \A i \in byName : dev.name # "" /\ secs[i].name = dev.name
    OBVIOUS
  <1>9. byMac # {} => Min(byMac) # 0
    <2>1. byMac \subseteq 1 .. Len(secs)
      BY <1>1
    <2> HIDE DEF byMac
    <2>2. byMac \subseteq Nat
      BY <2>1
    <2>3. byMac # {} => Min(byMac) \in byMac
      BY <2>2, MinIsLeast
    <2> QED
      BY <1>7, <2>1, <2>3
  <1> HIDE DEF byId, byMac, byName, at
  <1>10. CASE byId # {}
    <2>1. at \in byId /\ at # 0
      BY <1>2, <1>3, <1>7, <1>10
    <2> QED
      BY <1>4, <1>8, <2>1 DEF at
  <1>11. CASE byId = {} /\ byMac # {}
    <2>1. at # 0
      BY <1>2, <1>9, <1>11
    <2> QED
      BY <1>4, <1>5, <1>6, <1>11, <2>1 DEF at
  <1>12. CASE byId = {} /\ byMac = {} /\ byName # {}
    <2>1. at \in byName /\ at # 0
      BY <1>2, <1>3, <1>7, <1>12
    <2> QED
      BY <1>4, <1>8, <2>1 DEF at
  <1>13. CASE byId = {} /\ byMac = {} /\ byName = {}
    <2>1. at = 0
      BY <1>2, <1>13
    <2> QED
      BY <1>4, <1>6, <1>13, <2>1 DEF at
  <1> QED
    BY <1>10, <1>11, <1>12, <1>13

LEMMA NoMatch ==
    ASSUME NEW secs, Sections(secs), NEW dev, Match(secs, dev) = 0
    PROVE  /\ \A i \in 1 .. Len(secs) : ~ (dev.id # "" /\ secs[i].id = dev.id)
           /\ \A i \in 1 .. Len(secs) : ~ (dev.name # "" /\ secs[i].name = dev.name)
  <1>1. Match(secs, dev) = 0 =>
          \A i \in 1 .. Len(secs) : /\ ~ (dev.id # "" /\ secs[i].id = dev.id)
                                    /\ ~ (dev.name # "" /\ secs[i].name = dev.name)
    BY MatchIs
  <1>2. \A i \in 1 .. Len(secs) : /\ ~ (dev.id # "" /\ secs[i].id = dev.id)
                                  /\ ~ (dev.name # "" /\ secs[i].name = dev.name)
    BY Zenon, <1>1
  <1> QED
    BY Zenon, <1>2

\* One section shows another name.
ShownAs(secs, at, shown, new) ==
    /\ Len(new) = Len(secs)
    /\ \A i \in 1 .. Len(secs) : i # at => new[i] = secs[i]
    /\ new[at] = FullSection(secs[at].name, secs[at].id, secs[at].mac, secs[at].creds,
                             shown, secs[at].renamed, secs[at].auto)

\* The section that matches, or is found under the device's id.
LEMMA RefreshedIs ==
    ASSUME NEW secs, Ready(secs), NEW dev, NEW auto, Match(secs, dev) # 0
    PROVE  LET i == Match(secs, dev)
           IN  ShownAs(secs, i, IF ~secs[i].renamed /\ dev.name # "" THEN dev.name ELSE secs[i].shown,
                       resolve(secs, dev, auto))
  <1> DEFINE i     == Match(secs, dev)
             shown == IF ~secs[i].renamed /\ dev.name # "" THEN dev.name ELSE secs[i].shown
             new   == resolve(secs, dev, auto)
  <1>1. Sections(secs) /\ i \in 1 .. Len(secs)
    <2>1. Sections(secs) /\ Len(secs) \in Nat
      BY DEF Ready, Sections
    <2>2. i \in 0 .. Len(secs)
      BY <2>1, MatchIs
    <2> HIDE DEF i
    <2>3. i # 0
      BY DEF i
    <2> QED
      BY <2>1, <2>2, <2>3
  <1>2. secs[i].mac # NoMac
    BY <1>1 DEF Ready, HaveMacs
  <1>3. new = [assignMac(secs, i) EXCEPT
                  ![i].shown = IF ~secs[i].renamed /\ dev.name # "" THEN dev.name ELSE @]
    BY DEF resolve, Refreshed
  <1> HIDE DEF i, new
  <1>4. assignMac(secs, i) = secs
    BY <1>2 DEF assignMac
  <1>5. new = [secs EXCEPT ![i].shown = shown]
    BY <1>3, <1>4
  <1> HIDE DEF shown
  <1> DEFINE s == secs[i]
             own == [s EXCEPT !.shown = shown]
  <1>6. own = FullSection(s.name, s.id, s.mac, s.creds, shown, s.renamed, s.auto)
    <2>1. s = FullSection(s.name, s.id, s.mac, s.creds, s.shown, s.renamed, s.auto)
      BY <1>1, ShapedIs DEF Sections
    <2> HIDE DEF s
    <2> QED
      BY <2>1 DEF FullSection
  <1>7. Shaped(own)
    <2> HIDE DEF own
    <2> QED  BY <1>6 DEF FullSection, Shaped
  <1>8. new = [secs EXCEPT ![i] = own]
    <2>1. secs = [j \in 1 .. Len(secs) |-> secs[j]]
      BY <1>1 DEF Sections
    <2> QED
      BY <1>5, <2>1
  <1> DEFINE put == [secs EXCEPT ![i] = own]
  <1>9. /\ Len(put) = Len(secs) /\ put[i] = own
        /\ \A j \in 1 .. Len(secs) : j # i => put[j] = secs[j]
    <2> HIDE DEF own
    <2> QED  BY <1>1, <1>7, OneChanged
  <1>10. /\ Len(new) = Len(secs) /\ new[i] = own
         /\ \A j \in 1 .. Len(secs) : j # i => new[j] = secs[j]
    BY <1>8, <1>9
  <1>11. ShownAs(secs, i, shown, new)
    <2> HIDE DEF own
    <2> QED  BY <1>6, <1>10 DEF ShownAs
  <1> QED
    BY <1>11 DEF i, shown, new

\* Another MAC changes nothing else.
LEMMA ButMac ==
    ASSUME NEW sec, Shaped(sec), NEW mac, NEW other, other = [sec EXCEPT !.mac = mac]
    PROVE  /\ other.name = sec.name /\ other.shown = sec.shown /\ other.id = sec.id
           /\ other.renamed = sec.renamed /\ other.auto = sec.auto /\ other.creds = sec.creds
  <1>1. sec = FullSection(sec.name, sec.id, sec.mac, sec.creds, sec.shown, sec.renamed, sec.auto)
    BY ShapedIs
  <1> DEFINE renamed == sec.renamed  auto == sec.auto
  <1>2. sec = FullSection(sec.name, sec.id, sec.mac, sec.creds, sec.shown, renamed, auto)
    BY <1>1
  <1> HIDE DEF renamed, auto
  <1>3. other = FullSection(sec.name, sec.id, mac, sec.creds, sec.shown, renamed, auto)
    BY <1>2 DEF FullSection
  <1> QED
    BY <1>3, ShapedFields DEF renamed, auto

\* One section gets an id, and shows its own name.
GivenId(secs, at, id, new) ==
    /\ Len(new) = Len(secs)
    /\ \A i \in 1 .. Len(secs) : i # at => new[i] = secs[i]
    /\ new[at] = FullSection(secs[at].name, id, secs[at].mac, secs[at].creds,
                             secs[at].name, secs[at].renamed, secs[at].auto)

\* A device that no section matches, but whose key one has.
LEMMA CreatedOld ==
    ASSUME NEW secs, Ready(secs), NEW dev, NEW at \in 1 .. Len(secs),
           findSection(secs, KeyFor(dev)) = at
    PROVE  GivenId(secs, at, IF KeyFor(dev) \in HexIds THEN dev.id ELSE secs[at].id,
                   Created(secs, dev))
  <1> DEFINE id  == IF KeyFor(dev) \in HexIds THEN dev.id ELSE secs[at].id
             own == [secs[at] EXCEPT !.id = id, !.shown = secs[at].name]
             new == Created(secs, dev)
  <1>1. Sections(secs) /\ Len(secs) \in Nat /\ at # 0 /\ secs[at].mac # NoMac
    BY DEF Ready, Sections, HaveMacs
  <1>2. Grown(secs, dev) = secs /\ CreatedAt(secs, dev) = at
    BY <1>1 DEF Grown, CreatedAt, ensureSection
  <1>4. own = FullSection(secs[at].name, id, secs[at].mac, secs[at].creds,
                          secs[at].name, secs[at].renamed, secs[at].auto)
    <2> DEFINE s == secs[at]
    <2>1. s = FullSection(s.name, s.id, s.mac, s.creds, s.shown, s.renamed, s.auto)
      BY <1>1, ShapedIs DEF Sections
    <2>2. own = [s EXCEPT !.id = id, !.shown = s.name]
      OBVIOUS
    <2> HIDE DEF s, own, id
    <2>3. own = FullSection(s.name, id, s.mac, s.creds, s.name, s.renamed, s.auto)
      BY <2>1, <2>2 DEF FullSection
    <2> QED
      BY <2>3 DEF s
  <1>5. new = assignMac([secs EXCEPT ![at] = own], at)
    <2>1. new = assignMac([secs EXCEPT ![at].id = IF KeyFor(dev) \in HexIds THEN dev.id ELSE @,
                                       ![at].shown = secs[at].name], at)
      BY <1>2 DEF Created
    <2>2. [secs EXCEPT ![at].id = IF KeyFor(dev) \in HexIds THEN dev.id ELSE @,
                       ![at].shown = secs[at].name]
            = [secs EXCEPT ![at] = own]
      <3>1. secs = [j \in 1 .. Len(secs) |-> secs[j]]
        BY <1>1 DEF Sections
      <3> QED
        BY <3>1
    <2> QED
      BY <2>1, <2>2
  <1> HIDE DEF id, own, new
  <1>6. Shaped(own) /\ own.mac # NoMac
    BY <1>1, <1>4, ShapedFields
  <1> DEFINE put == [secs EXCEPT ![at] = own]
  <1>7. /\ Len(put) = Len(secs) /\ put[at] = own
        /\ \A j \in 1 .. Len(secs) : j # at => put[j] = secs[j]
    BY <1>1, <1>6, OneChanged
  <1> HIDE DEF put
  <1>8. new = put
    BY <1>5, <1>6, <1>7 DEF assignMac, put
  <1> QED
    BY <1>4, <1>7, <1>8 DEF GivenId, new, id

\* A MAC that is assigned has the hash of the section's key.
LEMMA AssignedMac ==
    ASSUME NEW secs, Sections(secs), NEW i \in 1 .. Len(secs), secs[i].mac = NoMac
    PROVE  \E n : assignMac(secs, i)[i].mac = << HashOf[KeyOf(secs[i])], n >>
  <1> DEFINE taken == { secs[j].mac : j \in DOMAIN secs \ {i} }
             tries == { k \in 0 .. Len(secs) : Tried(secs[i], k) \notin taken }
             mac   == Tried(secs[i], Min(tries))
  <1>1. assignMac(secs, i) = [secs EXCEPT ![i].mac = mac]
    BY AssignMacIs
  <1>2. mac = << HashOf[KeyOf(secs[i])], (1 + Min(tries)) % 256 >>
    <2> HIDE DEF tries
    <2> QED  BY DEF Tried, fakeMacFor
  <1> HIDE DEF mac
  <1>3. [secs EXCEPT ![i].mac = mac][i].mac = mac
    <2>1. secs = [j \in 1 .. Len(secs) |-> secs[j]] /\ Shaped(secs[i])
      BY DEF Sections
    <2>2. [secs EXCEPT ![i].mac = mac][i] = [secs[i] EXCEPT !.mac = mac]
      BY <2>1
    <2>3. [secs[i] EXCEPT !.mac = mac].mac = mac
      BY <2>1 DEF Shaped
    <2> QED
      BY <2>2, <2>3
  <1> QED
    BY <1>1, <1>2, <1>3, Zenon

\* A new section that gets an id.
Named(sec, id, name) == [sec EXCEPT !.id = id, !.shown = name]

LEMMA FreshIs ==
    ASSUME NEW sec, NEW name, NEW none, NEW no, NEW yes, NEW id, NEW own,
           sec = FullSection(name, none, NoMac, NoCreds, name, no, yes),
           own = Named(sec, id, name)
    PROVE  /\ Shaped(own) /\ own.name = name /\ own.id = id /\ own.shown = name
           /\ own.mac = NoMac /\ own.renamed = no /\ own.auto = yes
           /\ sec.name = name /\ sec.id = none
  <1> DEFINE first == [sec EXCEPT !.id = id]
  <1>1. own = FullSection(name, id, NoMac, NoCreds, name, no, yes)
    <2>1. own = [first EXCEPT !.shown = name]
      BY Zenon DEF Named
    <2>2. first = FullSection(name, id, NoMac, NoCreds, name, no, yes)
      BY DEF FullSection
    <2> HIDE DEF first
    <2> QED
      BY <2>1, <2>2 DEF FullSection
  <1>2. /\ Shaped(own) /\ own.name = name /\ own.id = id /\ own.shown = name
        /\ own.mac = NoMac /\ own.renamed = no /\ own.auto = yes
    BY <1>1, ShapedFields
  <1>3. sec.name = name /\ sec.id = none
    BY ShapedFields
  <1> QED
    BY <1>2, <1>3

\* A device that is new.
IsNew(secs, dev) == findSection(secs, KeyFor(dev)) = 0 /\ KeyFor(dev) # ""

\* The section a new device is registered under.
FreshAt(secs, dev, new, at) ==
    LET name == IF dev.name = "" THEN KeyFor(dev) ELSE dev.name
    IN  /\ Len(new) = at
        /\ \A i \in 1 .. Len(secs) : new[i] = secs[i]
        /\ new[at].name = name /\ new[at].shown = name
        /\ new[at].id = IF KeyFor(dev) \in HexIds THEN dev.id ELSE ""
        /\ new[at].renamed = FALSE /\ new[at].auto = TRUE

\* Its MAC has the hash of its key.
HashedMac(new, at) == \E n : new[at].mac = << HashOf[KeyOf(new[at])], n >>

LEMMA CreatedNew ==
    ASSUME NEW secs, Ready(secs), NEW dev, IsNew(secs, dev)
    PROVE  /\ FreshAt(secs, dev, Created(secs, dev), Len(secs) + 1)
           /\ HashedMac(Created(secs, dev), Len(secs) + 1)
  <1> DEFINE new   == Created(secs, dev)
             name  == IF dev.name = "" THEN KeyFor(dev) ELSE dev.name
             at    == Len(secs) + 1
             grown == Append(secs, NewSection(name, TRUE))
             sec   == grown[at]
             id    == IF KeyFor(dev) \in HexIds THEN dev.id ELSE sec.id
             own   == [sec EXCEPT !.id = id, !.shown = sec.name]
  <1>1. Sections(secs) /\ Len(secs) \in Nat
    BY DEF Ready, Sections
  <1>2. name # "" /\ (IF name = "" THEN KeyFor(dev) ELSE name) = name
    BY DEF IsNew
  <1>3. Grown(secs, dev) = grown /\ CreatedAt(secs, dev) = at
    BY <1>2 DEF IsNew, Grown, CreatedAt, ensureSection
  <1>4. /\ Sections(grown) /\ Len(grown) = at
        /\ \A i \in 1 .. Len(secs) : grown[i] = secs[i]
        /\ grown[at] = NewSection(name, TRUE)
    BY <1>1, Added
  <1>5. grown[at] = FullSection(name, "", NoMac, NoCreds, name, FALSE, TRUE)
    <2> HIDE DEF name, grown, at
    <2> QED  BY Zenon, <1>4 DEF NewSection, FullSection
  <1>6. /\ Shaped(own) /\ own.name = name /\ own.shown = name
        /\ own.id = IF KeyFor(dev) \in HexIds THEN dev.id ELSE ""
        /\ own.mac = NoMac /\ own.renamed = FALSE /\ own.auto = TRUE
    <2> DEFINE none == ""  no == FALSE  yes == TRUE
    <2> HIDE DEF name, grown, at, sec
    <2>1. sec = FullSection(name, none, NoMac, NoCreds, name, no, yes)
      BY Zenon, <1>5 DEF sec
    <2> HIDE DEF none, no, yes
    <2>2. sec.name = name /\ sec.id = none
      BY <2>1, ShapedFields
    <2>3. own = Named(sec, id, name)
      BY <2>2 DEF Named
    <2>4. id = IF KeyFor(dev) \in HexIds THEN dev.id ELSE none
      BY <2>2
    <2> HIDE DEF id, own
    <2>5. /\ Shaped(own) /\ own.name = name /\ own.id = id /\ own.shown = name
          /\ own.mac = NoMac /\ own.renamed = no /\ own.auto = yes
      BY <2>1, <2>3, FreshIs
    <2> QED
      BY Zenon, <2>4, <2>5 DEF none, no, yes
  <1>7. new = assignMac([grown EXCEPT ![at] = own], at)
    <2>1. new = assignMac([grown EXCEPT ![at].id = IF KeyFor(dev) \in HexIds THEN dev.id ELSE @,
                                        ![at].shown = grown[at].name], at)
      <3> HIDE DEF grown, at
      <3> QED  BY <1>3 DEF Created
    <2>2. [grown EXCEPT ![at].id = IF KeyFor(dev) \in HexIds THEN dev.id ELSE @,
                        ![at].shown = grown[at].name]
            = [grown EXCEPT ![at] = own]
      <3> HIDE DEF grown, at
      <3>1. grown = [j \in 1 .. Len(grown) |-> grown[j]]
        BY <1>4 DEF Sections
      <3> QED
        BY <3>1
    <2> QED
      BY <2>1, <2>2
  <1>8. at \in 1 .. Len(grown)
    <2>1. Len(grown) = at
      BY Zenon, <1>4
    <2> HIDE DEF grown
    <2> QED  BY <1>1, <2>1
  <1>14. at = Len(secs) + 1
    OBVIOUS
  <1> HIDE DEF name, id, own, grown, new, at, sec
  <1> DEFINE put == [grown EXCEPT ![at] = own]
  <1>10. /\ Sections(put) /\ Len(put) = Len(grown) /\ put[at] = own
         /\ \A j \in 1 .. Len(grown) : j # at => put[j] = grown[j]
    <2>1. Shaped(own)
      BY Zenon, <1>6
    <2>2. Sections(grown)
      BY Zenon, <1>4
    <2> QED
      BY <1>8, <2>1, <2>2, OneChanged
  <1> HIDE DEF put
  <1>11. /\ SameButMacs(put, new)
         /\ \A j \in 1 .. Len(put) : j # at => new[j] = put[j]
    <2>1. new = assignMac(put, at) /\ at \in 1 .. Len(put)
      BY <1>7, <1>8, <1>10 DEF put
    <2>2. /\ SameButMacs(put, assignMac(put, at))
          /\ \A j \in 1 .. Len(put) : j # at => assignMac(put, at)[j] = put[j]
      BY <1>10, <2>1, AssignMac
    <2> QED
      BY <2>1, <2>2
  <1>12. Len(new) = at /\ \A i \in 1 .. Len(secs) : new[i] = secs[i]
    <2>1. Len(new) = Len(put) /\ Len(put) = at
      BY <1>4, <1>10, <1>11 DEF SameButMacs
    <2>2. \A i \in 1 .. Len(secs) : i \in 1 .. Len(put) /\ i # at
      BY <1>1, <1>14, <2>1
    <2> QED
      BY <1>4, <1>10, <1>11, <2>1, <2>2
  <1>13. /\ new[at].name = own.name /\ new[at].shown = own.shown /\ new[at].id = own.id
         /\ new[at].renamed = own.renamed /\ new[at].auto = own.auto
    <2>1. at \in 1 .. Len(put) /\ put[at] = own
      BY <1>8, <1>10
    <2>2. new[at] = [own EXCEPT !.mac = new[at].mac]
      BY <1>11, <2>1 DEF SameButMacs
    <2>3. Shaped(own)
      BY Zenon, <1>6
    <2> QED
      BY <2>2, <2>3, ButMac
  <1>15. /\ new[at].name = name /\ new[at].shown = name
         /\ new[at].id = IF KeyFor(dev) \in HexIds THEN dev.id ELSE ""
         /\ (new[at].renamed = FALSE) /\ (new[at].auto = TRUE)
    BY Zenon, <1>6, <1>13
  <1>16. \E n : new[at].mac = << HashOf[KeyOf(new[at])], n >>
    <2>1. at \in 1 .. Len(put) /\ put[at] = own /\ Sections(put) /\ own.mac = NoMac
      BY Zenon, <1>6, <1>8, <1>10
    <2>2. PICK n : assignMac(put, at)[at].mac = << HashOf[KeyOf(put[at])], n >>
      BY <2>1, AssignedMac
    <2>3. KeyOf(own) = KeyOf(new[at])
      BY <1>13, Zenon DEF KeyOf
    <2>4. new = assignMac(put, at)
      BY <1>7 DEF put
    <2>5. new[at].mac = << HashOf[KeyOf(new[at])], n >>
      BY Zenon, <2>1, <2>2, <2>3, <2>4
    <2> QED
      BY <2>5
  <1>17. FreshAt(secs, dev, new, at)
    <2>1. FreshAt(secs, dev, new, at) <=>
            /\ Len(new) = at
            /\ \A i \in 1 .. Len(secs) : new[i] = secs[i]
            /\ new[at].name = name /\ new[at].shown = name
            /\ new[at].id = IF KeyFor(dev) \in HexIds THEN dev.id ELSE ""
            /\ new[at].renamed = FALSE /\ new[at].auto = TRUE
      BY Zenon DEF FreshAt, name
    <2> QED
      BY Zenon, <1>12, <1>15, <2>1
  <1>18. HashedMac(new, at)
    BY Zenon, <1>16 DEF HashedMac
  <1> QED
    BY Zenon, <1>17, <1>18 DEF new, at

-----------------------------------------------------------------------------
(* The three ways a device matches a section.                               *)

ById(sec, dev)   == dev.id # "" /\ sec.id = dev.id
ByMac(sec, dev)  == dev.id \in HexIds /\ sec.mac = fakeMacFor(dev.id)
ByName(sec, dev) == dev.name # "" /\ sec.name = dev.name

LEMMA MatchSets ==
    ASSUME NEW secs, NEW dev
    PROVE  LET byId   == { i \in DOMAIN secs : ById(secs[i], dev) }
               byMac  == { i \in DOMAIN secs : ByMac(secs[i], dev) }
               byName == { i \in DOMAIN secs : ByName(secs[i], dev) }
           IN  /\ byId # {} => Match(secs, dev) = Min(byId)
               /\ byId = {} /\ byMac # {} => Match(secs, dev) = Min(byMac)
               /\ byId = {} /\ byMac = {} /\ byName # {} => Match(secs, dev) = Min(byName)
               /\ byId = {} /\ byMac = {} /\ byName = {} => Match(secs, dev) = 0
  BY Zenon DEF Match, FirstOf, ById, ByMac, ByName

\* The section that matches does so in one of the ways; when none does, no
\* section matches in any.
LEMMA MatchMeans ==
    ASSUME NEW secs, Sections(secs), NEW dev
    PROVE  LET at == Match(secs, dev)
           IN  /\ at \in 0 .. Len(secs)
               /\ at = 0 => \A i \in 1 .. Len(secs) : /\ ~ById(secs[i], dev)
                                                      /\ ~ByMac(secs[i], dev)
                                                      /\ ~ByName(secs[i], dev)
               /\ at # 0 => \/ ById(secs[at], dev)
                            \/ ByMac(secs[at], dev)
                            \/ ByName(secs[at], dev)
  <1> DEFINE byId   == { i \in DOMAIN secs : ById(secs[i], dev) }
             byMac  == { i \in DOMAIN secs : ByMac(secs[i], dev) }
             byName == { i \in DOMAIN secs : ByName(secs[i], dev) }
             at     == Match(secs, dev)
  <1>1. Len(secs) \in Nat /\ DOMAIN secs = 1 .. Len(secs)
    BY DEF Sections
  <1>2. /\ byId # {} => at = Min(byId)
        /\ byId = {} /\ byMac # {} => at = Min(byMac)
        /\ byId = {} /\ byMac = {} /\ byName # {} => at = Min(byName)
        /\ byId = {} /\ byMac = {} /\ byName = {} => at = 0
    BY MatchSets, Zenon
  <1>3. /\ \A i \in byId : i \in 1 .. Len(secs) /\ ById(secs[i], dev)
        /\ \A i \in byMac : i \in 1 .. Len(secs) /\ ByMac(secs[i], dev)
        /\ \A i \in byName : i \in 1 .. Len(secs) /\ ByName(secs[i], dev)
    BY <1>1
  <1>4. /\ \A i \in 1 .. Len(secs) : ById(secs[i], dev) => i \in byId
        /\ \A i \in 1 .. Len(secs) : ByMac(secs[i], dev) => i \in byMac
        /\ \A i \in 1 .. Len(secs) : ByName(secs[i], dev) => i \in byName
    BY <1>1
  <1> HIDE DEF byId, byMac, byName, at
  <1>5. byId \subseteq Nat /\ byMac \subseteq Nat /\ byName \subseteq Nat
    BY <1>1, <1>3
  <1>6. /\ byId # {} => Min(byId) \in byId
        /\ byMac # {} => Min(byMac) \in byMac
        /\ byName # {} => Min(byName) \in byName
    BY <1>5, MinIsLeast
  <1>7. CASE byId = {} /\ byMac = {} /\ byName = {}
    <2>1. at = 0 /\ at \in 0 .. Len(secs)
      BY <1>1, <1>2, <1>7
    <2>2. \A i \in 1 .. Len(secs) : /\ ~ById(secs[i], dev)
                                    /\ ~ByMac(secs[i], dev)
                                    /\ ~ByName(secs[i], dev)
      BY <1>4, <1>7
    <2> QED
      BY Zenon, <2>1, <2>2 DEF at
  <1>8. CASE ~ (byId = {} /\ byMac = {} /\ byName = {})
    <2>1. at \in byId \/ at \in byMac \/ at \in byName
      BY <1>2, <1>6, <1>8
    <2>2. /\ at \in 1 .. Len(secs)
          /\ ById(secs[at], dev) \/ ByMac(secs[at], dev) \/ ByName(secs[at], dev)
      BY Zenon, <1>3, <2>1
    <2>3. at # 0 /\ at \in 0 .. Len(secs)
      BY <1>1, <2>2
    <2> QED
      BY Zenon, <2>2, <2>3 DEF at
  <1> QED
    BY <1>7, <1>8

\* One section matches, or more than one way, and no other does.
LEMMA MatchOnly ==
    ASSUME NEW secs, Sections(secs), NEW dev, NEW at \in 1 .. Len(secs),
           ById(secs[at], dev) \/ ByName(secs[at], dev),
           \A i \in 1 .. Len(secs) : i # at => /\ ~ById(secs[i], dev)
                                               /\ ~ByMac(secs[i], dev)
                                               /\ ~ByName(secs[i], dev)
    PROVE  Match(secs, dev) = at
  <1> DEFINE m == Match(secs, dev)
  <1>1. /\ m \in 0 .. Len(secs)
        /\ m = 0 => \A i \in 1 .. Len(secs) : /\ ~ById(secs[i], dev)
                                              /\ ~ByMac(secs[i], dev)
                                              /\ ~ByName(secs[i], dev)
        /\ m # 0 => \/ ById(secs[m], dev)
                    \/ ByMac(secs[m], dev)
                    \/ ByName(secs[m], dev)
    BY MatchMeans, Zenon
  <1>2. Len(secs) \in Nat
    BY DEF Sections
  <1> HIDE DEF m
  <1>3. m # 0
    BY <1>1, Zenon
  <1>4. m \in 1 .. Len(secs)
    BY <1>1, <1>2, <1>3
  <1> QED
    BY <1>1, <1>3, <1>4, Zenon DEF m

\* The sections stay as far as a device is concerned, and those that are added
\* do not match it better.
StillMatch(secs, new, dev) ==
    /\ Len(secs) <= Len(new)
    /\ \A i \in 1 .. Len(secs) : /\ ById(new[i], dev) <=> ById(secs[i], dev)
                                 /\ ByMac(new[i], dev) <=> ByMac(secs[i], dev)
                                 /\ ByName(new[i], dev) <=> ByName(secs[i], dev)
    /\ \A i \in 1 .. Len(new) :
         i \in 1 .. Len(secs) \/ (~ById(new[i], dev) /\ ~ByMac(new[i], dev))

LEMMA MatchStays ==
    ASSUME NEW secs, Sections(secs), NEW new, Sections(new), NEW dev,
           StillMatch(secs, new, dev), Match(secs, dev) # 0
    PROVE  Match(new, dev) = Match(secs, dev)
  <1> DEFINE byId    == { i \in DOMAIN secs : ById(secs[i], dev) }
             byMac   == { i \in DOMAIN secs : ByMac(secs[i], dev) }
             byName  == { i \in DOMAIN secs : ByName(secs[i], dev) }
             newId   == { i \in DOMAIN new : ById(new[i], dev) }
             newMac  == { i \in DOMAIN new : ByMac(new[i], dev) }
             newName == { i \in DOMAIN new : ByName(new[i], dev) }
  <1>1. /\ Len(secs) \in Nat /\ DOMAIN secs = 1 .. Len(secs)
        /\ Len(new) \in Nat /\ DOMAIN new = 1 .. Len(new)
        /\ Len(secs) <= Len(new)
    BY DEF Sections, StillMatch
  <1>2. \A i : i \in 1 .. Len(secs) => i \in 1 .. Len(new)
    BY <1>1
  <1>3. /\ byId # {} => Match(secs, dev) = Min(byId)
        /\ byId = {} /\ byMac # {} => Match(secs, dev) = Min(byMac)
        /\ byId = {} /\ byMac = {} /\ byName # {} => Match(secs, dev) = Min(byName)
        /\ byId = {} /\ byMac = {} /\ byName = {} => Match(secs, dev) = 0
    BY MatchSets, Zenon
  <1>4. /\ newId # {} => Match(new, dev) = Min(newId)
        /\ newId = {} /\ newMac # {} => Match(new, dev) = Min(newMac)
        /\ newId = {} /\ newMac = {} /\ newName # {} => Match(new, dev) = Min(newName)
    BY MatchSets, Zenon
  <1>5. newId = byId /\ newMac = byMac
    <2>1. \A i : i \in newId <=> i \in byId
      BY <1>1, <1>2, Zenon DEF StillMatch
    <2>2. \A i : i \in newMac <=> i \in byMac
      BY <1>1, <1>2, Zenon DEF StillMatch
    <2> HIDE DEF newId, byId, newMac, byMac
    <2> QED
      BY <2>1, <2>2
  <1>6. \A i : i \in byName => i \in newName
    BY <1>1, <1>2, Zenon DEF StillMatch
  <1>7. \A i \in newName : i \in byName \/ (i \in 1 .. Len(new) /\ i \notin 1 .. Len(secs))
    BY <1>1, Zenon DEF StillMatch
  <1>8. byName \subseteq 1 .. Len(secs) /\ newName \subseteq 1 .. Len(new)
    BY <1>1
  <1> HIDE DEF byId, byMac, byName, newId, newMac, newName
  <1>9. ASSUME byName # {} PROVE newName # {} /\ Min(newName) = Min(byName)
    <2>1. newName # {} /\ newName \subseteq Nat /\ byName \subseteq Nat
      BY <1>1, <1>6, <1>8, <1>9
    <2>2. /\ Min(newName) \in newName /\ \A i \in newName : Min(newName) <= i
          /\ Min(byName) \in byName /\ \A i \in byName : Min(byName) <= i
      BY <1>9, <2>1, MinIsLeast
    <2> DEFINE a == Min(newName)
               b == Min(byName)
    <2>3. a \in 1 .. Len(new) /\ b \in 1 .. Len(secs) /\ a <= b
      BY <1>6, <1>8, <2>2
    <2>4. /\ a \in newName /\ \A i \in byName : b <= i
          /\ newName # {} /\ \A i \in newName : i \in byName \/ i \notin 1 .. Len(secs)
      BY <1>7, <2>1, <2>2
    <2> HIDE DEF a, b
    <2>5. a \in 1 .. Len(secs)
      BY <1>1, <2>3
    <2>6. b <= a
      BY <2>4, <2>5
    <2>7. a = b
      BY <1>1, <2>3, <2>6
    <2> QED
      BY <2>4, <2>7 DEF a, b
  <1> QED
    BY <1>3, <1>4, <1>5, <1>9, Zenon
=============================================================================
