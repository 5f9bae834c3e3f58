------------------------ MODULE EngineClockDemuxProofs ------------------------
(***************************************************************************)
(* Proofs about three components that stand alone: the engine of the       *)
(* casting library, for any number of application threads, the media       *)
(* clock, for every set of speeds and times and every bound, and the       *)
(* transport stream demultiplexer, for every number of frames and sizes of *)
(* frames, packets and blocks.                                             *)
(***************************************************************************)
EXTENDS MirrorEngine, AvTimer, TsDemux, SequenceTheorems, WellFoundedInduction, TLAPS

-----------------------------------------------------------------------------
(* Sequences, and induction over their lengths.                            *)

\* What the end of a sequence holds.
LEMMA DropFacts ==
    ASSUME NEW S, NEW s \in Seq(S), NEW n \in 0 .. Len(s)
    PROVE  /\ Drop(s, n) \in Seq(S) /\ Len(Drop(s, n)) = Len(s) - n
           /\ \A k \in 1 .. (Len(s) - n) : Drop(s, n)[k] = s[n + k]
BY DEF Drop

\* What the beginning of a sequence holds.
LEMMA TakeFacts ==
    ASSUME NEW S, NEW s \in Seq(S), NEW n \in 0 .. Len(s)
    PROVE  /\ Take(s, n) \in Seq(S) /\ Len(Take(s, n)) = n
           /\ \A k \in 1 .. n : Take(s, n)[k] = s[k]
BY DEF Take

\* What two sequences joined hold.
LEMMA JoinFacts ==
    ASSUME NEW S, NEW s \in Seq(S), NEW t \in Seq(S)
    PROVE  /\ s \o t \in Seq(S) /\ Len(s \o t) = Len(s) + Len(t)
           /\ \A k \in 1 .. Len(s) : (s \o t)[k] = s[k]
           /\ \A k \in 1 .. Len(t) : (s \o t)[Len(s) + k] = t[k]
OBVIOUS

\* What a sequence holds to which a value has been appended.
LEMMA AppendFacts ==
    ASSUME NEW S, NEW s \in Seq(S), NEW x \in S
    PROVE  /\ Append(s, x) \in Seq(S) /\ Len(Append(s, x)) = Len(s) + 1
           /\ \A k \in 1 .. Len(s) : Append(s, x)[k] = s[k]
           /\ Append(s, x)[Len(s) + 1] = x
OBVIOUS

\* An empty sequence is one of no length.
LEMMA EmptyFacts ==
    ASSUME NEW S, NEW s \in Seq(S)
    PROVE  /\ Len(s) \in Nat /\ DOMAIN s = 1 .. Len(s)
           /\ s = <<>> <=> Len(s) = 0
           /\ \A k \in DOMAIN s : s[k] \in S
OBVIOUS

\* A sequence is its beginning and its end.
LEMMA TakeDrop ==
    ASSUME NEW S, NEW s \in Seq(S), NEW n \in 0 .. Len(s)
    PROVE  Take(s, n) \o Drop(s, n) = s
<1> DEFINE t == Take(s, n)
           u == Drop(s, n)
           j == t \o u
<1>1. t \in Seq(S) /\ Len(t) = n /\ \A k \in 1 .. n : t[k] = s[k]
  BY TakeFacts
<1>2. u \in Seq(S) /\ Len(u) = Len(s) - n /\ \A k \in 1 .. (Len(s) - n) : u[k] = s[n + k]
  BY DropFacts
<1> HIDE DEF t, u
<1>3. j \in Seq(S) /\ Len(j) = Len(s)
      /\ (\A k \in 1 .. n : j[k] = t[k]) /\ (\A k \in 1 .. Len(u) : j[n + k] = u[k])
  BY <1>1, <1>2, JoinFacts
<1> HIDE DEF j
<1>4. ASSUME NEW k \in 1 .. Len(s) PROVE j[k] = s[k]
  <2>1. CASE k <= n
    BY <1>1, <1>3, <2>1
  <2>2. CASE k > n
    <3>1. k - n \in 1 .. Len(u) /\ n + (k - n) = k
      BY <1>2, <2>2
    <3>2. j[n + (k - n)] = u[k - n] /\ u[k - n] = s[n + (k - n)]
      BY <1>2, <1>3, <3>1
    <3>3. QED
      BY <3>1, <3>2
  <2>3. QED
    BY <2>1, <2>2
<1>5. j = s
  BY <1>3, <1>4, SeqEqual
<1>6. QED
  BY <1>5 DEF j, t, u

\* Joining is associative.
Associates(s, t, u) == (s \o t) \o u = s \o (t \o u)

LEMMA JoinAssoc ==
    ASSUME NEW S, NEW s \in Seq(S), NEW t \in Seq(S), NEW u \in Seq(S)
    PROVE  Associates(s, t, u)
BY DEF Associates

\* The empty sequence adds nothing.
LEMMA JoinEmpty ==
    ASSUME NEW S, NEW s \in Seq(S)
    PROVE  s \o <<>> = s
OBVIOUS

Less == {p \in Nat \X Nat : p[1] < p[2]}

\* A set that holds 0, and n + 1 with every n, holds all natural numbers.
LEMMA InductionLemma ==
    ASSUME NEW S, 0 \in S, \A n \in Nat : n \in S => n + 1 \in S
    PROVE  Nat \subseteq S
<1> DEFINE T == Nat \ S
<1>1. SUFFICES ASSUME T # {} PROVE FALSE
  OBVIOUS
<1>2. IsWellFoundedOn(Less, Nat)
  BY NatLessThanWellFounded DEF OpToRel, Less
<1>3. PICK x \in T : \A y \in T : ~(<<y, x>> \in Less)
  BY <1>1, <1>2, WFMin
<1>4. x \in Nat /\ x # 0 /\ x - 1 \in Nat
  OBVIOUS
<1>5. <<x - 1, x>> \in Less
  BY <1>4 DEF Less
<1>6. x - 1 \notin T
  BY <1>3, <1>5
<1>7. QED
  BY <1>4, <1>6

\* g joins the first n of the sequences of s.
Flattens(g, s, n) ==
    g = [i \in 1 .. n |-> IF i = 1 THEN s[i] ELSE g[i - 1] \o s[i]]

\* There is such a function.
LEMMA FlattensExists ==
    ASSUME NEW s, NEW n \in Nat
    PROVE  \E g : Flattens(g, s, n)
<1> DEFINE T == {m \in Nat : \E g : Flattens(g, s, m)}
<1>1. 0 \in T
  <2>1. Flattens([i \in 1 .. 0 |-> s[i]], s, 0)
    BY DEF Flattens
  <2>2. QED
    BY <2>1
<1>2. ASSUME NEW m \in Nat, m \in T PROVE m + 1 \in T
  <2>1. PICK g : Flattens(g, s, m)
    BY <1>2
  <2> DEFINE h == [i \in 1 .. (m + 1) |->
                     IF i = m + 1 THEN IF m = 0 THEN s[i] ELSE g[m] \o s[i] ELSE g[i]]
  <2>2. ASSUME NEW i \in 1 .. (m + 1)
        PROVE  h[i] = IF i = 1 THEN s[i] ELSE h[i - 1] \o s[i]
    <3>1. CASE i = m + 1
      <4>1. CASE m = 0
        BY <3>1, <4>1
      <4>2. CASE m # 0
        <5>1. i - 1 = m /\ m \in 1 .. (m + 1) /\ m # m + 1 /\ i # 1
          BY <3>1, <4>2
        <5>2. h[m] = g[m] /\ h[i] = g[m] \o s[i]
          BY <3>1, <4>2, <5>1
        <5>3. QED
          BY <5>1, <5>2
      <4>3. QED
        BY <4>1, <4>2
    <3>2. CASE i # m + 1
      <4>1. i \in 1 .. m /\ h[i] = g[i]
        BY <3>2
      <4>2. g[i] = IF i = 1 THEN s[i] ELSE g[i - 1] \o s[i]
        BY <2>1, <4>1 DEF Flattens
      <4>3. i # 1 => i - 1 \in 1 .. (m + 1) /\ i - 1 # m + 1 /\ h[i - 1] = g[i - 1]
        BY <4>1
      <4>4. QED
        BY <4>1, <4>2, <4>3
    <3>3. QED
      BY <3>1, <3>2
  <2>3. h = [i \in 1 .. (m + 1) |-> h[i]]
    OBVIOUS
  <2> HIDE DEF h
  <2>4. [i \in 1 .. (m + 1) |-> h[i]]
          = [i \in 1 .. (m + 1) |-> IF i = 1 THEN s[i] ELSE h[i - 1] \o s[i]]
    BY <2>2
  <2>5. Flattens(h, s, m + 1)
    BY <2>3, <2>4 DEF Flattens
  <2>6. QED
    BY <2>5
<1> HIDE DEF T
<1>3. Nat \subseteq T
  BY <1>1, <1>2, InductionLemma
<1>4. QED
  BY <1>3 DEF T

\* It gives sequences, which depend on those that are joined only.
LEMMA FlattensSame ==
    ASSUME NEW S, NEW n \in Nat, NEW m \in n .. (n + 1), NEW s, NEW t, NEW g, NEW h,
           Flattens(g, s, n), Flattens(h, t, m),
           \A i \in 1 .. n : s[i] \in Seq(S) /\ s[i] = t[i]
    PROVE  \A i \in 1 .. n : g[i] \in Seq(S) /\ g[i] = h[i]
<1> DEFINE T == {k \in Nat : k \in 1 .. n => g[k] \in Seq(S) /\ g[k] = h[k]}
<1>1. \A i \in 1 .. n : g[i] = IF i = 1 THEN s[i] ELSE g[i - 1] \o s[i]
  BY DEF Flattens
<1>2. \A i \in 1 .. n : h[i] = IF i = 1 THEN s[i] ELSE h[i - 1] \o s[i]
  <2>1. \A i \in 1 .. n : i \in 1 .. m
    OBVIOUS
  <2>2. QED
    BY <2>1 DEF Flattens
<1>3. 0 \in T
  OBVIOUS
<1>4. ASSUME NEW k \in Nat, k \in T PROVE k + 1 \in T
  <2>1. SUFFICES ASSUME k + 1 \in 1 .. n
                 PROVE  g[k + 1] \in Seq(S) /\ g[k + 1] = h[k + 1]
    OBVIOUS
  <2>2. CASE k = 0
    BY <1>1, <1>2, <2>1, <2>2
  <2>3. CASE k # 0
    <3>1. k \in 1 .. n /\ (k + 1) - 1 = k /\ k + 1 # 1
      BY <2>1, <2>3
    <3>2. g[k] \in Seq(S) /\ g[k] = h[k]
      BY <1>4, <3>1
    <3>3. g[k + 1] = g[k] \o s[k + 1] /\ h[k + 1] = h[k] \o s[k + 1]
      BY <1>1, <1>2, <2>1, <3>1
    <3>4. s[k + 1] \in Seq(S)
      BY <2>1
    <3>5. QED
      BY <3>2, <3>3, <3>4
  <2>4. QED
    BY <2>2, <2>3
<1> HIDE DEF T
<1>5. Nat \subseteq T
  BY <1>3, <1>4, InductionLemma
<1>6. QED
  BY <1>5 DEF T

\* FlattenSeq is its last value.
LEMMA FlattenSeqIs ==
    ASSUME NEW S, NEW s \in Seq(S), s # <<>>
    PROVE  \E g : Flattens(g, s, Len(s)) /\ FlattenSeq(s) = g[Len(s)]
<1> DEFINE n == Len(s)
           g == CHOOSE h : h = [i \in 1 .. n |-> IF i = 1 THEN s[i] ELSE h[i - 1] \o s[i]]
<1>1. n \in Nat /\ n # 0
  OBVIOUS
<1>2. FlattenSeq(s) = g[n]
  BY <1>1 DEF FlattenSeq
<1> HIDE DEF n
<1>3. \E h : h = [i \in 1 .. n |-> IF i = 1 THEN s[i] ELSE h[i - 1] \o s[i]]
  BY <1>1, FlattensExists DEF Flattens
<1>4. g = [i \in 1 .. n |-> IF i = 1 THEN s[i] ELSE g[i - 1] \o s[i]]
  BY <1>3
<1> HIDE DEF g
<1>5. Flattens(g, s, n)
  BY <1>4 DEF Flattens
<1>6. QED
  BY <1>2, <1>5 DEF n

\* A sequence put behind others comes last when they are joined.
LEMMA FlattenAppend ==
    ASSUME NEW S, NEW s \in Seq(Seq(S)), NEW x \in Seq(S)
    PROVE  /\ FlattenSeq(s) \in Seq(S)
           /\ FlattenSeq(Append(s, x)) = FlattenSeq(s) \o x
<1> DEFINE n == Len(s)
           t == Append(s, x)
<1>1. n \in Nat /\ \A i \in 1 .. n : s[i] \in Seq(S)
  BY EmptyFacts
<1>2. t \in Seq(Seq(S)) /\ Len(t) = n + 1 /\ t[n + 1] = x /\ \A i \in 1 .. n : t[i] = s[i]
  BY AppendFacts
<1> HIDE DEF t
<1>3. t # <<>>
  BY <1>1, <1>2, EmptyFacts
<1>4. PICK h : Flattens(h, t, n + 1) /\ FlattenSeq(t) = h[n + 1]
  BY <1>2, <1>3, FlattenSeqIs
<1>5. h[n + 1] = IF n + 1 = 1 THEN t[n + 1] ELSE h[(n + 1) - 1] \o t[n + 1]
  <2> HIDE DEF n
  <2>1. n + 1 \in 1 .. (n + 1)
    BY <1>1
  <2>2. h = [i \in 1 .. (n + 1) |-> IF i = 1 THEN t[i] ELSE h[i - 1] \o t[i]]
    BY <1>4 DEF Flattens
  <2>3. QED
    BY <2>1, <2>2
<1>6. CASE n = 0
  <2>1. s = <<>> /\ FlattenSeq(s) = s
    BY <1>6, EmptyFacts DEF FlattenSeq
  <2>2. FlattenSeq(t) = x
    BY <1>2, <1>4, <1>5, <1>6
  <2>3. <<>> \in Seq(S) /\ <<>> \o x = x
    OBVIOUS
  <2>4. QED
    BY <2>1, <2>2, <2>3 DEF t
<1>7. CASE n # 0
  <2>1. s # <<>>
    BY <1>7
  <2>2. PICK g : Flattens(g, s, n) /\ FlattenSeq(s) = g[n]
    BY <2>1, FlattenSeqIs
  <2>3. n + 1 \in n .. (n + 1) /\ n \in 1 .. n
    BY <1>1, <1>7
  <2>4. \A i \in 1 .. n : s[i] = t[i]
    BY <1>2
  <2> HIDE DEF n
  <2>5. g[n] \in Seq(S) /\ g[n] = h[n]
    BY <1>1, <1>4, <2>2, <2>3, <2>4, FlattensSame
  <2>6. h[n + 1] = h[n] \o x
    BY <1>1, <1>2, <1>5, <1>7
  <2>7. QED
    BY <1>4, <2>2, <2>5, <2>6 DEF t
<1>8. QED
  BY <1>6, <1>7

-----------------------------------------------------------------------------
(* The loop of push_es_data.                                               *)

\* l is the loop's state after each round, as far as there are any.
Loops(l, st, data, isNew, size, n) ==
    l = [k \in 0 .. n |->
           IF k = 0 THEN [st |-> st, data |-> data, isNew |-> isNew]
           ELSE IF l[k - 1].data = <<>> THEN l[k - 1] ELSE FillBlock(l[k - 1], size)]

\* There is such a function.
LEMMA LoopsExists ==
    ASSUME NEW st, NEW data, NEW isNew, NEW size, NEW n \in Nat
    PROVE  \E l : Loops(l, st, data, isNew, size, n)
<1> DEFINE a == [st |-> st, data |-> data, isNew |-> isNew]
           next(x) == IF x.data = <<>> THEN x ELSE FillBlock(x, size)
           is(l, m) == l = [k \in 0 .. m |-> IF k = 0 THEN a ELSE next(l[k - 1])]
           T == {m \in Nat : \E l : is(l, m)}
<1> HIDE DEF a, next
<1>1. 0 \in T
  <2>1. is([k \in 0 .. 0 |-> a], 0)
    OBVIOUS
  <2>2. QED
    BY <2>1
<1>2. ASSUME NEW m \in Nat, m \in T PROVE m + 1 \in T
  <2>1. PICK l : is(l, m)
    BY <1>2
  <2> DEFINE h == [k \in 0 .. (m + 1) |-> IF k = m + 1 THEN next(l[m]) ELSE l[k]]
  <2>2. ASSUME NEW k \in 0 .. (m + 1)
        PROVE  h[k] = IF k = 0 THEN a ELSE next(h[k - 1])
    <3>1. CASE k = m + 1
      <4>1. k - 1 = m /\ m \in 0 .. (m + 1) /\ m # m + 1 /\ k # 0
        BY <3>1
      <4>2. h[m] = l[m] /\ h[k] = next(l[m])
        BY <3>1, <4>1
      <4>3. QED
        BY <4>1, <4>2
    <3>2. CASE k # m + 1
      <4>1. k \in 0 .. m /\ h[k] = l[k]
        BY <3>2
      <4>2. l[k] = IF k = 0 THEN a ELSE next(l[k - 1])
        BY <2>1, <4>1
      <4>3. k # 0 => k - 1 \in 0 .. (m + 1) /\ k - 1 # m + 1 /\ h[k - 1] = l[k - 1]
        BY <4>1
      <4>4. QED
        BY <4>1, <4>2, <4>3
    <3>3. QED
      BY <3>1, <3>2
  <2>3. h = [k \in 0 .. (m + 1) |-> h[k]]
    OBVIOUS
  <2> HIDE DEF h
  <2>4. [k \in 0 .. (m + 1) |-> h[k]]
          = [k \in 0 .. (m + 1) |-> IF k = 0 THEN a ELSE next(h[k - 1])]
    BY <2>2
  <2>5. is(h, m + 1)
    BY <2>3, <2>4
  <2>6. QED
    BY <2>5
<1> HIDE DEF T
<1>3. Nat \subseteq T
  BY <1>1, <1>2, InductionLemma
<1>4. PICK l : is(l, n)
  BY <1>3 DEF T
<1>5. Loops(l, st, data, isNew, size, n)
  BY <1>4 DEF Loops, next, a
<1>6. QED
  BY <1>5

\* A round that begins in L ends there, and takes data.
RoundsTakeIn(L, D, size) ==
    /\ \A x \in L : x.data \in Seq(D)
    /\ \A x \in L : x.data # <<>> =>
         \E y \in L : y = FillBlock(x, size) /\ Len(y.data) < Len(x.data)

\* The filter is y in a state of L in which no data are left.
EndsIn(L, y) == \E x \in L : x.data = <<>> /\ y = x.st

\* What every round keeps, and the state before the first one has, holds when the
\* loop ends, which it does as each round takes data.
LEMMA FillBlocksKeeps ==
    ASSUME NEW D, NEW L, NEW st, NEW data \in Seq(D), NEW isNew, NEW size,
           [st |-> st, data |-> data, isNew |-> isNew] \in L,
           RoundsTakeIn(L, D, size)
    PROVE  EndsIn(L, FillBlocks(st, data, isNew, size))
<1> DEFINE n == Len(data)
           l == CHOOSE l : l = [k \in 0 .. n |->
                   IF k = 0 THEN [st |-> st, data |-> data, isNew |-> isNew]
                   ELSE IF l[k - 1].data = <<>> THEN l[k - 1] ELSE FillBlock(l[k - 1], size)]
           T == {k \in Nat : k \in 0 .. n => l[k] \in L /\ Len(l[k].data) <= n - k}
<1>1. FillBlocks(st, data, isNew, size) = l[n].st
  BY DEF FillBlocks
<1>2. n \in Nat
  OBVIOUS
<1> HIDE DEF n
<1>3. \E m : m = [k \in 0 .. n |->
                   IF k = 0 THEN [st |-> st, data |-> data, isNew |-> isNew]
                   ELSE IF m[k - 1].data = <<>> THEN m[k - 1] ELSE FillBlock(m[k - 1], size)]
  <2>1. PICK m : Loops(m, st, data, isNew, size, n)
    BY <1>2, LoopsExists
  <2>2. WITNESS m
  <2>3. QED
    BY <2>1 DEF Loops
<1>4. l = [k \in 0 .. n |->
             IF k = 0 THEN [st |-> st, data |-> data, isNew |-> isNew]
             ELSE IF l[k - 1].data = <<>> THEN l[k - 1] ELSE FillBlock(l[k - 1], size)]
  BY <1>3
<1> HIDE DEF l
<1>5. l[0] = [st |-> st, data |-> data, isNew |-> isNew]
  BY <1>2, <1>4
<1>6. \A k \in 0 .. n : k # 0 =>
        l[k] = IF l[k - 1].data = <<>> THEN l[k - 1] ELSE FillBlock(l[k - 1], size)
  BY <1>4
<1>7. 0 \in T
  BY <1>2, <1>5 DEF n
<1>8. ASSUME NEW k \in Nat, k \in T PROVE k + 1 \in T
  <2>1. SUFFICES ASSUME k + 1 \in 0 .. n
                 PROVE  l[k + 1] \in L /\ Len(l[k + 1].data) <= n - (k + 1)
    OBVIOUS
  <2>2. k \in 0 .. n /\ k + 1 # 0 /\ (k + 1) - 1 = k
    BY <1>2, <2>1
  <2>3. l[k] \in L /\ Len(l[k].data) <= n - k /\ l[k].data \in Seq(D)
    BY <1>8, <2>2 DEF RoundsTakeIn
  <2>4. l[k + 1] = IF l[k].data = <<>> THEN l[k] ELSE FillBlock(l[k], size)
    BY <1>6, <2>1, <2>2
  <2>5. CASE l[k].data = <<>>
    <3>1. Len(l[k + 1].data) = 0
      BY <2>4, <2>5
    <3>2. QED
      BY <1>2, <2>1, <2>2, <2>3, <2>4, <2>5, <3>1
  <2>6. CASE l[k].data # <<>>
    <3>1. l[k + 1] \in L /\ Len(l[k + 1].data) < Len(l[k].data)
      BY <2>3, <2>4, <2>6 DEF RoundsTakeIn
    <3>2. Len(l[k + 1].data) \in Nat /\ Len(l[k].data) \in Nat
      BY <2>3, <3>1 DEF RoundsTakeIn
    <3>3. QED
      BY <1>2, <2>2, <2>3, <3>1, <3>2
  <2>7. QED
    BY <2>5, <2>6
<1> HIDE DEF T
<1>9. Nat \subseteq T
  BY <1>7, <1>8, InductionLemma
<1>10. l[n] \in L /\ Len(l[n].data) <= n - n
  BY <1>2, <1>9 DEF T
<1>11. l[n].data = <<>>
  BY <1>2, <1>10, EmptyFacts DEF RoundsTakeIn
<1>12. QED
  BY <1>1, <1>10, <1>11 DEF EndsIn

-----------------------------------------------------------------------------
(* What the filter is made of, and a round of its loop.                    *)

Data == [frame : Nat, place : Nat, packet : Nat, value : Nat]

Block == [data : Seq(Data), bits : SUBSET {"first", "pts", "last"}]

Filters ==
    [state : {"skip", "payload"}, total : Nat, payload : Nat, isNew : BOOLEAN,
     pts : BOOLEAN, data : Seq(Data), bits : SUBSET {"first", "pts"}, free : Nat,
     out : Seq(Block)]

LoopStates == [st : Filters, data : Seq(Data), isNew : BOOLEAN]

\* What the first round adds to the bits of the block.
Marks(x) == IF ~x.isNew THEN {} ELSE IF x.st.pts THEN {"first", "pts"} ELSE {"first"}

\* What a loop leaves of the filter.
SameHeader(st, y) ==
    y.state = st.state /\ y.total = st.total /\ y.isNew = st.isNew /\ y.pts = st.pts

\* The block stays, with the data added to it; it is not full.
Kept(st, y, t, b) ==
    /\ y.out = st.out /\ y.data = st.data \o t /\ y.bits = st.bits \cup b
    /\ y.payload = st.payload
    /\ st.payload > 0 => Len(y.data) < st.payload

\* What is added to the bits of a submitted block of the given length, and what is
\* left of the length of the PES packet.
CountedTo(last, p, q, len) ==
    /\ p = 0 => last = {} /\ q = 0
    /\ p > 0 /\ len < p => last = {} /\ q = p - len
    /\ p > 0 /\ len = p => last = {"last"} /\ q = p
    /\ p > 0 /\ len > p => last = {} /\ q = 0

\* The block is submitted, with the data added to it.
Submitted(st, y, t, b, last) ==
    /\ y.out = Append(st.out, [data |-> st.data \o t, bits |-> (st.bits \cup b) \cup last])
    /\ y.data = <<>> /\ y.bits = {}
    /\ CountedTo(last, st.payload, y.payload, Len(st.data \o t))

\* y is the filter st when its block has been submitted.
AfterSubmit(st, y, last, p) ==
    /\ SameHeader(st, y)
    /\ y.out = Append(st.out, [data |-> st.data, bits |-> st.bits \cup last])
    /\ y.data = <<>> /\ y.bits = {} /\ y.payload = p

\* A round of the loop takes n of the data; the block stays or is submitted.
Round(x, y) ==
    /\ y.isNew = FALSE /\ SameHeader(x.st, y.st)
    /\ \E n \in 1 .. Len(x.data) :
         /\ y.data = Drop(x.data, n)
         /\ \/ n = Len(x.data) /\ Kept(x.st, y.st, Take(x.data, n), Marks(x))
            \/ \E last \in SUBSET {"last"} :
                 Submitted(x.st, y.st, Take(x.data, n), Marks(x), last)

\* Submit makes a block of the filter's data and bits.
LEMMA SubmitIs ==
    ASSUME NEW st \in Filters, NEW p \in Nat, NEW last \in SUBSET {"last"},
           NEW c, c = [st EXCEPT !.bits = st.bits \cup last, !.payload = p]
    PROVE  Submit(c) \in Filters /\ AfterSubmit(st, Submit(c), last, p)
<1>1. /\ c.state = st.state /\ c.total = st.total /\ c.isNew = st.isNew /\ c.pts = st.pts
      /\ c.data = st.data /\ c.bits = st.bits \cup last /\ c.payload = p /\ c.out = st.out
  BY DEF Filters
<1> DEFINE block == [data |-> st.data, bits |-> st.bits \cup last]
           out == Append(st.out, block)
<1>2. block \in Block
  BY DEF Filters, Block
<1> HIDE DEF block
<1>3. out \in Seq(Block)
  BY <1>2 DEF Filters
<1> HIDE DEF out
<1>4. Submit(c) = [st EXCEPT !.bits = {}, !.payload = p, !.out = out, !.data = <<>>, !.free = 0]
  BY <1>1 DEF Submit, Filters, out, block
<1>5. <<>> \in Seq(Data)
  OBVIOUS
<1> DEFINE y == [st EXCEPT !.bits = {}, !.payload = p, !.out = out, !.data = <<>>, !.free = 0]
<1>6. y \in Filters
  BY <1>3, <1>5 DEF Filters
<1>7. /\ SameHeader(st, y) /\ y.out = out /\ y.data = <<>> /\ y.bits = {} /\ y.payload = p
  BY DEF Filters, SameHeader
<1> HIDE DEF y
<1>8. Submit(c) = y
  BY <1>4 DEF y
<1>9. QED
  BY <1>6, <1>7, <1>8 DEF out, block, AfterSubmit

\* The same of a block to which data and bits have been added.
LEMMA SubmittedIs ==
    ASSUME NEW st, NEW t, NEW b, NEW c \in Filters, c.data = st.data \o t,
           c.bits = st.bits \cup b, c.out = st.out, SameHeader(st, c),
           NEW p \in Nat, NEW last \in SUBSET {"last"},
           CountedTo(last, st.payload, p, Len(st.data \o t)),
           NEW d, d = [c EXCEPT !.bits = c.bits \cup last, !.payload = p],
           NEW s, s = Submit(d)
    PROVE  s \in Filters /\ SameHeader(st, s) /\ Submitted(st, s, t, b, last)
<1>1. s \in Filters /\ AfterSubmit(c, s, last, p)
  BY SubmitIs
<1>2. SameHeader(st, s)
  BY <1>1 DEF SameHeader, AfterSubmit
<1>3. QED
  BY <1>1, <1>2 DEF Submitted, AfterSubmit

\* For each of the data there is the size of the block that it would begin.
Granted(size, data) == \A k \in DOMAIN data : size[data[k]] \in Nat \ {0}

\* So there is for each of a part of the data.
LEMMA GrantedParts ==
    ASSUME NEW data \in Seq(Data), NEW n \in 0 .. Len(data), NEW size, Granted(size, data)
    PROVE  Granted(size, Take(data, n)) /\ Granted(size, Drop(data, n))
<1> DEFINE t == Take(data, n)
           d == Drop(data, n)
<1>1. t \in Seq(Data) /\ Len(t) = n /\ \A k \in 1 .. n : t[k] = data[k]
  BY TakeFacts
<1>2. d \in Seq(Data) /\ Len(d) = Len(data) - n
      /\ \A k \in 1 .. (Len(data) - n) : d[k] = data[n + k]
  BY DropFacts
<1> HIDE DEF t, d
<1>3. /\ DOMAIN t = 1 .. n /\ DOMAIN d = 1 .. (Len(data) - n) /\ Len(data) \in Nat
      /\ DOMAIN data = 1 .. Len(data)
  BY <1>1, <1>2, EmptyFacts
<1>4. \A k \in DOMAIN t : k \in DOMAIN data /\ t[k] = data[k]
  BY <1>1, <1>3
<1>5. \A k \in DOMAIN d : n + k \in DOMAIN data /\ d[k] = data[n + k]
  BY <1>2, <1>3
<1>6. Granted(size, t) /\ Granted(size, d)
  BY <1>4, <1>5 DEF Granted
<1>7. QED
  BY <1>6 DEF t, d

\* This is what a round does.
LEMMA FillBlockIs ==
    ASSUME NEW x \in LoopStates, NEW size, Granted(size, x.data), x.data # <<>>
    PROVE  \E y \in LoopStates : y = FillBlock(x, size) /\ Round(x, y)
<1> DEFINE st == x.st
           room == IF st.free = 0 THEN size[Head(x.data)] ELSE st.free
           n == IF room > Len(x.data) THEN Len(x.data) ELSE room
           marks == Marks(x)
           t == Take(x.data, n)
           c == [st EXCEPT !.data = @ \o t, !.free = room - n, !.bits = @ \cup marks]
           s == IF c.free = 0 THEN Submit(CountedFull(c))
                ELSE IF c.payload > 0 /\ Len(c.data) >= c.payload
                  THEN Submit(Counted(c)) ELSE c
           y == [data |-> Drop(x.data, n), isNew |-> FALSE, st |-> s]
<1>1. FillBlock(x, size) = y
  BY DEF FillBlock, Marks
<1>2. st \in Filters /\ x.data \in Seq(Data) /\ Len(x.data) \in Nat \ {0} /\ x.isNew \in BOOLEAN
  BY DEF LoopStates
<1>3. room \in Nat \ {0} /\ n \in 1 .. Len(x.data) /\ room - n \in Nat
      /\ (room - n # 0 => n = Len(x.data))
  <2>1. st.free \in Nat
    BY <1>2 DEF Filters
  <2>2. room \in Nat \ {0}
    <3>1. Head(x.data) = x.data[1] /\ 1 \in DOMAIN x.data
      BY <1>2, EmptyFacts
    <3>2. size[Head(x.data)] \in Nat \ {0}
      BY <3>1 DEF Granted
    <3>3. QED
      BY <2>1, <3>2
  <2> HIDE DEF room
  <2>3. QED
    BY <1>2, <2>2
<1>4. marks \in SUBSET {"first", "pts"}
  BY DEF Marks
<1>5. t \in Seq(Data) /\ Drop(x.data, n) \in Seq(Data)
  <2>1. n \in 0 .. Len(x.data)
    BY <1>3
  <2> HIDE DEF n
  <2>2. QED
    BY <1>2, <2>1, TakeFacts, DropFacts
<1> DEFINE full == st.data \o t
<1>6. full \in Seq(Data) /\ Len(full) \in Nat
  <2>1. st.data \in Seq(Data)
    BY <1>2 DEF Filters
  <2> HIDE DEF st, t
  <2>2. QED
    BY <1>5, <2>1, JoinFacts, EmptyFacts
<1> HIDE DEF n, room, t, marks
<1>7. /\ c \in Filters /\ c.data = full /\ c.free = room - n /\ c.bits = st.bits \cup marks
      /\ c.payload = st.payload /\ c.out = st.out /\ SameHeader(st, c)
  <2> HIDE DEF st
  <2>1. QED
    BY <1>2, <1>3, <1>4, <1>6 DEF Filters, SameHeader
<1>8. st.payload \in Nat
  BY <1>2 DEF Filters
<1> HIDE DEF c, full
<1>9. ASSUME NEW p \in Nat, NEW last \in SUBSET {"last"}, NEW d, s = Submit(d),
             d = [c EXCEPT !.bits = c.bits \cup last, !.payload = p],
             CountedTo(last, st.payload, p, Len(full))
      PROVE  s \in Filters /\ SameHeader(st, s) /\ Submitted(st, s, t, marks, last)
  <2> HIDE DEF s, st, y
  <2>1. /\ c.data = st.data \o t /\ c.bits = st.bits \cup marks
        /\ c.out = st.out /\ SameHeader(st, c) /\ c \in Filters
    BY <1>7 DEF full
  <2>2. CountedTo(last, st.payload, p, Len(st.data \o t))
    BY <1>9 DEF full
  <2>3. QED
    BY <1>9, <2>1, <2>2, SubmittedIs
<1>10. s \in Filters /\ SameHeader(st, s)
       /\ (\/ n = Len(x.data) /\ Kept(st, s, t, marks)
           \/ \E last \in SUBSET {"last"} : Submitted(st, s, t, marks, last))
  <2>1. CASE c.free = 0 /\ st.payload > 0 /\ Len(full) < st.payload
    <3>1. s = Submit([c EXCEPT !.payload = @ - Len(c.data)])
      BY <1>7, <2>1 DEF CountedFull
    <3>2. [c EXCEPT !.payload = @ - Len(c.data)]
            = [c EXCEPT !.bits = c.bits \cup {}, !.payload = st.payload - Len(full)]
      BY <1>7 DEF Filters
    <3>3. CountedTo({}, st.payload, st.payload - Len(full), Len(full))
          /\ st.payload - Len(full) \in Nat
      BY <1>6, <1>8, <2>1 DEF CountedTo
    <3> HIDE DEF s, st
    <3>4. QED
      BY <1>9, <3>1, <3>2, <3>3
  <2>2. CASE st.payload > 0 /\ Len(full) = st.payload
    <3>1. s = Submit([c EXCEPT !.bits = @ \cup {"last"}])
      BY <1>6, <1>7, <1>8, <2>2 DEF CountedFull, Counted
    <3>2. [c EXCEPT !.bits = @ \cup {"last"}]
            = [c EXCEPT !.bits = c.bits \cup {"last"}, !.payload = st.payload]
      BY <1>7 DEF Filters
    <3>3. CountedTo({"last"}, st.payload, st.payload, Len(full))
      BY <1>6, <1>8, <2>2 DEF CountedTo
    <3> HIDE DEF s, st
    <3>4. QED
      BY <1>8, <1>9, <3>1, <3>2, <3>3
  <2>3. CASE st.payload > 0 /\ Len(full) > st.payload
    <3>1. s = Submit([c EXCEPT !.payload = 0])
      BY <1>6, <1>7, <1>8, <2>3 DEF CountedFull, Counted
    <3>2. [c EXCEPT !.payload = 0] = [c EXCEPT !.bits = c.bits \cup {}, !.payload = 0]
      BY <1>7 DEF Filters
    <3>3. CountedTo({}, st.payload, 0, Len(full))
      BY <1>6, <1>8, <2>3 DEF CountedTo
    <3> HIDE DEF s, st
    <3>4. QED
      BY <1>9, <3>1, <3>2, <3>3
  <2>4. CASE c.free = 0 /\ ~(st.payload > 0)
    <3>1. s = Submit(c)
      BY <1>7, <2>4 DEF CountedFull
    <3>2. c = [c EXCEPT !.bits = c.bits \cup {}, !.payload = 0]
      <4>1. c.bits \cup {} = c.bits /\ c.payload = 0
        BY <1>7, <1>8, <2>4
      <4>2. QED
        BY <1>7, <4>1 DEF Filters
    <3>3. CountedTo({}, st.payload, 0, Len(full))
      BY <1>6, <1>8, <2>4 DEF CountedTo
    <3> HIDE DEF s, st
    <3>4. QED
      BY <1>9, <3>1, <3>2, <3>3
  <2>5. CASE c.free # 0 /\ ~(st.payload > 0 /\ Len(full) >= st.payload)
    <3>1. s = c /\ n = Len(x.data)
      BY <1>3, <1>7, <2>5
    <3>2. Kept(st, c, t, marks)
      BY <1>6, <1>7, <1>8, <2>5 DEF Kept, full
    <3>3. QED
      BY <1>7, <3>1, <3>2
  <2>6. QED
    BY <1>6, <1>8, <2>1, <2>2, <2>3, <2>4, <2>5
<1> HIDE DEF s, st
<1>11. y \in LoopStates /\ y.isNew = FALSE /\ y.data = Drop(x.data, n) /\ y.st = s
  BY <1>5, <1>10 DEF LoopStates
<1> HIDE DEF y
<1>12. QED
  BY <1>1, <1>3, <1>10, <1>11 DEF st, t, marks, Round

\* A round leaves fewer data than there were.
LEMMA RoundTakes ==
    ASSUME NEW x \in LoopStates, NEW y \in LoopStates, Round(x, y)
    PROVE  Len(y.data) < Len(x.data)
<1>1. x.data \in Seq(Data) /\ y.data \in Seq(Data)
  BY DEF LoopStates
<1>2. PICK n \in 1 .. Len(x.data) : y.data = Drop(x.data, n)
  BY DEF Round
<1>3. n \in 0 .. Len(x.data) /\ Len(x.data) \in Nat
  BY <1>1
<1>4. Len(y.data) = Len(x.data) - n
  BY <1>1, <1>2, <1>3, DropFacts
<1>5. QED
  BY <1>3, <1>4

-----------------------------------------------------------------------------
(* What goes into the filter comes out of it.                              *)

\* The data of each block that has been submitted.
DataOf(out) == [k \in DOMAIN out |-> out[k].data]

\* All that has left the filter or is in its block.
Out(st) == FlattenSeq(DataOf(st.out)) \o st.data

LEMMA DataOfAppend ==
    ASSUME NEW out \in Seq(Block), NEW b \in Block
    PROVE  /\ DataOf(out) \in Seq(Seq(Data))
           /\ DataOf(Append(out, b)) = Append(DataOf(out), b.data)
<1>1. b.data \in Seq(Data) /\ \A k \in 1 .. Len(out) : out[k].data \in Seq(Data)
  <2>1. \A k \in 1 .. Len(out) : out[k] \in Block
    BY EmptyFacts
  <2>2. QED
    BY <2>1 DEF Block
<1>2. DataOf(out) \in Seq(Seq(Data)) /\ Len(DataOf(out)) = Len(out)
      /\ \A k \in 1 .. Len(out) : DataOf(out)[k] = out[k].data
  BY <1>1 DEF DataOf
<1> DEFINE s == Append(out, b)
           t == Append(DataOf(out), b.data)
<1>3. s \in Seq(Block) /\ Len(s) = Len(out) + 1 /\ s[Len(out) + 1] = b
      /\ \A k \in 1 .. Len(out) : s[k] = out[k]
  BY AppendFacts
<1>4. t \in Seq(Seq(Data)) /\ Len(t) = Len(out) + 1 /\ t[Len(out) + 1] = b.data
      /\ \A k \in 1 .. Len(out) : t[k] = out[k].data
  BY <1>1, <1>2, AppendFacts
<1> HIDE DEF s, t
<1>5. ASSUME NEW k \in 1 .. Len(s) PROVE s[k].data \in Seq(Data) /\ s[k].data = t[k]
  <2>1. CASE k = Len(out) + 1
    BY <1>1, <1>3, <1>4, <2>1
  <2>2. CASE k # Len(out) + 1
    <3>1. k \in 1 .. Len(out)
      BY <1>3, <2>2, EmptyFacts
    <3>2. s[k] = out[k] /\ t[k] = out[k].data /\ out[k].data \in Seq(Data)
      BY <1>1, <1>3, <1>4, <3>1
    <3>3. QED
      BY <3>2
  <2>3. QED
    BY <2>1, <2>2
<1>6. DataOf(s) \in Seq(Seq(Data)) /\ Len(DataOf(s)) = Len(s)
      /\ \A k \in 1 .. Len(s) : DataOf(s)[k] = s[k].data
  BY <1>3, <1>5 DEF DataOf
<1>7. DataOf(s) = t
  <2> DEFINE u == DataOf(s)
  <2>1. u \in Seq(Seq(Data)) /\ Len(u) = Len(t) /\ \A k \in 1 .. Len(u) : u[k] = t[k]
    BY <1>3, <1>4, <1>5, <1>6
  <2> HIDE DEF u
  <2>2. u = t
    BY <1>4, <2>1, SeqEqual
  <2>3. QED
    BY <2>2 DEF u
<1>8. QED
  BY <1>2, <1>7 DEF s, t

\* Data added to the block, submitted or not, come out last.
LEMMA OutGrows ==
    ASSUME NEW st \in Filters, NEW y \in Filters, NEW t \in Seq(Data), NEW bits,
           \/ y.out = st.out /\ y.data = st.data \o t
           \/ y.out = Append(st.out, [data |-> st.data \o t, bits |-> bits])
              /\ bits \in SUBSET {"first", "pts", "last"} /\ y.data = <<>>
    PROVE  Out(st) \in Seq(Data) /\ Out(y) \in Seq(Data) /\ Out(y) = Out(st) \o t
<1> DEFINE f == FlattenSeq(DataOf(st.out))
           full == st.data \o t
           b == [data |-> full, bits |-> bits]
<1>1. st.out \in Seq(Block) /\ st.data \in Seq(Data) /\ y.out \in Seq(Block) /\ y.data \in Seq(Data)
  BY DEF Filters
<1>2. <<>> \in Seq(Data) /\ [data |-> <<>>, bits |-> {}] \in Block
  BY DEF Block
<1>3. f \in Seq(Data)
  BY <1>1, <1>2, DataOfAppend, FlattenAppend
<1> HIDE DEF f
<1>4. full \in Seq(Data) /\ (f \o st.data) \o t = f \o full
  <2> DEFINE u == st.data
  <2>1. u \in Seq(Data)
    BY <1>1
  <2> HIDE DEF u
  <2>2. u \o t \in Seq(Data)
    BY <2>1, JoinFacts
  <2>3. Associates(f, u, t)
    BY <1>3, <2>1, JoinAssoc
  <2>4. QED
    BY <2>2, <2>3 DEF u, Associates
<1> HIDE DEF full
<1>5. Out(st) = f \o st.data /\ Out(st) \in Seq(Data)
  BY <1>1, <1>3, JoinFacts DEF Out, f
<1>6. CASE y.out = st.out /\ y.data = st.data \o t
  <2>1. Out(y) = f \o full
    BY <1>6 DEF Out, f, full
  <2>2. QED
    BY <1>3, <1>4, <1>5, <2>1, JoinFacts
<1>7. CASE y.out = Append(st.out, [data |-> st.data \o t, bits |-> bits])
           /\ bits \in SUBSET {"first", "pts", "last"} /\ y.data = <<>>
  <2>1. b \in Block /\ b.data = full
    BY <1>4, <1>7 DEF Block
  <2>2. y.out = Append(st.out, b)
    BY <1>7 DEF full
  <2> HIDE DEF b
  <2>3. DataOf(y.out) = Append(DataOf(st.out), full) /\ DataOf(st.out) \in Seq(Seq(Data))
    BY <1>1, <2>1, <2>2, DataOfAppend
  <2>4. FlattenSeq(DataOf(y.out)) = f \o full
    BY <1>4, <2>3, FlattenAppend DEF f
  <2>5. Out(y) = (f \o full) \o <<>> /\ f \o full \in Seq(Data)
    BY <1>3, <1>4, <1>7, <2>4, JoinFacts DEF Out
  <2>6. Out(y) = f \o full
    BY <2>5, JoinEmpty
  <2>7. QED
    BY <1>4, <1>5, <2>5, <2>6
<1>8. QED
  BY <1>6, <1>7

-----------------------------------------------------------------------------
(* push_es_data.                                                           *)

\* What the loop begins with: a new frame has the last one's block submitted.
Starts(st, b, isNew) ==
    /\ isNew /\ st.data # <<>> => AfterSubmit(st, b, {"last"}, st.payload)
    /\ ~isNew \/ st.data = <<>> => b = st

\* The loop's state is in L before the first round
StartsIn(L, st, data, isNew) ==
    \A b \in Filters :
        Starts(st, b, isNew) => [st |-> b, data |-> data, isNew |-> isNew] \in L

\* and each round leaves it there.
RoundsStayIn(L) ==
    \A x \in L, y \in LoopStates : x.data # <<>> /\ Round(x, y) => y \in L

\* What holds before the loop and is kept by each round holds when it is done.
LEMMA PushKeeps ==
    ASSUME NEW st \in Filters, NEW data \in Seq(Data), NEW isNew \in BOOLEAN,
           NEW size, Granted(size, data), NEW L \in SUBSET LoopStates,
           StartsIn(L, st, data, isNew), RoundsStayIn(L)
    PROVE  EndsIn(L, PushEsData(st, data, isNew, size))
<1> DEFINE c == [st EXCEPT !.bits = st.bits \cup {"last"}, !.payload = st.payload]
           b == IF isNew /\ st.data # <<>> THEN Submit(c) ELSE st
<1>1. PushEsData(st, data, isNew, size) = FillBlocks(b, data, isNew, size)
  <2>1. c = [st EXCEPT !.bits = @ \cup {"last"}]
    BY DEF Filters
  <2> HIDE DEF c
  <2>2. QED
    BY <2>1 DEF PushEsData
<1>2. b \in Filters /\ Starts(st, b, isNew)
  <2>1. st.payload \in Nat /\ {"last"} \in SUBSET {"last"}
    BY DEF Filters
  <2>2. Submit(c) \in Filters /\ AfterSubmit(st, Submit(c), {"last"}, st.payload)
    BY <2>1, SubmitIs
  <2> HIDE DEF c
  <2>3. QED
    BY <2>2 DEF Starts
<1> HIDE DEF b
<1> DEFINE G == {x \in L : Granted(size, x.data)}
<1>3. [st |-> b, data |-> data, isNew |-> isNew] \in G
  <2> DEFINE x == [st |-> b, data |-> data, isNew |-> isNew]
  <2>1. x \in L /\ x.data = data
    BY <1>2 DEF StartsIn
  <2> HIDE DEF x
  <2>2. x \in G
    BY <2>1
  <2>3. QED
    BY <2>2 DEF x
<1>4. \A x \in G : x.data \in Seq(Data)
  BY DEF LoopStates
<1>5. ASSUME NEW x \in G, x.data # <<>>
      PROVE  \E y \in G : y = FillBlock(x, size) /\ Len(y.data) < Len(x.data)
  <2>1. x \in LoopStates /\ x \in L /\ Granted(size, x.data)
    OBVIOUS
  <2>2. PICK y \in LoopStates : y = FillBlock(x, size) /\ Round(x, y)
    BY <1>5, <2>1, FillBlockIs
  <2>3. y \in L
    BY <1>5, <2>1, <2>2 DEF RoundsStayIn
  <2>4. Len(y.data) < Len(x.data)
    BY <2>1, <2>2, RoundTakes
  <2>5. PICK n \in 1 .. Len(x.data) : y.data = Drop(x.data, n)
    BY <2>2 DEF Round
  <2>6. x.data \in Seq(Data) /\ n \in 0 .. Len(x.data)
    BY <2>1 DEF LoopStates
  <2>7. Granted(size, y.data)
    BY <2>1, <2>5, <2>6, GrantedParts
  <2>8. QED
    BY <2>2, <2>3, <2>4, <2>7
<1>6. RoundsTakeIn(G, Data, size)
  BY <1>4, <1>5 DEF RoundsTakeIn
<1> HIDE DEF G
<1>7. EndsIn(G, FillBlocks(b, data, isNew, size))
  BY <1>3, <1>6, FillBlocksKeeps
<1>8. EndsIn(L, FillBlocks(b, data, isNew, size))
  BY <1>7 DEF EndsIn, G
<1>9. QED
  BY <1>1, <1>8

\* All data that are pushed come out, behind those that were there.
LEMMA PushOut ==
    ASSUME NEW st \in Filters, NEW data \in Seq(Data), NEW isNew \in BOOLEAN,
           NEW size, Granted(size, data)
    PROVE  \E y \in Filters : /\ y = PushEsData(st, data, isNew, size) /\ SameHeader(st, y)
                              /\ Out(y) \in Seq(Data) /\ Out(y) = Out(st) \o data
<1> DEFINE L == {x \in LoopStates : /\ SameHeader(st, x.st) /\ Out(x.st) \in Seq(Data)
                                    /\ Out(x.st) \o x.data = Out(st) \o data}
<1>0. <<>> \in Seq(Data)
  OBVIOUS
<1>1. Out(st) \in Seq(Data) /\ SameHeader(st, st)
  <2>1. st.data = st.data \o <<>>
    BY JoinEmpty DEF Filters
  <2>2. QED
    BY <1>0, <2>1, OutGrows DEF SameHeader
<1>2. ASSUME NEW b \in Filters, Starts(st, b, isNew)
      PROVE  [st |-> b, data |-> data, isNew |-> isNew] \in L
  <2>1. Out(b) = Out(st) /\ SameHeader(st, b)
    <3>1. CASE ~isNew \/ st.data = <<>>
      BY <1>1, <1>2, <3>1 DEF Starts
    <3>2. CASE isNew /\ st.data # <<>>
      <4>1. AfterSubmit(st, b, {"last"}, st.payload)
        BY <1>2, <3>2 DEF Starts
      <4>2. st.data = st.data \o <<>> /\ st.bits \cup {"last"} \in SUBSET {"first", "pts", "last"}
        BY JoinEmpty DEF Filters
      <4>3. b.out = Append(st.out, [data |-> st.data \o <<>>, bits |-> st.bits \cup {"last"}])
            /\ b.data = <<>>
        BY <4>1, <4>2 DEF AfterSubmit
      <4>4. Out(b) = Out(st) \o <<>>
        BY <1>0, <4>2, <4>3, OutGrows
      <4>5. QED
        BY <1>1, <4>1, <4>4, JoinEmpty DEF AfterSubmit
    <3>3. QED
      BY <3>1, <3>2
  <2> DEFINE x == [st |-> b, data |-> data, isNew |-> isNew]
  <2>2. x \in LoopStates /\ x.st = b /\ x.data = data
    BY DEF LoopStates
  <2> HIDE DEF x
  <2>3. x \in L
    BY <1>1, <2>1, <2>2
  <2>4. QED
    BY <2>3 DEF x
<1>3. ASSUME NEW x \in L, NEW y \in LoopStates, x.data # <<>>, Round(x, y)
      PROVE  y \in L
  <2>1. x \in LoopStates /\ x.st \in Filters /\ x.data \in Seq(Data) /\ y.st \in Filters
    BY DEF LoopStates
  <2>2. PICK n \in 1 .. Len(x.data) :
          /\ y.data = Drop(x.data, n)
          /\ \/ Kept(x.st, y.st, Take(x.data, n), Marks(x))
             \/ \E last \in SUBSET {"last"} :
                  Submitted(x.st, y.st, Take(x.data, n), Marks(x), last)
    BY <1>3 DEF Round
  <2> DEFINE t == Take(x.data, n)
  <2>3. n \in 0 .. Len(x.data)
    BY <2>1
  <2>4. t \in Seq(Data) /\ Drop(x.data, n) \in Seq(Data) /\ t \o Drop(x.data, n) = x.data
    BY <2>1, <2>3, TakeFacts, DropFacts, TakeDrop
  <2> HIDE DEF t
  <2>5. Out(x.st) \in Seq(Data) /\ Out(y.st) \in Seq(Data) /\ Out(y.st) = Out(x.st) \o t
    <3>1. CASE Kept(x.st, y.st, t, Marks(x))
      BY <2>1, <2>4, <3>1, OutGrows DEF Kept
    <3>2. ASSUME NEW last \in SUBSET {"last"}, Submitted(x.st, y.st, t, Marks(x), last)
          PROVE  Out(x.st) \in Seq(Data) /\ Out(y.st) \in Seq(Data)
                 /\ Out(y.st) = Out(x.st) \o t
      <4> DEFINE bits == (x.st.bits \cup Marks(x)) \cup last
      <4>1. bits \in SUBSET {"first", "pts", "last"}
        BY <2>1 DEF Filters, Marks
      <4>2. y.st.out = Append(x.st.out, [data |-> x.st.data \o t, bits |-> bits])
            /\ y.st.data = <<>>
        BY <3>2 DEF Submitted
      <4> HIDE DEF bits
      <4>3. QED
        BY <2>1, <2>4, <4>1, <4>2, OutGrows
    <3>3. QED
      BY <2>2, <3>1, <3>2 DEF t
  <2>6. Out(y.st) \o y.data = Out(x.st) \o x.data
    <3> DEFINE u == Out(x.st)
               v == y.data
    <3>1. u \in Seq(Data) /\ v \in Seq(Data) /\ t \in Seq(Data)
      BY <2>2, <2>4, <2>5
    <3>2. t \o v = x.data /\ Out(y.st) = u \o t
      BY <2>2, <2>4, <2>5 DEF t
    <3> HIDE DEF u, v
    <3>3. Associates(u, t, v)
      BY <3>1, JoinAssoc
    <3>4. QED
      BY <3>2, <3>3 DEF u, v, Associates
  <2>7. SameHeader(st, y.st)
    BY <1>3 DEF Round, SameHeader
  <2>8. QED
    BY <2>5, <2>6, <2>7
<1> HIDE DEF L
<1>4. L \in SUBSET LoopStates
  BY DEF L
<1>5. StartsIn(L, st, data, isNew) /\ RoundsStayIn(L)
  <2>1. StartsIn(L, st, data, isNew)
    BY <1>2 DEF StartsIn
  <2>2. RoundsStayIn(L)
    BY <1>3 DEF RoundsStayIn
  <2>3. QED
    BY <2>1, <2>2
<1>6. PICK x \in L : x.data = <<>> /\ PushEsData(st, data, isNew, size) = x.st
  BY <1>4, <1>5, PushKeeps DEF EndsIn
<1>7. x \in LoopStates /\ SameHeader(st, x.st) /\ Out(x.st) \in Seq(Data)
      /\ Out(x.st) \o <<>> = Out(st) \o data
  BY <1>6 DEF L
<1>8. x.st \in Filters
  BY <1>7 DEF LoopStates
<1>9. QED
  BY <1>6, <1>7, <1>8, JoinEmpty

-----------------------------------------------------------------------------
(* The search for the start code, and MPEGTS_PESPAYLOAD.                   *)

\* A set of natural numbers has a least one.
LEMMA Least ==
    ASSUME NEW T \in SUBSET Nat, T # {}
    PROVE  \E m \in T : \A k \in T : m <= k
<1>1. IsWellFoundedOn(Less, Nat)
  BY NatLessThanWellFounded DEF OpToRel, Less
<1>2. PICK m \in T : \A k \in T : ~(<<k, m>> \in Less)
  BY <1>1, WFMin
<1>3. ASSUME NEW k \in T PROVE m <= k
  <2>1. SUFFICES ASSUME k < m PROVE FALSE
    OBVIOUS
  <2>2. <<k, m>> \in Less
    BY <2>1 DEF Less
  <2>3. QED
    BY <1>2, <2>2
<1>4. QED
  BY <1>3

\* The places where the search may end.
Ones(data) == {k \in CodeLen .. Len(data) : data[k].value = 1}

\* What the search returns: a position within the piece, with a 0 behind it, or the
\* piece's length.
FoundAt(data, p) ==
    p \in 0 .. Len(data) /\ (p < Len(data) => data[p + 1].value = 0)

LEMMA StartCodeIs ==
    ASSUME NEW data \in Seq(Data)
    PROVE  FoundAt(data, StartCodePos(data))
<1> DEFINE ones == {k \in CodeLen .. Len(data) : data[k].value = 1}
           first == CHOOSE k \in ones : \A j \in ones : k <= j
           zero(k) == data[k].value = 0
<1>1. Len(data) \in Nat
  OBVIOUS
<1>2. CASE ones # {} /\ zero(first - 1) /\ zero(first - 2)
  <2>1. first \in CodeLen .. Len(data)
    <3>1. ones \in SUBSET Nat
      BY <1>1 DEF CodeLen
    <3> HIDE DEF ones
    <3>2. \E k \in ones : \A j \in ones : k <= j
      BY <1>2, <3>1, Least
    <3>3. first \in ones
      BY <3>2
    <3>4. QED
      BY <3>3 DEF ones
  <2>2. StartCodePos(data) = IF first > CodeLen /\ zero(first - CodeLen)
                               THEN first - CodeLen - 1 ELSE first - CodeLen
    BY <1>2 DEF StartCodePos
  <2> HIDE DEF first
  <2>3. CASE first > CodeLen /\ zero(first - CodeLen)
    <3>1. StartCodePos(data) = first - 4 /\ (first - 4) + 1 = first - CodeLen
          /\ first - 4 \in 0 .. Len(data)
      BY <1>1, <2>1, <2>2, <2>3 DEF CodeLen
    <3>2. QED
      BY <2>3, <3>1 DEF FoundAt
  <2>4. CASE ~(first > CodeLen /\ zero(first - CodeLen))
    <3>1. StartCodePos(data) = first - 3 /\ (first - 3) + 1 = first - 2
          /\ first - 3 \in 0 .. Len(data)
      BY <1>1, <2>1, <2>2, <2>4 DEF CodeLen
    <3>2. QED
      BY <1>2, <3>1 DEF FoundAt, first
  <2>5. QED
    BY <2>3, <2>4
<1>3. CASE ~(ones # {} /\ zero(first - 1) /\ zero(first - 2))
  <2>1. StartCodePos(data) = Len(data)
    BY <1>3 DEF StartCodePos
  <2>2. QED
    BY <1>1, <2>1 DEF FoundAt
<1>4. QED
  BY <1>2, <1>3

\* A start code: zeros, two or three, and then a 1.
CodeFrom(data, s, e) ==
    /\ s \in DOMAIN data /\ e \in DOMAIN data /\ e \in {s + 2, s + 3}
    /\ data[e].value = 1 /\ \A j \in s .. (e - 1) : data[j].value = 0

\* A start code with no value 1 before its end that could end the search is found,
\* if no 0 precedes it.
LEMMA StartCodeFound ==
    ASSUME NEW data \in Seq(Data), NEW s, NEW e, CodeFrom(data, s, e),
           \A k \in Ones(data) : e <= k, s = 1 \/ data[s - 1].value # 0
    PROVE  StartCodePos(data) = s - 1
<1> DEFINE ones == {k \in CodeLen .. Len(data) : data[k].value = 1}
           first == CHOOSE k \in ones : \A j \in ones : k <= j
           zero(k) == data[k].value = 0
<1>0. /\ s \in 1 .. Len(data) /\ e \in 1 .. Len(data) /\ Len(data) \in Nat
      /\ e \in {s + 2, s + 3}
  BY EmptyFacts DEF CodeFrom
<1>1. ones = Ones(data) /\ e \in ones
  <2>1. e \in CodeLen .. Len(data) /\ data[e].value = 1
    BY <1>0 DEF CodeFrom, CodeLen
  <2>2. QED
    BY <2>1 DEF Ones
<1>2. first \in ones /\ \A j \in ones : first <= j
  <2> HIDE DEF ones
  <2>1. \E k \in ones : \A j \in ones : k <= j
    BY <1>1
  <2>2. QED
    BY <2>1
<1>3. first = e
  <2> HIDE DEF first
  <2>1. first <= e /\ e <= first /\ first \in Nat
    BY <1>1, <1>2 DEF CodeLen, Ones
  <2>2. QED
    BY <1>0, <2>1
<1>4. ones # {} /\ zero(first - 1) /\ zero(first - 2)
  <2>1. e - 1 \in s .. (e - 1) /\ e - 2 \in s .. (e - 1)
    BY <1>0
  <2>2. zero(e - 1) /\ zero(e - 2)
    BY <2>1 DEF CodeFrom
  <2> HIDE DEF first, ones
  <2>3. QED
    BY <1>1, <1>3, <2>2
<1>5. StartCodePos(data) = IF first > CodeLen /\ zero(first - CodeLen)
                             THEN first - CodeLen - 1 ELSE first - CodeLen
  BY <1>4 DEF StartCodePos
<1> HIDE DEF first, ones
<1>6. CASE e = s + 2
  <2>1. e - CodeLen = s - 1 /\ (e > CodeLen => s # 1)
    BY <1>0, <1>6 DEF CodeLen
  <2>2. e > CodeLen => ~zero(e - CodeLen)
    BY <2>1
  <2>3. QED
    BY <1>3, <1>5, <2>1, <2>2
<1>7. CASE e = s + 3
  <2>1. e - CodeLen = s /\ e > CodeLen /\ e - CodeLen - 1 = s - 1 /\ s \in s .. (e - 1)
    BY <1>0, <1>7 DEF CodeLen
  <2>2. zero(e - CodeLen)
    BY <2>1 DEF CodeFrom
  <2>3. QED
    BY <1>3, <1>5, <2>1, <2>2
<1>8. QED
  BY <1>0, <1>6, <1>7

\* What comes before the start code is a part of the piece.
LEMMA LastFramePartIs ==
    ASSUME NEW st, NEW data \in Seq(Data)
    PROVE  LastFramePart(st, data) \in 0 .. Len(data)
<1>1. StartCodePos(data) \in 0 .. Len(data) /\ Len(data) \in Nat
  BY StartCodeIs DEF FoundAt
<1>2. QED
  BY <1>1 DEF LastFramePart

\* The part of a piece that the PES packet's length allows for.
Allowed(st, piece) ==
    IF st.total = 0 \/ st.total > Len(piece) THEN piece ELSE Take(piece, st.total)

\* The filter before the frame is pushed: what came before it has been.
Uncounted(st, data, n, size, u) ==
    /\ n = 0 => u = st
    /\ n # 0 => \E z \in Filters :
         /\ z = PushEsData([st EXCEPT !.payload = 0], Take(data, n), FALSE, size)
         /\ u = [z EXCEPT !.payload = st.payload]

\* The filter after the frame has been pushed: its time stamp is used.
Used(w, begins, y) == y = [w EXCEPT !.isNew = @ /\ ~begins, !.pts = FALSE]

AfterUse(w, begins, y) ==
    /\ y.state = w.state /\ y.total = w.total /\ y.payload = w.payload
    /\ y.pts = FALSE /\ (y.isNew <=> w.isNew /\ ~begins)
    /\ y.out = w.out /\ y.data = w.data /\ y.bits = w.bits

\* MPEGTS_PESPAYLOAD pushes what comes before the start code, then the rest.
PayloadSteps(st, data, size, y) ==
    \E u, w \in Filters :
        LET n == LastFramePart(st, data) IN
        /\ Uncounted(st, data, n, size, u)
        /\ w = PushEsData(u, Drop(data, n), Begins(st, data), size)
        /\ Used(w, Begins(st, data), y)

LEMMA FieldsSet ==
    ASSUME NEW z \in Filters, NEW p \in Nat, NEW u, u = [z EXCEPT !.payload = p]
    PROVE  /\ u \in Filters /\ SameHeader(z, u) /\ u.payload = p
           /\ u.out = z.out /\ u.data = z.data /\ u.bits = z.bits
BY DEF Filters, SameHeader

LEMMA UsedIs ==
    ASSUME NEW w \in Filters, NEW begins \in BOOLEAN, NEW y, Used(w, begins, y)
    PROVE  y \in Filters /\ AfterUse(w, begins, y)
<1>1. (w.isNew /\ ~begins) \in BOOLEAN
  OBVIOUS
<1>2. QED
  BY <1>1 DEF Filters, Used, AfterUse

\* The part allowed is the beginning of the piece, all of it when the length of the
\* PES packet is not known or not reached.
LEMMA AllowedIs ==
    ASSUME NEW st \in Filters, NEW piece \in Seq(Data)
    PROVE  /\ Allowed(st, piece) \in Seq(Data)
           /\ \E m \in 0 .. Len(piece) : Allowed(st, piece) = Take(piece, m)
           /\ st.total = 0 \/ Len(piece) <= st.total => Allowed(st, piece) = piece
<1>1. st.total \in Nat /\ Len(piece) \in Nat
  BY DEF Filters
<1>2. Take(piece, Len(piece)) = piece
  BY DEF Take
<1>3. CASE st.total = 0 \/ st.total > Len(piece)
  <2>1. Allowed(st, piece) = piece /\ Len(piece) \in 0 .. Len(piece)
    BY <1>1, <1>3 DEF Allowed
  <2>2. QED
    BY <1>2, <2>1
<1>4. CASE ~(st.total = 0 \/ st.total > Len(piece))
  <2>1. st.total \in 0 .. Len(piece) /\ Allowed(st, piece) = Take(piece, st.total)
    BY <1>1, <1>4 DEF Allowed
  <2>2. Take(piece, st.total) \in Seq(Data)
    BY <2>1, TakeFacts
  <2>3. Len(piece) <= st.total => Allowed(st, piece) = piece
    BY <1>1, <1>2, <2>1
  <2>4. QED
    BY <1>4, <2>1, <2>2, <2>3
<1>5. QED
  BY <1>3, <1>4

\* What an Uncounted filter is.
LEMMA UncountedIs ==
    ASSUME NEW st \in Filters, NEW data \in Seq(Data), NEW n \in 0 .. Len(data),
           NEW size, Granted(size, Take(data, n))
    PROVE  \E u \in Filters : /\ Uncounted(st, data, n, size, u)
                              /\ SameHeader(st, u) /\ u.payload = st.payload
                              /\ Out(st) \in Seq(Data) /\ Out(u) \in Seq(Data)
                              /\ Out(u) = Out(st) \o Take(data, n)
<1>1. st.payload \in Nat /\ Take(data, n) \in Seq(Data)
  BY TakeFacts DEF Filters
<1>2. CASE n = 0
  <2>1. SameHeader(st, st) /\ Uncounted(st, data, n, size, st)
    BY <1>2 DEF SameHeader, Uncounted
  <2>2. <<>> \in Seq(Data) /\ Take(data, n) = <<>> /\ st.data \in Seq(Data)
    BY <1>2 DEF Take, Filters
  <2>3. st.data = st.data \o <<>>
    BY <2>2, JoinEmpty
  <2>4. Out(st) \in Seq(Data) /\ Out(st) = Out(st) \o <<>>
    BY <2>2, <2>3, OutGrows
  <2>5. QED
    BY <2>1, <2>2, <2>4
<1>3. CASE n # 0
  <2> DEFINE s == [st EXCEPT !.payload = 0]
  <2>1. s \in Filters /\ SameHeader(st, s) /\ s.out = st.out /\ s.data = st.data
    BY FieldsSet
  <2> HIDE DEF s
  <2>2. FALSE \in BOOLEAN
    OBVIOUS
  <2>3. PICK z \in Filters : /\ z = PushEsData(s, Take(data, n), FALSE, size)
                             /\ SameHeader(s, z) /\ Out(z) \in Seq(Data)
                             /\ Out(z) = Out(s) \o Take(data, n)
    BY <1>1, <2>1, <2>2, PushOut
  <2> DEFINE u == [z EXCEPT !.payload = st.payload]
  <2>4. /\ u \in Filters /\ SameHeader(z, u) /\ u.payload = st.payload
        /\ u.out = z.out /\ u.data = z.data
    BY <1>1, FieldsSet
  <2>5. Uncounted(st, data, n, size, u)
    BY <1>3, <2>3 DEF Uncounted, s
  <2> HIDE DEF u
  <2>6. SameHeader(st, u)
    BY <2>1, <2>3, <2>4 DEF SameHeader
  <2>7. Out(u) = Out(z) /\ Out(s) = Out(st)
    BY <2>1, <2>4 DEF Out
  <2>8. Out(st) \in Seq(Data)
    <3>1. <<>> \in Seq(Data) /\ st.data \in Seq(Data)
      BY DEF Filters
    <3>2. st.data = st.data \o <<>>
      BY <3>1, JoinEmpty
    <3>3. QED
      BY <3>1, <3>2, OutGrows
  <2>9. QED
    BY <2>3, <2>4, <2>5, <2>6, <2>7, <2>8
<1>4. QED
  BY <1>2, <1>3

PayloadDone(st, data, size, y) ==
    /\ PayloadSteps(st, data, size, y)
    /\ y.state = st.state /\ y.total = st.total /\ Out(y) = Out(st) \o data

\* The filter that MPEGTS_PESPAYLOAD makes, and what comes out of it.
LEMMA PayloadIs ==
    ASSUME NEW st \in Filters, NEW piece \in Seq(Data), NEW size, Granted(size, piece),
           NEW data, data = Allowed(st, piece), data # <<>>
    PROVE  \E y \in Filters : y = Payload(st, piece, size) /\ PayloadDone(st, data, size, y)
<1> DEFINE n == LastFramePart(st, data)
           begins == Begins(st, data)
           uncounted == PushEsData([st EXCEPT !.payload = 0], Take(data, n), FALSE, size)
           before == IF n = 0 THEN st ELSE [uncounted EXCEPT !.payload = st.payload]
           w == PushEsData(before, Drop(data, n), begins, size)
           y == [w EXCEPT !.isNew = @ /\ ~begins, !.pts = FALSE]
<1>0. Granted(size, data)
  BY AllowedIs, GrantedParts
<1>1. data \in Seq(Data) /\ n \in 0 .. Len(data) /\ begins \in BOOLEAN
  BY AllowedIs, LastFramePartIs DEF Begins
<1>2. Payload(st, piece, size) = y
  BY DEF Payload, Allowed
<1> HIDE DEF n, begins
<1>3. PICK u \in Filters : /\ Uncounted(st, data, n, size, u) /\ SameHeader(st, u)
                           /\ Out(st) \in Seq(Data) /\ Out(u) \in Seq(Data)
                           /\ Out(u) = Out(st) \o Take(data, n)
  <2>1. Granted(size, Take(data, n))
    BY <1>0, <1>1, GrantedParts
  <2>2. QED
    BY <1>1, <2>1, UncountedIs
<1>4. before = u
  BY <1>3 DEF Uncounted
<1>5. Take(data, n) \in Seq(Data) /\ Drop(data, n) \in Seq(Data)
      /\ Take(data, n) \o Drop(data, n) = data
  BY <1>1, TakeFacts, DropFacts, TakeDrop
<1> HIDE DEF before
<1>6. w \in Filters /\ SameHeader(u, w) /\ Out(w) = Out(u) \o Drop(data, n)
  <2> DEFINE d == Drop(data, n)
  <2>1. d \in Seq(Data) /\ Granted(size, d)
    BY <1>0, <1>1, <1>5, GrantedParts
  <2> HIDE DEF d
  <2>2. PICK z \in Filters : /\ z = PushEsData(u, d, begins, size) /\ SameHeader(u, z)
                             /\ Out(z) \in Seq(Data) /\ Out(z) = Out(u) \o d
    BY <1>1, <2>1, PushOut
  <2>3. w = z
    BY <1>4, <2>2 DEF d
  <2> HIDE DEF w
  <2>4. QED
    BY <2>2, <2>3 DEF d
<1> HIDE DEF w
<1>7. Used(w, begins, y)
  BY DEF Used
<1> HIDE DEF y
<1>8. /\ y \in Filters /\ y.state = w.state /\ y.total = w.total
      /\ y.out = w.out /\ y.data = w.data
  <2>1. begins \in BOOLEAN /\ w \in Filters
    BY <1>1, <1>6
  <2>2. y \in Filters /\ AfterUse(w, begins, y)
    BY <1>7, <2>1, UsedIs
  <2>3. QED
    BY <2>2 DEF AfterUse
<1>9. y.state = st.state /\ y.total = st.total
  BY <1>3, <1>6, <1>8 DEF SameHeader
<1>10. Out(y) = Out(st) \o data
  <2>1. Out(y) = Out(w)
    BY <1>8 DEF Out
  <2> DEFINE a == Out(st)
             t == Take(data, n)
             d == Drop(data, n)
  <2>2. a \in Seq(Data) /\ t \in Seq(Data) /\ d \in Seq(Data)
    BY <1>3, <1>5
  <2>3. t \o d = data /\ Out(w) = (a \o t) \o d
    BY <1>3, <1>5, <1>6
  <2> HIDE DEF a, t, d
  <2>4. Associates(a, t, d)
    BY <2>2, JoinAssoc
  <2>5. QED
    BY <2>1, <2>3, <2>4 DEF a, Associates
<1>11. PayloadSteps(st, data, size, y)
  <2>1. w = PushEsData(u, Drop(data, n), begins, size)
    BY <1>4 DEF w
  <2>2. QED
    BY <1>3, <1>6, <1>7, <2>1 DEF PayloadSteps, n, begins
<1>12. QED
  BY <1>2, <1>8, <1>9, <1>10, <1>11 DEF PayloadDone

-----------------------------------------------------------------------------
(* The order of the data.                                                  *)

PesPackets == [rest : Seq(Data), length : Nat, begun : BOOLEAN, packets : Int]

TsTypeOK ==
    /\ frames \in Nat /\ carry \in Seq(Data) /\ pes \in PesPackets
    /\ received \in Seq(Data) /\ headers \in SUBSET Nat /\ lost \in BOOLEAN
    /\ cut \in SUBSET Nat /\ filter \in Filters

Before(d, e) == d.frame < e.frame \/ (d.frame = e.frame /\ d.place < e.place)

Ordered(s) == \A j, k \in DOMAIN s : j < k => Before(s[j], s[k])

AllBefore(s, t) == \A j \in DOMAIN s, k \in DOMAIN t : Before(s[j], t[k])

UpTo(s, f) == \A k \in DOMAIN s : s[k].frame <= f

\* Data that came out, those that are being sent and those that are left to the
\* next PES packet follow one another.
Follow(out, rest, next, f) ==
    /\ Ordered(out) /\ Ordered(rest) /\ Ordered(next)
    /\ AllBefore(out, rest) /\ AllBefore(out, next) /\ AllBefore(rest, next)
    /\ UpTo(out, f) /\ UpTo(rest, f) /\ UpTo(next, f)

OrderInv == Follow(Out(filter), pes.rest, carry, frames)

\* The filter counts the PES packet whose header it has seen, the packet's rest is
\* not longer than it says, and without losses every header is seen.
HeaderInv ==
    /\ \A f \in headers : 1 <= f /\ f <= frames
    /\ pes.length = 0 \/ Len(pes.rest) <= pes.length
    /\ ~pes.begun => frames \notin headers /\ frames # 0
    /\ frames \in headers => filter.total = pes.length /\ filter.state = "payload"
    /\ ~lost /\ pes.begun => frames \in headers \/ pes.rest = <<>>

LossInv == ~lost => Out(filter) = received

OrderIInv == TsTypeOK /\ OrderInv /\ HeaderInv /\ LossInv

\* What a datum of two sequences joined is.
LEMMA JoinAt ==
    ASSUME NEW s \in Seq(Data), NEW t \in Seq(Data), NEW k \in DOMAIN (s \o t)
    PROVE  \/ k \in DOMAIN s /\ (s \o t)[k] = s[k]
           \/ k > Len(s) /\ k - Len(s) \in DOMAIN t /\ (s \o t)[k] = t[k - Len(s)]
OBVIOUS

\* Joined sequences are in order when each is and one is before the other.
LEMMA JoinOrdered ==
    ASSUME NEW s \in Seq(Data), NEW t \in Seq(Data), Ordered(s), Ordered(t), AllBefore(s, t)
    PROVE  Ordered(s \o t)
<1>1. SUFFICES ASSUME NEW j \in DOMAIN (s \o t), NEW k \in DOMAIN (s \o t), j < k
               PROVE  Before((s \o t)[j], (s \o t)[k])
  BY DEF Ordered
<1>2. Len(s) \in Nat /\ Len(t) \in Nat /\ DOMAIN s = 1 .. Len(s) /\ DOMAIN t = 1 .. Len(t)
  BY EmptyFacts
<1>3. j \in Int /\ k \in Int
  <2>1. DOMAIN (s \o t) = 1 .. Len(s \o t)
    BY JoinFacts, EmptyFacts
  <2>2. QED
    BY <2>1
<1> DEFINE dj == (s \o t)[j]
           dk == (s \o t)[k]
<1>4. \/ j \in DOMAIN s /\ dj = s[j]
      \/ j > Len(s) /\ j - Len(s) \in DOMAIN t /\ dj = t[j - Len(s)]
  BY JoinAt
<1>5. \/ k \in DOMAIN s /\ dk = s[k]
      \/ k > Len(s) /\ k - Len(s) \in DOMAIN t /\ dk = t[k - Len(s)]
  BY JoinAt
<1> HIDE DEF dj, dk
<1>6. CASE j \in DOMAIN s /\ dj = s[j] /\ k \in DOMAIN s /\ dk = s[k]
  BY <1>1, <1>6 DEF Ordered, dj, dk
<1>7. CASE j \in DOMAIN s /\ dj = s[j] /\ k - Len(s) \in DOMAIN t /\ dk = t[k - Len(s)]
  BY <1>7 DEF AllBefore, dj, dk
<1>8. CASE j - Len(s) \in DOMAIN t /\ dj = t[j - Len(s)]
           /\ k - Len(s) \in DOMAIN t /\ dk = t[k - Len(s)]
  <2>1. j - Len(s) < k - Len(s)
    BY <1>1, <1>2, <1>3
  <2>2. QED
    BY <1>8, <2>1 DEF Ordered, dj, dk
<1>9. j > Len(s) /\ k \in DOMAIN s => FALSE
  BY <1>1, <1>2, <1>3
<1>10. QED
  BY <1>4, <1>5, <1>6, <1>7, <1>8, <1>9

\* A part of a sequence holds data of the sequence only, in order.
LEMMA PartOrdered ==
    ASSUME NEW s \in Seq(Data), NEW n \in 0 .. Len(s), NEW m \in 0 .. n, Ordered(s)
    PROVE  /\ Ordered(Take(s, m)) /\ Ordered(Drop(s, n)) /\ AllBefore(Take(s, m), Drop(s, n))
           /\ \A k \in DOMAIN Take(s, m) : k \in DOMAIN s /\ Take(s, m)[k] = s[k]
           /\ \A k \in DOMAIN Drop(s, n) : n + k \in DOMAIN s /\ Drop(s, n)[k] = s[n + k]
<1>1. Len(s) \in Nat /\ DOMAIN s = 1 .. Len(s) /\ m \in 0 .. Len(s)
  BY EmptyFacts
<1>2. Take(s, m) \in Seq(Data) /\ Len(Take(s, m)) = m
      /\ \A k \in 1 .. m : Take(s, m)[k] = s[k]
  BY <1>1, TakeFacts
<1>3. Drop(s, n) \in Seq(Data) /\ Len(Drop(s, n)) = Len(s) - n
      /\ \A k \in 1 .. (Len(s) - n) : Drop(s, n)[k] = s[n + k]
  BY DropFacts
<1> DEFINE t == Take(s, m)
           d == Drop(s, n)
<1>4. DOMAIN t = 1 .. m /\ DOMAIN d = 1 .. (Len(s) - n)
  BY <1>2, <1>3, EmptyFacts
<1>5. \A k \in DOMAIN t : k \in DOMAIN s /\ t[k] = s[k]
  BY <1>1, <1>2, <1>4
<1>6. \A k \in DOMAIN d : n + k \in DOMAIN s /\ d[k] = s[n + k]
  BY <1>1, <1>3, <1>4
<1> HIDE DEF t, d
<1>7. Ordered(t)
  BY <1>5 DEF Ordered
<1>8. Ordered(d)
  <2>1. SUFFICES ASSUME NEW j \in DOMAIN d, NEW k \in DOMAIN d, j < k
                 PROVE  Before(d[j], d[k])
    BY DEF Ordered
  <2>2. n + j < n + k
    BY <1>1, <1>4, <2>1
  <2>3. QED
    BY <1>6, <2>2 DEF Ordered
<1>9. AllBefore(t, d)
  <2>1. SUFFICES ASSUME NEW j \in DOMAIN t, NEW k \in DOMAIN d
                 PROVE  Before(t[j], d[k])
    BY DEF AllBefore
  <2>2. j < n + k
    BY <1>1, <1>4
  <2>3. QED
    BY <1>5, <1>6, <2>2 DEF Ordered
<1>10. QED
  BY <1>5, <1>6, <1>7, <1>8, <1>9 DEF t, d

\* The data that come out next are the first of those that are being sent.
LEMMA FollowPart ==
    ASSUME NEW out \in Seq(Data), NEW rest \in Seq(Data), NEW next \in Seq(Data), NEW f \in Nat,
           Follow(out, rest, next, f), NEW n \in 0 .. Len(rest), NEW m \in 0 .. n
    PROVE  Follow(out \o Take(rest, m), Drop(rest, n), next, f)
<1> DEFINE t == Take(rest, m)
           d == Drop(rest, n)
<1>1. Ordered(t) /\ Ordered(d) /\ AllBefore(t, d)
      /\ (\A k \in DOMAIN t : k \in DOMAIN rest /\ t[k] = rest[k])
      /\ (\A k \in DOMAIN d : n + k \in DOMAIN rest /\ d[k] = rest[n + k])
  BY PartOrdered DEF Follow
<1>2. t \in Seq(Data) /\ d \in Seq(Data)
  <2>1. m \in 0 .. Len(rest)
    BY EmptyFacts
  <2>2. QED
    BY <2>1, TakeFacts, DropFacts
<1> HIDE DEF t, d
<1>3. AllBefore(out, t) /\ AllBefore(out, d) /\ AllBefore(t, next) /\ AllBefore(d, next)
      /\ UpTo(t, f) /\ UpTo(d, f)
  BY <1>1 DEF Follow, AllBefore, UpTo
<1>4. Ordered(out \o t)
  BY <1>1, <1>2, <1>3, JoinOrdered DEF Follow
<1>5. AllBefore(out \o t, d) /\ AllBefore(out \o t, next) /\ UpTo(out \o t, f)
  <2>1. ASSUME NEW k \in DOMAIN (out \o t)
        PROVE  /\ \A j \in DOMAIN d : Before((out \o t)[k], d[j])
               /\ \A j \in DOMAIN next : Before((out \o t)[k], next[j])
               /\ (out \o t)[k].frame <= f
    <3>1. \/ k \in DOMAIN out /\ (out \o t)[k] = out[k]
          \/ k - Len(out) \in DOMAIN t /\ (out \o t)[k] = t[k - Len(out)]
      BY <1>2, JoinAt
    <3>2. QED
      BY <1>1, <1>3, <3>1 DEF Follow, AllBefore, UpTo
  <2>2. QED
    BY <2>1 DEF AllBefore, UpTo
<1>6. QED
  BY <1>1, <1>3, <1>4, <1>5 DEF Follow, t, d

-----------------------------------------------------------------------------
(* The steps.                                                              *)

\* A piece is the beginning of what is being sent.
LEMMA PieceIs ==
    ASSUME TsTypeOK, NEW n \in Pieces
    PROVE  /\ pes.rest \in Seq(Data) /\ n \in 0 .. Len(pes.rest) /\ (n > 0 \/ ~pes.begun)
           /\ Take(pes.rest, n) \in Seq(Data) /\ Len(Take(pes.rest, n)) = n
           /\ Drop(pes.rest, n) \in Seq(Data) /\ Len(Drop(pes.rest, n)) = Len(pes.rest) - n
<1>1. pes.rest \in Seq(Data) /\ n \in 0 .. Len(pes.rest) /\ (n > 0 \/ ~pes.begun)
  BY DEF TsTypeOK, PesPackets, Pieces
<1>2. QED
  BY <1>1, TakeFacts, DropFacts

\* There is a size for each of the data of a piece.
LEMMA SizesGranted ==
    ASSUME TsTypeOK, NEW n \in Pieces, NEW size \in [ToSet(Take(pes.rest, n)) -> BlockSizes]
    PROVE  Granted(size, Take(pes.rest, n))
<1> DEFINE piece == Take(pes.rest, n)
<1>1. \A k \in DOMAIN piece : piece[k] \in ToSet(piece)
  BY DEF ToSet
<1> HIDE DEF piece
<1>2. \A k \in DOMAIN piece : size[piece[k]] \in BlockSizes
  BY <1>1 DEF piece
<1>3. QED
  BY <1>2, TsAssumption DEF Granted, piece

\* What is sent when n data have been.
LEMMA SentIs ==
    ASSUME TsTypeOK, NEW n \in Pieces, Sent(n)
    PROVE  /\ pes' \in PesPackets /\ pes'.rest = Drop(pes.rest, n)
           /\ pes'.length = pes.length /\ pes'.begun = TRUE
<1>1. Drop(pes.rest, n) \in Seq(Data)
  BY PieceIs
<1> DEFINE d == Drop(pes.rest, n)
           p == pes.packets - 1
<1>2. pes' = [pes EXCEPT !.rest = d, !.begun = TRUE, !.packets = p]
  BY DEF Sent
<1>3. pes \in PesPackets /\ p \in Int
  BY DEF TsTypeOK, PesPackets
<1> HIDE DEF d, p
<1>4. /\ pes' \in PesPackets /\ pes'.rest = d
      /\ pes'.length = pes.length /\ pes'.begun = TRUE
  BY <1>1, <1>2, <1>3 DEF PesPackets, d
<1>5. QED
  BY <1>4 DEF d

\* The filter when the PES header, if the packet has one, has been read.
Started(s) ==
    /\ pes.begun => s = filter
    /\ ~pes.begun => /\ s.state = "payload" /\ s.total = pes.length /\ s.payload = pes.length
                     /\ s.isNew = TRUE /\ s.pts = TRUE
                     /\ s.out = filter.out /\ s.data = filter.data /\ s.bits = filter.bits

\* What the piece makes of it.
Handled(s, piece, size, y) ==
    LET data == Allowed(s, piece) IN
    \/ (s.state = "skip" \/ data = <<>>) /\ y = s
    \/ s.state # "skip" /\ data # <<>> /\ PayloadDone(s, data, size, y)

LEMMA HandledIs ==
    ASSUME TsTypeOK, NEW n \in Pieces, NEW piece, piece = Take(pes.rest, n),
           NEW size, Granted(size, piece)
    PROVE  \E s, y \in Filters :
             /\ y = HandlePacketPayload(filter, ~pes.begun, pes.length, piece, size)
             /\ Started(s) /\ Handled(s, piece, size, y)
<1> DEFINE s == IF ~pes.begun THEN Header(filter, pes.length) ELSE filter
           y == IF s.state = "skip" THEN s ELSE Payload(s, piece, size)
<1>1. y = HandlePacketPayload(filter, ~pes.begun, pes.length, piece, size)
  BY DEF HandlePacketPayload
<1>2. s \in Filters /\ Started(s)
  <2>1. pes.length \in Nat /\ filter \in Filters
    BY DEF TsTypeOK, PesPackets
  <2>2. QED
    BY <2>1 DEF Header, Filters, Started
<1> HIDE DEF s
<1>3. piece \in Seq(Data)
  BY PieceIs
<1> DEFINE data == Allowed(s, piece)
<1>4. CASE s.state = "skip"
  <2>1. y = s
    BY <1>4
  <2>2. QED
    BY <1>1, <1>2, <1>4, <2>1 DEF Handled
<1>5. CASE s.state # "skip" /\ data = <<>>
  <2>1. Payload(s, piece, size) = s
    BY <1>5 DEF Payload, Allowed
  <2>2. y = s
    BY <1>5, <2>1
  <2>3. QED
    BY <1>1, <1>2, <1>5, <2>2 DEF Handled
<1>6. CASE s.state # "skip" /\ data # <<>>
  <2>1. PICK z \in Filters :
          z = Payload(s, piece, size) /\ PayloadDone(s, data, size, z)
    BY <1>2, <1>3, <1>6, PayloadIs
  <2>2. y = z
    BY <1>6, <2>1
  <2>3. QED
    BY <1>1, <1>2, <1>6, <2>1, <2>2 DEF Handled
<1>7. QED
  BY <1>4, <1>5, <1>6

\* What comes out of a filter is a sequence of data.
LEMMA OutType ==
    ASSUME NEW st \in Filters
    PROVE  Out(st) \in Seq(Data)
<1>1. <<>> \in Seq(Data) /\ st.data \in Seq(Data)
  BY DEF Filters
<1>2. st.data = st.data \o <<>>
  BY <1>1, JoinEmpty
<1>3. QED
  BY <1>1, <1>2, OutGrows

\* What a packet that is handled adds to what comes out.
HandledAdds(s, n, y) ==
    /\ y.state = s.state /\ y.total = s.total
    /\ \E m \in 0 .. n : Out(y) = Out(filter) \o Take(pes.rest, m)
    /\ (s.total = 0 \/ n <= s.total) /\ s.state # "skip"
         => Out(y) = Out(filter) \o Take(pes.rest, n)

LEMMA HandledOut ==
    ASSUME TsTypeOK, NEW n \in Pieces, NEW size, NEW piece,
           piece = Take(pes.rest, n), NEW s \in Filters, NEW y \in Filters,
           Started(s), Handled(s, piece, size, y)
    PROVE  HandledAdds(s, n, y)
<1>1. Out(s) = Out(filter) /\ Out(filter) \in Seq(Data)
  <2>1. s.out = filter.out /\ s.data = filter.data /\ filter \in Filters
    BY DEF Started, TsTypeOK
  <2>2. QED
    BY <2>1, OutType DEF Out
<1>2. /\ n \in Nat /\ pes.rest \in Seq(Data) /\ n <= Len(pes.rest) /\ piece \in Seq(Data)
      /\ Len(piece) = n
  BY PieceIs
<1> DEFINE data == Allowed(s, piece)
<1>3. PICK m \in 0 .. n : data = Take(piece, m)
  BY <1>2, AllowedIs
<1>4. Take(piece, m) = Take(pes.rest, m) /\ data \in Seq(Data)
  <2>1. m \in 0 .. Len(pes.rest) /\ m \in 0 .. Len(piece)
    BY <1>2
  <2>2. /\ Take(piece, m) \in Seq(Data) /\ Len(Take(piece, m)) = m
        /\ \A k \in 1 .. m : Take(piece, m)[k] = piece[k]
    BY <1>2, <2>1, TakeFacts
  <2>3. /\ Take(pes.rest, m) \in Seq(Data) /\ Len(Take(pes.rest, m)) = m
        /\ \A k \in 1 .. m : Take(pes.rest, m)[k] = pes.rest[k]
    BY <1>2, <2>1, TakeFacts
  <2>4. \A k \in 1 .. n : piece[k] = pes.rest[k]
    BY <1>2, TakeFacts
  <2> DEFINE a == Take(piece, m)
             b == Take(pes.rest, m)
  <2> HIDE DEF a, b
  <2>5. a \in Seq(Data) /\ b \in Seq(Data) /\ Len(a) = Len(b)
        /\ \A k \in 1 .. Len(a) : a[k] = b[k]
    BY <1>2, <2>2, <2>3, <2>4 DEF a, b
  <2>6. a = b
    BY <2>5, SeqEqual
  <2>7. QED
    BY <1>3, <2>2, <2>6 DEF a, b
<1>5. s.total = 0 \/ n <= s.total => data = piece
  BY <1>2, AllowedIs
<1> HIDE DEF data
<1>6. CASE (s.state = "skip" \/ data = <<>>) /\ y = s
  <2>1. Out(y) = Out(filter) \o <<>> /\ Take(pes.rest, 0) = <<>> /\ 0 \in 0 .. n
    BY <1>1, <1>2, <1>6, JoinEmpty DEF Take
  <2>2. s.state # "skip" => data = <<>>
    BY <1>6
  <2>3. QED
    BY <1>5, <1>6, <2>1, <2>2 DEF HandledAdds
<1>7. CASE s.state # "skip" /\ data # <<>> /\ PayloadDone(s, data, size, y)
  BY <1>1, <1>3, <1>4, <1>5, <1>7 DEF PayloadDone, HandledAdds
<1>8. QED
  BY <1>6, <1>7 DEF Handled, data

\* A packet that arrives.
LEMMA HandlePacketOrder ==
    ASSUME OrderIInv, HandlePacket
    PROVE  OrderIInv'
<1>1. TsTypeOK
  BY DEF OrderIInv
<1>2. PICK n \in Pieces : \E size \in [ToSet(Take(pes.rest, n)) -> BlockSizes] :
        LET piece == Take(pes.rest, n) IN
        /\ Sent(n)
        /\ cut' = IF CutsCode(n) THEN cut \cup {frames} ELSE cut
        /\ filter' = HandlePacketPayload(filter, ~pes.begun, pes.length, piece, size)
        /\ received' = IF filter'.state = "skip" THEN received ELSE received \o piece
        /\ headers' = IF pes.begun THEN headers ELSE headers \cup {frames}
        /\ UNCHANGED <<frames, carry, lost>>
  BY DEF HandlePacket
<1> DEFINE piece == Take(pes.rest, n)
<1>0. PICK size \in [ToSet(piece) -> BlockSizes] :
        /\ Sent(n)
        /\ cut' = IF CutsCode(n) THEN cut \cup {frames} ELSE cut
        /\ filter' = HandlePacketPayload(filter, ~pes.begun, pes.length, piece, size)
        /\ received' = IF filter'.state = "skip" THEN received ELSE received \o piece
        /\ headers' = IF pes.begun THEN headers ELSE headers \cup {frames}
        /\ UNCHANGED <<frames, carry, lost>>
  BY <1>2
<1>20. Granted(size, piece)
  BY <1>1, SizesGranted
<1>3. PICK s \in Filters, y \in Filters :
        /\ y = HandlePacketPayload(filter, ~pes.begun, pes.length, piece, size)
        /\ Started(s) /\ Handled(s, piece, size, y)
  BY <1>1, <1>20, HandledIs
<1>4. filter' = y
  BY <1>0, <1>3
<1>5. /\ y.state = s.state /\ y.total = s.total
      /\ \E m \in 0 .. n : Out(y) = Out(filter) \o Take(pes.rest, m)
      /\ (s.total = 0 \/ n <= s.total) /\ s.state # "skip"
           => Out(y) = Out(filter) \o piece
  <2>1. HandledAdds(s, n, y)
    BY <1>1, <1>3, HandledOut
  <2>2. QED
    BY <2>1 DEF HandledAdds
<1>6. /\ pes' \in PesPackets /\ pes'.rest = Drop(pes.rest, n)
      /\ pes'.length = pes.length /\ pes'.begun = TRUE
  BY <1>0, <1>1, SentIs
<1>7. /\ pes.rest \in Seq(Data) /\ n \in 0 .. Len(pes.rest) /\ (n > 0 \/ ~pes.begun)
      /\ piece \in Seq(Data) /\ Len(Drop(pes.rest, n)) = Len(pes.rest) - n
      /\ Len(pes.rest) \in Nat
  BY <1>1, PieceIs, EmptyFacts
<1> HIDE DEF piece
<1>8. /\ received' = IF y.state = "skip" THEN received ELSE received \o piece
      /\ headers' = IF pes.begun THEN headers ELSE headers \cup {frames}
      /\ frames' = frames /\ carry' = carry /\ lost' = lost
      /\ (cut' = cut \/ cut' = cut \cup {frames})
  BY <1>0, <1>4 DEF piece
<1>9. TsTypeOK'
  <2>1. received' \in Seq(Data)
    BY <1>1, <1>7, <1>8, JoinFacts DEF TsTypeOK
  <2>2. headers' \in SUBSET Nat /\ cut' \in SUBSET Nat
    BY <1>1, <1>8 DEF TsTypeOK
  <2>3. QED
    BY <1>1, <1>4, <1>6, <1>8, <2>1, <2>2 DEF TsTypeOK
<1>10. OrderInv'
  <2>1. PICK m \in 0 .. n : Out(y) = Out(filter) \o Take(pes.rest, m)
    BY <1>5
  <2>2. Out(filter) \in Seq(Data) /\ carry \in Seq(Data) /\ frames \in Nat
    BY <1>1, OutType DEF TsTypeOK
  <2>3. Follow(Out(filter), pes.rest, carry, frames)
    BY DEF OrderIInv, OrderInv
  <2>4. Follow(Out(filter) \o Take(pes.rest, m), Drop(pes.rest, n), carry, frames)
    BY <1>7, <2>2, <2>3, FollowPart
  <2>5. Follow(Out(filter'), pes'.rest, carry', frames')
    BY <1>4, <1>6, <1>8, <2>1, <2>4
  <2>6. QED
    BY <2>5 DEF OrderInv
<1>11. filter'.total = s.total /\ filter'.state = s.state
  BY <1>4, <1>5
<1>12. frames \in headers' => s.total = pes.length /\ s.state = "payload"
  BY <1>3, <1>8 DEF OrderIInv, HeaderInv, Started
<1>13. HeaderInv'
  <2>1. pes.length \in Nat /\ Len(pes'.rest) \in Nat /\ Len(pes'.rest) <= Len(pes.rest)
    BY <1>1, <1>6, <1>7 DEF TsTypeOK, PesPackets
  <2>2. \A f \in headers' : 1 <= f /\ f <= frames'
    <3>1. ~pes.begun => 1 <= frames
      BY <1>1 DEF OrderIInv, HeaderInv, TsTypeOK
    <3>2. frames \in Nat
      BY <1>1 DEF TsTypeOK
    <3>3. QED
      BY <1>8, <3>1, <3>2 DEF OrderIInv, HeaderInv
  <2>3. pes'.length = 0 \/ Len(pes'.rest) <= pes'.length
    BY <1>6, <1>7, <2>1 DEF OrderIInv, HeaderInv
  <2>4. frames' \in headers' => filter'.total = pes'.length /\ filter'.state = "payload"
    BY <1>6, <1>8, <1>11, <1>12
  <2>5. ~lost' => frames' \in headers' \/ pes'.rest = <<>>
    <3>1. CASE ~pes.begun
      BY <1>8, <3>1
    <3>2. CASE pes.begun
      <4>1. n > 0 => pes.rest # <<>>
        BY <1>7
      <4>2. QED
        BY <1>7, <1>8, <3>2, <4>1 DEF OrderIInv, HeaderInv
    <3>3. QED
      BY <3>1, <3>2
  <2>6. QED
    BY <1>6, <2>2, <2>3, <2>4, <2>5 DEF HeaderInv
<1>14. LossInv'
  <2>1. SUFFICES ASSUME ~lost' PROVE Out(filter') = received'
    BY DEF LossInv
  <2>2. frames \in headers'
    <3>1. n > 0 => pes.rest # <<>>
      BY <1>7
    <3>2. QED
      BY <1>7, <1>8, <2>1, <3>1 DEF OrderIInv, HeaderInv
  <2>3. pes.length = 0 \/ n <= pes.length
    <3>1. pes.length \in Nat
      BY <1>1 DEF TsTypeOK, PesPackets
    <3>2. QED
      BY <1>7, <3>1 DEF OrderIInv, HeaderInv
  <2>4. s.total = pes.length /\ s.state # "skip"
    BY <1>12, <2>2
  <2>5. Out(y) = Out(filter) \o piece
    BY <1>5, <2>3, <2>4
  <2>6. Out(filter) = received
    BY <1>8, <2>1 DEF OrderIInv, LossInv
  <2>7. received' = received \o piece
    BY <1>5, <1>8, <2>4
  <2>8. QED
    BY <1>4, <2>5, <2>6, <2>7
<1>15. QED
  BY <1>9, <1>10, <1>13, <1>14 DEF OrderIInv

\* A packet that is lost.
LEMMA LosePacketOrder ==
    ASSUME OrderIInv, LosePacket
    PROVE  OrderIInv'
<1>1. TsTypeOK
  BY DEF OrderIInv
<1>2. PICK n \in Pieces : Sent(n)
  BY DEF LosePacket
<1>3. /\ lost' = TRUE /\ frames' = frames /\ carry' = carry /\ received' = received
      /\ headers' = headers /\ filter' = filter /\ cut' = cut
  BY DEF LosePacket
<1>4. /\ pes' \in PesPackets /\ pes'.rest = Drop(pes.rest, n)
      /\ pes'.length = pes.length /\ pes'.begun = TRUE
  BY <1>1, <1>2, SentIs
<1>5. /\ pes.rest \in Seq(Data) /\ n \in 0 .. Len(pes.rest) /\ Len(pes.rest) \in Nat
      /\ Len(pes'.rest) = Len(pes.rest) - n
  BY <1>1, <1>4, PieceIs, EmptyFacts
<1>6. TsTypeOK'
  BY <1>1, <1>3, <1>4 DEF TsTypeOK
<1>7. OrderInv'
  <2>1. Out(filter) \in Seq(Data) /\ carry \in Seq(Data) /\ frames \in Nat
    BY <1>1, OutType DEF TsTypeOK
  <2>2. Follow(Out(filter), pes.rest, carry, frames)
    BY DEF OrderIInv, OrderInv
  <2>3. Follow(Out(filter) \o Take(pes.rest, 0), Drop(pes.rest, n), carry, frames)
    <3>1. 0 \in 0 .. n
      BY <1>5
    <3>2. QED
      BY <1>5, <2>1, <2>2, <3>1, FollowPart
  <2>4. Take(pes.rest, 0) = <<>>
    BY <1>5 DEF Take
  <2>5. Out(filter) \o Take(pes.rest, 0) = Out(filter)
    BY <2>1, <2>4, JoinEmpty
  <2>6. Follow(Out(filter'), pes'.rest, carry', frames')
    BY <1>3, <1>4, <2>3, <2>5
  <2>7. QED
    BY <2>6 DEF OrderInv
<1>8. HeaderInv'
  <2>1. pes.length \in Nat
    BY <1>1 DEF TsTypeOK, PesPackets
  <2>2. pes'.length = 0 \/ Len(pes'.rest) <= pes'.length
    BY <1>4, <1>5, <2>1 DEF OrderIInv, HeaderInv
  <2>3. QED
    BY <1>3, <1>4, <2>2 DEF OrderIInv, HeaderInv
<1>9. QED
  BY <1>3, <1>6, <1>7, <1>8 DEF OrderIInv, LossInv

\* The frame that BeginFrame sends, whose start code has length c.
Own(f, n, c) == [p \in 1 .. n |-> Datum(f, p, f, CodeValue(p, c))]

Left(f, n, r, v) == [k \in 1 .. r |-> Datum(f, n + k, f + 1, IF k = r THEN v ELSE Other)]

IsOwn(own, f, n, c) ==
    /\ own \in Seq(Data) /\ Len(own) = n
    /\ \A p \in 1 .. n : /\ own[p].frame = f /\ own[p].place = p /\ own[p].packet = f
                         /\ own[p].value = CodeValue(p, c)

IsLeft(next, f, n, r) ==
    /\ next \in Seq(Data) /\ Len(next) = r
    /\ \A k \in 1 .. r : /\ next[k].frame = f /\ next[k].place = n + k
                         /\ next[k].packet = f + 1 /\ next[k].value # 0

LEMMA FrameIs ==
    ASSUME NEW f \in Nat, NEW n \in Nat, NEW r \in Nat, NEW c \in Nat, NEW v \in {1, Other}
    PROVE  IsOwn(Own(f, n, c), f, n, c) /\ IsLeft(Left(f, n, r, v), f, n, r)
<1>1. \A p \in 1 .. n : Datum(f, p, f, CodeValue(p, c)) \in Data
  BY DEF Datum, Data, CodeValue, Other
<1>2. \A k \in 1 .. r : Datum(f, n + k, f + 1, IF k = r THEN v ELSE Other) \in Data
  BY DEF Datum, Data, Other
<1>3. Own(f, n, c) \in Seq(Data) /\ Len(Own(f, n, c)) = n
  BY <1>1 DEF Own
<1>4. Left(f, n, r, v) \in Seq(Data) /\ Len(Left(f, n, r, v)) = r
  BY <1>2 DEF Left
<1>5. IsOwn(Own(f, n, c), f, n, c)
  BY <1>3 DEF Own, Datum, IsOwn
<1>6. IsLeft(Left(f, n, r, v), f, n, r)
  BY <1>4 DEF Left, Datum, IsLeft, Other
<1>7. QED
  BY <1>5, <1>6

\* What BeginFrame sends, and what it leaves to the next PES packet.
LEMMA BeginFrameIs ==
    ASSUME TsTypeOK, BeginFrame
    PROVE  \E c \in {CodeLen, CodeLen + 1}, n \in Nat, r \in Nat, v \in {1, Other} :
             /\ n >= c /\ frames' = frames + 1 /\ pes.begun /\ pes.rest = <<>>
             /\ pes' \in PesPackets /\ pes'.begun = FALSE
             /\ pes'.rest = carry \o Own(frames + 1, n, c)
             /\ pes'.length \in {0, Len(pes'.rest)}
             /\ carry' = Left(frames + 1, n, r, v)
<1>1. PICK c \in {CodeLen, CodeLen + 1} : \E n \in c .. MaxData,
          r \in 0 .. MaxRest, sized \in BOOLEAN, v \in {1, Other} :
        LET own == [p \in 1 .. n |-> Datum(frames + 1, p, frames + 1, CodeValue(p, c))]
            rest == carry \o own
        IN
        /\ frames' = MaxFrames => r = 0
        /\ pes' = [rest |-> rest, begun |-> FALSE, packets |-> MaxPackets,
                   length |-> IF sized THEN Len(rest) ELSE 0]
        /\ carry' = [k \in 1 .. r |->
                       Datum(frames + 1, n + k, frames + 2, IF k = r THEN v ELSE Other)]
  BY DEF BeginFrame
<1>0. PICK n \in c .. MaxData, r \in 0 .. MaxRest, sized \in BOOLEAN, v \in {1, Other} :
        /\ pes' = [rest |-> carry \o [p \in 1 .. n |-> Datum(frames + 1, p, frames + 1,
                                                             CodeValue(p, c))],
                   begun |-> FALSE, packets |-> MaxPackets,
                   length |-> IF sized
                                THEN Len(carry \o [p \in 1 .. n |->
                                       Datum(frames + 1, p, frames + 1, CodeValue(p, c))])
                                ELSE 0]
        /\ carry' = [k \in 1 .. r |->
                       Datum(frames + 1, n + k, frames + 2, IF k = r THEN v ELSE Other)]
  BY <1>1
<1>2. n \in Nat /\ n >= c /\ c \in Nat /\ r \in Nat /\ frames \in Nat /\ frames + 1 \in Nat
      /\ (frames + 1) + 1 = frames + 2
  BY TsAssumption DEF CodeLen, TsTypeOK
<1> DEFINE rest == carry \o Own(frames + 1, n, c)
<1>3. pes' = [rest |-> rest, begun |-> FALSE, packets |-> MaxPackets,
              length |-> IF sized THEN Len(rest) ELSE 0]
  BY <1>0 DEF Own
<1>4. carry' = Left(frames + 1, n, r, v)
  BY <1>0, <1>2 DEF Left
<1>5. Own(frames + 1, n, c) \in Seq(Data)
  BY <1>2, FrameIs DEF IsOwn
<1>6. rest \in Seq(Data) /\ Len(rest) \in Nat
  BY <1>5, JoinFacts, EmptyFacts DEF TsTypeOK
<1> HIDE DEF rest
<1>7. /\ pes' \in PesPackets /\ pes'.begun = FALSE /\ pes'.rest = rest
      /\ pes'.length \in {0, Len(pes'.rest)}
  BY <1>3, <1>6, TsAssumption DEF PesPackets
<1>8. frames' = frames + 1 /\ pes.begun /\ pes.rest = <<>>
  BY DEF BeginFrame
<1>9. /\ n >= c /\ frames' = frames + 1 /\ pes.begun /\ pes.rest = <<>>
      /\ pes' \in PesPackets /\ pes'.begun = FALSE
      /\ pes'.rest = carry \o Own(frames + 1, n, c)
      /\ pes'.length \in {0, Len(pes'.rest)}
      /\ carry' = Left(frames + 1, n, r, v)
  BY <1>2, <1>4, <1>7, <1>8 DEF rest
<1>10. n \in Nat /\ r \in Nat
  BY <1>2
<1>11. QED
  BY <1>9, <1>10

\* A frame that is begun.
LEMMA BeginFrameOrder ==
    ASSUME OrderIInv, BeginFrame
    PROVE  OrderIInv'
<1>1. TsTypeOK
  BY DEF OrderIInv
<1> DEFINE f == frames + 1
<1>2. PICK c \in {CodeLen, CodeLen + 1}, n \in Nat, r \in Nat, v \in {1, Other} :
        /\ n >= c /\ frames' = f /\ pes.begun /\ pes.rest = <<>>
        /\ pes' \in PesPackets /\ pes'.begun = FALSE
        /\ pes'.rest = carry \o Own(f, n, c)
        /\ pes'.length \in {0, Len(pes'.rest)}
        /\ carry' = Left(f, n, r, v)
  BY <1>1, BeginFrameIs
<1>3. /\ received' = received /\ headers' = headers /\ lost' = lost
      /\ filter' = filter /\ cut' = cut
  BY DEF BeginFrame
<1>4. frames \in Nat /\ f \in Nat /\ carry \in Seq(Data) /\ Out(filter) \in Seq(Data) /\ frames < f
  BY <1>1, OutType DEF TsTypeOK
<1> DEFINE own == Own(f, n, c)
           next == Left(f, n, r, v)
           out == Out(filter)
<1> HIDE DEF f
<1>5. /\ own \in Seq(Data) /\ Len(own) = n
      /\ \A p \in 1 .. n : own[p].frame = f /\ own[p].place = p
      /\ next \in Seq(Data) /\ Len(next) = r
      /\ \A k \in 1 .. r : next[k].frame = f /\ next[k].place = n + k
  <2>1. IsOwn(own, f, n, c) /\ IsLeft(next, f, n, r)
    BY <1>4, FrameIs DEF CodeLen
  <2> HIDE DEF own, next
  <2>2. QED
    BY <2>1 DEF IsOwn, IsLeft
<1> HIDE DEF own, next, out
<1>6. DOMAIN own = 1 .. n /\ DOMAIN next = 1 .. r
  BY <1>5, EmptyFacts
<1>7. TsTypeOK'
  BY <1>1, <1>2, <1>3, <1>4, <1>5 DEF TsTypeOK, next
<1>8. Follow(out, <<>>, carry, frames)
  BY <1>2 DEF OrderIInv, OrderInv, out
<1>9. Ordered(own) /\ Ordered(next) /\ AllBefore(own, next) /\ UpTo(own, f) /\ UpTo(next, f)
  <2>1. Ordered(own) /\ Ordered(next)
    BY <1>5, <1>6 DEF Ordered, Before
  <2>2. AllBefore(own, next)
    BY <1>5, <1>6 DEF AllBefore, Before
  <2>3. UpTo(own, f) /\ UpTo(next, f)
    BY <1>4, <1>5, <1>6 DEF UpTo
  <2>4. QED
    BY <2>1, <2>2, <2>3
<1>10. ASSUME NEW s \in Seq(Data), UpTo(s, frames)
       PROVE  AllBefore(s, own) /\ AllBefore(s, next) /\ UpTo(s, f)
  <2>1. \A k \in DOMAIN s : s[k].frame < f /\ s[k].frame \in Nat
    <3>1. ASSUME NEW k \in DOMAIN s PROVE s[k].frame < f /\ s[k].frame \in Nat
      <4>1. s[k] \in Data
        BY EmptyFacts
      <4>2. s[k].frame \in Nat /\ s[k].frame <= frames
        BY <1>10, <4>1 DEF Data, UpTo
      <4>3. QED
        BY <1>4, <4>2
    <3>2. QED
      BY <3>1
  <2>2. AllBefore(s, own) /\ AllBefore(s, next)
    BY <1>5, <1>6, <2>1 DEF AllBefore, Before
  <2>3. UpTo(s, f)
    BY <1>4, <2>1 DEF UpTo
  <2>4. QED
    BY <2>2, <2>3
<1>11. Ordered(carry \o own)
  BY <1>4, <1>5, <1>8, <1>9, <1>10, JoinOrdered DEF Follow
<1>12. AllBefore(out, carry \o own) /\ AllBefore(carry \o own, next) /\ UpTo(carry \o own, f)
  <2>1. ASSUME NEW k \in DOMAIN (carry \o own)
        PROVE  /\ \A j \in DOMAIN out : Before(out[j], (carry \o own)[k])
               /\ \A j \in DOMAIN next : Before((carry \o own)[k], next[j])
               /\ (carry \o own)[k].frame <= f
    <3>1. \/ k \in DOMAIN carry /\ (carry \o own)[k] = carry[k]
          \/ k - Len(carry) \in DOMAIN own /\ (carry \o own)[k] = own[k - Len(carry)]
      BY <1>4, <1>5, JoinAt
    <3>2. AllBefore(out, own) /\ AllBefore(carry, next) /\ UpTo(carry, f)
      BY <1>4, <1>8, <1>10 DEF Follow, out
    <3>3. QED
      BY <1>8, <1>9, <3>1, <3>2 DEF Follow, AllBefore, UpTo
  <2>2. QED
    BY <2>1 DEF AllBefore, UpTo
<1>13. Follow(out, carry \o own, next, f)
  <2>1. AllBefore(out, next) /\ UpTo(out, f)
    BY <1>4, <1>8, <1>10 DEF Follow, out
  <2>2. QED
    BY <1>8, <1>9, <1>11, <1>12, <2>1 DEF Follow
<1>14. OrderInv'
  <2>1. Follow(Out(filter'), pes'.rest, carry', frames')
    BY <1>2, <1>3, <1>13 DEF out, own, next
  <2>2. QED
    BY <2>1 DEF OrderInv
<1>15. HeaderInv'
  <2>1. \A h \in headers' : 1 <= h /\ h <= frames' /\ h # frames'
    <3>1. \A h \in headers : 1 <= h /\ h <= frames /\ h \in Nat
      BY <1>1 DEF OrderIInv, HeaderInv, TsTypeOK
    <3>2. QED
      BY <1>2, <1>3, <1>4, <3>1
  <2>2. pes'.length = 0 \/ Len(pes'.rest) <= pes'.length
    <3>1. Len(pes'.rest) \in Nat
      BY <1>2, EmptyFacts DEF PesPackets
    <3>2. QED
      BY <1>2, <3>1
  <2>3. frames' # 0 /\ pes'.begun = FALSE
    BY <1>2, <1>4
  <2>4. QED
    BY <2>1, <2>2, <2>3 DEF HeaderInv
<1>16. LossInv'
  BY <1>3 DEF OrderIInv, LossInv
<1>17. QED
  BY <1>7, <1>14, <1>15, <1>16 DEF OrderIInv

\* Nothing has been sent at first.
LEMMA InitOrder == TsInit => OrderIInv
<1> SUFFICES ASSUME TsInit PROVE OrderIInv
  OBVIOUS
<1>1. <<>> \in Seq(Data) /\ <<>> \in Seq(Block) /\ Len(<<>>) = 0 /\ DOMAIN <<>> = {}
  OBVIOUS
<1>2. filter \in Filters /\ filter.out = <<>> /\ filter.data = <<>> /\ filter.total = 0
      /\ filter.state = "skip"
  BY <1>1 DEF TsInit, Filters
<1>3. pes \in PesPackets /\ pes.rest = <<>> /\ pes.begun = TRUE /\ pes.length = 0
  BY <1>1 DEF TsInit, Idle, PesPackets
<1>4. /\ frames = 0 /\ carry = <<>> /\ received = <<>> /\ headers = {} /\ lost = FALSE
      /\ cut = {}
  BY DEF TsInit
<1>5. TsTypeOK
  BY <1>1, <1>2, <1>3, <1>4 DEF TsTypeOK
<1>6. Out(filter) = <<>>
  <2>1. DataOf(<<>>) = <<>>
    BY <1>1 DEF DataOf
  <2>2. FlattenSeq(<<>>) = <<>>
    BY <1>1 DEF FlattenSeq
  <2>3. QED
    BY <1>2, <2>1, <2>2 DEF Out
<1>7. OrderInv
  BY <1>1, <1>3, <1>4, <1>6 DEF OrderInv, Follow, Ordered, AllBefore, UpTo
<1>8. HeaderInv
  BY <1>3, <1>4 DEF HeaderInv
<1>9. LossInv
  BY <1>4, <1>6 DEF LossInv
<1>10. QED
  BY <1>5, <1>7, <1>8, <1>9 DEF OrderIInv

LEMMA NextOrder == OrderIInv /\ [TsNext]_tsVars => OrderIInv'
<1> SUFFICES ASSUME OrderIInv, [TsNext]_tsVars PROVE OrderIInv'
  OBVIOUS
<1>1. CASE BeginFrame
  BY <1>1, BeginFrameOrder
<1>2. CASE HandlePacket
  BY <1>2, HandlePacketOrder
<1>3. CASE LosePacket
  BY <1>3, LosePacketOrder
<1>4. CASE UNCHANGED tsVars
  <2>1. /\ frames' = frames /\ carry' = carry /\ pes' = pes /\ received' = received
        /\ headers' = headers /\ lost' = lost /\ filter' = filter /\ cut' = cut
    BY <1>4 DEF tsVars
  <2>2. TsTypeOK' /\ OrderInv' /\ HeaderInv' /\ LossInv'
    BY <2>1 DEF OrderIInv, TsTypeOK, OrderInv, HeaderInv, LossInv
  <2>3. QED
    BY <2>2 DEF OrderIInv
<1>5. QED
  BY <1>1, <1>2, <1>3, <1>4 DEF TsNext

\* The filter's and the sender's variables keep to their types (filter_t).
THEOREM TsOrderAlways == TsSpec => []OrderIInv
<1>1. QED
  BY InitOrder, NextOrder, PTL DEF TsSpec

\* Whatever the sizes of packets and blocks, data reach the decoder in the order in
\* which they were sent, none twice, and without losses none is missing.
THEOREM DeliveredInOrderAlways == TsSpec => []DeliveredInOrder
<1>1. OrderIInv => DeliveredInOrder
  <2> SUFFICES ASSUME OrderIInv PROVE DeliveredInOrder
    OBVIOUS
  <2>1. Output = Out(filter)
    BY DEF Output, Out, DataOf, submitted
  <2>2. Ordered(Out(filter))
    BY DEF OrderIInv, OrderInv, Follow
  <2>3. \A j, k \in DOMAIN Out(filter) :
          j < k => Before(Out(filter)[j], Out(filter)[k])
    BY <2>2 DEF Ordered
  <2>4. ~lost => Out(filter) = received
    BY DEF OrderIInv, LossInv
  <2>5. QED
    BY <2>1, <2>3, <2>4 DEF DeliveredInOrder, Before
<1>2. QED
  BY <1>1, TsOrderAlways, PTL

-----------------------------------------------------------------------------
(* Blocks.  G is a set of blocks that are as they should be.               *)

\* The block that the filter fills.
Current(st) == [data |-> st.data, bits |-> st.bits]

\* All blocks are in G, those that have been submitted and the current one.
AllIn(st, G) == st.out \in Seq(G) /\ Current(st) \in G

\* The block that a round makes of the current one, when it takes n data.
RoundBlock(x, n, last) ==
    [data |-> x.st.data \o Take(x.data, n), bits |-> (x.st.bits \cup Marks(x)) \cup last]

NoBlock == [data |-> <<>>, bits |-> {}]

\* A round that makes such blocks only leaves them so.
LEMMA RoundBlocks ==
    ASSUME NEW G \in SUBSET Block, NoBlock \in G, NEW x \in LoopStates, NEW y \in LoopStates,
           Round(x, y), AllIn(x.st, G),
           \A n \in 1 .. Len(x.data), last \in SUBSET {"last"} : RoundBlock(x, n, last) \in G
    PROVE  AllIn(y.st, G)
<1>1. PICK n \in 1 .. Len(x.data) :
        \/ Kept(x.st, y.st, Take(x.data, n), Marks(x))
        \/ \E last \in SUBSET {"last"} :
             Submitted(x.st, y.st, Take(x.data, n), Marks(x), last)
  BY DEF Round
<1>2. CASE Kept(x.st, y.st, Take(x.data, n), Marks(x))
  <2>1. {} \in SUBSET {"last"} /\ (x.st.bits \cup Marks(x)) \cup {} = x.st.bits \cup Marks(x)
    OBVIOUS
  <2>2. Current(y.st) = RoundBlock(x, n, {})
    BY <1>2, <2>1 DEF Kept, Current, RoundBlock
  <2>3. RoundBlock(x, n, {}) \in G
    BY <2>1
  <2>4. y.st.out \in Seq(G)
    BY <1>2 DEF Kept, AllIn
  <2>5. QED
    BY <2>2, <2>3, <2>4 DEF AllIn
<1>3. ASSUME NEW last \in SUBSET {"last"},
             Submitted(x.st, y.st, Take(x.data, n), Marks(x), last)
      PROVE  AllIn(y.st, G)
  <2> DEFINE b == RoundBlock(x, n, last)
  <2>1. b \in G
    OBVIOUS
  <2>2. y.st.out = Append(x.st.out, b)
    BY <1>3 DEF Submitted, RoundBlock
  <2> HIDE DEF b
  <2>3. y.st.out \in Seq(G)
    BY <2>1, <2>2, AppendFacts DEF AllIn
  <2>4. Current(y.st) \in G
    BY <1>3 DEF Submitted, Current, NoBlock
  <2>5. QED
    BY <2>3, <2>4 DEF AllIn
<1>4. QED
  BY <1>1, <1>2, <1>3

\* So does the beginning of a loop, when a block stays in G that is said to end a frame.
LEMMA StartBlocks ==
    ASSUME NEW G \in SUBSET Block, NoBlock \in G, NEW st \in Filters, NEW b \in Filters,
           NEW isNew \in BOOLEAN, Starts(st, b, isNew), AllIn(st, G),
           [data |-> st.data, bits |-> st.bits \cup {"last"}] \in G
    PROVE  AllIn(b, G) /\ (isNew => b.data = <<>>) /\ SameHeader(st, b) /\ b.payload = st.payload
           /\ (~isNew => b = st) /\ ((st.data = <<>> => st.bits = {}) => (b.data = <<>> => b.bits = {}))
<1>1. CASE ~isNew \/ st.data = <<>>
  BY <1>1 DEF Starts, SameHeader
<1>2. CASE isNew /\ st.data # <<>>
  <2>1. AfterSubmit(st, b, {"last"}, st.payload)
    BY <1>2 DEF Starts
  <2> DEFINE c == [data |-> st.data, bits |-> st.bits \cup {"last"}]
  <2>2. b.out = Append(st.out, c)
    BY <2>1 DEF AfterSubmit
  <2> HIDE DEF c
  <2>3. c \in G
    BY DEF c
  <2>4. b.out \in Seq(G)
    BY <2>2, <2>3, AppendFacts DEF AllIn
  <2>5. Current(b) \in G
    BY <2>1 DEF AfterSubmit, Current, NoBlock
  <2>6. QED
    BY <1>2, <2>1, <2>4, <2>5 DEF AfterSubmit, AllIn
<1>3. QED
  BY <1>1, <1>2

\* Each datum of a round's block b is one of the block before or one of those taken.
RoundBlockIs(x, n, b) ==
    /\ b \in Block /\ b.data \in Seq(Data) /\ Len(b.data) = Len(x.st.data) + n
    /\ \A j \in DOMAIN b.data :
         \/ j \in DOMAIN x.st.data /\ b.data[j] = x.st.data[j]
         \/ /\ j > Len(x.st.data) /\ j - Len(x.st.data) \in 1 .. n
            /\ b.data[j] = x.data[j - Len(x.st.data)]

LEMMA RoundBlockAt ==
    ASSUME NEW x \in LoopStates, NEW n \in 1 .. Len(x.data), NEW last \in SUBSET {"last"},
           NEW b, b = RoundBlock(x, n, last)
    PROVE  RoundBlockIs(x, n, b)
<1> DEFINE s == x.st.data
           t == Take(x.data, n)
           full == s \o t
<1>1. s \in Seq(Data) /\ x.data \in Seq(Data) /\ x.st.bits \in SUBSET {"first", "pts"}
  BY DEF LoopStates, Filters
<1>2. n \in 0 .. Len(x.data) /\ n \in Nat
  BY <1>1
<1>3. t \in Seq(Data) /\ Len(t) = n /\ \A k \in 1 .. n : t[k] = x.data[k]
  BY <1>1, <1>2, TakeFacts
<1>4. s \in Seq(Data) /\ t \in Seq(Data)
  BY <1>1, <1>3
<1> HIDE DEF s, t
<1>5. full \in Seq(Data) /\ Len(full) = Len(s) + Len(t)
  BY <1>4, JoinFacts
<1>6. DOMAIN t = 1 .. n
  BY <1>3, <1>4, EmptyFacts
<1>7. ASSUME NEW j \in DOMAIN full
      PROVE  \/ j \in DOMAIN s /\ full[j] = s[j]
             \/ j > Len(s) /\ j - Len(s) \in 1 .. n /\ full[j] = x.data[j - Len(s)]
  <2>1. \/ j \in DOMAIN s /\ full[j] = s[j]
        \/ j > Len(s) /\ j - Len(s) \in DOMAIN t /\ full[j] = t[j - Len(s)]
    BY <1>4, JoinAt
  <2>2. QED
    BY <1>3, <1>6, <2>1
<1>8. b = [data |-> full, bits |-> (x.st.bits \cup Marks(x)) \cup last]
  BY DEF RoundBlock, s, t
<1>9. (x.st.bits \cup Marks(x)) \cup last \in SUBSET {"first", "pts", "last"}
  BY <1>1 DEF Marks
<1> HIDE DEF full
<1>10. b \in Block /\ b.data = full
  BY <1>5, <1>8, <1>9 DEF Block
<1>11. QED
  BY <1>3, <1>5, <1>7, <1>10 DEF RoundBlockIs, s

\* What a round leaves of the data.
RoundLeaves(x, y) ==
    /\ x.st \in Filters /\ y.st \in Filters /\ x.data \in Seq(Data) /\ y.data \in Seq(Data)
    /\ x.isNew \in BOOLEAN /\ y.isNew = FALSE
    /\ \A k \in DOMAIN y.data : k + 1 \in DOMAIN x.data
    /\ \A k \in DOMAIN y.data : \E j \in DOMAIN x.data : j > 1 /\ y.data[k] = x.data[j]

LEMMA RoundLeavesData ==
    ASSUME NEW x \in LoopStates, NEW y \in LoopStates, Round(x, y)
    PROVE  RoundLeaves(x, y)
<1>1. /\ x.st \in Filters /\ y.st \in Filters /\ x.data \in Seq(Data) /\ y.data \in Seq(Data)
      /\ x.isNew \in BOOLEAN
  BY DEF LoopStates
<1>2. PICK n \in 1 .. Len(x.data) : y.data = Drop(x.data, n)
  BY DEF Round
<1>3. n \in 0 .. Len(x.data) /\ n \in Nat /\ n >= 1 /\ Len(x.data) \in Nat
  BY <1>1
<1>4. /\ Len(y.data) = Len(x.data) - n
      /\ \A k \in 1 .. (Len(x.data) - n) : y.data[k] = x.data[n + k]
  BY <1>1, <1>2, <1>3, DropFacts
<1>5. DOMAIN y.data = 1 .. (Len(x.data) - n) /\ DOMAIN x.data = 1 .. Len(x.data)
  BY <1>1, <1>4, EmptyFacts
<1>6. ASSUME NEW k \in DOMAIN y.data
      PROVE  /\ k + 1 \in DOMAIN x.data /\ n + k \in DOMAIN x.data /\ n + k > 1
             /\ y.data[k] = x.data[n + k]
  BY <1>3, <1>4, <1>5
<1>7. QED
  BY <1>1, <1>6 DEF RoundLeaves, Round

\* The start code of a frame of h.
Known(d, h) == IsStart(d) /\ d.frame \in h

\* Blocks that hold such start codes at their beginning only, and say so.
Headed(h) ==
    {b \in Block : \A j \in DOMAIN b.data : Known(b.data[j], h) => j = 1 /\ "first" \in b.bits}

\* The data still to be pushed hold one at the beginning of a new frame only.
HeadFirst(x, h) ==
    \A k \in DOMAIN x.data : Known(x.data[k], h) => k = 1 /\ x.isNew /\ x.st.data = <<>>

\* push_es_data keeps every block so.
LEMMA PushHeaded ==
    ASSUME NEW st \in Filters, NEW data \in Seq(Data), NEW isNew \in BOOLEAN,
           NEW size, Granted(size, data), NEW h, AllIn(st, Headed(h)),
           \A k \in DOMAIN data : Known(data[k], h) => k = 1 /\ isNew
    PROVE  AllIn(PushEsData(st, data, isNew, size), Headed(h))
<1> DEFINE G == Headed(h)
           L == {x \in LoopStates : AllIn(x.st, G) /\ HeadFirst(x, h)}
<1>1. G \in SUBSET Block /\ NoBlock \in G
  BY DEF Headed, NoBlock, Block
<1>2. ASSUME NEW b \in Filters, Starts(st, b, isNew)
      PROVE  [st |-> b, data |-> data, isNew |-> isNew] \in L
  <2>1. [data |-> st.data, bits |-> st.bits \cup {"last"}] \in G
    BY DEF AllIn, Current, Headed, Block
  <2> HIDE DEF G
  <2>2. AllIn(b, G) /\ (isNew => b.data = <<>>)
    BY <1>1, <1>2, <2>1, StartBlocks DEF G
  <2> DEFINE x == [st |-> b, data |-> data, isNew |-> isNew]
  <2>3. x \in LoopStates /\ x.st = b /\ x.data = data /\ x.isNew = isNew
    BY DEF LoopStates
  <2> HIDE DEF x
  <2>4. HeadFirst(x, h)
    BY <2>2, <2>3 DEF HeadFirst
  <2>5. QED
    BY <2>2, <2>3, <2>4 DEF x
<1>3. ASSUME NEW x \in L, NEW y \in LoopStates, x.data # <<>>, Round(x, y)
      PROVE  y \in L
  <2>1. x \in LoopStates /\ AllIn(x.st, G) /\ HeadFirst(x, h)
    OBVIOUS
  <2>2. ASSUME NEW n \in 1 .. Len(x.data), NEW last \in SUBSET {"last"}
        PROVE  RoundBlock(x, n, last) \in G
    <3> DEFINE b == RoundBlock(x, n, last)
    <3>1. RoundBlockIs(x, n, b)
      BY <2>1, RoundBlockAt
    <3>2. b.bits = (x.st.bits \cup Marks(x)) \cup last
      BY DEF RoundBlock
    <3> HIDE DEF b
    <3>3. ASSUME NEW j \in DOMAIN b.data, Known(b.data[j], h)
          PROVE  j = 1 /\ "first" \in b.bits
      <4>1. CASE j \in DOMAIN x.st.data /\ b.data[j] = x.st.data[j]
        BY <2>1, <3>2, <3>3, <4>1 DEF AllIn, Current, Headed
      <4>2. CASE j > Len(x.st.data) /\ j - Len(x.st.data) \in 1 .. n
                 /\ b.data[j] = x.data[j - Len(x.st.data)]
        <5>1. x.data \in Seq(Data) /\ x.st.data \in Seq(Data) /\ b.data \in Seq(Data)
          BY <2>1, <3>1 DEF LoopStates, Filters, RoundBlockIs
        <5>2. j \in Int /\ Len(x.st.data) \in Nat /\ DOMAIN x.data = 1 .. Len(x.data)
              /\ Len(x.data) \in Nat
          BY <5>1, EmptyFacts
        <5>3. j - Len(x.st.data) \in DOMAIN x.data
          BY <4>2, <5>2
        <5>4. j - Len(x.st.data) = 1 /\ x.isNew /\ x.st.data = <<>>
          BY <2>1, <3>3, <4>2, <5>3 DEF HeadFirst
        <5>5. Len(x.st.data) = 0
          BY <5>4
        <5>6. j = 1
          BY <5>2, <5>4, <5>5
        <5>7. QED
          BY <3>2, <5>4, <5>6 DEF Marks
      <4>3. QED
        BY <3>1, <4>1, <4>2 DEF RoundBlockIs
    <3>4. QED
      BY <3>1, <3>3 DEF RoundBlockIs, Headed, b
  <2> HIDE DEF G
  <2>3. AllIn(y.st, G)
    BY <1>1, <1>3, <2>1, <2>2, RoundBlocks
  <2>4. RoundLeaves(x, y)
    BY <1>3, <2>1, RoundLeavesData
  <2>5. HeadFirst(y, h)
    BY <2>1, <2>4 DEF RoundLeaves, HeadFirst
  <2>6. QED
    BY <2>3, <2>5
<1> HIDE DEF L, G
<1>4. L \in SUBSET LoopStates
  BY DEF L
<1>5. StartsIn(L, st, data, isNew)
  BY <1>2 DEF StartsIn
<1>6. RoundsStayIn(L)
  BY <1>3 DEF RoundsStayIn
<1>7. EndsIn(L, PushEsData(st, data, isNew, size))
  BY <1>4, <1>5, <1>6, PushKeeps
<1> DEFINE z == PushEsData(st, data, isNew, size)
<1> HIDE DEF z
<1>8. EndsIn(L, z)
  BY <1>7 DEF z
<1>9. AllIn(z, G)
  BY <1>8 DEF EndsIn, L
<1>10. QED
  BY <1>9 DEF z, G

\* Fewer frames are known of smaller sets.
LEMMA HeadedFewer ==
    ASSUME NEW st, NEW g, NEW h, g \subseteq h, AllIn(st, Headed(h))
    PROVE  AllIn(st, Headed(g))
<1>1. Headed(h) \subseteq Headed(g)
  BY DEF Headed, Known
<1>2. QED
  BY <1>1 DEF AllIn

\* A start code begins at the datum, or the datum is of a PES packet of h.
Opens(d, h) == IsStart(d) \/ d.packet \in h

\* Blocks that begin with such a datum when they say that they begin a frame.
Marked(h) == {b \in Block : "first" \in b.bits => b.data # <<>> /\ Opens(b.data[1], h)}

\* More blocks are as they should be for larger sets.
LEMMA MarkedMore ==
    ASSUME NEW st, NEW g, NEW h, g \subseteq h, AllIn(st, Marked(g))
    PROVE  AllIn(st, Marked(h))
<1>1. Marked(g) \subseteq Marked(h)
  BY DEF Marked, Opens
<1>2. QED
  BY <1>1 DEF AllIn

\* The data still to be pushed of a new frame do.
OpensNext(x, h) == x.isNew => x.st.data = <<>> /\ x.data # <<>> /\ Opens(x.data[1], h)

StartNext(x) == x.isNew => x.st.data = <<>> /\ x.data # <<>> /\ IsStart(x.data[1])

\* A round's block begins with what the block before did, or with the new data.
LEMMA RoundBlockHead ==
    ASSUME NEW x \in LoopStates, NEW n \in 1 .. Len(x.data), NEW b, RoundBlockIs(x, n, b)
    PROVE  /\ b.data # <<>> /\ Len(x.data) # 0
           /\ x.st.data # <<>> => b.data[1] = x.st.data[1]
           /\ x.st.data = <<>> => b.data[1] = x.data[1]
<1>1. x.data \in Seq(Data) /\ x.st.data \in Seq(Data) /\ b.data \in Seq(Data)
  BY DEF LoopStates, Filters, RoundBlockIs
<1>2. Len(x.st.data) \in Nat /\ Len(x.data) \in Nat /\ DOMAIN b.data = 1 .. Len(b.data)
      /\ Len(b.data) = Len(x.st.data) + n /\ DOMAIN x.st.data = 1 .. Len(x.st.data)
  BY <1>1, EmptyFacts DEF RoundBlockIs
<1>3. 1 \in DOMAIN b.data /\ b.data # <<>>
  BY <1>1, <1>2, EmptyFacts
<1>4. \/ 1 \in DOMAIN x.st.data /\ b.data[1] = x.st.data[1]
      \/ 1 > Len(x.st.data) /\ b.data[1] = x.data[1 - Len(x.st.data)]
  BY <1>3 DEF RoundBlockIs
<1>5. (x.st.data = <<>> <=> Len(x.st.data) = 0) /\ Len(x.data) # 0
  BY <1>1, <1>2, EmptyFacts
<1>6. QED
  BY <1>2, <1>3, <1>4, <1>5

\* push_es_data keeps every block so.
LEMMA PushMarked ==
    ASSUME NEW st \in Filters, NEW data \in Seq(Data), NEW isNew \in BOOLEAN,
           NEW size, Granted(size, data), NEW h, AllIn(st, Marked(h)),
           isNew => data # <<>> /\ Opens(data[1], h)
    PROVE  AllIn(PushEsData(st, data, isNew, size), Marked(h))
<1> DEFINE G == Marked(h)
           L == {x \in LoopStates : AllIn(x.st, G) /\ OpensNext(x, h)}
<1>1. G \in SUBSET Block /\ NoBlock \in G
  BY DEF Marked, NoBlock, Block
<1>2. ASSUME NEW b \in Filters, Starts(st, b, isNew)
      PROVE  [st |-> b, data |-> data, isNew |-> isNew] \in L
  <2>1. [data |-> st.data, bits |-> st.bits \cup {"last"}] \in G
    BY DEF AllIn, Current, Marked, Block
  <2> HIDE DEF G
  <2>2. AllIn(b, G) /\ (isNew => b.data = <<>>)
    BY <1>1, <1>2, <2>1, StartBlocks DEF G
  <2> DEFINE x == [st |-> b, data |-> data, isNew |-> isNew]
  <2>3. x \in LoopStates /\ x.st = b /\ x.data = data /\ x.isNew = isNew
    BY DEF LoopStates
  <2> HIDE DEF x
  <2>4. OpensNext(x, h)
    BY <2>2, <2>3 DEF OpensNext
  <2>5. QED
    BY <2>2, <2>3, <2>4 DEF x
<1>3. ASSUME NEW x \in L, NEW y \in LoopStates, x.data # <<>>, Round(x, y)
      PROVE  y \in L
  <2>1. x \in LoopStates /\ AllIn(x.st, G) /\ OpensNext(x, h)
    OBVIOUS
  <2>2. ASSUME NEW n \in 1 .. Len(x.data), NEW last \in SUBSET {"last"}
        PROVE  RoundBlock(x, n, last) \in G
    <3> DEFINE b == RoundBlock(x, n, last)
    <3>1. RoundBlockIs(x, n, b)
      BY <2>1, RoundBlockAt
    <3>2. b.bits = (x.st.bits \cup Marks(x)) \cup last
      BY DEF RoundBlock
    <3> HIDE DEF b
    <3>3. /\ b.data # <<>>
          /\ x.st.data # <<>> => b.data[1] = x.st.data[1]
          /\ x.st.data = <<>> => b.data[1] = x.data[1]
      BY <2>1, <3>1, RoundBlockHead
    <3>4. ASSUME "first" \in b.bits PROVE Opens(b.data[1], h)
      <4>1. "first" \in x.st.bits \/ "first" \in Marks(x)
        BY <3>2, <3>4
      <4>2. CASE "first" \in x.st.bits
        BY <2>1, <3>3, <4>2 DEF AllIn, Current, Marked
      <4>3. CASE "first" \in Marks(x)
        <5>1. x.isNew
          BY <4>3 DEF Marks
        <5>2. QED
          BY <2>1, <3>3, <5>1 DEF OpensNext
      <4>4. QED
        BY <4>1, <4>2, <4>3
    <3>5. QED
      BY <3>1, <3>3, <3>4 DEF RoundBlockIs, Marked, b
  <2> HIDE DEF G
  <2>3. AllIn(y.st, G)
    BY <1>1, <1>3, <2>1, <2>2, RoundBlocks
  <2>4. OpensNext(y, h)
    BY <1>3 DEF Round, OpensNext
  <2>5. QED
    BY <2>3, <2>4
<1> HIDE DEF L, G
<1>4. L \in SUBSET LoopStates
  BY DEF L
<1>5. StartsIn(L, st, data, isNew)
  BY <1>2 DEF StartsIn
<1>6. RoundsStayIn(L)
  BY <1>3 DEF RoundsStayIn
<1> DEFINE z == PushEsData(st, data, isNew, size)
<1>7. EndsIn(L, PushEsData(st, data, isNew, size))
  BY <1>4, <1>5, <1>6, PushKeeps
<1> HIDE DEF z
<1>8. EndsIn(L, z)
  BY <1>7 DEF z
<1>9. AllIn(z, G)
  BY <1>8 DEF EndsIn, L
<1>10. QED
  BY <1>9 DEF z, G

\* Blocks that have a time stamp when they begin a frame.
Timed == {b \in Block : "first" \in b.bits => "pts" \in b.bits}

\* A block that ends a frame is followed by one that begins with a start code.
Ended(st) ==
    \A k \in 1 .. Len(st.out) :
        "last" \in st.out[k].bits =>
            LET after == IF k = Len(st.out) THEN st.data ELSE st.out[k + 1].data
            IN after # <<>> => IsStart(after[1])

\* The block submitted last does, and the next one holds no data yet.
EndsLast(st) == st.data = <<>> /\ st.out # <<>> /\ "last" \in st.out[Len(st.out)].bits

\* Of the PES packet r data come after those of the loop: a frame ends with the packet
\* only, and the filter counts what the packet has more than the blocks so far.
Counting(x, r) ==
    /\ x.isNew => x.st.pts
    /\ EndsLast(x.st) => Len(x.data) + r = 0 \/ x.isNew
    /\ x.st.payload > 0 /\ Len(x.data) + r > 0
         => x.st.payload = Len(x.st.data) + Len(x.data) + r

\* A round keeps this.
LEMMA RoundCounts ==
    ASSUME NEW x \in LoopStates, NEW y \in LoopStates, NEW r \in Nat, Round(x, y),
           x.data # <<>>, Ended(x.st), StartNext(x), Counting(x, r)
    PROVE  Ended(y.st) /\ Counting(y, r)
<1>1. PICK n \in 1 .. Len(x.data) :
        /\ y.data = Drop(x.data, n)
        /\ \/ n = Len(x.data) /\ Kept(x.st, y.st, Take(x.data, n), Marks(x))
           \/ \E last \in SUBSET {"last"} :
                Submitted(x.st, y.st, Take(x.data, n), Marks(x), last)
  BY DEF Round
<1>2. /\ x.data \in Seq(Data) /\ x.st.data \in Seq(Data) /\ x.st.out \in Seq(Block)
      /\ x.st.payload \in Nat /\ y.st.data \in Seq(Data) /\ y.st.payload \in Nat
  BY DEF LoopStates, Filters
<1>3. /\ Len(x.data) \in Nat /\ Len(x.data) > 0 /\ Len(x.st.data) \in Nat
      /\ Len(x.st.out) \in Nat /\ n \in 0 .. Len(x.data) /\ n \in Nat /\ n > 0
  BY <1>2, EmptyFacts
<1>4. Len(y.data) = Len(x.data) - n /\ y.isNew = FALSE
  BY <1>1, <1>2, <1>3, DropFacts DEF Round
<1>5. Len(x.data) + r > 0
  BY <1>3
<1>6. x.st.payload > 0 => x.st.payload = Len(x.st.data) + Len(x.data) + r
  BY <1>5 DEF Counting
<1> DEFINE m == Len(x.st.out)
<1>7. ASSUME NEW last \in SUBSET {"last"}, NEW b, b = RoundBlock(x, n, last)
      PROVE  /\ b \in Block /\ Len(b.data) = Len(x.st.data) + n
             /\ m > 0 /\ "last" \in x.st.out[m].bits => IsStart(b.data[1])
  <2>1. RoundBlockIs(x, n, b)
    BY <1>7, RoundBlockAt
  <2>2. /\ x.st.data # <<>> => b.data[1] = x.st.data[1]
        /\ x.st.data = <<>> => b.data[1] = x.data[1]
    BY <2>1, RoundBlockHead
  <2>3. ASSUME m > 0, "last" \in x.st.out[m].bits PROVE IsStart(b.data[1])
    <3>1. CASE x.st.data # <<>>
      <4>1. m \in 1 .. m
        BY <1>3, <2>3
      <4>2. IsStart(x.st.data[1])
        BY <2>3, <3>1, <4>1 DEF Ended
      <4>3. QED
        BY <2>2, <3>1, <4>2
    <3>2. CASE x.st.data = <<>>
      <4>1. EndsLast(x.st)
        BY <1>2, <2>3, <3>2, EmptyFacts DEF EndsLast
      <4>2. x.isNew
        BY <1>3, <4>1 DEF Counting
      <4>3. QED
        BY <2>2, <3>2, <4>2 DEF StartNext
    <3>3. QED
      BY <3>1, <3>2
  <2>4. QED
    BY <2>1, <2>3 DEF RoundBlockIs
<1>8. CASE n = Len(x.data) /\ Kept(x.st, y.st, Take(x.data, n), Marks(x))
  <2> DEFINE b == RoundBlock(x, n, {})
  <2>1. {} \in SUBSET {"last"}
    OBVIOUS
  <2>2. y.st.data = b.data /\ y.st.out = x.st.out /\ y.st.payload = x.st.payload
    BY <1>8 DEF Kept, RoundBlock
  <2> HIDE DEF b
  <2>3. /\ b \in Block /\ Len(b.data) = Len(x.st.data) + n
        /\ m > 0 /\ "last" \in x.st.out[m].bits => IsStart(b.data[1])
    BY <1>7, <2>1 DEF b
  <2>4. Ended(y.st)
    BY <1>3, <2>2, <2>3 DEF Ended
  <2>5. Len(y.st.data) = Len(x.st.data) + n /\ y.st.data # <<>>
    BY <1>2, <1>3, <2>2, <2>3, EmptyFacts
  <2>6. ~EndsLast(y.st)
    BY <2>5 DEF EndsLast
  <2>7. y.st.payload > 0 /\ Len(y.data) + r > 0
          => y.st.payload = Len(y.st.data) + Len(y.data) + r
    <3> DEFINE a == Len(x.st.data)
               d == Len(x.data)
               e == Len(y.st.data)
               g == Len(y.data)
    <3>1. a \in Nat /\ d \in Nat /\ e = a + d /\ g = 0
      BY <1>3, <1>4, <1>8, <2>5
    <3>2. y.st.payload > 0 => y.st.payload = a + d + r
      BY <1>6, <2>2
    <3> HIDE DEF a, d, e, g
    <3>3. y.st.payload > 0 => y.st.payload = e + g + r
      BY <3>1, <3>2
    <3>4. QED
      BY <3>3 DEF e, g
  <2>8. QED
    BY <1>4, <2>4, <2>6, <2>7 DEF Counting
<1>9. ASSUME NEW last \in SUBSET {"last"},
             Submitted(x.st, y.st, Take(x.data, n), Marks(x), last)
      PROVE  Ended(y.st) /\ Counting(y, r)
  <2> DEFINE b == RoundBlock(x, n, last)
             full == x.st.data \o Take(x.data, n)
  <2>1. /\ y.st.out = Append(x.st.out, b) /\ y.st.data = <<>> /\ b.data = full
        /\ b.bits = (x.st.bits \cup Marks(x)) \cup last
        /\ CountedTo(last, x.st.payload, y.st.payload, Len(full))
    BY <1>9 DEF Submitted, RoundBlock
  <2> HIDE DEF b, full
  <2>2. /\ b \in Block /\ Len(full) = Len(x.st.data) + n
        /\ m > 0 /\ "last" \in x.st.out[m].bits => IsStart(b.data[1])
    BY <1>7, <2>1 DEF b
  <2>3. /\ Len(y.st.out) = m + 1 /\ y.st.out[m + 1] = b
        /\ \A k \in 1 .. m : y.st.out[k] = x.st.out[k]
    BY <1>2, <2>1, <2>2, AppendFacts
  <2>4. ASSUME NEW k \in 1 .. m, "last" \in x.st.out[k].bits, y.st.out[k + 1].data # <<>>
        PROVE  IsStart(y.st.out[k + 1].data[1])
    <3>1. CASE k = m
      BY <1>3, <2>2, <2>3, <2>4, <3>1
    <3>2. CASE k # m
      <4>1. k + 1 \in 1 .. m
        BY <1>3, <3>2
      <4>2. y.st.out[k + 1] = x.st.out[k + 1]
        BY <2>3, <4>1
      <4>3. x.st.out[k + 1].data # <<>> => IsStart(x.st.out[k + 1].data[1])
        BY <2>4, <3>2 DEF Ended
      <4>4. QED
        BY <2>4, <4>2, <4>3
    <3>3. QED
      BY <3>1, <3>2
  <2>5. Ended(y.st)
    <3>1. SUFFICES ASSUME NEW k \in 1 .. (m + 1), "last" \in y.st.out[k].bits,
                          (IF k = m + 1 THEN y.st.data ELSE y.st.out[k + 1].data) # <<>>
                   PROVE  IsStart((IF k = m + 1 THEN y.st.data ELSE y.st.out[k + 1].data)[1])
      BY <2>3 DEF Ended
    <3>2. k # m + 1
      BY <2>1, <3>1
    <3>3. k \in 1 .. m /\ "last" \in x.st.out[k].bits
      <4>1. k \in 1 .. m
        BY <1>3, <3>1, <3>2
      <4>2. QED
        BY <2>3, <3>1, <4>1
    <3>4. QED
      BY <2>4, <3>1, <3>2, <3>3
  <2>6. EndsLast(y.st) => Len(y.data) + r = 0
    <3>1. SUFFICES ASSUME EndsLast(y.st) PROVE Len(y.data) + r = 0
      OBVIOUS
    <3>2. "last" \in b.bits
      BY <2>3, <3>1 DEF EndsLast
    <3>3. "last" \in last
      BY <2>1, <3>2 DEF LoopStates, Filters, Marks
    <3>4. x.st.payload > 0 /\ Len(full) = x.st.payload
      <4>1. last = {"last"}
        BY <3>3
      <4>2. Len(full) \in Nat
        BY <1>3, <2>2
      <4>3. CountedTo(last, x.st.payload, y.st.payload, Len(full))
        BY <2>1
      <4>4. x.st.payload = 0 => last = {}
        BY <4>3 DEF CountedTo
      <4>5. x.st.payload > 0 /\ Len(full) # x.st.payload => last = {}
        BY <1>2, <4>2, <4>3 DEF CountedTo
      <4>6. QED
        BY <1>2, <4>1, <4>4, <4>5
    <3>5. x.st.payload = Len(x.st.data) + Len(x.data) + r
      BY <1>6, <3>4
    <3>6. QED
      BY <1>3, <1>4, <2>2, <3>4, <3>5
  <2>7. y.st.payload > 0 /\ Len(y.data) + r > 0
          => y.st.payload = Len(y.st.data) + Len(y.data) + r
    <3>1. Len(y.st.data) = 0
      BY <2>1
    <3> DEFINE a == Len(x.st.data)
               d == Len(x.data)
               e == Len(full)
               g == Len(y.data)
               p == x.st.payload
               q == y.st.payload
    <3>2. a \in Nat /\ d \in Nat /\ e = a + n /\ g = d - n /\ p \in Nat /\ q \in Nat
          /\ (p > 0 => p = a + d + r)
      BY <1>2, <1>3, <1>4, <1>6, <2>2
    <3>3. CountedTo(last, p, q, e)
      BY <2>1
    <3> HIDE DEF a, d, e, g, p, q
    <3>4. q > 0 /\ g + r > 0 => q = g + r
      BY <1>3, <3>2, <3>3 DEF CountedTo
    <3>5. QED
      BY <3>1, <3>2, <3>4 DEF q, g
  <2>8. QED
    BY <1>4, <2>5, <2>6, <2>7 DEF Counting
<1>10. QED
  BY <1>1, <1>8, <1>9

\* So does the beginning of the loop, with p data of the packet still to come.
StartCounted(b, isNew, p) ==
    /\ Ended(b) /\ (EndsLast(b) => p = 0 \/ isNew)
    /\ b.payload > 0 /\ p > 0 => b.payload = Len(b.data) + p

LEMMA StartCounts ==
    ASSUME NEW st \in Filters, NEW b \in Filters, NEW isNew \in BOOLEAN, NEW p \in Nat,
           Starts(st, b, isNew), Ended(st),
           EndsLast(st) => p = 0 \/ isNew,
           st.payload > 0 /\ p > 0
             => st.payload = (IF isNew THEN 0 ELSE Len(st.data)) + p
    PROVE  StartCounted(b, isNew, p)
<1>1. st.data \in Seq(Data) /\ st.out \in Seq(Block) /\ Len(st.out) \in Nat
  BY DEF Filters
<1>2. CASE ~isNew \/ st.data = <<>>
  <2>1. b = st
    BY <1>2 DEF Starts
  <2>2. st.data = <<>> => Len(st.data) = 0
    OBVIOUS
  <2>3. QED
    BY <1>2, <2>1, <2>2 DEF StartCounted
<1>3. CASE isNew /\ st.data # <<>>
  <2> DEFINE c == [data |-> st.data, bits |-> st.bits \cup {"last"}]
             m == Len(st.out)
  <2>1. b.out = Append(st.out, c) /\ b.data = <<>> /\ b.payload = st.payload
    BY <1>3 DEF Starts, AfterSubmit
  <2>2. c \in Block /\ c.data = st.data
    BY DEF Filters, Block
  <2> HIDE DEF c
  <2>3. /\ Len(b.out) = m + 1 /\ b.out[m + 1] = c
        /\ \A k \in 1 .. m : b.out[k] = st.out[k]
    BY <1>1, <2>1, <2>2, AppendFacts
  <2>4. ASSUME NEW k \in 1 .. m, "last" \in st.out[k].bits, b.out[k + 1].data # <<>>
        PROVE  IsStart(b.out[k + 1].data[1])
    <3>1. CASE k = m
      BY <1>1, <1>3, <2>2, <2>3, <2>4, <3>1 DEF Ended
    <3>2. CASE k # m
      <4>1. k + 1 \in 1 .. m
        BY <1>1, <3>2
      <4>2. b.out[k + 1] = st.out[k + 1]
        BY <2>3, <4>1
      <4>3. st.out[k + 1].data # <<>> => IsStart(st.out[k + 1].data[1])
        BY <2>4, <3>2 DEF Ended
      <4>4. QED
        BY <2>4, <4>2, <4>3
    <3>3. QED
      BY <3>1, <3>2
  <2>5. Ended(b)
    <3>1. SUFFICES ASSUME NEW k \in 1 .. (m + 1), "last" \in b.out[k].bits,
                          (IF k = m + 1 THEN b.data ELSE b.out[k + 1].data) # <<>>
                   PROVE  IsStart((IF k = m + 1 THEN b.data ELSE b.out[k + 1].data)[1])
      BY <2>3 DEF Ended
    <3>2. k # m + 1
      BY <2>1, <3>1
    <3>3. k \in 1 .. m /\ "last" \in st.out[k].bits
      BY <1>1, <2>3, <3>1, <3>2
    <3>4. QED
      BY <2>4, <3>1, <3>2, <3>3
  <2>6. Len(b.data) = 0
    BY <2>1
  <2>7. QED
    BY <1>3, <2>1, <2>5, <2>6 DEF StartCounted
<1>4. QED
  BY <1>2, <1>3

\* What the bits of the blocks tell when r data of the PES packet are still to come.
Told(st, r) ==
    /\ AllIn(st, Timed) /\ Ended(st) /\ (EndsLast(st) => r = 0)
    /\ st.payload > 0 /\ r > 0 => st.payload = Len(st.data) + r

\* push_es_data keeps it so.
LEMMA PushTold ==
    ASSUME NEW st \in Filters, NEW data \in Seq(Data), NEW isNew \in BOOLEAN,
           NEW size, Granted(size, data), NEW r \in Nat, AllIn(st, Timed), Ended(st),
           isNew => st.pts /\ data # <<>> /\ IsStart(data[1]),
           EndsLast(st) => Len(data) + r = 0 \/ isNew,
           st.payload > 0 /\ Len(data) + r > 0
             => st.payload = (IF isNew THEN 0 ELSE Len(st.data)) + (Len(data) + r)
    PROVE  Told(PushEsData(st, data, isNew, size), r)
<1> DEFINE L == {x \in LoopStates : /\ AllIn(x.st, Timed) /\ Ended(x.st) /\ StartNext(x)
                                    /\ Counting(x, r)}
<1>1. Timed \in SUBSET Block /\ NoBlock \in Timed
  BY DEF Timed, NoBlock, Block
<1>2. ASSUME NEW b \in Filters, Starts(st, b, isNew)
      PROVE  [st |-> b, data |-> data, isNew |-> isNew] \in L
  <2>1. [data |-> st.data, bits |-> st.bits \cup {"last"}] \in Timed
    BY DEF AllIn, Current, Timed, Block
  <2>2. AllIn(b, Timed) /\ (isNew => b.data = <<>>) /\ SameHeader(st, b)
    BY <1>1, <1>2, <2>1, StartBlocks
  <2> DEFINE p == Len(data) + r
  <2>3. p \in Nat /\ Len(data) \in Nat
    BY EmptyFacts
  <2>4. EndsLast(st) => p = 0 \/ isNew
    OBVIOUS
  <2>5. st.payload > 0 /\ p > 0 => st.payload = (IF isNew THEN 0 ELSE Len(st.data)) + p
    OBVIOUS
  <2> HIDE DEF p
  <2>6. /\ Ended(b) /\ (EndsLast(b) => p = 0 \/ isNew)
        /\ b.payload > 0 /\ p > 0 => b.payload = Len(b.data) + p
    <3>1. StartCounted(b, isNew, p)
      BY <1>2, <2>3, <2>4, <2>5, StartCounts
    <3>2. QED
      BY <3>1 DEF StartCounted
  <2> DEFINE x == [st |-> b, data |-> data, isNew |-> isNew]
  <2>7. x \in LoopStates /\ x.st = b /\ x.data = data /\ x.isNew = isNew
    BY DEF LoopStates
  <2> HIDE DEF x
  <2>8. StartNext(x)
    BY <2>2, <2>7 DEF StartNext
  <2>9. Len(b.data) \in Nat
    BY DEF Filters
  <2>10. Counting(x, r)
    <3>1. x.isNew => x.st.pts
      BY <2>2, <2>7 DEF SameHeader
    <3>2. EndsLast(x.st) => Len(x.data) + r = 0 \/ x.isNew
      BY <2>6, <2>7 DEF p
    <3>3. x.st.payload > 0 /\ Len(x.data) + r > 0
            => x.st.payload = Len(x.st.data) + (Len(x.data) + r)
      BY <2>6, <2>7 DEF p
    <3>4. Len(x.st.data) + (Len(x.data) + r) = Len(x.st.data) + Len(x.data) + r
      <4> DEFINE a == Len(x.st.data)
                 d == Len(x.data)
      <4>1. a \in Nat /\ d \in Nat
        BY <2>3, <2>7, <2>9
      <4> HIDE DEF a, d
      <4>2. a + (d + r) = a + d + r
        BY <4>1
      <4>3. QED
        BY <4>2 DEF a, d
    <3>5. QED
      BY <3>1, <3>2, <3>3, <3>4 DEF Counting
  <2>11. QED
    BY <2>2, <2>6, <2>7, <2>8, <2>10 DEF x
<1>3. ASSUME NEW x \in L, NEW y \in LoopStates, x.data # <<>>, Round(x, y)
      PROVE  y \in L
  <2>1. /\ x \in LoopStates /\ AllIn(x.st, Timed) /\ Ended(x.st) /\ StartNext(x)
        /\ Counting(x, r)
    OBVIOUS
  <2>2. ASSUME NEW n \in 1 .. Len(x.data), NEW last \in SUBSET {"last"}
        PROVE  RoundBlock(x, n, last) \in Timed
    <3> DEFINE b == RoundBlock(x, n, last)
    <3>1. RoundBlockIs(x, n, b)
      BY <2>1, RoundBlockAt
    <3>2. b.bits = (x.st.bits \cup Marks(x)) \cup last
      BY DEF RoundBlock
    <3> HIDE DEF b
    <3>3. ASSUME "first" \in b.bits PROVE "pts" \in b.bits
      BY <2>1, <3>2, <3>3 DEF AllIn, Current, Timed, Marks, Counting
    <3>4. QED
      BY <3>1, <3>3 DEF RoundBlockIs, Timed, b
  <2>3. AllIn(y.st, Timed)
    BY <1>1, <1>3, <2>1, <2>2, RoundBlocks
  <2>4. StartNext(y)
    BY <1>3 DEF Round, StartNext
  <2>5. Ended(y.st) /\ Counting(y, r)
    BY <1>3, <2>1, RoundCounts
  <2>6. QED
    BY <2>3, <2>4, <2>5
<1> HIDE DEF L
<1>4. L \in SUBSET LoopStates
  BY DEF L
<1>5. StartsIn(L, st, data, isNew)
  BY <1>2 DEF StartsIn
<1>6. RoundsStayIn(L)
  BY <1>3 DEF RoundsStayIn
<1> DEFINE z == PushEsData(st, data, isNew, size)
<1>7. EndsIn(L, PushEsData(st, data, isNew, size))
  BY <1>4, <1>5, <1>6, PushKeeps
<1> HIDE DEF z
<1>8. PICK x \in L : x.data = <<>> /\ z = x.st
  BY <1>7 DEF z, EndsIn
<1>9. AllIn(x.st, Timed) /\ Ended(x.st) /\ StartNext(x) /\ Counting(x, r) /\ Len(x.data) = 0
      /\ x \in LoopStates
  BY <1>8 DEF L
<1>10. ~x.isNew /\ Len(x.st.data) \in Nat
  BY <1>8, <1>9 DEF StartNext, LoopStates, Filters
<1>11. Told(x.st, r)
  BY <1>9, <1>10 DEF Told, Counting
<1>12. QED
  BY <1>8, <1>11 DEF z

-----------------------------------------------------------------------------
(* The blocks that MPEGTS_PESPAYLOAD makes.                                *)

\* The same block and the same blocks before it.
SameBlocks(st, y) == y.out = st.out /\ y.data = st.data /\ y.bits = st.bits

\* What comes before the start code is pushed, uncounted, and then the rest.
Pushes(st, data, n, begins, size, u, w, y) ==
    /\ SameHeader(st, u) /\ u.payload = st.payload
    /\ n = 0 => u = st
    /\ n # 0 => \E s, z \in Filters : /\ SameBlocks(st, s) /\ SameBlocks(z, u)
                                      /\ z = PushEsData(s, Take(data, n), FALSE, size)
    /\ w = PushEsData(u, Drop(data, n), begins, size) /\ SameHeader(u, w)
    /\ AfterUse(w, begins, y)

LEMMA PayloadPushes ==
    ASSUME NEW st \in Filters, NEW data \in Seq(Data), NEW size, NEW y,
           Granted(size, data),
           PayloadSteps(st, data, size, y)
    PROVE  \E u, w \in Filters :
             Pushes(st, data, LastFramePart(st, data), Begins(st, data), size, u, w, y)
<1> DEFINE n == LastFramePart(st, data)
           begins == Begins(st, data)
<1>1. n \in 0 .. Len(data) /\ begins \in BOOLEAN /\ st.payload \in Nat
  BY LastFramePartIs DEF Begins, Filters
<1>2. PICK u \in Filters, w \in Filters :
        /\ Uncounted(st, data, n, size, u)
        /\ w = PushEsData(u, Drop(data, n), begins, size)
        /\ Used(w, begins, y)
  BY DEF PayloadSteps
<1> HIDE DEF n, begins
<1>3. /\ SameHeader(st, u) /\ u.payload = st.payload /\ (n = 0 => u = st)
      /\ n # 0 => \E s, z \in Filters :
           /\ SameBlocks(st, s) /\ SameBlocks(z, u)
           /\ z = PushEsData(s, Take(data, n), FALSE, size)
  <2>1. CASE n = 0
    BY <1>2, <2>1 DEF Uncounted, SameHeader
  <2>2. CASE n # 0
    <3> DEFINE s == [st EXCEPT !.payload = 0]
               t == Take(data, n)
    <3>1. s \in Filters /\ SameHeader(st, s) /\ SameBlocks(st, s)
      <4>1. /\ s \in Filters /\ SameHeader(st, s)
            /\ s.out = st.out /\ s.data = st.data /\ s.bits = st.bits
        <5> DEFINE p == 0
        <5>1. p \in Nat /\ st \in Filters
          OBVIOUS
        <5>2. s = [st EXCEPT !.payload = p]
          OBVIOUS
        <5> HIDE DEF s, p
        <5>3. QED
          BY <5>1, <5>2, FieldsSet
      <4> HIDE DEF s
      <4>2. QED
        BY <4>1 DEF SameBlocks
    <3>2. t \in Seq(Data) /\ FALSE \in BOOLEAN /\ Granted(size, t)
      BY <1>1, TakeFacts, GrantedParts
    <3>3. PICK z \in Filters : z = PushEsData(s, t, FALSE, size)
                               /\ u = [z EXCEPT !.payload = st.payload]
      BY <1>2, <2>2 DEF Uncounted
    <3> HIDE DEF s, t
    <3>4. SameHeader(s, z)
      <4>1. PICK v \in Filters : v = PushEsData(s, t, FALSE, size) /\ SameHeader(s, v)
        BY <3>1, <3>2, PushOut
      <4>2. QED
        BY <3>3, <4>1
    <3>5. SameHeader(z, u) /\ u.payload = st.payload /\ SameBlocks(z, u)
      <4> DEFINE p == st.payload
      <4>1. p \in Nat /\ u = [z EXCEPT !.payload = p]
        BY <1>1, <3>3
      <4> HIDE DEF p
      <4>2. /\ SameHeader(z, u) /\ u.payload = p
            /\ u.out = z.out /\ u.data = z.data /\ u.bits = z.bits
        BY <4>1, FieldsSet
      <4>3. QED
        BY <4>2 DEF SameBlocks, p
    <3>6. SameHeader(st, u)
      BY <3>1, <3>4, <3>5 DEF SameHeader
    <3>7. QED
      BY <2>2, <3>1, <3>3, <3>5, <3>6 DEF t
  <2>3. QED
    BY <2>1, <2>2
<1>4. SameHeader(u, w)
  <2> DEFINE d == Drop(data, n)
  <2>1. d \in Seq(Data) /\ Granted(size, d)
    BY <1>1, DropFacts, GrantedParts
  <2>2. w = PushEsData(u, d, begins, size)
    BY <1>2
  <2> HIDE DEF d
  <2>3. PICK v \in Filters : v = PushEsData(u, d, begins, size) /\ SameHeader(u, v)
    BY <1>1, <2>1, PushOut
  <2>4. QED
    BY <2>2, <2>3
<1>5. AfterUse(w, begins, y)
  BY <1>1, <1>2, UsedIs
<1>6. Pushes(st, data, n, begins, size, u, w, y)
  BY <1>2, <1>3, <1>4, <1>5 DEF Pushes
<1>7. QED
  BY <1>6 DEF n, begins

\* A filter that begins a frame does not look for it any longer.
LEMMA PayloadLooks ==
    ASSUME NEW st \in Filters, NEW data \in Seq(Data), NEW size, NEW y,
           Granted(size, data),
           PayloadSteps(st, data, size, y)
    PROVE  y.isNew <=> st.isNew /\ ~Begins(st, data)
<1>1. PICK u \in Filters, w \in Filters :
        Pushes(st, data, LastFramePart(st, data), Begins(st, data), size, u, w, y)
  BY PayloadPushes
<1>2. QED
  BY <1>1 DEF Pushes, SameHeader, AfterUse

LEMMA SameAllIn ==
    ASSUME NEW st, NEW y, NEW G, SameBlocks(st, y), AllIn(st, G)
    PROVE  AllIn(y, G)
BY DEF SameBlocks, AllIn, Current

\* Blocks hold start codes at their beginning only when the search finds them.
LEMMA PayloadHeaded ==
    ASSUME NEW st \in Filters, NEW data \in Seq(Data), NEW size, NEW y,
           Granted(size, data),
           PayloadSteps(st, data, size, y), NEW h, AllIn(st, Headed(h)),
           \A k \in DOMAIN data :
             Known(data[k], h) => k = LastFramePart(st, data) + 1 /\ Begins(st, data)
    PROVE  AllIn(y, Headed(h))
<1> DEFINE n == LastFramePart(st, data)
           begins == Begins(st, data)
<1>1. n \in 0 .. Len(data) /\ begins \in BOOLEAN /\ n \in Nat
  BY LastFramePartIs DEF Begins
<1>2. PICK u \in Filters, w \in Filters : Pushes(st, data, n, begins, size, u, w, y)
  BY PayloadPushes
<1>3. \A k \in DOMAIN data : Known(data[k], h) => k = n + 1 /\ begins
  OBVIOUS
<1> DEFINE t == Take(data, n)
           d == Drop(data, n)
<1>4. /\ t \in Seq(Data) /\ DOMAIN t = 1 .. n /\ \A k \in 1 .. n : t[k] = data[k]
      /\ d \in Seq(Data) /\ DOMAIN d = 1 .. (Len(data) - n)
      /\ \A k \in 1 .. (Len(data) - n) : d[k] = data[n + k]
      /\ DOMAIN data = 1 .. Len(data) /\ Len(data) \in Nat
  <2> HIDE DEF n
  <2>1. /\ t \in Seq(Data) /\ Len(t) = n /\ \A k \in 1 .. n : t[k] = data[k]
    BY <1>1, TakeFacts
  <2>2. /\ d \in Seq(Data) /\ Len(d) = Len(data) - n
        /\ \A k \in 1 .. (Len(data) - n) : d[k] = data[n + k]
    BY <1>1, DropFacts
  <2> HIDE DEF t, d
  <2>3. QED
    BY <2>1, <2>2, EmptyFacts
<1>10. Granted(size, t) /\ Granted(size, d)
  BY <1>1, GrantedParts
<1> HIDE DEF n, begins
<1>5. AllIn(u, Headed(h))
  <2>1. CASE n = 0
    BY <1>2, <2>1 DEF Pushes
  <2>2. CASE n # 0
    <3>1. PICK s \in Filters, z \in Filters :
            SameBlocks(st, s) /\ SameBlocks(z, u) /\ z = PushEsData(s, t, FALSE, size)
      BY <1>2, <2>2 DEF Pushes
    <3>2. AllIn(s, Headed(h)) /\ FALSE \in BOOLEAN
      BY <3>1, SameAllIn
    <3>3. \A k \in DOMAIN t : ~Known(t[k], h)
      BY <1>1, <1>3, <1>4
    <3> HIDE DEF t, d
    <3>4. AllIn(PushEsData(s, t, FALSE, size), Headed(h))
      BY <1>4, <1>10, <3>2, <3>3, PushHeaded
    <3>5. QED
      BY <3>1, <3>4, SameAllIn
  <2>3. QED
    BY <2>1, <2>2
<1>6. w = PushEsData(u, d, begins, size) /\ SameBlocks(w, y)
  BY <1>2 DEF Pushes, AfterUse, SameBlocks
<1>7. \A k \in DOMAIN d : Known(d[k], h) => k = 1 /\ begins
  <2>1. ASSUME NEW k \in DOMAIN d, Known(d[k], h) PROVE k = 1 /\ begins
    <3>1. k \in Nat /\ n + k \in DOMAIN data /\ d[k] = data[n + k]
      BY <1>1, <1>4
    <3>2. n + k = n + 1 /\ begins
      BY <1>3, <2>1, <3>1
    <3>3. QED
      BY <1>1, <3>1, <3>2
  <2>2. QED
    BY <2>1
<1> HIDE DEF t, d
<1>8. AllIn(PushEsData(u, d, begins, size), Headed(h))
  BY <1>1, <1>4, <1>5, <1>7, <1>10, PushHeaded
<1>9. QED
  BY <1>6, <1>8, SameAllIn

\* Blocks that say so begin with a start code when every frame that begins does.
LEMMA PayloadMarked ==
    ASSUME NEW st \in Filters, NEW data \in Seq(Data), NEW size, NEW y,
           Granted(size, data),
           PayloadSteps(st, data, size, y), NEW h, AllIn(st, Marked(h)),
           Begins(st, data) => /\ LastFramePart(st, data) < Len(data)
                               /\ Opens(data[LastFramePart(st, data) + 1], h)
    PROVE  AllIn(y, Marked(h))
<1> DEFINE n == LastFramePart(st, data)
           begins == Begins(st, data)
<1>1. n \in 0 .. Len(data) /\ begins \in BOOLEAN /\ n \in Nat
  BY LastFramePartIs DEF Begins
<1>2. PICK u \in Filters, w \in Filters : Pushes(st, data, n, begins, size, u, w, y)
  BY PayloadPushes
<1>3. begins => n < Len(data) /\ Opens(data[n + 1], h)
  OBVIOUS
<1> DEFINE t == Take(data, n)
           d == Drop(data, n)
<1>4. /\ t \in Seq(Data) /\ d \in Seq(Data) /\ Len(d) = Len(data) - n
      /\ \A k \in 1 .. (Len(data) - n) : d[k] = data[n + k]
      /\ Len(data) \in Nat
  <2> HIDE DEF n
  <2>1. t \in Seq(Data)
    BY <1>1, TakeFacts
  <2>2. /\ d \in Seq(Data) /\ Len(d) = Len(data) - n
        /\ \A k \in 1 .. (Len(data) - n) : d[k] = data[n + k]
    BY <1>1, DropFacts
  <2> HIDE DEF t, d
  <2>3. QED
    BY <2>1, <2>2, EmptyFacts
<1>10. Granted(size, t) /\ Granted(size, d)
  BY <1>1, GrantedParts
<1> HIDE DEF n, begins
<1>5. AllIn(u, Marked(h))
  <2>1. CASE n = 0
    BY <1>2, <2>1 DEF Pushes
  <2>2. CASE n # 0
    <3>1. PICK s \in Filters, z \in Filters :
            SameBlocks(st, s) /\ SameBlocks(z, u) /\ z = PushEsData(s, t, FALSE, size)
      BY <1>2, <2>2 DEF Pushes
    <3>2. AllIn(s, Marked(h)) /\ FALSE \in BOOLEAN
      BY <3>1, SameAllIn
    <3> HIDE DEF t, d
    <3>3. AllIn(PushEsData(s, t, FALSE, size), Marked(h))
      BY <1>4, <1>10, <3>2, PushMarked
    <3>4. QED
      BY <3>1, <3>3, SameAllIn
  <2>3. QED
    BY <2>1, <2>2
<1>6. w = PushEsData(u, d, begins, size) /\ SameBlocks(w, y)
  BY <1>2 DEF Pushes, AfterUse, SameBlocks
<1> HIDE DEF t, d
<1>7. begins => d # <<>> /\ Opens(d[1], h)
  <2>1. SUFFICES ASSUME begins PROVE d # <<>> /\ Opens(d[1], h)
    OBVIOUS
  <2>2. 1 \in 1 .. (Len(data) - n) /\ Len(d) # 0
    BY <1>1, <1>3, <1>4, <2>1
  <2>3. d[1] = data[n + 1] /\ d # <<>>
    BY <1>4, <2>2, EmptyFacts
  <2>4. QED
    BY <1>3, <2>1, <2>3
<1>8. AllIn(PushEsData(u, d, begins, size), Marked(h))
  BY <1>1, <1>4, <1>5, <1>7, <1>10, PushMarked
<1>9. QED
  BY <1>6, <1>8, SameAllIn

\* The bits tell the frames when nothing comes before a start code.
LEMMA PayloadTold ==
    ASSUME NEW st \in Filters, NEW data \in Seq(Data), NEW size, NEW y,
           Granted(size, data),
           PayloadSteps(st, data, size, y), NEW r \in Nat, AllIn(st, Timed), Ended(st),
           NEW begins \in BOOLEAN, begins = Begins(st, data), LastFramePart(st, data) = 0,
           begins => st.pts /\ data # <<>> /\ IsStart(data[1]),
           EndsLast(st) => Len(data) + r = 0 \/ begins,
           st.payload > 0 /\ Len(data) + r > 0
             => st.payload = (IF begins THEN 0 ELSE Len(st.data)) + (Len(data) + r)
    PROVE  Told(y, r)
<1>1. PICK u \in Filters, w \in Filters : Pushes(st, data, 0, begins, size, u, w, y)
  BY PayloadPushes
<1>2. Drop(data, 0) = data
  BY DEF Drop
<1>3. w = PushEsData(st, data, begins, size) /\ AfterUse(w, begins, y)
  BY <1>1, <1>2 DEF Pushes
<1>4. Told(PushEsData(st, data, begins, size), r)
  BY PushTold
<1>5. Told(w, r) /\ SameBlocks(w, y) /\ y.payload = w.payload
  BY <1>3, <1>4 DEF AfterUse, SameBlocks
<1>6. AllIn(y, Timed)
  BY <1>5, SameAllIn DEF Told
<1>7. QED
  BY <1>5, <1>6 DEF Told, SameBlocks, Ended, EndsLast

-----------------------------------------------------------------------------
(* Start codes among what is being sent.                                   *)

StartIn(s) == \E k \in DOMAIN s : IsStart(s[k])

\* The start code of frame f that begins at k ends at e.
CodeEnds(s, f, k, e) == CodeFrom(s, k, e) /\ s[e].frame = f

\* Data of the PES packet of frame f hold the start code of that frame only, if any, and
\* it is whole; the value 0 is this frame's.
CodeIn(s, f) ==
    \A k \in DOMAIN s :
        /\ s[k].place >= 1 /\ s[k].packet = f
        /\ s[k].value = 0 => s[k].frame = f
        /\ IsStart(s[k]) => s[k].frame = f /\ \E e \in DOMAIN s : CodeEnds(s, f, k, e)

\* No value 1 is of a frame before.
OnesOwn(s) == \A k \in DOMAIN s : s[k].value = 1 => s[k].packet = s[k].frame

SenderInv ==
    /\ CodeIn(pes.rest, frames)
    /\ \A k \in DOMAIN carry : /\ carry[k].place > 1 /\ carry[k].value # 0
                               /\ carry[k].frame = frames /\ carry[k].packet = frames + 1
    /\ ~pes.begun => StartIn(pes.rest) /\ pes.length \in {0, Len(pes.rest)}

\* Nothing of the frame comes before its start code.
LEMMA StartLeadsFrame ==
    ASSUME NEW s \in Seq(Data), NEW f, Ordered(s), CodeIn(s, f),
           NEW j \in DOMAIN s, NEW k \in DOMAIN s, s[j].frame = f, IsStart(s[k])
    PROVE  k <= j
<1>1. s[k].frame = f /\ s[k].place = 1 /\ s[j].place >= 1
  BY DEF CodeIn, IsStart
<1>2. s[j] \in Data /\ s[k] \in Data /\ j \in Int /\ k \in Int
  BY EmptyFacts
<1>3. ~Before(s[j], s[k])
  BY <1>1, <1>2 DEF Before, Data
<1>4. ~(j < k)
  BY <1>3 DEF Ordered
<1>5. QED
  BY <1>2, <1>4

\* There is one start code at most.
LEMMA StartUnique ==
    ASSUME NEW s \in Seq(Data), NEW f, Ordered(s), CodeIn(s, f),
           NEW j \in DOMAIN s, NEW k \in DOMAIN s, IsStart(s[j]), IsStart(s[k])
    PROVE  j = k
<1>1. s[j].frame = f /\ s[k].frame = f
  BY DEF CodeIn
<1>2. j <= k /\ k <= j /\ j \in Int /\ k \in Int
  BY <1>1, StartLeadsFrame, EmptyFacts
<1>3. QED
  BY <1>2

\* What is left when a piece has been cut off holds a whole start code, if it begins there.
LEMMA CodeDropped ==
    ASSUME NEW s \in Seq(Data), NEW f, CodeIn(s, f), NEW n \in 0 .. Len(s)
    PROVE  CodeIn(Drop(s, n), f)
<1> DEFINE d == Drop(s, n)
<1>1. /\ d \in Seq(Data) /\ Len(d) = Len(s) - n
      /\ \A k \in 1 .. (Len(s) - n) : d[k] = s[n + k]
  BY DropFacts
<1> HIDE DEF d
<1>2. /\ DOMAIN d = 1 .. (Len(s) - n) /\ Len(s) \in Nat /\ n \in Nat /\ n <= Len(s)
      /\ DOMAIN s = 1 .. Len(s)
  BY <1>1, EmptyFacts
<1> DEFINE m == Len(s)
<1>3. ASSUME NEW k \in DOMAIN d
      PROVE  /\ d[k].place >= 1 /\ d[k].packet = f
             /\ d[k].value = 0 => d[k].frame = f
             /\ IsStart(d[k]) => d[k].frame = f /\ \E e \in DOMAIN d : CodeEnds(d, f, k, e)
  <2>1. k \in Nat /\ k >= 1 /\ n + k \in DOMAIN s /\ d[k] = s[n + k]
    BY <1>1, <1>2
  <2>2. /\ d[k].place >= 1 /\ d[k].packet = f /\ (d[k].value = 0 => d[k].frame = f)
    BY <2>1 DEF CodeIn
  <2>3. ASSUME IsStart(d[k])
        PROVE  d[k].frame = f /\ \E e \in DOMAIN d : CodeEnds(d, f, k, e)
    <3>1. PICK e \in DOMAIN s : s[n + k].frame = f /\ CodeEnds(s, f, n + k, e)
      BY <2>1, <2>3 DEF CodeIn
    <3>2. /\ e \in {(n + k) + 2, (n + k) + 3} /\ s[e].value = 1 /\ s[e].frame = f
          /\ \A j \in (n + k) .. (e - 1) : s[j].value = 0
      BY <3>1 DEF CodeEnds, CodeFrom
    <3> DEFINE g == e - n
    <3>8. /\ m \in Nat /\ n \in Nat /\ k \in Nat /\ k >= 1 /\ e \in 1 .. m
          /\ DOMAIN d = 1 .. (m - n)
      BY <1>2, <2>1
    <3>9. e = (n + k) + 2 \/ e = (n + k) + 3
      BY <3>2
    <3> HIDE DEF m
    <3>10. g \in 1 .. (m - n) /\ n + g = e /\ (g = k + 2 \/ g = k + 3)
      BY <3>8, <3>9
    <3>3. /\ g \in 1 .. (m - n) /\ g \in DOMAIN d /\ n + g = e /\ g \in {k + 2, k + 3}
      BY <3>8, <3>10
    <3>4. d[g] = s[e]
      BY <1>1, <3>3 DEF m
    <3> HIDE DEF g
    <3>5. ASSUME NEW j \in k .. (g - 1) PROVE d[j].value = 0
      <4>1. j \in 1 .. (m - n) /\ n + j \in (n + k) .. (e - 1)
        BY <3>8, <3>10
      <4>2. d[j] = s[n + j]
        BY <1>1, <4>1 DEF m
      <4>3. QED
        BY <3>2, <4>1, <4>2
    <3>6. CodeEnds(d, f, k, g)
      BY <3>2, <3>3, <3>4, <3>5 DEF CodeEnds, CodeFrom
    <3>7. QED
      BY <2>1, <3>1, <3>3, <3>6
  <2>4. QED
    BY <2>2, <2>3
<1>4. CodeIn(d, f)
  BY <1>3 DEF CodeIn
<1>5. QED
  BY <1>4 DEF d

\* The search finds the start code that ends in a piece.
LEMMA SearchFinds ==
    ASSUME NEW s \in Seq(Data), NEW f, Ordered(s), CodeIn(s, f), NEW n \in 0 .. Len(s),
           NEW data, data = Take(s, n), OnesOwn(data),
           NEW k \in DOMAIN s, IsStart(s[k]), NEW e \in 1 .. n, CodeEnds(s, f, k, e)
    PROVE  k + 2 <= n /\ StartCodePos(data) = k - 1
<1>1. /\ data \in Seq(Data) /\ Len(data) = n /\ \A j \in 1 .. n : data[j] = s[j]
  BY TakeFacts
<1>2. /\ Len(s) \in Nat /\ DOMAIN s = 1 .. Len(s) /\ n \in Nat /\ n <= Len(s)
      /\ DOMAIN data = 1 .. n
  BY <1>1, EmptyFacts
<1>3. /\ e \in {k + 2, k + 3} /\ s[e].value = 1 /\ \A j \in k .. (e - 1) : s[j].value = 0
  BY DEF CodeEnds, CodeFrom
<1>4. k \in Nat /\ k >= 1 /\ k \in 1 .. n /\ k + 2 <= n /\ e \in Nat
  BY <1>2, <1>3
<1>5. CodeFrom(data, k, e)
  <2>1. \A j \in k .. (e - 1) : j \in 1 .. n
    BY <1>2, <1>4
  <2>2. \A j \in k .. (e - 1) : data[j].value = 0
    BY <1>1, <1>3, <2>1
  <2>3. data[e].value = 1 /\ k \in DOMAIN data /\ e \in DOMAIN data
    BY <1>1, <1>2, <1>3, <1>4
  <2>4. QED
    BY <1>3, <2>2, <2>3 DEF CodeFrom
<1>6. ASSUME NEW j \in Ones(data) PROVE e <= j
  <2>1. j \in 1 .. n /\ data[j].value = 1
    BY <1>1, <1>2 DEF Ones, CodeLen
  <2>2. j \in DOMAIN s /\ j \in DOMAIN data /\ s[j] = data[j] /\ j \in Nat
    BY <1>1, <1>2, <2>1
  <2>3. s[j].frame = f
    BY <2>1, <2>2 DEF OnesOwn, CodeIn
  <2>4. k <= j
    BY <2>2, <2>3, StartLeadsFrame
  <2>5. ~(j \in k .. (e - 1))
    BY <1>3, <2>1, <2>2
  <2>6. QED
    BY <1>4, <2>2, <2>4, <2>5
<1>7. k = 1 \/ data[k - 1].value # 0
  <2>1. SUFFICES ASSUME k # 1, data[k - 1].value = 0 PROVE FALSE
    OBVIOUS
  <2>2. k - 1 \in 1 .. n /\ k - 1 \in DOMAIN s /\ ~(k <= k - 1)
    BY <1>2, <1>4, <2>1
  <2>3. s[k - 1].frame = f
    BY <1>1, <2>1, <2>2 DEF CodeIn
  <2>4. k <= k - 1
    BY <2>2, <2>3, StartLeadsFrame
  <2>5. QED
    BY <2>2, <2>4
<1>8. StartCodePos(data) = k - 1
  BY <1>1, <1>5, <1>6, <1>7, StartCodeFound
<1>9. QED
  BY <1>4, <1>8


\* A frame behind what the last one left begins with its start code.
LEMMA CodeJoined ==
    ASSUME NEW f, NEW c \in Seq(Data), NEW code \in {CodeLen, CodeLen + 1},
           \A k \in DOMAIN c : /\ c[k].place > 1 /\ c[k].value # 0
                               /\ c[k].frame # f /\ c[k].packet = f,
           NEW n \in Nat, n >= code, NEW own, IsOwn(own, f, n, code)
    PROVE  CodeIn(c \o own, f) /\ StartIn(c \o own)
<1> DEFINE j == c \o own
           m == Len(c)
<1>1. own \in Seq(Data) /\ Len(own) = n
  BY DEF IsOwn
<1>2. /\ j \in Seq(Data) /\ Len(j) = m + n
      /\ \A k \in 1 .. m : j[k] = c[k]
      /\ \A k \in 1 .. n : j[m + k] = own[k]
  <2>1. own \in Seq(Data)
    BY <1>1
  <2>2. /\ j \in Seq(Data) /\ Len(j) = Len(c) + Len(own)
        /\ \A k \in 1 .. Len(c) : j[k] = c[k]
        /\ \A k \in 1 .. Len(own) : j[Len(c) + k] = own[k]
    BY <2>1, JoinFacts
  <2> HIDE DEF j
  <2>3. QED
    BY <1>1, <2>2
<1> HIDE DEF j
<1>3. m \in Nat /\ DOMAIN c = 1 .. m /\ DOMAIN j = 1 .. (m + n)
  BY <1>2, EmptyFacts
<1> HIDE DEF m
<1>4. \A p \in 1 .. n : /\ m + p \in DOMAIN j /\ j[m + p].place = p /\ j[m + p].frame = f
                        /\ j[m + p].packet = f /\ j[m + p].value = CodeValue(p, code)
  BY <1>2, <1>3 DEF IsOwn
<1>5. code \in Nat /\ (code = 3 \/ code = 4) /\ code \in 1 .. n /\ 1 \in 1 .. n
  BY DEF CodeLen
<1>6. CodeEnds(j, f, m + 1, m + code)
  <2>1. /\ m + 1 \in DOMAIN j /\ m + code \in DOMAIN j /\ j[m + code].frame = f
        /\ j[m + code].value = CodeValue(code, code)
    BY <1>4, <1>5
  <2>2. j[m + code].value = 1
    BY <1>5, <2>1 DEF CodeValue
  <2>3. m + code \in {(m + 1) + 2, (m + 1) + 3}
    BY <1>3, <1>5
  <2>4. ASSUME NEW k \in (m + 1) .. ((m + code) - 1) PROVE j[k].value = 0
    <3> DEFINE p == k - m
    <3>1. p \in 1 .. n /\ p < code /\ m + p = k
      BY <1>3, <1>5
    <3> HIDE DEF p
    <3>2. j[k].value = CodeValue(p, code)
      BY <1>4, <3>1
    <3>3. QED
      BY <3>1, <3>2 DEF CodeValue
  <2>5. QED
    BY <2>1, <2>2, <2>3, <2>4 DEF CodeEnds, CodeFrom
<1>7. ASSUME NEW k \in DOMAIN j
      PROVE  /\ j[k].place >= 1 /\ j[k].packet = f
             /\ j[k].value = 0 => j[k].frame = f
             /\ IsStart(j[k]) => j[k].frame = f /\ \E e \in DOMAIN j : CodeEnds(j, f, k, e)
  <2>1. CASE k <= m
    <3>1. k \in 1 .. m
      BY <1>3, <2>1
    <3>2. j[k] \in Data
      BY <1>2, EmptyFacts
    <3>3. j[k].place > 1 /\ j[k].value # 0 /\ j[k].packet = f /\ j[k].place \in Nat
      BY <1>2, <1>3, <3>1, <3>2 DEF Data
    <3>4. QED
      BY <3>3 DEF IsStart
  <2>2. CASE k > m
    <3> DEFINE p == k - m
    <3>1. p \in 1 .. n /\ p \in Nat /\ m + p = k
      BY <1>3, <2>2
    <3>2. j[k].place = p /\ j[k].frame = f /\ j[k].packet = f
      BY <1>4, <3>1
    <3> HIDE DEF p
    <3>3. ASSUME IsStart(j[k])
          PROVE  \E e \in DOMAIN j : CodeEnds(j, f, k, e)
      <4>1. k = m + 1
        BY <3>1, <3>2, <3>3 DEF IsStart
      <4>2. m + code \in DOMAIN j
        BY <1>4, <1>5
      <4>3. QED
        BY <1>6, <4>1, <4>2
    <3>4. QED
      BY <3>1, <3>2, <3>3
  <2>3. QED
    BY <1>3, <2>1, <2>2
<1>8. CodeIn(j, f)
  BY <1>7 DEF CodeIn
<1>9. StartIn(j)
  <2>1. m + 1 \in DOMAIN j /\ IsStart(j[m + 1])
    BY <1>4, <1>5 DEF IsStart
  <2>2. QED
    BY <2>1 DEF StartIn
<1>10. QED
  BY <1>8, <1>9 DEF j

\* What a packet that arrives does.
Arrives(n, size, s, y) ==
    /\ Started(s) /\ Handled(s, Take(pes.rest, n), size, y) /\ HandledAdds(s, n, y)
    /\ Granted(size, Take(pes.rest, n))
    /\ filter' = y /\ pes' \in PesPackets /\ pes'.rest = Drop(pes.rest, n)
    /\ pes'.length = pes.length /\ pes'.begun = TRUE
    /\ received' = IF y.state = "skip" THEN received ELSE received \o Take(pes.rest, n)
    /\ headers' = IF pes.begun THEN headers ELSE headers \cup {frames}
    /\ cut' = IF CutsCode(n) THEN cut \cup {frames} ELSE cut
    /\ frames' = frames /\ carry' = carry /\ lost' = lost

LEMMA HandlePacketIs ==
    ASSUME TsTypeOK, HandlePacket
    PROVE  \E n \in Pieces : \E size : \E s, y \in Filters : Arrives(n, size, s, y)
<1>1. PICK n \in Pieces : \E size \in [ToSet(Take(pes.rest, n)) -> BlockSizes] :
        LET piece == Take(pes.rest, n) IN
        /\ Sent(n)
        /\ cut' = IF CutsCode(n) THEN cut \cup {frames} ELSE cut
        /\ filter' = HandlePacketPayload(filter, ~pes.begun, pes.length, piece, size)
        /\ received' = IF filter'.state = "skip" THEN received ELSE received \o piece
        /\ headers' = IF pes.begun THEN headers ELSE headers \cup {frames}
        /\ UNCHANGED <<frames, carry, lost>>
  BY DEF HandlePacket
<1> DEFINE piece == Take(pes.rest, n)
<1>2. PICK size \in [ToSet(piece) -> BlockSizes] :
        /\ Sent(n)
        /\ cut' = IF CutsCode(n) THEN cut \cup {frames} ELSE cut
        /\ filter' = HandlePacketPayload(filter, ~pes.begun, pes.length, piece, size)
        /\ received' = IF filter'.state = "skip" THEN received ELSE received \o piece
        /\ headers' = IF pes.begun THEN headers ELSE headers \cup {frames}
        /\ UNCHANGED <<frames, carry, lost>>
  BY <1>1
<1>3. Granted(size, piece)
  BY <1>1, SizesGranted
<1>4. PICK s \in Filters, y \in Filters :
        /\ y = HandlePacketPayload(filter, ~pes.begun, pes.length, piece, size)
        /\ Started(s) /\ Handled(s, piece, size, y)
  BY <1>1, <1>3, HandledIs
<1>5. filter' = y
  BY <1>2, <1>4
<1>6. HandledAdds(s, n, y)
  BY <1>1, <1>4, HandledOut
<1>7. /\ pes' \in PesPackets /\ pes'.rest = Drop(pes.rest, n)
      /\ pes'.length = pes.length /\ pes'.begun = TRUE
  BY <1>1, <1>2, SentIs
<1>8. Arrives(n, size, s, y)
  BY <1>2, <1>3, <1>4, <1>5, <1>6, <1>7 DEF Arrives
<1>9. QED
  BY <1>1, <1>8

\* A packet that arrives or is lost leaves the sender's data as they were.
LEMMA ArrivesSender ==
    ASSUME OrderIInv, SenderInv, NEW n \in Pieces, NEW size,
           NEW s \in Filters, NEW y \in Filters, Arrives(n, size, s, y)
    PROVE  SenderInv'
<1>1. TsTypeOK
  BY DEF OrderIInv
<1>2. pes.rest \in Seq(Data) /\ n \in 0 .. Len(pes.rest)
  BY <1>1, PieceIs
<1>3. CodeIn(Drop(pes.rest, n), frames)
  BY <1>2, CodeDropped DEF SenderInv
<1>4. CodeIn(pes'.rest, frames')
  BY <1>3 DEF Arrives
<1>5. pes'.begun = TRUE /\ carry' = carry /\ frames' = frames
  BY DEF Arrives
<1>6. QED
  BY <1>4, <1>5 DEF SenderInv

LEMMA LosePacketSender ==
    ASSUME OrderIInv, SenderInv, LosePacket
    PROVE  SenderInv'
<1>1. TsTypeOK
  BY DEF OrderIInv
<1>2. PICK n \in Pieces : Sent(n)
  BY DEF LosePacket
<1>3. pes'.rest = Drop(pes.rest, n) /\ pes'.begun = TRUE
  BY <1>1, <1>2, SentIs
<1>4. frames' = frames /\ carry' = carry
  BY DEF LosePacket
<1>5. CodeIn(Drop(pes.rest, n), frames)
  BY <1>1, PieceIs, CodeDropped DEF SenderInv
<1>6. QED
  BY <1>3, <1>4, <1>5 DEF SenderInv

LEMMA BeginFrameSender ==
    ASSUME OrderIInv, SenderInv, BeginFrame
    PROVE  SenderInv'
<1>1. TsTypeOK
  BY DEF OrderIInv
<1> DEFINE f == frames + 1
<1>2. PICK c \in {CodeLen, CodeLen + 1}, n \in Nat, r \in Nat, v \in {1, Other} :
        /\ n >= c /\ frames' = f /\ pes.begun /\ pes.rest = <<>>
        /\ pes' \in PesPackets /\ pes'.begun = FALSE
        /\ pes'.rest = carry \o Own(f, n, c)
        /\ pes'.length \in {0, Len(pes'.rest)}
        /\ carry' = Left(f, n, r, v)
  BY <1>1, BeginFrameIs
<1>3. frames \in Nat /\ f \in Nat /\ carry \in Seq(Data) /\ f # frames /\ c \in Nat
  BY <1>1 DEF TsTypeOK, CodeLen
<1>4. \A k \in DOMAIN carry : /\ carry[k].place > 1 /\ carry[k].value # 0
                              /\ carry[k].frame # f /\ carry[k].packet = f
  BY <1>3 DEF SenderInv
<1> HIDE DEF f
<1> DEFINE own == Own(f, n, c)
           next == Left(f, n, r, v)
<1>5. IsOwn(own, f, n, c) /\ IsLeft(next, f, n, r)
  BY <1>3, FrameIs
<1> HIDE DEF own, next
<1>6. CodeIn(carry \o own, f) /\ StartIn(carry \o own)
  BY <1>2, <1>3, <1>4, <1>5, CodeJoined
<1>7. \A k \in DOMAIN next : /\ next[k].place > 1 /\ next[k].value # 0
                             /\ next[k].frame = f /\ next[k].packet = f + 1
  <2>1. next \in Seq(Data) /\ Len(next) = r /\ \A k \in 1 .. r :
          next[k].frame = f /\ next[k].place = n + k /\ next[k].packet = f + 1
          /\ next[k].value # 0
    BY <1>5 DEF IsLeft
  <2>2. DOMAIN next = 1 .. r
    BY <2>1, EmptyFacts
  <2>3. n > 0
    BY <1>2 DEF CodeLen
  <2>4. QED
    BY <1>2, <2>1, <2>2, <2>3
<1>8. pes'.rest = carry \o own /\ carry' = next
  BY <1>2 DEF own, next
<1>9. QED
  BY <1>2, <1>6, <1>7, <1>8 DEF SenderInv
-----------------------------------------------------------------------------
(* What is in a block has come out of the filter.                          *)

Holds(s, d) == \E i \in DOMAIN s : s[i] = d

LEMMA HoldsJoin ==
    ASSUME NEW S, NEW s \in Seq(S), NEW t \in Seq(S), NEW d, Holds(s, d) \/ Holds(t, d)
    PROVE  Holds(s \o t, d)
<1> DEFINE j == s \o t
<1>1. /\ j \in Seq(S) /\ Len(j) = Len(s) + Len(t)
      /\ \A k \in 1 .. Len(s) : j[k] = s[k]
      /\ \A k \in 1 .. Len(t) : j[Len(s) + k] = t[k]
  BY JoinFacts
<1> HIDE DEF j
<1>2. /\ DOMAIN j = 1 .. Len(j) /\ DOMAIN s = 1 .. Len(s) /\ DOMAIN t = 1 .. Len(t)
      /\ Len(s) \in Nat /\ Len(t) \in Nat
  BY <1>1, EmptyFacts
<1>3. ASSUME NEW i \in DOMAIN s, s[i] = d PROVE Holds(j, d)
  <2>1. i \in DOMAIN j /\ j[i] = d
    BY <1>1, <1>2, <1>3
  <2>2. QED
    BY <2>1 DEF Holds
<1>4. ASSUME NEW i \in DOMAIN t, t[i] = d PROVE Holds(j, d)
  <2>1. Len(s) + i \in DOMAIN j /\ j[Len(s) + i] = d
    BY <1>1, <1>2, <1>4
  <2>2. QED
    BY <2>1 DEF Holds
<1>5. Holds(j, d)
  BY <1>3, <1>4 DEF Holds
<1>6. QED
  BY <1>5 DEF j

\* FlattenSeq loses nothing.
LEMMA FlattenHolds ==
    ASSUME NEW S, NEW s \in Seq(Seq(S)), NEW k \in DOMAIN s, NEW d, Holds(s[k], d)
    PROVE  Holds(FlattenSeq(s), d)
<1> DEFINE n == Len(s)
<1>1. n \in Nat /\ k \in 1 .. n /\ n \in 1 .. n /\ s # <<>> /\ \A i \in 1 .. n : s[i] \in Seq(S)
  <2>1. n \in Nat /\ DOMAIN s = 1 .. n /\ (s = <<>> <=> n = 0)
        /\ \A i \in DOMAIN s : s[i] \in Seq(S)
    BY EmptyFacts
  <2> HIDE DEF n
  <2>2. QED
    BY <2>1
<1>2. PICK g : Flattens(g, s, n) /\ FlattenSeq(s) = g[n]
  BY <1>1, FlattenSeqIs
<1> HIDE DEF n
<1>3. \A i \in 1 .. n : g[i] = IF i = 1 THEN s[i] ELSE g[i - 1] \o s[i]
  BY <1>2 DEF Flattens
<1>4. \A i \in 1 .. n : g[i] \in Seq(S)
  <2>1. n \in n .. (n + 1)
    BY <1>1
  <2>2. QED
    BY <1>1, <1>2, <2>1, FlattensSame
<1> DEFINE T == {m \in Nat : m \in k .. n => Holds(g[m], d)}
<1>5. 0 \in T
  BY <1>1
<1>6. ASSUME NEW m \in Nat, m \in T PROVE m + 1 \in T
  <2>1. SUFFICES ASSUME m + 1 \in k .. n PROVE Holds(g[m + 1], d)
    OBVIOUS
  <2>2. m + 1 \in 1 .. n
    BY <1>1, <2>1
  <2>3. CASE m = 0
    <3>1. k = 1 /\ m + 1 = 1 /\ 1 \in 1 .. n
      BY <1>1, <2>1, <2>3
    <3>2. g[1] = s[1]
      BY <1>3, <3>1
    <3>3. QED
      BY <3>1, <3>2
  <2>4. CASE m # 0
    <3>1. m \in 1 .. n /\ (m + 1) - 1 = m /\ m + 1 # 1
      BY <1>1, <2>2, <2>4
    <3>2. g[m + 1] = g[m] \o s[m + 1]
      BY <1>3, <2>2, <3>1
    <3>3. Holds(g[m], d) \/ Holds(s[m + 1], d)
      <4>1. CASE m + 1 = k
        BY <4>1
      <4>2. CASE m + 1 # k
        <5>1. m \in k .. n
          BY <1>1, <2>1, <4>2
        <5>2. QED
          BY <1>6, <5>1
      <4>3. QED
        BY <4>1, <4>2
    <3>4. g[m] \in Seq(S) /\ s[m + 1] \in Seq(S)
      BY <1>1, <1>4, <2>2, <3>1
    <3>5. Holds(g[m] \o s[m + 1], d)
      <4> DEFINE a == g[m]
                 b == s[m + 1]
      <4>1. a \in Seq(S) /\ b \in Seq(S) /\ (Holds(a, d) \/ Holds(b, d))
        BY <3>3, <3>4
      <4> HIDE DEF a, b
      <4>2. Holds(a \o b, d)
        BY <4>1, HoldsJoin
      <4>3. QED
        BY <4>2 DEF a, b
    <3>6. QED
      BY <3>2, <3>5
  <2>5. QED
    BY <2>3, <2>4
<1> HIDE DEF T
<1>7. Nat \subseteq T
  BY <1>5, <1>6, InductionLemma
<1>8. Holds(g[n], d)
  <2>1. n \in k .. n
    BY <1>1
  <2>2. QED
    BY <1>1, <1>7, <2>1 DEF T
<1>9. QED
  BY <1>2, <1>8

\* What is in a block has come out.
LEMMA BlocksHold ==
    ASSUME NEW st \in Filters, NEW d,
           \/ \E k \in DOMAIN st.out : Holds(st.out[k].data, d)
           \/ Holds(st.data, d)
    PROVE  Holds(Out(st), d)
<1> DEFINE o == DataOf(st.out)
           q == FlattenSeq(o)
           t == st.data
<1>1. st.out \in Seq(Block) /\ t \in Seq(Data)
  BY DEF Filters
<1>2. NoBlock \in Block /\ <<>> \in Seq(Data)
  BY DEF NoBlock, Block
<1>3. o \in Seq(Seq(Data))
  BY <1>1, <1>2, DataOfAppend
<1>4. DOMAIN o = DOMAIN st.out /\ \A k \in DOMAIN o : o[k] = st.out[k].data
  BY <1>1 DEF DataOf
<1> HIDE DEF o
<1>5. q \in Seq(Data)
  BY <1>2, <1>3, FlattenAppend
<1>6. Holds(q, d) \/ Holds(t, d)
  <2>1. ASSUME NEW k \in DOMAIN st.out, Holds(st.out[k].data, d)
        PROVE  Holds(q, d)
    <3>1. k \in DOMAIN o /\ Holds(o[k], d)
      BY <1>4, <2>1
    <3>2. QED
      BY <1>3, <3>1, FlattenHolds
  <2>2. QED
    BY <2>1
<1> HIDE DEF q, t
<1>7. Holds(q \o t, d)
  BY <1>1, <1>5, <1>6, HoldsJoin
<1>8. QED
  BY <1>7 DEF Out, q, t, o

\* A frame whose start code has not come out yet is added to those that blocks begin with.
LEMMA HeadedMore ==
    ASSUME NEW st \in Filters, NEW h, NEW f, AllIn(st, Headed(h)),
           \A d : Holds(Out(st), d) => ~(IsStart(d) /\ d.frame = f)
    PROVE  AllIn(st, Headed(h \cup {f}))
<1> DEFINE G == Headed(h \cup {f})
<1>1. st.out \in Seq(Headed(h)) /\ Current(st) \in Headed(h)
  BY DEF AllIn
<1>2. ASSUME NEW b \in Headed(h),
             \A j \in DOMAIN b.data : ~(IsStart(b.data[j]) /\ b.data[j].frame = f)
      PROVE  b \in G
  <2>1. \A j \in DOMAIN b.data : Known(b.data[j], h \cup {f}) => Known(b.data[j], h)
    BY <1>2 DEF Known
  <2>2. QED
    BY <2>1 DEF Headed
<1> HIDE DEF G
<1>3. Current(st) \in G
  <2>1. \A j \in DOMAIN st.data : Holds(st.data, st.data[j])
    BY DEF Holds
  <2>2. \A j \in DOMAIN st.data : ~(IsStart(st.data[j]) /\ st.data[j].frame = f)
    BY <2>1, BlocksHold
  <2> DEFINE b == Current(st)
  <2>3. b.data = st.data
    BY DEF Current
  <2> HIDE DEF b
  <2>4. \A j \in DOMAIN b.data : ~(IsStart(b.data[j]) /\ b.data[j].frame = f)
    BY <2>2, <2>3
  <2>5. QED
    BY <1>1, <1>2, <2>4 DEF b
<1>4. st.out \in Seq(G)
  <2>1. \A k \in DOMAIN st.out : st.out[k] \in Headed(h)
    BY <1>1, EmptyFacts
  <2>2. ASSUME NEW k \in DOMAIN st.out PROVE st.out[k] \in G
    <3> DEFINE b == st.out[k]
    <3>1. \A j \in DOMAIN b.data : Holds(b.data, b.data[j])
      BY DEF Holds
    <3>2. \A j \in DOMAIN b.data : ~(IsStart(b.data[j]) /\ b.data[j].frame = f)
      BY <3>1, BlocksHold
    <3>3. b \in Headed(h)
      BY <2>1
    <3> HIDE DEF b
    <3>4. b \in G
      BY <1>2, <3>2, <3>3
    <3>5. QED
      BY <3>4 DEF b
  <2> DEFINE o == st.out
  <2>3. o \in Seq(Headed(h)) /\ \A k \in DOMAIN o : o[k] \in G
    BY <1>1, <2>2
  <2> HIDE DEF o
  <2>4. DOMAIN o = 1 .. Len(o) /\ Len(o) \in Nat
    BY <2>3, EmptyFacts
  <2>5. o \in Seq(G)
    BY <2>3, <2>4
  <2>6. QED
    BY <2>5 DEF o
<1>5. QED
  BY <1>3, <1>4 DEF AllIn, G

-----------------------------------------------------------------------------
(* The frames.                                                             *)

\* What joined data are, both parts are.
AllOf(s, P) == \A k \in DOMAIN s : s[k] \in P

LEMMA JoinedParts ==
    ASSUME NEW s \in Seq(Data), NEW t \in Seq(Data), NEW P, AllOf(s \o t, P)
    PROVE  AllOf(s, P) /\ AllOf(t, P)
<1> DEFINE j == s \o t
<1>1. /\ j \in Seq(Data) /\ Len(j) = Len(s) + Len(t)
      /\ \A k \in 1 .. Len(s) : j[k] = s[k]
      /\ \A k \in 1 .. Len(t) : j[Len(s) + k] = t[k]
  BY JoinFacts
<1>2. AllOf(j, P)
  OBVIOUS
<1> HIDE DEF j
<1>3. /\ DOMAIN j = 1 .. Len(j) /\ DOMAIN s = 1 .. Len(s) /\ DOMAIN t = 1 .. Len(t)
      /\ Len(s) \in Nat /\ Len(t) \in Nat
  BY <1>1, EmptyFacts
<1>4. ASSUME NEW k \in DOMAIN s PROVE s[k] \in P
  <2>1. k \in DOMAIN j /\ j[k] = s[k]
    BY <1>1, <1>3
  <2>2. QED
    BY <1>2, <2>1 DEF AllOf
<1>5. ASSUME NEW k \in DOMAIN t PROVE t[k] \in P
  <2>1. Len(s) + k \in DOMAIN j /\ j[Len(s) + k] = t[k]
    BY <1>1, <1>3
  <2>2. QED
    BY <1>2, <2>1 DEF AllOf
<1>6. QED
  BY <1>4, <1>5 DEF AllOf

StrayFree == {d \in Data : d.value = 1 => d.packet = d.frame}
OwnPacket == {d \in Data : d.packet = d.frame}

LEMMA ReceivedAre ==
    ASSUME NEW s \in Seq(Data)
    PROVE  /\ AllOf(s, StrayFree) <=> OnesOwn(s)
           /\ AllOf(s, OwnPacket) <=> \A k \in DOMAIN s : s[k].packet = s[k].frame
<1>1. \A k \in DOMAIN s : s[k] \in Data
  BY EmptyFacts
<1>2. QED
  BY <1>1 DEF AllOf, StrayFree, OwnPacket, OnesOwn

\* What of a packet that arrives concerns the frames: those of the filter's own packet
\* reach it whole.
Reaches(n, size, s, y) ==
    LET piece == Take(pes.rest, n) IN
    /\ SameBlocks(filter, s) /\ Granted(size, piece)
    /\ NoStrayOne' => NoStrayOne
    /\ NothingLeft' => NothingLeft
    /\ frames \in headers' =>
         /\ NoStrayOne' => OnesOwn(piece)
         /\ NothingLeft' => AllOf(piece, OwnPacket)
         /\ n = 0 => y = s
         /\ n # 0 => PayloadSteps(s, piece, size, y)
    /\ frames \notin headers' =>
         /\ s = filter /\ headers' = headers
         /\ \/ y = s
            \/ \E m \in 0 .. n : /\ Granted(size, Take(pes.rest, m))
                                 /\ PayloadSteps(s, Take(pes.rest, m), size, y)
    /\ ~lost' => frames \in headers'

LEMMA ArrivesReaches ==
    ASSUME OrderIInv, NEW n \in Pieces, NEW size,
           NEW s \in Filters, NEW y \in Filters, Arrives(n, size, s, y)
    PROVE  Reaches(n, size, s, y)
<1>1. TsTypeOK
  BY DEF OrderIInv
<1> DEFINE piece == Take(pes.rest, n)
<1>2. /\ pes.rest \in Seq(Data) /\ n \in 0 .. Len(pes.rest) /\ (n > 0 \/ ~pes.begun)
      /\ piece \in Seq(Data) /\ Len(piece) = n /\ Len(pes.rest) \in Nat /\ n \in Nat
  <2>1. /\ pes.rest \in Seq(Data) /\ n \in 0 .. Len(pes.rest) /\ (n > 0 \/ ~pes.begun)
        /\ piece \in Seq(Data) /\ Len(piece) = n
    BY <1>1, PieceIs
  <2>2. QED
    BY <2>1, EmptyFacts
<1>3. received \in Seq(Data) /\ pes.length \in Nat
  BY <1>1 DEF TsTypeOK, PesPackets
<1>4. SameBlocks(filter, s)
  BY DEF Arrives, Started, SameBlocks
<1> HIDE DEF piece
<1>5. y.state = s.state
  BY DEF Arrives, HandledAdds
<1>6. received' = IF y.state = "skip" THEN received ELSE received \o piece
  BY DEF Arrives, piece
<1>7. received' \in Seq(Data)
  BY <1>2, <1>3, <1>6, JoinFacts
<1>8. NoStrayOne <=> AllOf(received, StrayFree)
  BY <1>3, ReceivedAre DEF NoStrayOne, OnesOwn
<1>9. NothingLeft <=> AllOf(received, OwnPacket)
  BY <1>3, ReceivedAre DEF NothingLeft
<1>10. NoStrayOne' <=> AllOf(received', StrayFree)
  <2> DEFINE r == received'
  <2>1. NoStrayOne' <=> OnesOwn(r)
    BY DEF NoStrayOne, OnesOwn
  <2>2. r \in Seq(Data)
    BY <1>7
  <2> HIDE DEF r
  <2>3. AllOf(r, StrayFree) <=> OnesOwn(r)
    BY <2>2, ReceivedAre
  <2>4. QED
    BY <2>1, <2>3 DEF r
<1>11. NothingLeft' <=> AllOf(received', OwnPacket)
  <2> DEFINE r == received'
  <2>1. NothingLeft' <=> \A k \in DOMAIN r : r[k].packet = r[k].frame
    BY DEF NothingLeft
  <2>2. r \in Seq(Data)
    BY <1>7
  <2> HIDE DEF r
  <2>3. AllOf(r, OwnPacket) <=> \A k \in DOMAIN r : r[k].packet = r[k].frame
    BY <2>2, ReceivedAre
  <2>4. QED
    BY <2>1, <2>3 DEF r
<1>12. ASSUME NEW P, AllOf(received', P)
       PROVE  AllOf(received, P) /\ (y.state # "skip" => AllOf(piece, P))
  <2>1. CASE y.state = "skip"
    BY <1>6, <1>12, <2>1
  <2>2. CASE y.state # "skip"
    <3>1. AllOf(received \o piece, P)
      BY <1>6, <1>12, <2>2
    <3>2. QED
      BY <1>2, <1>3, <3>1, JoinedParts
  <2>3. QED
    BY <2>1, <2>2
<1>13. (NoStrayOne' => NoStrayOne) /\ (NothingLeft' => NothingLeft)
  BY <1>8, <1>9, <1>10, <1>11, <1>12
<1>14. Handled(s, piece, size, y)
  BY DEF Arrives, piece
<1>20. Granted(size, piece)
  BY DEF Arrives, piece
<1> DEFINE data == Allowed(s, piece)
<1>15. \/ (s.state = "skip" \/ data = <<>>) /\ y = s
       \/ s.state # "skip" /\ data # <<>> /\ PayloadSteps(s, data, size, y)
  BY <1>14 DEF Handled, PayloadDone
<1>16. ASSUME frames \in headers'
       PROVE  /\ NoStrayOne' => OnesOwn(piece)
              /\ NothingLeft' => AllOf(piece, OwnPacket)
              /\ n = 0 => y = s
              /\ n # 0 => PayloadSteps(s, piece, size, y)
  <2>1. s.total = pes.length /\ s.state = "payload"
    BY <1>16 DEF OrderIInv, HeaderInv, Arrives, Started
  <2>2. s.total = 0 \/ Len(piece) <= s.total
    BY <1>2, <1>3, <2>1 DEF OrderIInv, HeaderInv
  <2>3. data = piece
    BY <1>2, <2>2, AllowedIs
  <2>4. piece = <<>> <=> n = 0
    BY <1>2, EmptyFacts
  <2>5. NoStrayOne' => AllOf(piece, StrayFree)
    BY <1>5, <1>10, <1>12, <2>1
  <2>6. NothingLeft' => AllOf(piece, OwnPacket)
    BY <1>5, <1>11, <1>12, <2>1
  <2>7. AllOf(piece, StrayFree) <=> OnesOwn(piece)
    BY <1>2, ReceivedAre
  <2> HIDE DEF data
  <2>8. (n = 0 => y = s) /\ (n # 0 => PayloadSteps(s, piece, size, y))
    BY <1>15, <2>1, <2>3, <2>4
  <2>9. QED
    BY <2>5, <2>6, <2>7, <2>8
<1>17. ASSUME frames \notin headers'
       PROVE  /\ s = filter /\ headers' = headers
              /\ \/ y = s
                 \/ \E m \in 0 .. n : /\ Granted(size, Take(pes.rest, m))
                                      /\ PayloadSteps(s, Take(pes.rest, m), size, y)
  <2>1. pes.begun /\ headers' = headers /\ s = filter
    BY <1>1, <1>17 DEF Arrives, Started, TsTypeOK, PesPackets
  <2>2. PICK m \in 0 .. n : data = Take(piece, m)
    BY <1>2, AllowedIs
  <2>3. Take(piece, m) = Take(pes.rest, m)
    <3>1. m \in 0 .. Len(pes.rest) /\ m \in 0 .. Len(piece)
      BY <1>2
    <3>2. /\ Take(piece, m) \in Seq(Data) /\ Len(Take(piece, m)) = m
          /\ \A k \in 1 .. m : Take(piece, m)[k] = piece[k]
      BY <1>2, <3>1, TakeFacts
    <3>3. /\ Take(pes.rest, m) \in Seq(Data) /\ Len(Take(pes.rest, m)) = m
          /\ \A k \in 1 .. m : Take(pes.rest, m)[k] = pes.rest[k]
      BY <1>2, <3>1, TakeFacts
    <3>4. \A k \in 1 .. n : piece[k] = pes.rest[k]
      BY <1>2, TakeFacts DEF piece
    <3> DEFINE a == Take(piece, m)
               b == Take(pes.rest, m)
    <3> HIDE DEF a, b
    <3>5. a \in Seq(Data) /\ b \in Seq(Data) /\ Len(a) = Len(b)
          /\ \A k \in 1 .. Len(a) : a[k] = b[k]
      BY <1>2, <3>2, <3>3, <3>4 DEF a, b
    <3>6. a = b
      BY <3>5, SeqEqual
    <3>7. QED
      BY <3>6 DEF a, b
  <2>4. Granted(size, data)
    <3>1. m \in 0 .. Len(piece)
      BY <1>2
    <3> HIDE DEF data
    <3>2. QED
      BY <1>2, <1>20, <2>2, <3>1, GrantedParts
  <2> HIDE DEF data
  <2>5. QED
    BY <1>15, <2>1, <2>2, <2>3, <2>4
<1>18. ~lost' => frames \in headers'
  <2>1. n > 0 => pes.rest # <<>>
    BY <1>2
  <2>2. QED
    BY <1>1, <1>2, <2>1 DEF Arrives, OrderIInv, HeaderInv, TsTypeOK, PesPackets
<1>19. QED
  BY <1>4, <1>13, <1>16, <1>17, <1>18, <1>20 DEF Reaches, piece

\* What the search makes of a piece of a packet with a start code at k.
Searched(s, n, piece, k) ==
    /\ k <= n /\ s.isNew => Begins(s, piece) /\ LastFramePart(s, piece) = k - 1
    /\ k > n => ~Begins(s, piece)

LEMMA PieceSearch ==
    ASSUME OrderIInv, SenderInv, NEW n \in Pieces, n # 0, ~CutsCode(n), NEW s \in Filters,
           NEW piece, piece = Take(pes.rest, n), OnesOwn(piece),
           NEW k \in DOMAIN pes.rest, IsStart(pes.rest[k])
    PROVE  Searched(s, n, piece, k)
<1> DEFINE rest == pes.rest
<1>1. TsTypeOK /\ Ordered(rest) /\ CodeIn(rest, frames)
  BY DEF OrderIInv, OrderInv, Follow, SenderInv
<1>2. /\ rest \in Seq(Data) /\ n \in 0 .. Len(rest) /\ piece \in Seq(Data) /\ Len(piece) = n
  BY <1>1, PieceIs
<1>3. /\ DOMAIN rest = 1 .. Len(rest) /\ Len(rest) \in Nat /\ n \in Nat /\ n > 0
      /\ k \in Nat /\ k >= 1
  BY <1>2, EmptyFacts
<1>4. \A j \in 1 .. n : piece[j] = rest[j]
  BY <1>2, TakeFacts
<1>5. PICK e \in DOMAIN rest : rest[k].frame = frames /\ CodeEnds(rest, frames, k, e)
  BY <1>1 DEF CodeIn
<1>6. rest[e].value = 1 /\ rest[e].frame = frames /\ e \in Nat /\ e >= 1
  BY <1>3, <1>5 DEF CodeEnds, CodeFrom
<1>7. /\ n < CodeLen => ~(k > 1)
      /\ ~(n < CodeLen) => ~(k <= n /\ n < e)
  BY <1>3, <1>5, <1>6 DEF CutsCode
<1> HIDE DEF rest
<1>8. ASSUME k <= n, s.isNew
      PROVE  Begins(s, piece) /\ LastFramePart(s, piece) = k - 1
  <2>1. CASE n < CodeLen
    <3>1. k - 1 = 0 /\ ~(Len(piece) >= CodeLen)
      BY <1>2, <1>3, <1>7, <2>1 DEF CodeLen
    <3>2. QED
      BY <1>8, <3>1 DEF Begins, LastFramePart
  <2>2. CASE ~(n < CodeLen)
    <3>1. e \in 1 .. n
      BY <1>3, <1>6, <1>7, <1>8, <2>2
    <3>2. piece = Take(rest, n) /\ k \in DOMAIN rest /\ IsStart(rest[k])
      BY DEF rest
    <3>3. k + 2 <= n /\ StartCodePos(piece) = k - 1
      BY <1>1, <1>2, <1>5, <3>1, <3>2, SearchFinds
    <3>4. Len(piece) >= CodeLen /\ StartCodePos(piece) < Len(piece)
      BY <1>2, <1>3, <3>3 DEF CodeLen
    <3>5. QED
      BY <1>8, <3>3, <3>4 DEF Begins, LastFramePart
  <2>3. QED
    BY <2>1, <2>2
<1>9. ASSUME k > n, Begins(s, piece)
      PROVE  FALSE
  <2>1. ~(n < CodeLen) /\ n >= CodeLen
    BY <1>3, <1>7, <1>9 DEF CodeLen
  <2> DEFINE p == StartCodePos(piece)
  <2>2. FoundAt(piece, p) /\ p < Len(piece)
    BY <1>2, <1>9, <2>1, StartCodeIs DEF Begins
  <2> HIDE DEF p
  <2>3. p \in 0 .. n /\ p < n /\ piece[p + 1].value = 0
    BY <1>2, <2>2 DEF FoundAt
  <2>4. p + 1 \in 1 .. n /\ p + 1 \in DOMAIN rest /\ ~(k <= p + 1)
    BY <1>2, <1>3, <1>9, <2>3
  <2>5. rest[p + 1].frame = frames
    BY <1>1, <1>4, <2>3, <2>4 DEF CodeIn
  <2>6. k \in DOMAIN rest /\ IsStart(rest[k])
    BY DEF rest
  <2>7. k <= p + 1
    BY <1>1, <1>2, <2>4, <2>5, <2>6, StartLeadsFrame
  <2>8. QED
    BY <2>4, <2>7
<1>10. QED
  BY <1>8, <1>9 DEF Searched

-----------------------------------------------------------------------------
(* A block of its own for each frame whose PES header arrived and whose    *)
(* start code no packet cuts.                                              *)

\* The start codes of these frames begin the blocks, and the filter still looks for the
\* one that is being sent.
HeadedInv ==
    NoStrayOne =>
        /\ AllIn(filter, Headed(headers \ cut))
        /\ frames \in headers \ cut /\ StartIn(pes.rest) => filter.isNew

\* What of the data being sent has come out already holds no start code still to come.
LEMMA StartAhead ==
    ASSUME OrderIInv, SenderInv, StartIn(pes.rest), NEW d, Holds(Out(filter), d)
    PROVE  ~(IsStart(d) /\ d.frame = frames)
<1>1. AllBefore(Out(filter), pes.rest) /\ CodeIn(pes.rest, frames) /\ frames \in Nat
  BY DEF OrderIInv, TsTypeOK, OrderInv, Follow, SenderInv
<1>2. PICK k \in DOMAIN pes.rest : IsStart(pes.rest[k])
  BY DEF StartIn
<1>3. pes.rest[k].frame = frames /\ pes.rest[k].place = 1
  BY <1>1, <1>2 DEF CodeIn, IsStart
<1>4. PICK i \in DOMAIN Out(filter) : Out(filter)[i] = d
  BY DEF Holds
<1>5. Before(d, pes.rest[k])
  BY <1>1, <1>4 DEF AllBefore
<1>6. QED
  BY <1>1, <1>3, <1>5 DEF Before, IsStart

\* The header of a PES packet makes the filter look for a frame.
LEMMA StartedHeaded ==
    ASSUME OrderIInv, SenderInv, HeadedInv, NoStrayOne, NEW n \in Pieces,
           NEW size, NEW s \in Filters, NEW y \in Filters,
           Arrives(n, size, s, y), SameBlocks(filter, s)
    PROVE  /\ AllIn(s, Headed(headers' \ cut'))
           /\ frames \in headers' \ cut' /\ StartIn(pes.rest) => s.isNew
<1>1. pes.begun \in BOOLEAN /\ filter \in Filters /\ AllIn(filter, Headed(headers \ cut))
  BY DEF OrderIInv, TsTypeOK, PesPackets, HeadedInv
<1>2. cut \subseteq cut'
  BY DEF Arrives
<1> DEFINE g == headers' \ cut'
<1>3. CASE pes.begun
  <2>1. s = filter /\ headers' = headers /\ g \subseteq headers \ cut
    BY <1>2, <1>3 DEF Arrives, Started
  <2> HIDE DEF g
  <2>2. AllIn(filter, Headed(g))
    BY <1>1, <2>1, HeadedFewer
  <2>3. frames \in g => frames \in headers \ cut
    BY <2>1
  <2>4. QED
    BY <2>1, <2>2, <2>3 DEF HeadedInv, g
<1>4. CASE ~pes.begun
  <2>1. s.isNew /\ g \subseteq (headers \ cut) \cup {frames} /\ StartIn(pes.rest)
    BY <1>2, <1>4 DEF Arrives, Started, SenderInv
  <2>2. \A d : Holds(Out(filter), d) => ~(IsStart(d) /\ d.frame = frames)
    BY <2>1, StartAhead
  <2>3. AllIn(filter, Headed((headers \ cut) \cup {frames}))
    BY <1>1, <2>2, HeadedMore
  <2> HIDE DEF g
  <2>4. AllIn(filter, Headed(g))
    BY <2>1, <2>3, HeadedFewer
  <2>5. AllIn(s, Headed(g))
    BY <2>4, SameAllIn
  <2>6. QED
    BY <2>1, <2>5 DEF g
<1>5. QED
  BY <1>1, <1>3, <1>4

\* What is left of a packet holds its start code when the piece does not.
LEMMA StartDropped ==
    ASSUME NEW s \in Seq(Data), NEW n \in 0 .. Len(s), StartIn(Drop(s, n))
    PROVE  \E k \in DOMAIN s : k > n /\ IsStart(s[k])
<1> DEFINE d == Drop(s, n)
<1>1. /\ d \in Seq(Data) /\ Len(d) = Len(s) - n
      /\ \A k \in 1 .. (Len(s) - n) : d[k] = s[n + k]
  BY DropFacts
<1>2. StartIn(d)
  OBVIOUS
<1> HIDE DEF d
<1>3. DOMAIN d = 1 .. Len(d) /\ DOMAIN s = 1 .. Len(s) /\ Len(s) \in Nat
  BY <1>1, EmptyFacts
<1>4. PICK k \in DOMAIN d : IsStart(d[k])
  BY <1>2 DEF StartIn
<1>5. k \in 1 .. (Len(s) - n) /\ n + k \in DOMAIN s /\ n + k > n
  BY <1>1, <1>3
<1>6. IsStart(s[n + k])
  BY <1>1, <1>4, <1>5
<1>7. QED
  BY <1>5, <1>6

\* A packet of another frame than those of h holds no such start code.
LEMMA StrangeHeaded ==
    ASSUME OrderIInv, SenderInv, NEW n \in Pieces, NEW size, NEW s \in Filters,
           NEW y \in Filters, NEW h, frames \notin h, AllIn(s, Headed(h)),
           NEW m \in 0 .. n, Granted(size, Take(pes.rest, m)),
           PayloadSteps(s, Take(pes.rest, m), size, y)
    PROVE  AllIn(y, Headed(h))
<1>1. TsTypeOK /\ CodeIn(pes.rest, frames)
  BY DEF OrderIInv, SenderInv
<1>2. pes.rest \in Seq(Data) /\ n \in 0 .. Len(pes.rest)
  BY <1>1, PieceIs
<1>3. m \in 0 .. Len(pes.rest) /\ Len(pes.rest) \in Nat
  BY <1>2, EmptyFacts
<1> DEFINE piece == Take(pes.rest, m)
<1>4. piece \in Seq(Data) /\ Len(piece) = m /\ \A k \in 1 .. m : piece[k] = pes.rest[k]
  BY <1>2, <1>3, TakeFacts
<1>5. PayloadSteps(s, piece, size, y) /\ Granted(size, piece)
  OBVIOUS
<1> HIDE DEF piece
<1>6. DOMAIN piece = 1 .. m /\ DOMAIN pes.rest = 1 .. Len(pes.rest)
  BY <1>2, <1>4, EmptyFacts
<1>7. ASSUME NEW k \in DOMAIN piece PROVE ~Known(piece[k], h)
  <2>1. k \in DOMAIN pes.rest /\ piece[k] = pes.rest[k]
    BY <1>3, <1>4, <1>6
  <2>2. IsStart(piece[k]) => piece[k].frame = frames
    BY <1>1, <2>1 DEF CodeIn
  <2>3. QED
    BY <2>2 DEF Known
<1>8. QED
  BY <1>1, <1>3, <1>4, <1>5, <1>7, PayloadHeaded

\* A packet of the filter's own that arrives.
LEMMA OwnHeaded ==
    ASSUME OrderIInv, SenderInv, NEW n \in Pieces, n # 0, ~CutsCode(n), NEW size,
           NEW s \in Filters, NEW y \in Filters, NEW h, AllIn(s, Headed(h)),
           StartIn(pes.rest) => s.isNew,
           NEW piece, piece = Take(pes.rest, n), OnesOwn(piece), Granted(size, piece),
           PayloadSteps(s, piece, size, y)
    PROVE  AllIn(y, Headed(h)) /\ (StartIn(Drop(pes.rest, n)) => y.isNew)
<1>1. TsTypeOK /\ Ordered(pes.rest) /\ CodeIn(pes.rest, frames)
  BY DEF OrderIInv, OrderInv, Follow, SenderInv
<1>2. pes.rest \in Seq(Data) /\ n \in 0 .. Len(pes.rest)
  BY <1>1, PieceIs
<1>3. piece \in Seq(Data) /\ Len(piece) = n /\ \A k \in 1 .. n : piece[k] = pes.rest[k]
  <2> DEFINE t == Take(pes.rest, n)
  <2>1. t \in Seq(Data) /\ Len(t) = n /\ \A k \in 1 .. n : t[k] = pes.rest[k]
    BY <1>2, TakeFacts
  <2>2. piece = t
    OBVIOUS
  <2> HIDE DEF t
  <2>3. QED
    BY <2>1, <2>2
<1>4. /\ DOMAIN piece = 1 .. n /\ DOMAIN pes.rest = 1 .. Len(pes.rest) /\ Len(pes.rest) \in Nat
      /\ n \in Nat
  BY <1>2, <1>3, EmptyFacts
<1>5. ASSUME NEW k \in DOMAIN pes.rest, IsStart(pes.rest[k])
      PROVE  Searched(s, n, piece, k) /\ s.isNew
  <2>1. StartIn(pes.rest)
    BY <1>5 DEF StartIn
  <2>2. QED
    BY <1>5, <2>1, PieceSearch
<1>6. ASSUME NEW k \in DOMAIN piece, Known(piece[k], h)
      PROVE  k = LastFramePart(s, piece) + 1 /\ Begins(s, piece)
  <2>1. k \in DOMAIN pes.rest /\ IsStart(pes.rest[k]) /\ k <= n /\ k \in Nat
    BY <1>2, <1>3, <1>4, <1>6 DEF Known
  <2>2. Begins(s, piece) /\ LastFramePart(s, piece) = k - 1
    BY <1>5, <2>1 DEF Searched
  <2>3. QED
    BY <2>1, <2>2
<1>7. AllIn(y, Headed(h))
  BY <1>3, <1>4, <1>6, PayloadHeaded
<1>8. ASSUME StartIn(Drop(pes.rest, n)) PROVE y.isNew
  <2>1. PICK k \in DOMAIN pes.rest : k > n /\ IsStart(pes.rest[k])
    BY <1>2, <1>8, StartDropped
  <2>2. s.isNew /\ ~Begins(s, piece)
    BY <1>5, <2>1 DEF Searched
  <2>3. QED
    BY <1>3, <1>4, <2>2, PayloadLooks
<1>9. QED
  BY <1>7, <1>8

\* A packet that arrives keeps the blocks so.
LEMMA ArrivesHeaded ==
    ASSUME OrderIInv, SenderInv, HeadedInv, NEW n \in Pieces, NEW size,
           NEW s \in Filters, NEW y \in Filters, Arrives(n, size, s, y),
           Reaches(n, size, s, y)
    PROVE  HeadedInv'
<1> SUFFICES ASSUME NoStrayOne'
             PROVE  /\ AllIn(y, Headed(headers' \ cut'))
                    /\ frames \in headers' \ cut' /\ StartIn(Drop(pes.rest, n)) => y.isNew
  BY DEF HeadedInv, Arrives
<1>1. NoStrayOne /\ SameBlocks(filter, s)
  BY DEF Reaches
<1>2. /\ AllIn(s, Headed(headers' \ cut'))
      /\ frames \in headers' \ cut' /\ StartIn(pes.rest) => s.isNew
  BY <1>1, StartedHeaded
<1>3. TsTypeOK
  BY DEF OrderIInv
<1>4. pes.rest \in Seq(Data) /\ n \in 0 .. Len(pes.rest)
  BY <1>3, PieceIs
<1> DEFINE piece == Take(pes.rest, n)
<1>5. CASE frames \in headers'
  <2>1. /\ OnesOwn(piece) /\ Granted(size, piece) /\ (n = 0 => y = s)
        /\ n # 0 => PayloadSteps(s, piece, size, y)
    BY <1>5 DEF Reaches
  <2>2. CASE n = 0
    <3>1. StartIn(Drop(pes.rest, n)) => StartIn(pes.rest)
      BY <1>4, StartDropped DEF StartIn
    <3>2. QED
      BY <1>2, <2>1, <2>2, <3>1
  <2>3. CASE n # 0 /\ frames \notin cut'
    <3>1. PayloadSteps(s, piece, size, y) /\ OnesOwn(piece) /\ Granted(size, piece)
      BY <2>1, <2>3
    <3>2. StartIn(pes.rest) => s.isNew
      BY <1>2, <1>5, <2>3
    <3>3. ~CutsCode(n)
      BY <2>3 DEF Arrives
    <3> DEFINE h == headers' \ cut'
    <3>4. AllIn(s, Headed(h))
      BY <1>2
    <3> HIDE DEF piece, h
    <3>5. piece = Take(pes.rest, n)
      BY DEF piece
    <3>6. AllIn(y, Headed(h)) /\ (StartIn(Drop(pes.rest, n)) => y.isNew)
      BY <2>3, <3>1, <3>2, <3>3, <3>4, <3>5, OwnHeaded
    <3>7. QED
      BY <3>6 DEF h
  <2>4. CASE n # 0 /\ frames \in cut'
    <3>1. PayloadSteps(s, Take(pes.rest, n), size, y) /\ Granted(size, Take(pes.rest, n))
      BY <2>1, <2>4
    <3> DEFINE h == headers' \ cut'
    <3>2. frames \notin h /\ AllIn(s, Headed(h)) /\ n \in 0 .. n
      BY <1>2, <1>4, <2>4
    <3> HIDE DEF h, piece
    <3>3. AllIn(y, Headed(h))
      BY <3>1, <3>2, StrangeHeaded
    <3>4. QED
      BY <2>4, <3>3 DEF h
  <2>5. QED
    BY <2>2, <2>3, <2>4
<1>6. CASE frames \notin headers'
  <2>1. \/ y = s
        \/ \E m \in 0 .. n : /\ Granted(size, Take(pes.rest, m))
                             /\ PayloadSteps(s, Take(pes.rest, m), size, y)
    BY <1>6 DEF Reaches
  <2> DEFINE h == headers' \ cut'
  <2>2. frames \notin h /\ AllIn(s, Headed(h))
    BY <1>2, <1>6
  <2> HIDE DEF h
  <2>3. ASSUME NEW m \in 0 .. n, Granted(size, Take(pes.rest, m)),
               PayloadSteps(s, Take(pes.rest, m), size, y)
        PROVE  AllIn(y, Headed(h))
    BY <2>2, <2>3, StrangeHeaded
  <2>4. AllIn(y, Headed(h))
    BY <2>1, <2>2, <2>3
  <2>5. QED
    BY <1>6, <2>4 DEF h
<1>7. QED
  BY <1>5, <1>6

LEMMA LosePacketHeaded ==
    ASSUME OrderIInv, HeadedInv, LosePacket
    PROVE  HeadedInv'
<1>1. TsTypeOK
  BY DEF OrderIInv
<1>2. PICK n \in Pieces : Sent(n)
  BY DEF LosePacket
<1>3. pes'.rest = Drop(pes.rest, n) /\ pes.rest \in Seq(Data) /\ n \in 0 .. Len(pes.rest)
  BY <1>1, <1>2, SentIs, PieceIs
<1>4. StartIn(pes'.rest) => StartIn(pes.rest)
  BY <1>3, StartDropped DEF StartIn
<1>5. /\ frames' = frames /\ filter' = filter /\ headers' = headers /\ received' = received
      /\ cut' = cut
  BY DEF LosePacket
<1>6. NoStrayOne' <=> NoStrayOne
  BY <1>5 DEF NoStrayOne
<1>7. QED
  BY <1>4, <1>5, <1>6 DEF HeadedInv

LEMMA BeginFrameHeaded ==
    ASSUME OrderIInv, HeadedInv, BeginFrame
    PROVE  HeadedInv'
<1>1. /\ filter' = filter /\ headers' = headers /\ received' = received
      /\ cut' = cut /\ frames' = frames + 1
  BY DEF BeginFrame
<1>2. frames' \notin headers'
  BY <1>1 DEF OrderIInv, TsTypeOK, HeaderInv
<1>3. NoStrayOne' <=> NoStrayOne
  BY <1>1 DEF NoStrayOne
<1>4. QED
  BY <1>1, <1>2, <1>3 DEF HeadedInv

-----------------------------------------------------------------------------
(* The marks of the frames.                                                *)

\* Without losses, the blocks that are said to begin a frame do so or begin in a PES packet
\* whose start code is cut, and in others the filter looks for a frame only while the start
\* code is being sent.
MarkedInv ==
    NoStrayOne /\ ~lost =>
        /\ AllIn(filter, Marked(cut))
        /\ filter.isNew => StartIn(pes.rest) \/ frames \in cut

\* What is left of a packet keeps the start code that the piece does not hold.
LEMMA StartKept ==
    ASSUME NEW s \in Seq(Data), NEW n \in 0 .. Len(s), NEW k \in DOMAIN s, k > n, IsStart(s[k])
    PROVE  StartIn(Drop(s, n))
<1> DEFINE d == Drop(s, n)
<1>1. /\ d \in Seq(Data) /\ Len(d) = Len(s) - n
      /\ \A j \in 1 .. (Len(s) - n) : d[j] = s[n + j]
  BY DropFacts
<1> HIDE DEF d
<1>2. DOMAIN d = 1 .. Len(d) /\ DOMAIN s = 1 .. Len(s) /\ Len(s) \in Nat /\ n \in Nat
  BY <1>1, EmptyFacts
<1>3. k - n \in 1 .. (Len(s) - n) /\ k - n \in DOMAIN d /\ n + (k - n) = k
  BY <1>1, <1>2
<1>4. d[k - n] = s[k]
  BY <1>1, <1>3
<1>5. StartIn(d)
  BY <1>3, <1>4 DEF StartIn
<1>6. QED
  BY <1>5 DEF d

\* A packet of the filter's own that arrives.
LEMMA OwnMarked ==
    ASSUME OrderIInv, SenderInv, NEW n \in Pieces, n # 0, NEW size,
           NEW s \in Filters, NEW y \in Filters, NEW c, AllIn(s, Marked(c)),
           s.isNew => StartIn(pes.rest) \/ frames \in c, frames \notin c => ~CutsCode(n),
           NEW piece, piece = Take(pes.rest, n), OnesOwn(piece), Granted(size, piece),
           PayloadSteps(s, piece, size, y)
    PROVE  AllIn(y, Marked(c)) /\ (y.isNew => StartIn(Drop(pes.rest, n)) \/ frames \in c)
<1>1. TsTypeOK /\ CodeIn(pes.rest, frames)
  BY DEF OrderIInv, SenderInv
<1>2. pes.rest \in Seq(Data) /\ n \in 0 .. Len(pes.rest)
  BY <1>1, PieceIs
<1>3. piece \in Seq(Data) /\ Len(piece) = n /\ \A k \in 1 .. n : piece[k] = pes.rest[k]
  BY <1>2, TakeFacts
<1>4. /\ DOMAIN piece = 1 .. n /\ DOMAIN pes.rest = 1 .. Len(pes.rest) /\ Len(pes.rest) \in Nat
      /\ n \in Nat /\ n > 0
  BY <1>2, <1>3, EmptyFacts
<1>5. ASSUME NEW k \in DOMAIN pes.rest, IsStart(pes.rest[k]), frames \notin c
      PROVE  Searched(s, n, piece, k)
  BY <1>5, PieceSearch
<1>6. ASSUME Begins(s, piece)
      PROVE  /\ LastFramePart(s, piece) < Len(piece)
             /\ Opens(piece[LastFramePart(s, piece) + 1], c)
  <2>1. s.isNew
    BY <1>6 DEF Begins
  <2>2. CASE frames \in c
    <3> DEFINE p == LastFramePart(s, piece)
    <3>1. p \in 0 .. n /\ p < n
      <4>1. p \in 0 .. Len(piece)
        BY <1>3, LastFramePartIs
      <4>2. CASE Len(piece) >= CodeLen
        <5>1. p = StartCodePos(piece) /\ StartCodePos(piece) < Len(piece)
          BY <1>6, <4>2 DEF Begins, LastFramePart
        <5> HIDE DEF p
        <5>2. QED
          BY <1>3, <4>1, <5>1
      <4>3. CASE ~(Len(piece) >= CodeLen)
        <5>1. p = 0
          BY <4>3 DEF LastFramePart
        <5> HIDE DEF p
        <5>2. QED
          BY <1>4, <5>1
      <4>4. QED
        BY <4>2, <4>3
    <3> HIDE DEF p
    <3>2. p + 1 \in 1 .. n /\ p + 1 \in DOMAIN pes.rest
      BY <1>2, <1>4, <3>1
    <3>3. piece[p + 1].packet = frames
      BY <1>1, <1>3, <3>2 DEF CodeIn
    <3>4. p < Len(piece) /\ Opens(piece[p + 1], c)
      BY <1>3, <2>2, <3>1, <3>3 DEF Opens
    <3>5. QED
      BY <3>4 DEF p
  <2>3. CASE frames \notin c
    <3>1. PICK k \in DOMAIN pes.rest : IsStart(pes.rest[k])
      BY <2>1, <2>3 DEF StartIn
    <3>2. Searched(s, n, piece, k)
      BY <1>5, <2>3, <3>1
    <3>3. k \in Nat /\ k >= 1 /\ k <= n
      BY <1>4, <1>6, <3>2 DEF Searched
    <3>4. LastFramePart(s, piece) = k - 1
      BY <2>1, <3>2, <3>3 DEF Searched
    <3>5. k \in 1 .. n /\ (k - 1) + 1 = k /\ k - 1 < n
      BY <1>4, <3>3
    <3>6. IsStart(piece[k])
      BY <1>3, <3>1, <3>5
    <3>7. QED
      BY <1>3, <3>4, <3>5, <3>6 DEF Opens
  <2>4. QED
    BY <2>2, <2>3
<1>7. AllIn(y, Marked(c))
  BY <1>3, <1>6, PayloadMarked
<1>8. ASSUME y.isNew, frames \notin c PROVE StartIn(Drop(pes.rest, n))
  <2>1. s.isNew /\ ~Begins(s, piece)
    BY <1>3, <1>8, PayloadLooks
  <2>2. PICK k \in DOMAIN pes.rest : IsStart(pes.rest[k])
    BY <1>8, <2>1 DEF StartIn
  <2>3. Searched(s, n, piece, k)
    BY <1>5, <1>8, <2>2
  <2>4. k > n
    BY <1>4, <2>1, <2>3 DEF Searched
  <2>5. QED
    BY <1>2, <2>2, <2>4, StartKept
<1>9. QED
  BY <1>7, <1>8

\* A packet that arrives keeps the blocks so.
LEMMA ArrivesMarked ==
    ASSUME OrderIInv, SenderInv, MarkedInv, NEW n \in Pieces, NEW size,
           NEW s \in Filters, NEW y \in Filters, Arrives(n, size, s, y),
           Reaches(n, size, s, y)
    PROVE  MarkedInv'
<1> DEFINE c == cut'
<1> SUFFICES ASSUME NoStrayOne', ~lost'
             PROVE  /\ AllIn(y, Marked(c))
                    /\ y.isNew => StartIn(Drop(pes.rest, n)) \/ frames \in c
  BY DEF MarkedInv, Arrives
<1>1. NoStrayOne /\ SameBlocks(filter, s) /\ ~lost /\ frames \in headers'
  BY DEF Reaches, Arrives
<1> DEFINE piece == Take(pes.rest, n)
<1>2. /\ OnesOwn(piece) /\ Granted(size, piece) /\ (n = 0 => y = s)
      /\ n # 0 => PayloadSteps(s, piece, size, y)
  BY <1>1 DEF Reaches
<1>3. AllIn(filter, Marked(cut)) /\ (filter.isNew => StartIn(pes.rest) \/ frames \in cut)
  BY <1>1 DEF MarkedInv
<1>4. cut \subseteq c /\ (frames \notin c => ~CutsCode(n))
  BY DEF Arrives
<1>5. s.isNew => StartIn(pes.rest) \/ frames \in c
  BY <1>3, <1>4 DEF Arrives, Started, SenderInv
<1> HIDE DEF c
<1>6. AllIn(s, Marked(c))
  <2>1. AllIn(filter, Marked(c))
    BY <1>3, <1>4, MarkedMore
  <2>2. QED
    BY <1>1, <2>1, SameAllIn
<1>7. CASE n = 0
  <2>1. TsTypeOK
    BY DEF OrderIInv
  <2>2. pes.rest \in Seq(Data) /\ n \in 0 .. Len(pes.rest)
    BY <2>1, PieceIs
  <2>3. StartIn(pes.rest) => StartIn(Drop(pes.rest, n))
    BY <1>7, <2>2, StartKept, EmptyFacts DEF StartIn
  <2>4. QED
    BY <1>2, <1>5, <1>6, <1>7, <2>3
<1>8. CASE n # 0
  <2>1. PayloadSteps(s, piece, size, y) /\ OnesOwn(piece) /\ Granted(size, piece)
    BY <1>2, <1>8
  <2> HIDE DEF piece
  <2>2. piece = Take(pes.rest, n)
    BY DEF piece
  <2>3. QED
    BY <1>4, <1>5, <1>6, <1>8, <2>1, <2>2, OwnMarked
<1>9. QED
  BY <1>7, <1>8

LEMMA LosePacketMarked == LosePacket => MarkedInv'
BY DEF LosePacket, MarkedInv

LEMMA BeginFrameMarked ==
    ASSUME OrderIInv, SenderInv', MarkedInv, BeginFrame
    PROVE  MarkedInv' /\ (NoStrayOne /\ ~lost /\ cut = {} => ~filter.isNew)
<1>1. filter' = filter /\ received' = received /\ lost' = lost /\ cut' = cut
  BY DEF BeginFrame
<1>2. ~StartIn(pes.rest)
  <2>1. pes.rest = <<>>
    BY DEF BeginFrame
  <2>2. QED
    BY <2>1 DEF StartIn
<1>3. NoStrayOne' <=> NoStrayOne
  BY <1>1 DEF NoStrayOne
<1>4. StartIn(pes.rest)'
  <2>1. TsTypeOK
    BY DEF OrderIInv
  <2>2. pes'.begun = FALSE
    BY <2>1, BeginFrameIs
  <2>3. QED
    BY <2>2 DEF SenderInv
<1>5. MarkedInv'
  BY <1>1, <1>3, <1>4 DEF MarkedInv
<1>6. QED
  BY <1>2, <1>5 DEF MarkedInv

-----------------------------------------------------------------------------
(* The ends of the frames.                                                 *)

\* Without losses, and when no start code is cut and nothing is left to the next packet, the
\* bits tell where a frame ends, a time stamp waits for each frame looked for, and the filter counts what
\* is still to come of a packet that told its length.
ToldInv ==
    NothingLeft /\ ~lost /\ cut = {} =>
        /\ AllIn(filter, Timed) /\ Ended(filter)
        /\ filter.isNew => /\ filter.pts /\ filter.payload = pes.length
                           /\ pes.length \in {0, Len(pes.rest)}
        /\ EndsLast(filter) => filter.isNew \/ ~pes.begun \/ pes.rest = <<>>
        /\ filter.payload > 0 /\ ~filter.isNew /\ pes.begun /\ pes.rest # <<>>
             => filter.payload = Len(filter.data) + Len(pes.rest)

\* The same of the filter that a packet has reached, its header read.
Ready(s) ==
    /\ AllIn(s, Timed) /\ Ended(s)
    /\ s.isNew => /\ s.pts /\ s.payload = pes.length
                  /\ pes.length \in {0, Len(pes.rest)} /\ StartIn(pes.rest)
    /\ EndsLast(s) => s.isNew \/ pes.rest = <<>>
    /\ s.payload > 0 /\ ~s.isNew /\ pes.rest # <<>>
         => s.payload = Len(s.data) + Len(pes.rest)

\* Data that keep to their own packet hold no stray value 1.
LEMMA NothingStray ==
    ASSUME NothingLeft
    PROVE  NoStrayOne
BY DEF NothingLeft, NoStrayOne

LEMMA ArrivesReady ==
    ASSUME OrderIInv, SenderInv, MarkedInv, ToldInv, NothingLeft, ~lost, cut = {},
           NEW n \in Pieces, NEW size, NEW s \in Filters, NEW y \in Filters,
           Arrives(n, size, s, y), SameBlocks(filter, s)
    PROVE  Ready(s) /\ (~pes.begun => s.isNew)
<1>1. AllIn(filter, Timed) /\ Ended(filter)
  BY DEF ToldInv
<1>2. AllIn(s, Timed)
  BY <1>1, SameAllIn
<1>3. Ended(s) /\ (EndsLast(s) <=> EndsLast(filter))
  BY <1>1 DEF Ended, EndsLast, SameBlocks
<1>4. pes.begun => s = filter
  BY DEF Arrives, Started
<1>5. ~pes.begun => /\ s.isNew /\ s.pts /\ s.payload = pes.length
                    /\ pes.length \in {0, Len(pes.rest)} /\ StartIn(pes.rest)
  BY DEF Arrives, Started, SenderInv
<1>6. filter.isNew => StartIn(pes.rest)
  BY NothingStray DEF MarkedInv
<1>7. CASE pes.begun
  BY <1>2, <1>3, <1>4, <1>6, <1>7 DEF Ready, ToldInv
<1>8. CASE ~pes.begun
  BY <1>2, <1>3, <1>5, <1>8 DEF Ready
<1>9. QED
  BY <1>7, <1>8

\* A packet whose data are its frame's begins with the start code, if it holds one.
LEMMA StartLeads ==
    ASSUME OrderIInv, SenderInv, NEW n \in Pieces, n # 0,
           NEW piece, piece = Take(pes.rest, n), AllOf(piece, OwnPacket), StartIn(pes.rest)
    PROVE  1 \in DOMAIN pes.rest /\ IsStart(pes.rest[1])
<1>1. TsTypeOK /\ Ordered(pes.rest) /\ CodeIn(pes.rest, frames)
  BY DEF OrderIInv, OrderInv, Follow, SenderInv
<1>2. pes.rest \in Seq(Data) /\ n \in 0 .. Len(pes.rest)
  BY <1>1, PieceIs
<1>3. piece \in Seq(Data) /\ Len(piece) = n /\ \A k \in 1 .. n : piece[k] = pes.rest[k]
  BY <1>2, TakeFacts
<1>4. /\ DOMAIN piece = 1 .. n /\ DOMAIN pes.rest = 1 .. Len(pes.rest) /\ Len(pes.rest) \in Nat
      /\ n \in Nat
  BY <1>2, <1>3, EmptyFacts
<1>5. 1 \in 1 .. n /\ 1 \in DOMAIN pes.rest /\ 1 \in DOMAIN piece
  BY <1>2, <1>4
<1>6. piece[1] \in OwnPacket /\ piece[1] = pes.rest[1]
  BY <1>3, <1>5 DEF AllOf
<1>7. pes.rest[1].frame = frames
  BY <1>1, <1>5, <1>6 DEF CodeIn, OwnPacket
<1>8. PICK k \in DOMAIN pes.rest : IsStart(pes.rest[k])
  BY DEF StartIn
<1>9. k <= 1
  BY <1>1, <1>2, <1>5, <1>7, <1>8, StartLeadsFrame
<1>10. k = 1
  BY <1>4, <1>9
<1>11. QED
  BY <1>5, <1>8, <1>10

\* A packet of the filter's own that arrives.
LEMMA OwnTold ==
    ASSUME OrderIInv, SenderInv, NEW n \in Pieces, n # 0, ~CutsCode(n), NEW size,
           NEW s \in Filters, NEW y \in Filters, Ready(s),
           NEW piece, piece = Take(pes.rest, n), OnesOwn(piece), Granted(size, piece),
           AllOf(piece, OwnPacket), PayloadSteps(s, piece, size, y),
           NEW r \in Nat, r = Len(pes.rest) - n
    PROVE  Told(y, r) /\ ~y.isNew
<1>1. TsTypeOK
  BY DEF OrderIInv
<1>2. pes.rest \in Seq(Data) /\ n \in 0 .. Len(pes.rest)
  BY <1>1, PieceIs
<1>3. piece \in Seq(Data) /\ Len(piece) = n /\ \A k \in 1 .. n : piece[k] = pes.rest[k]
  BY <1>2, TakeFacts
<1>4. /\ Len(pes.rest) \in Nat /\ n \in Nat /\ piece # <<>>
      /\ pes.rest # <<>> /\ Len(piece) + r = Len(pes.rest) /\ Len(piece) + r # 0
  BY <1>2, <1>3, EmptyFacts
<1> DEFINE begins == Begins(s, piece)
<1>5. begins \in BOOLEAN /\ (begins => s.isNew)
  BY DEF Begins, Filters
<1>6. ASSUME s.isNew
      PROVE  begins /\ LastFramePart(s, piece) = 0 /\ IsStart(piece[1])
  <2>1. 1 \in DOMAIN pes.rest /\ IsStart(pes.rest[1])
    BY <1>6, StartLeads DEF Ready
  <2>2. Searched(s, n, piece, 1) /\ 1 <= n
    BY <1>4, <2>1, PieceSearch
  <2>3. QED
    BY <1>3, <1>4, <1>6, <2>1, <2>2 DEF Searched
<1>7. ASSUME ~s.isNew
      PROVE  ~begins /\ LastFramePart(s, piece) = 0
  BY <1>7 DEF Begins, LastFramePart
<1>8. (begins <=> s.isNew) /\ LastFramePart(s, piece) = 0
  BY <1>5, <1>6, <1>7
<1>9. begins = Begins(s, piece)
  OBVIOUS
<1>10. y.isNew <=> s.isNew /\ ~begins
  BY <1>3, <1>4, PayloadLooks
<1> HIDE DEF begins
<1>11. begins => s.pts /\ piece # <<>> /\ IsStart(piece[1])
  BY <1>4, <1>6, <1>8 DEF Ready
<1>12. EndsLast(s) => Len(piece) + r = 0 \/ begins
  BY <1>4, <1>8 DEF Ready
<1>13. s.payload > 0 /\ Len(piece) + r > 0
         => s.payload = (IF begins THEN 0 ELSE Len(s.data)) + (Len(piece) + r)
  <2> DEFINE a == Len(piece) + r
             b == Len(pes.rest)
  <2>1. a \in Nat /\ a = b /\ pes.rest # <<>>
    BY <1>4
  <2>2. begins /\ s.payload > 0 => s.payload = b
    BY <1>4, <1>8 DEF Ready
  <2>3. ~begins /\ s.payload > 0 => s.payload = Len(s.data) + b
    BY <1>4, <1>8 DEF Ready
  <2> HIDE DEF a, b
  <2>4. CASE begins
    <3>1. s.payload > 0 => s.payload = 0 + a
      BY <2>1, <2>2, <2>4
    <3>2. QED
      BY <2>4, <3>1 DEF a
  <2>5. CASE ~begins
    <3>1. s.payload > 0 => s.payload = Len(s.data) + a
      BY <2>1, <2>3, <2>5
    <3>2. QED
      BY <2>5, <3>1 DEF a
  <2>6. QED
    BY <2>4, <2>5
<1>14. AllIn(s, Timed) /\ Ended(s)
  BY DEF Ready
<1>15. Told(y, r)
  BY <1>3, <1>4, <1>5, <1>8, <1>9, <1>11, <1>12, <1>13, <1>14, PayloadTold
<1>16. QED
  BY <1>8, <1>10, <1>15

\* A packet that arrives keeps it so.
LEMMA ArrivesTold ==
    ASSUME OrderIInv, SenderInv, MarkedInv, ToldInv, NEW n \in Pieces,
           NEW size, NEW s \in Filters, NEW y \in Filters,
           Arrives(n, size, s, y), Reaches(n, size, s, y)
    PROVE  ToldInv'
<1> DEFINE rest == Drop(pes.rest, n)
<1> SUFFICES ASSUME NothingLeft', ~lost', cut' = {}
             PROVE  /\ AllIn(y, Timed) /\ Ended(y)
                    /\ y.isNew => /\ y.pts /\ y.payload = pes.length
                                  /\ pes.length \in {0, Len(rest)}
                    /\ EndsLast(y) => y.isNew \/ rest = <<>>
                    /\ y.payload > 0 /\ ~y.isNew /\ rest # <<>>
                         => y.payload = Len(y.data) + Len(rest)
  BY DEF ToldInv, Arrives
<1>1. NoStrayOne'
  BY DEF NothingLeft, NoStrayOne
<1>2. /\ NothingLeft /\ SameBlocks(filter, s) /\ ~lost /\ frames \in headers'
      /\ cut = {} /\ ~CutsCode(n)
  BY DEF Reaches, Arrives
<1>3. Ready(s) /\ (~pes.begun => s.isNew)
  BY <1>2, ArrivesReady
<1> DEFINE piece == Take(pes.rest, n)
<1>4. /\ OnesOwn(piece) /\ AllOf(piece, OwnPacket) /\ Granted(size, piece) /\ (n = 0 => y = s)
      /\ n # 0 => PayloadSteps(s, piece, size, y)
  BY <1>1, <1>2 DEF Reaches
<1>5. /\ pes.rest \in Seq(Data) /\ n \in 0 .. Len(pes.rest) /\ (n > 0 \/ ~pes.begun)
      /\ rest \in Seq(Data) /\ Len(rest) = Len(pes.rest) - n
  <2>1. TsTypeOK
    BY DEF OrderIInv
  <2>2. QED
    BY <2>1, PieceIs
<1>6. Len(pes.rest) \in Nat /\ (rest = <<>> <=> Len(rest) = 0)
  BY <1>5, EmptyFacts
<1> HIDE DEF rest
<1>7. CASE n = 0
  <2>1. y = s /\ y.isNew /\ Len(rest) = Len(pes.rest)
    BY <1>3, <1>4, <1>5, <1>6, <1>7
  <2>2. QED
    BY <1>3, <2>1 DEF Ready
<1>8. CASE n # 0
  <2> DEFINE r == Len(pes.rest) - n
  <2>1. PayloadSteps(s, piece, size, y)
    BY <1>4, <1>8
  <2>2. r \in Nat /\ r = Len(rest) /\ (rest # <<>> => r > 0)
    BY <1>5, <1>6
  <2> HIDE DEF piece, r
  <2>3. piece = Take(pes.rest, n) /\ r = Len(pes.rest) - n
    BY DEF piece, r
  <2>4. Told(y, r) /\ ~y.isNew
    BY <1>2, <1>3, <1>4, <1>8, <2>1, <2>2, <2>3, OwnTold
  <2>5. QED
    BY <1>6, <2>2, <2>4 DEF Told
<1>9. QED
  BY <1>7, <1>8

LEMMA LosePacketTold == LosePacket => ToldInv'
BY DEF LosePacket, ToldInv

LEMMA BeginFrameTold ==
    ASSUME OrderIInv, SenderInv', MarkedInv, ToldInv, BeginFrame
    PROVE  ToldInv'
<1>1. /\ filter' = filter /\ received' = received /\ lost' = lost /\ cut' = cut
  BY DEF BeginFrame
<1>2. pes'.begun = FALSE
  <2>1. TsTypeOK
    BY DEF OrderIInv
  <2>2. QED
    BY <2>1, BeginFrameIs
<1>3. NothingLeft' <=> NothingLeft
  BY <1>1 DEF NothingLeft
<1>4. NoStrayOne /\ ~lost /\ cut = {} => ~filter.isNew
  BY BeginFrameMarked
<1>5. NothingLeft /\ ~lost /\ cut = {} => ~filter.isNew
  BY <1>4, NothingStray
<1>6. QED
  BY <1>1, <1>2, <1>3, <1>5 DEF ToldInv

-----------------------------------------------------------------------------
(* The bits tell the frames.                                               *)

BlocksIInv == OrderIInv /\ SenderInv /\ HeadedInv /\ MarkedInv /\ ToldInv

LEMMA InitBlocks == TsInit => BlocksIInv
<1> SUFFICES ASSUME TsInit PROVE BlocksIInv
  OBVIOUS
<1>1. OrderIInv
  BY InitOrder
<1>2. SenderInv
  BY DEF TsInit, Idle, SenderInv, CodeIn
<1>3. /\ filter.out = <<>> /\ Current(filter) = NoBlock /\ headers = {} /\ ~filter.isNew
      /\ filter.payload = 0
  BY DEF TsInit, Current, NoBlock
<1>4. NoBlock \in Headed(headers \ cut) /\ NoBlock \in Marked(cut) /\ NoBlock \in Timed
  BY DEF NoBlock, Headed, Marked, Timed, Block
<1>5. /\ AllIn(filter, Headed(headers \ cut)) /\ AllIn(filter, Marked(cut))
      /\ AllIn(filter, Timed)
  BY <1>3, <1>4 DEF AllIn
<1>6. Ended(filter) /\ ~EndsLast(filter)
  BY <1>3 DEF Ended, EndsLast
<1>7. HeadedInv /\ MarkedInv /\ ToldInv
  BY <1>3, <1>5, <1>6 DEF HeadedInv, MarkedInv, ToldInv
<1>8. QED
  BY <1>1, <1>2, <1>7 DEF BlocksIInv

LEMMA HandlePacketBlocks ==
    ASSUME BlocksIInv, HandlePacket
    PROVE  SenderInv' /\ HeadedInv' /\ MarkedInv' /\ ToldInv'
<1>1. OrderIInv /\ SenderInv /\ HeadedInv /\ MarkedInv /\ ToldInv
  BY DEF BlocksIInv
<1>2. TsTypeOK
  BY <1>1 DEF OrderIInv
<1>3. PICK n \in Pieces : \E size : \E s, y \in Filters : Arrives(n, size, s, y)
  BY <1>2, HandlePacketIs
<1>10. PICK size : \E s, y \in Filters : Arrives(n, size, s, y)
  BY <1>3
<1>11. PICK s \in Filters, y \in Filters : Arrives(n, size, s, y)
  BY <1>10
<1>4. Reaches(n, size, s, y)
  BY <1>1, <1>11, ArrivesReaches
<1>5. SenderInv'
  BY <1>1, <1>11, ArrivesSender
<1>6. HeadedInv'
  BY <1>1, <1>4, <1>11, ArrivesHeaded
<1>7. MarkedInv'
  BY <1>1, <1>4, <1>11, ArrivesMarked
<1>8. ToldInv'
  BY <1>1, <1>4, <1>11, ArrivesTold
<1>9. QED
  BY <1>5, <1>6, <1>7, <1>8

LEMMA NextBlocks == BlocksIInv /\ [TsNext]_tsVars => BlocksIInv'
<1> SUFFICES ASSUME BlocksIInv, [TsNext]_tsVars PROVE BlocksIInv'
  OBVIOUS
<1>1. OrderIInv /\ SenderInv /\ HeadedInv /\ MarkedInv /\ ToldInv
  BY DEF BlocksIInv
<1>2. OrderIInv'
  BY <1>1, NextOrder
<1>3. CASE BeginFrame
  <2>1. SenderInv'
    BY <1>1, <1>3, BeginFrameSender
  <2>2. HeadedInv'
    BY <1>1, <1>3, BeginFrameHeaded
  <2>3. MarkedInv'
    BY <1>1, <1>3, <2>1, BeginFrameMarked
  <2>4. ToldInv'
    BY <1>1, <1>3, <2>1, BeginFrameTold
  <2>5. QED
    BY <1>2, <2>1, <2>2, <2>3, <2>4 DEF BlocksIInv
<1>4. CASE HandlePacket
  BY <1>2, <1>4, HandlePacketBlocks DEF BlocksIInv
<1>5. CASE LosePacket
  <2>1. SenderInv'
    BY <1>1, <1>5, LosePacketSender
  <2>2. HeadedInv'
    BY <1>1, <1>5, LosePacketHeaded
  <2>3. MarkedInv' /\ ToldInv'
    BY <1>5, LosePacketMarked, LosePacketTold
  <2>4. QED
    BY <1>2, <2>1, <2>2, <2>3 DEF BlocksIInv
<1>6. CASE UNCHANGED tsVars
  <2>1. /\ frames' = frames /\ carry' = carry /\ pes' = pes /\ received' = received
        /\ headers' = headers /\ lost' = lost /\ filter' = filter /\ cut' = cut
    BY <1>6 DEF tsVars
  <2>2. (NoStrayOne' <=> NoStrayOne) /\ (NothingLeft' <=> NothingLeft)
    BY <2>1 DEF NoStrayOne, NothingLeft
  <2>3. SenderInv'
    BY <1>1, <2>1 DEF SenderInv
  <2>4. HeadedInv' /\ MarkedInv' /\ ToldInv'
    BY <1>1, <2>1, <2>2 DEF HeadedInv, MarkedInv, ToldInv
  <2>5. QED
    BY <1>2, <2>3, <2>4 DEF BlocksIInv
<1>7. QED
  BY <1>3, <1>4, <1>5, <1>6 DEF TsNext

\* Whatever the sizes of frames, packets and blocks, and wherever frames are cut, the
\* invariant of the blocks holds: of the start codes in the sender's packets, and of the
\* blocks that push_es_data has made.
THEOREM TsBlocksAlways == TsSpec => []BlocksIInv
<1>1. TsInit => BlocksIInv
  BY InitBlocks
<1>2. BlocksIInv /\ [TsNext]_tsVars => BlocksIInv'
  BY NextBlocks
<1>3. QED
  BY <1>1, <1>2, PTL DEF TsSpec

\* The invariant says of each submitted block what its bits promise.
LEMMA BlocksApart ==
    ASSUME BlocksIInv
    PROVE  FramesApart
<1>1. TsTypeOK /\ HeadedInv /\ MarkedInv /\ ToldInv
  BY DEF BlocksIInv, OrderIInv
<1>2. submitted = filter.out /\ filter.out \in Seq(Block)
  BY <1>1 DEF submitted, TsTypeOK, Filters
<1>3. ASSUME NEW G, AllIn(filter, G), NEW k \in DOMAIN submitted
      PROVE  submitted[k] \in G
  BY <1>2, <1>3, EmptyFacts DEF AllIn
<1>4. NoStrayOne => StartIsFirst
  <2>1. SUFFICES ASSUME NoStrayOne, NEW k \in DOMAIN submitted,
                        NEW j \in DOMAIN submitted[k].data,
                        Known(submitted[k].data[j], headers \ cut)
                 PROVE  j = 1 /\ "first" \in submitted[k].bits
    BY DEF StartIsFirst, Known
  <2>2. submitted[k] \in Headed(headers \ cut)
    BY <1>1, <1>3, <2>1 DEF HeadedInv
  <2>3. QED
    BY <2>1, <2>2 DEF Headed
<1>5. NoStrayOne /\ ~lost => FirstIsStart
  <2>1. SUFFICES ASSUME NoStrayOne, ~lost, NEW k \in DOMAIN submitted,
                        "first" \in submitted[k].bits
                 PROVE  Opens(submitted[k].data[1], cut)
    BY DEF FirstIsStart, Opens
  <2>2. submitted[k] \in Marked(cut)
    BY <1>1, <1>3, <2>1 DEF MarkedInv
  <2>3. QED
    BY <2>1, <2>2 DEF Marked
<1>6. NothingLeft /\ ~lost /\ cut = {} => FirstHasPts
  <2>1. SUFFICES ASSUME NothingLeft, ~lost, cut = {}, NEW k \in DOMAIN submitted,
                        "first" \in submitted[k].bits
                 PROVE  "pts" \in submitted[k].bits
    BY DEF FirstHasPts
  <2>2. submitted[k] \in Timed
    BY <1>1, <1>3, <2>1 DEF ToldInv
  <2>3. QED
    BY <2>1, <2>2 DEF Timed
<1>7. NothingLeft /\ ~lost /\ cut = {} => LastIsEnd
  <2>1. SUFFICES ASSUME NothingLeft, ~lost, cut = {}
                 PROVE  LastIsEnd
    OBVIOUS
  <2>2. Ended(filter)
    BY <1>1, <2>1 DEF ToldInv
  <2>3. DOMAIN submitted = 1 .. Len(submitted)
    BY <1>2, EmptyFacts
  <2>4. QED
    BY <1>2, <2>2, <2>3 DEF LastIsEnd, Ended
<1>8. QED
  BY <1>4, <1>5, <1>6, <1>7 DEF FramesApart

\* However frames are cut into PES packets, transport packets and blocks of any sizes, start
\* codes included, and whichever of the packets are lost: while no stray 1 comes before a
\* start code, a frame whose header arrived and whose start code no packet cuts begins a
\* block of its own, and its bits tell as much as the model says (handle_packet_payload,
\* find_start_code_pos).
THEOREM FramesApartAlways == TsSpec => []FramesApart
<1>1. BlocksIInv => FramesApart
  BY BlocksApart
<1>2. QED
  BY <1>1, TsBlocksAlways, PTL

-----------------------------------------------------------------------------
(* The engine.                                                             *)

USE ThreadAssumption

\* The state machine's answer to a change, for the two states in which a call
\* finds the engine and the machine.
LEMMA TransitionLemma ==
    ASSUME NEW new \in {"idle", "discovering", "connecting"}, Transition(new),
           machine \in {"idle", "discovering", "connecting"}
    PROVE  machine' = IF machine = "idle" /\ new = "idle" THEN "idle"
                      ELSE IF machine = "connecting" /\ new = "discovering" THEN "connecting"
                      ELSE new
<1>1. CASE machine = "idle"
  BY <1>1 DEF Transition, Legal
<1>2. CASE machine = "discovering"
  BY <1>2 DEF Transition, Legal
<1>3. CASE machine = "connecting"
  BY <1>3 DEF Transition, Legal
<1>4. QED
  BY <1>1, <1>2, <1>3

\* The library has no protocol that completes a connection: neither state gets
\* beyond "connecting".
Early == state \in {"idle", "discovering", "connecting"}

\* The calls that change the state keep the two states together.
LEMMA CallIInv ==
    ASSUME IInv, Early, NEW t \in Thread,
           StartDiscovery(t) \/ StopDiscovery(t) \/ Connect(t) \/ Disconnect(t)
    PROVE  IInv' /\ Early'
<1>1. machine \in {"idle", "discovering", "connecting"}
  BY DEF IInv, StatesAgree, Early
<1>2. PICK new \in {"idle", "discovering", "connecting"} :
          /\ state' = new /\ Transition(new)
          /\ new = "discovering" => discoveryRunning'
          /\ new = "discovering" \/ new = "idle" \/ state \in {"idle", "discovering"}
  BY DEF StartDiscovery, StopDiscovery, Connect, Disconnect
<1>3. Early' /\ StatesAgree' /\ DiscoveringIsRunning'
  BY <1>1, <1>2, TransitionLemma DEF IInv, StatesAgree, DiscoveringIsRunning, Early
<1>4. pc' = [pc EXCEPT ![t] = "emit"]
  BY DEF StartDiscovery, StopDiscovery, Connect, Disconnect, Emit
<1>5. TypeOK'
  <2>1. machine' \in States
    BY <1>1, <1>2, TransitionLemma DEF States
  <2>2. state' \in States
    BY <1>2 DEF States
  <2>3. discoveryRunning' \in BOOLEAN /\ UNCHANGED <<initialized, hasCallback, lock, seen>>
    BY DEF IInv, TypeOK, StartDiscovery, StopDiscovery, Connect, Disconnect
  <2>4. pc' \in [Thread -> {"out", "emit", "exit"}]
    BY <1>4 DEF IInv, TypeOK
  <2>5. QED
    BY <2>1, <2>2, <2>3, <2>4 DEF IInv, TypeOK
<1>6. CallbackUpToDate'
  <2>1. pc'[t] = "emit"
    BY <1>4 DEF IInv, TypeOK
  <2>2. QED
    BY <2>1 DEF CallbackUpToDate
<1>7. QED
  BY <1>3, <1>5, <1>6 DEF IInv

\* The callback that has just been told has read the state as it is.
LEMMA DeliverIInv ==
    ASSUME IInv, Early, NEW t \in Thread, Deliver(t)
    PROVE  IInv' /\ Early'
<1>1. TypeOK'
  BY DEF IInv, TypeOK, Deliver, engine
<1>2. StatesAgree' /\ DiscoveringIsRunning' /\ Early'
  BY DEF IInv, StatesAgree, DiscoveringIsRunning, Early, Deliver, engine
<1>3. CallbackUpToDate'
  BY DEF Deliver, engine, CallbackUpToDate
<1>4. QED
  BY <1>1, <1>2, <1>3 DEF IInv

\* Building and tearing down find every thread outside.
LEMMA LifeIInv ==
    ASSUME IInv, Early,
           Create \/ \E t \in Thread : SetEventCallback(t) \/ Exit(t)
    PROVE  IInv' /\ Early'
<1>1. CASE Create
  BY <1>1 DEF Create, IInv, TypeOK, StatesAgree, DiscoveringIsRunning, CallbackUpToDate,
              Early, States
<1>2. ASSUME NEW t \in Thread, SetEventCallback(t)
      PROVE  IInv' /\ Early'
  BY <1>2 DEF SetEventCallback, engine, IInv, TypeOK, StatesAgree, DiscoveringIsRunning,
              CallbackUpToDate, Early
<1>3. ASSUME NEW t \in Thread, Exit(t)
      PROVE  IInv' /\ Early'
  <2>1. UNCHANGED <<state, machine, discoveryRunning, hasCallback, seen>>
        /\ initialized' \in BOOLEAN /\ (initialized' => initialized)
    BY <1>3 DEF Exit, engine, IInv, TypeOK
  <2>2. lock' \in Thread \cup {NoThread} /\ pc' \in [Thread -> {"out", "emit", "exit"}]
    BY <1>3 DEF Exit, IInv, TypeOK
  <2>3. \A u \in Thread : pc[u] = "out"
    BY <1>3 DEF Exit, Quiet
  <2>4. CallbackUpToDate'
    BY <2>1, <2>3 DEF IInv, CallbackUpToDate
  <2>5. QED
    BY <2>1, <2>2, <2>4 DEF IInv, TypeOK, StatesAgree, DiscoveringIsRunning, Early
<1>4. QED
  BY <1>1, <1>2, <1>3

-----------------------------------------------------------------------------
\* The inductive invariant holds for any set of application threads.
THEOREM EngineInvariance == Spec => [](IInv /\ Early)
<1>1. Init => IInv /\ Early
  BY DEF Init, IInv, TypeOK, StatesAgree, DiscoveringIsRunning, CallbackUpToDate, Early,
         States
<1>2. IInv /\ Early /\ [Next]_vars => IInv' /\ Early'
  <2> SUFFICES ASSUME IInv, Early, [Next]_vars
               PROVE  IInv' /\ Early'
    OBVIOUS
  <2>1. CASE UNCHANGED vars
    BY <2>1 DEF vars, engine, IInv, TypeOK, StatesAgree, DiscoveringIsRunning,
                CallbackUpToDate, Early
  <2>2. CASE Next
    BY <2>2, CallIInv, DeliverIInv, LifeIInv DEF Next
  <2>3. QED
    BY <2>1, <2>2
<1>3. QED
  BY <1>1, <1>2, PTL DEF Spec

\* The engine and its state machine are idle together, and differ only when a
\* discovery was started over a connection.
THEOREM StatesStayTogether == Spec => []StatesAgree
<1>1. IInv => StatesAgree
  BY DEF IInv
<1>2. QED
  BY <1>1, EngineInvariance, PTL

\* No interleaving of calls and deliveries leaves the callback with an old
\* state and no event on its way.
THEOREM NoMissedChange == Spec => []CallbackUpToDate
<1>1. IInv => CallbackUpToDate
  BY DEF IInv
<1>2. QED
  BY <1>1, EngineInvariance, PTL
-----------------------------------------------------------------------------
(* The clock.                                                              *)

\* Division by 1000 loses less than one and keeps the order.
LEMMA Thousandths ==
    ASSUME NEW p \in Nat
    PROVE  /\ p \div 1000 \in Nat
           /\ 1000 * (p \div 1000) <= p
           /\ p < 1000 * (p \div 1000) + 1000
  OBVIOUS

\* Time that has passed at any speed is a natural number of microseconds.
LEMMA WholeMicroseconds ==
    ASSUME NEW a \in Nat, NEW b \in 0 .. a, NEW s \in Nat
    PROVE  (a - b) * s \in Nat /\ ((a - b) * s) \div 1000 \in Nat
  <1>1. a - b \in Nat
    OBVIOUS
  <1>2. \A x, y \in Nat : x * y \in Nat
    OBVIOUS
  <1>3. (a - b) * s \in Nat
    BY <1>1, <1>2
  <1> QED
    BY <1>3, Thousandths

\* The thousandths that have passed since the last call are a natural number.
LEMMA PassedThousandths ==
    ASSUME TimerTypeOK
    PROVE  /\ (now - nStartTimeOs) * nSpeed \in Nat
           /\ Passed \in Nat
           /\ 1000 * Passed <= (now - nStartTimeOs) * nSpeed
           /\ (now - nStartTimeOs) * nSpeed < 1000 * Passed + 1000
  <1>1. (now - nStartTimeOs) * nSpeed \in Nat
    BY WholeMicroseconds, SpeedsAssumption DEF TimerTypeOK
  <1> QED
    BY <1>1, Thousandths DEF Passed

\* A clock that reads less than exact by less than 1000 * calls thousandths.
Behind == ideal < 1000 * (nStartTimeMedia + calls) + 1 +
             IF eStatus = "start" THEN (now - nStartTimeOs) * nSpeed ELSE 0

TimerIInv == TimerTypeOK /\ Behind

LEMMA TimerInitInv == TimerInit => TimerIInv
  BY SpeedsAssumption, BoundsAssumption DEF TimerInit, TimerIInv, TimerTypeOK, Behind

LEMMA TimerNextInv == TimerIInv /\ [TimerNext]_timerVars => TimerIInv'
  <1> SUFFICES ASSUME TimerIInv, [TimerNext]_timerVars PROVE TimerIInv'
    OBVIOUS
  <1> USE SpeedsAssumption, TimesAssumption, BoundsAssumption
  <1> DEFINE P == (now - nStartTimeOs) * nSpeed
  <1>0. /\ P \in Nat /\ Passed \in Nat
        /\ 1000 * Passed <= P /\ P < 1000 * Passed + 1000
    BY PassedThousandths DEF TimerIInv
  <1>t. TimerTypeOK
    BY DEF TimerIInv
  <1>z. \A s \in Nat : (now - now) * s = 0
    BY DEF TimerTypeOK, TimerIInv
  <1>1. CASE Starting
    <2>1. TimerTypeOK'
      BY <1>1, <1>t DEF Starting, Start, Calls, TimerTypeOK
    <2>2. (now' - nStartTimeOs') * nSpeed' = 0
      BY <1>1, <1>z, <1>t DEF Starting, Start, Calls, TimerTypeOK
    <2>3. Behind'
      BY <1>1, <2>2, <1>t DEF Starting, Start, Calls, TimerIInv, Behind, TimerTypeOK
    <2> QED BY <2>1, <2>3 DEF TimerIInv
  <1>2. ASSUME Calls, AvTimerReset, eStatus' \in {"start", "stop"}, nSpeed' \in Speeds
        PROVE  TimerIInv'
    <2>1. TimerTypeOK'
      BY <1>2, <1>t, <1>0 DEF Calls, AvTimerReset, TimerTypeOK
    <2>2. (now' - nStartTimeOs') * nSpeed' = 0
      BY <1>2, <1>t, <1>z DEF Calls, AvTimerReset, TimerTypeOK
    <2>3. ideal' < 1000 * (nStartTimeMedia' + calls') + 1
      <3>1. ideal < 1000 * (nStartTimeMedia + calls) + 1 + P
        BY <1>0, <1>t DEF TimerIInv, Behind, TimerTypeOK
      <3> QED
        BY <3>1, <1>2, <1>0, <1>t DEF Calls, AvTimerReset, TimerTypeOK
    <2>4. Behind'
      <3>1. (IF eStatus' = "start" THEN (now' - nStartTimeOs') * nSpeed' ELSE 0) = 0
        BY <2>2
      <3>2. 1000 * (nStartTimeMedia' + calls') + 1 + 0 = 1000 * (nStartTimeMedia' + calls') + 1
        BY <2>1 DEF TimerTypeOK
      <3> QED BY <3>1, <3>2, <2>3 DEF Behind
    <2> QED BY <2>1, <2>4 DEF TimerIInv
  <1>3. CASE Stop
    BY <1>2, <1>3, <1>t DEF Stop, TimerTypeOK
  <1>4. ASSUME NEW speed \in Speeds, SetSpeed(speed) PROVE TimerIInv'
    BY <1>2, <1>4, <1>t DEF SetSpeed, TimerTypeOK
  <1>5. CASE GetTime
    <2>1. CASE eStatus = "start"
      BY <1>2, <1>5, <2>1, <1>t DEF GetTime, TimerTypeOK
    <2>2. CASE eStatus # "start"
      <3>1. TimerTypeOK'
        BY <1>5, <2>2, <1>t DEF GetTime, Calls, TimerTypeOK
      <3>2. Behind'
        BY <1>5, <2>2, <1>t DEF GetTime, Calls, TimerIInv, Behind, TimerTypeOK
      <3> QED BY <3>1, <3>2 DEF TimerIInv
    <2> QED BY <2>1, <2>2
  <1>6. ASSUME NEW time \in Times, SetTime(time) PROVE TimerIInv'
    <2>1. TimerTypeOK'
      BY <1>6, <1>t DEF SetTime, TimerTypeOK
    <2>2. (now' - nStartTimeOs') * nSpeed' = 0
      BY <1>6, <1>t, <1>z DEF SetTime, TimerTypeOK
    <2>3. Behind'
      BY <1>6, <2>2, <2>1 DEF SetTime, Behind, TimerTypeOK
    <2> QED BY <2>1, <2>3 DEF TimerIInv
  <1>7. CASE Tick
    <2>1. TimerTypeOK'
      BY <1>7, <1>t DEF Tick, timer, TimerTypeOK
    <2>2. (now + 1 - nStartTimeOs) * nSpeed = P + nSpeed
      BY <1>t DEF TimerTypeOK
    <2>3. Behind'
      BY <1>7, <2>2, <1>0, <1>t DEF Tick, timer, TimerIInv, Behind, TimerTypeOK
    <2> QED BY <2>1, <2>3 DEF TimerIInv
  <1>8. CASE UNCHANGED timerVars
    BY <1>8 DEF timerVars, timer, TimerIInv, TimerTypeOK, Behind
  <1> QED
    BY <1>1, <1>3, <1>4, <1>5, <1>6, <1>7, <1>8 DEF TimerNext, Setting

\* The clock's values keep their types: its time never becomes negative and the
\* system time of its last call is never in the future.
THEOREM TimerTypeCorrect == TimerSpec => []TimerTypeOK
  <1>1. TimerIInv => TimerTypeOK
    BY DEF TimerIInv
  <1> QED
    BY TimerInitInv, TimerNextInv, <1>1, PTL DEF TimerSpec

\* Whatever the order of the calls, the clock has lost less than a microsecond
\* a call: the divisions by 1000 do not add up to more.
THEOREM TimerLoss == TimerSpec => []BehindByCalls
  <1>1. ASSUME TimerIInv PROVE BehindByCalls
    <2> DEFINE P == (now - nStartTimeOs) * nSpeed
    <2>0. /\ P \in Nat /\ Passed \in Nat
          /\ 1000 * Passed <= P /\ P < 1000 * Passed + 1000
      BY <1>1, PassedThousandths DEF TimerIInv
    <2> QED
      BY <1>1, <2>0 DEF TimerIInv, Behind, BehindByCalls, Reading, TimerTypeOK
  <1> QED
    BY TimerInitInv, TimerNextInv, <1>1, PTL DEF TimerSpec

\* Passed, of the state that its arguments describe.
Elapsed(n, os, speed) == ((n - os) * speed) \div 1000

LEMMA ElapsedIsNat ==
    ASSUME NEW n \in Nat, NEW os \in 0 .. n, NEW speed \in Nat
    PROVE  Elapsed(n, os, speed) \in Nat
  BY WholeMicroseconds DEF Elapsed

\* A microsecond later no less has passed.
LEMMA ElapsedGrows ==
    ASSUME NEW n \in Nat, NEW os \in 0 .. n, NEW speed \in Nat
    PROVE  Elapsed(n + 1, os, speed) >= Elapsed(n, os, speed)
  <1> DEFINE P == (n - os) * speed
             Q == (n + 1 - os) * speed
  <1>1. Q = P + speed
    OBVIOUS
  <1>2. P \in Nat /\ Q \in Nat /\ P <= Q
    BY <1>1, WholeMicroseconds
  <1> HIDE DEF P, Q
  <1>3. P \div 1000 <= Q \div 1000 /\ P \div 1000 \in Nat /\ Q \div 1000 \in Nat
    BY <1>2
  <1> USE DEF P, Q
  <1> QED BY <1>3 DEF Elapsed

\* What a clock reads is at least the media time that it keeps.
LEMMA ReadsAtLeast ==
    ASSUME NEW media \in Nat, NEW passed \in Nat, NEW s
    PROVE  /\ media + (IF s = "start" THEN passed ELSE 0) \in Nat
           /\ media + (IF s = "start" THEN passed ELSE 0) >= media
  OBVIOUS

LEMMA AtLeastTransitive ==
    ASSUME NEW x \in Nat, NEW y \in Nat, NEW z \in Nat, x >= y, y >= z
    PROVE  x >= z
  OBVIOUS

\* Only SetTime turns the clock back.
THEOREM TimerNeverBack == TimerSpec => NeverBack
  <1>1. ASSUME TimerTypeOK, TimerTypeOK', TimerNext, ~Setting
        PROVE  Reading' >= Reading
    <2>t. TimerTypeOK
      BY <1>1
    <2>v. Reading' \in Nat /\ nStartTimeMedia' \in Nat /\ Reading' >= nStartTimeMedia'
      <3>1. now' \in Nat /\ nStartTimeOs' \in 0 .. now' /\ nSpeed' \in Speeds /\ nStartTimeMedia' \in Nat
        BY <1>1 DEF TimerTypeOK
      <3>2. nSpeed' \in Nat
        BY <3>1, SpeedsAssumption
      <3>3. Passed' \in Nat
        <4>1. Passed' = Elapsed(now', nStartTimeOs', nSpeed')
          BY DEF Passed, Elapsed
        <4> QED BY <4>1, <3>1, <3>2, ElapsedIsNat, Zenon
      <3> QED BY <3>1, <3>3, ReadsAtLeast, Zenon DEF Reading
    <2>1. CASE Starting
      <3>1. nStartTimeMedia' = nStartTimeMedia /\ eStatus = "stop"
        BY <2>1 DEF Starting, Start
      <3> QED BY <3>1, <2>t, <2>v DEF Reading, TimerTypeOK
    <2>2. CASE AvTimerReset
      <3>1. nStartTimeMedia' = nStartTimeMedia + Passed
        BY <2>2 DEF AvTimerReset
      <3>2. Passed \in Nat /\ nStartTimeMedia \in Nat
        BY <2>t, PassedThousandths DEF TimerTypeOK
      <3>3. Reading \in Nat /\ nStartTimeMedia + Passed >= Reading
        BY <3>2 DEF Reading
      <3>4. nStartTimeMedia' >= Reading
        BY <3>1, <3>3
      <3> QED BY <3>3, <3>4, <2>v, AtLeastTransitive, Zenon
    <2>3. CASE GetTime /\ eStatus # "start"
      BY <2>3, <2>t DEF GetTime, Reading, TimerTypeOK
    <2>4. CASE Tick
      <3>1. /\ now' = now + 1 /\ nStartTimeOs' = nStartTimeOs /\ nSpeed' = nSpeed
            /\ eStatus' = eStatus /\ nStartTimeMedia' = nStartTimeMedia
        BY <2>4 DEF Tick, timer
      <3>2. Passed = Elapsed(now, nStartTimeOs, nSpeed)
        BY DEF Passed, Elapsed
      <3>3. Passed' = Elapsed(now + 1, nStartTimeOs, nSpeed)
        <4>1. Passed' = Elapsed(now', nStartTimeOs', nSpeed')
          BY DEF Passed, Elapsed
        <4> QED BY <4>1, <3>1
      <3> DEFINE p == Elapsed(now, nStartTimeOs, nSpeed)
                 q == Elapsed(now + 1, nStartTimeOs, nSpeed)
      <3>4. p \in Nat /\ q >= p
        BY <2>t, ElapsedIsNat, ElapsedGrows, SpeedsAssumption DEF TimerTypeOK
      <3>5. q \in Nat
        <4>1. now + 1 \in Nat /\ nStartTimeOs \in 0 .. now + 1 /\ nSpeed \in Nat
          BY <2>t, SpeedsAssumption DEF TimerTypeOK
        <4> QED BY <4>1, ElapsedIsNat, Zenon
      <3> HIDE DEF p, q
      <3>6. Reading = nStartTimeMedia + IF eStatus = "start" THEN p ELSE 0
        BY <3>2 DEF Reading, p
      <3>7. Reading' = nStartTimeMedia + IF eStatus = "start" THEN q ELSE 0
        BY <3>1, <3>3 DEF Reading, q
      <3> QED BY <3>4, <3>5, <3>6, <3>7, <2>t DEF TimerTypeOK
    <2> QED
      BY <1>1, <2>1, <2>2, <2>3, <2>4 DEF TimerNext, Stop, SetSpeed, GetTime
  <1>2. TimerIInv => TimerTypeOK
    BY DEF TimerIInv
  <1> QED
    <2>1. TimerTypeOK /\ TimerTypeOK' /\ [TimerNext]_timerVars => [~Setting => Reading' >= Reading]_timerVars
      BY <1>1
    <2> QED
      BY TimerInitInv, TimerNextInv, <1>2, <2>1, PTL DEF TimerSpec, NeverBack
=============================================================================
