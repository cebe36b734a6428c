--------------------------- MODULE RecordingProofs ---------------------------
(***************************************************************************)
(* What is recorded of a request, for headers, ids, commands and numbers   *)
(* of keys of every length: the trace goes on with the id that base64 gives*)
(* back, the tag of a redis call tells it, and the reporter reads a segment*)
(* exactly if what is told in it is clean.  The texts are sequences of     *)
(* unbounded length, so the proofs need induction over numbers; the one of *)
(* the library takes an operator, and the one here a set.                  *)
(***************************************************************************)
EXTENDS Recording, FiniteSets, FiniteSetTheorems, SequenceTheorems, WellFoundedInduction, TLAPS

\* A set of naturals with an element has a least one: below an element there are
\* finitely many, and the finite sets are well-founded.
LEMMA LeastOf ==
    ASSUME NEW S, S \subseteq Nat, S # {}
    PROVE  \E n \in S : \A m \in S : n <= m
<1> DEFINE U == {0..n : n \in S}
<1>1. U \subseteq FiniteSubsetsOf(Nat) /\ U # {}
  <2>1. \A n \in S : IsFiniteSet(0..n) /\ 0..n \subseteq Nat
    BY FS_Interval
  <2>2. QED
    BY <2>1 DEF FiniteSubsetsOf
<1>2. IsWellFoundedOn(StrictSubsetOrdering(Nat), FiniteSubsetsOf(Nat))
  BY FS_StrictSubsetOrderingWellFounded, Zenon
<1>3. PICK low \in U : \A other \in U : <<other, low>> \notin StrictSubsetOrdering(Nat)
  <2> HIDE DEF U
  <2>1. QED
    BY <1>1, <1>2, WFMin, Zenon
<1>4. PICK n \in S : low = 0..n
  OBVIOUS
<1>5. \A m \in S : n <= m
  <2> SUFFICES ASSUME NEW m \in S, m < n PROVE FALSE
    OBVIOUS
  <2>1. 0..m \in U
    OBVIOUS
  <2>2. 0..m \subseteq 0..n /\ n \in 0..n /\ n \notin 0..m /\ 0..m \subseteq Nat /\ 0..n \subseteq Nat
    OBVIOUS
  <2>3. 0..m \subseteq 0..n /\ 0..m # 0..n
    BY <2>2, Zenon
  <2>4. <<0..m, 0..n>> \in StrictSubsetOrdering(Nat)
    <3> HIDE DEF U
    <3>1. QED
      BY <2>2, <2>3, Zenon DEF StrictSubsetOrdering
  <2>5. QED
    <3> HIDE DEF U
    <3>1. QED
      BY <1>3, <1>4, <2>1, <2>4, Zenon
<1>6. QED
  BY <1>5

\* An induction over the naturals, on a set of numbers.
LEMMA Induction ==
    ASSUME NEW S, NEW low \in Nat, low \in S,
           \A n \in Nat : n >= low /\ n \in S => n + 1 \in S
    PROVE  \A n \in Nat : n >= low => n \in S
<1> SUFFICES ASSUME NEW bad \in Nat, bad >= low, bad \notin S PROVE FALSE
  OBVIOUS
<1> DEFINE Bad == {n \in Nat : n >= low /\ n \notin S}
<1>1. PICK n \in Bad : \A m \in Bad : n <= m
  <2>1. Bad \subseteq Nat /\ Bad # {}
    OBVIOUS
  <2> HIDE DEF Bad
  <2>2. QED
    BY <2>1, LeastOf
<1>2. n > low
  OBVIOUS
<1>3. n - 1 \in Nat /\ n - 1 >= low /\ n - 1 \notin Bad
  BY <1>1, <1>2
<1>4. n - 1 \in S
  BY <1>3
<1>5. QED
  BY <1>1, <1>3, <1>4

\* The flattening of the first i of a sequence's sequences, as FlattenSeq has it.
Flattens(f, seqs, n) == f = [i \in 1..n |-> IF i = 1 THEN seqs[i] ELSE f[i - 1] \o seqs[i]]

\* The recursive function that FlattenSeq chooses exists, for one sequence more if
\* for those before it.
LEMMA FlatteningExists ==
    ASSUME NEW seqs, NEW n \in Nat
    PROVE  \E f : Flattens(f, seqs, n)
<1> DEFINE S == {m \in Nat : \E f : Flattens(f, seqs, m)}
<1>1. 0 \in S
  <2>1. Flattens([i \in 1..0 |-> {}], seqs, 0)
    BY DEF Flattens
  <2>2. QED
    BY <2>1
<1>2. ASSUME NEW m \in Nat, m \in S PROVE m + 1 \in S
  <2>1. PICK f : Flattens(f, seqs, m)
    BY <1>2
  <2> DEFINE g == [i \in 1..(m + 1) |-> IF i <= m THEN f[i] ELSE IF i = 1 THEN seqs[i] ELSE f[m] \o seqs[i]]
  <2> DEFINE Longer(h, i) == IF i = 1 THEN seqs[i] ELSE h[i - 1] \o seqs[i]
  <2>2. ASSUME NEW i \in 1..(m + 1) PROVE g[i] = Longer(g, i)
    <3>1. CASE i <= m
      <4>1. g[i] = f[i] /\ (i # 1 => i - 1 \in 1..m /\ i - 1 <= m /\ g[i - 1] = f[i - 1]) /\ i \in 1..m
        BY <3>1
      <4>2. f[i] = Longer(f, i)
        BY <2>1, <4>1 DEF Flattens
      <4> HIDE DEF g
      <4>3. QED
        BY <4>1, <4>2
    <3>2. CASE i = m + 1
      <4>1. g[i] = (IF i = 1 THEN seqs[i] ELSE f[m] \o seqs[i]) /\ (i # 1 => m \in 1..(m + 1) /\ i - 1 = m /\ g[m] = f[m])
        BY <3>2
      <4> HIDE DEF g
      <4>2. QED
        BY <4>1
    <3>3. QED
      BY <3>1, <3>2
  <2>3. g = [i \in 1..(m + 1) |-> Longer(g, i)]
    <3>1. g = [i \in 1..(m + 1) |-> g[i]]
      OBVIOUS
    <3> HIDE DEF g, Longer
    <3>2. QED
      BY <2>2, <3>1
  <2>4. Flattens(g, seqs, m + 1)
    <3> HIDE DEF g
    <3>1. QED
      BY <2>3 DEF Flattens
  <2>5. QED
    <3> HIDE DEF g
    <3>1. QED
      BY <2>4
<1>3. n \in S
  <2> HIDE DEF S
  <2>1. QED
    BY <1>1, <1>2, Induction
<1>4. QED
  BY <1>3

\* What FlattenSeq is: the last of the flattenings of its first i sequences.
Grows(f, seqs) == /\ f[1] = seqs[1]
                  /\ \A i \in Nat : i >= 1 /\ i < Len(seqs) => f[i + 1] = f[i] \o seqs[i + 1]

\* What FlattenSeq is, step by step.
LEMMA FlattenIs ==
    ASSUME NEW seqs, Len(seqs) \in Nat, Len(seqs) >= 1
    PROVE  \E f : Grows(f, seqs) /\ FlattenSeq(seqs) = f[Len(seqs)]
<1>1. PICK f : Flattens(f, seqs, Len(seqs))
  BY FlatteningExists
<1> DEFINE g == CHOOSE h : h = [i \in 1..Len(seqs) |-> IF i = 1 THEN seqs[i] ELSE h[i - 1] \o seqs[i]]
<1>2. \E h : h = [i \in 1..Len(seqs) |-> IF i = 1 THEN seqs[i] ELSE h[i - 1] \o seqs[i]]
  BY <1>1 DEF Flattens
<1>3. g = [i \in 1..Len(seqs) |-> IF i = 1 THEN seqs[i] ELSE g[i - 1] \o seqs[i]]
  BY <1>2, Zenon
<1>4. FlattenSeq(seqs) = g[Len(seqs)]
  BY DEF FlattenSeq
<1> HIDE DEF g
<1>5. \A i \in 1..Len(seqs) : g[i] = IF i = 1 THEN seqs[i] ELSE g[i - 1] \o seqs[i]
  BY <1>3
<1>6. g[1] = seqs[1]
  BY <1>5
<1>7. ASSUME NEW i \in Nat, i >= 1, i < Len(seqs) PROVE g[i + 1] = g[i] \o seqs[i + 1]
  <2>1. i + 1 \in 1..Len(seqs) /\ i + 1 # 1 /\ (i + 1) - 1 = i
    BY <1>7
  <2>2. QED
    BY <1>5, <2>1
<1>8. QED
  BY <1>4, <1>6, <1>7 DEF Grows

\* Nothing flattens to nothing.
LEMMA FlattenEmpty == FlattenSeq(<<>>) = <<>>
  BY DEF FlattenSeq

\* One step of a flattening.
LEMMA OneStep ==
    ASSUME NEW seqs, NEW f, Grows(f, seqs), NEW i \in Nat, i >= 1, i + 1 <= Len(seqs), Len(seqs) \in Nat
    PROVE  f[i + 1] = f[i] \o seqs[i + 1]
<1>1. i < Len(seqs)
  OBVIOUS
<1>2. QED
  BY <1>1, Zenon DEF Grows

\* A flattening keeps to the set of the elements.
LEMMA FlattenIn ==
    ASSUME NEW S, NEW seqs \in Seq(Seq(S))
    PROVE  FlattenSeq(seqs) \in Seq(S)
<1>1. CASE Len(seqs) = 0
  <2>1. seqs = <<>> /\ <<>> \in Seq(S)
    BY <1>1
  <2>2. QED
    BY <2>1, FlattenEmpty, Zenon
<1>2. CASE Len(seqs) # 0
  <2>1. Len(seqs) \in Nat /\ Len(seqs) >= 1
    BY <1>2
  <2>2. PICK f : Grows(f, seqs) /\ FlattenSeq(seqs) = f[Len(seqs)]
    BY <2>1, FlattenIs, Zenon
  <2> DEFINE Good == {i \in Nat : i <= Len(seqs) => f[i] \in Seq(S)}
  <2>3. 1 \in Good
    <3>1. f[1] = seqs[1]
      BY <2>2, Zenon DEF Grows
    <3>2. seqs[1] \in Seq(S)
      BY <2>1
    <3>3. QED
      BY <3>1, <3>2
  <2>4. ASSUME NEW i \in Nat, i >= 1, i \in Good PROVE i + 1 \in Good
    <3> SUFFICES ASSUME i + 1 <= Len(seqs) PROVE f[i + 1] \in Seq(S)
      OBVIOUS
    <3>1. f[i + 1] = f[i] \o seqs[i + 1]
      BY <2>1, <2>2, <2>4, OneStep, Zenon
    <3>2. f[i] \in Seq(S) /\ seqs[i + 1] \in Seq(S)
      BY <2>4
    <3>3. QED
      BY <3>1, <3>2
  <2>5. Len(seqs) \in Good
    <3> HIDE DEF Good
    <3>1. \A i \in Nat : i >= 1 /\ i \in Good => i + 1 \in Good
      BY <2>4
    <3>2. \A i \in Nat : i >= 1 => i \in Good
      BY <2>3, <3>1, Induction
    <3>3. QED
      BY <2>1, <3>2
  <2>6. f[Len(seqs)] \in Seq(S)
    BY <2>1, <2>5
  <2>7. QED
    BY <2>2, <2>6, Zenon
<1>3. QED
  BY <1>1, <1>2

\* The pieces of a sequence, in their order, flatten to it: piece i is what
\* stands between two cuts.
Pieces(seqs, n, cut, whole) ==
    /\ Len(seqs) = n
    /\ \A i \in 0..n : cut[i] \in Nat /\ cut[i] <= Len(whole)
    /\ cut[0] = 0 /\ cut[n] = Len(whole)
    /\ \A i \in Nat : i + 1 <= n => cut[i] <= cut[i + 1]
    /\ \A i \in Nat : i + 1 <= n => seqs[i + 1] = SubSeq(whole, cut[i] + 1, cut[i + 1])

\* A whole that is cut in pieces is what the pieces flatten to.
LEMMA FlattenCuts ==
    ASSUME NEW S, NEW whole \in Seq(S), NEW n \in Nat, n >= 1, NEW cut, NEW seqs,
           Pieces(seqs, n, cut, whole)
    PROVE  FlattenSeq(seqs) = whole
<1> USE DEF Pieces
<1>1. PICK f : Grows(f, seqs) /\ FlattenSeq(seqs) = f[n]
  <2>1. Len(seqs) \in Nat /\ Len(seqs) >= 1
    OBVIOUS
  <2>2. QED
    BY <2>1, FlattenIs, Zenon
<1> DEFINE Good == {i \in Nat : i <= n => f[i] = SubSeq(whole, 1, cut[i])}
<1>2. 1 \in Good
  <2>1. f[1] = seqs[1]
    BY <1>1, Zenon DEF Grows
  <2>2. seqs[0 + 1] = SubSeq(whole, cut[0] + 1, cut[0 + 1])
    <3>1. 0 \in Nat /\ 0 + 1 <= n
      OBVIOUS
    <3>2. QED
      BY <3>1, Zenon
  <2>3. 0 + 1 = 1 /\ cut[0] + 1 = 1
    OBVIOUS
  <2>4. f[1] = SubSeq(whole, 1, cut[1])
    BY <2>1, <2>2, <2>3, Zenon
  <2>5. QED
    BY <2>4
<1>3. ASSUME NEW i \in Nat, i >= 1, i \in Good PROVE i + 1 \in Good
  <2> SUFFICES ASSUME i + 1 <= n PROVE f[i + 1] = SubSeq(whole, 1, cut[i + 1])
    OBVIOUS
  <2>1. f[i + 1] = f[i] \o seqs[i + 1]
    <3>1. Len(seqs) \in Nat /\ i + 1 <= Len(seqs)
      OBVIOUS
    <3>2. QED
      BY <1>1, <1>3, <3>1, OneStep, Zenon
  <2>2. f[i] = SubSeq(whole, 1, cut[i])
    BY <1>3
  <2>3. seqs[i + 1] = SubSeq(whole, cut[i] + 1, cut[i + 1]) /\ cut[i] <= cut[i + 1]
    OBVIOUS
  <2>4. cut[i] \in Nat /\ cut[i + 1] \in Nat /\ cut[i + 1] <= Len(whole)
    <3>1. i \in 0..n /\ i + 1 \in 0..n
      OBVIOUS
    <3>2. QED
      BY <3>1
  <2>5. SubSeq(whole, 1, cut[i]) \o SubSeq(whole, cut[i] + 1, cut[i + 1]) = SubSeq(whole, 1, cut[i + 1])
    <3>1. 1 \in 1..(Len(whole) + 1) /\ cut[i] \in (1 - 1)..Len(whole) /\ cut[i + 1] \in cut[i]..Len(whole)
      BY <2>3, <2>4
    <3>2. QED
      BY <3>1, ConcatAdjacentSubSeq, Zenon
  <2>6. QED
    BY <2>1, <2>2, <2>3, <2>5, Zenon
<1>4. n \in Good
  <2> HIDE DEF Good
  <2>1. \A i \in Nat : i >= 1 /\ i \in Good => i + 1 \in Good
    BY <1>3
  <2>2. \A i \in Nat : i >= 1 => i \in Good
    BY <1>2, <2>1, Induction
  <2>3. QED
    BY <2>2
<1>5. f[n] = SubSeq(whole, 1, Len(whole))
  <2>1. f[n] = SubSeq(whole, 1, cut[n])
    BY <1>4
  <2>2. QED
    BY <2>1
<1>6. SubSeq(whole, 1, Len(whole)) = whole
  OBVIOUS
<1>7. QED
  BY <1>1, <1>5, <1>6, Zenon

\* Sequences of one element at most flatten to no more than there are of them,
\* and to less if one is empty.
LEMMA FlattenShort ==
    ASSUME NEW S, NEW seqs \in Seq(Seq(S)), \A i \in 1..Len(seqs) : Len(seqs[i]) <= 1
    PROVE  /\ Len(FlattenSeq(seqs)) <= Len(seqs)
           /\ (\E k \in 1..Len(seqs) : seqs[k] = <<>>) => Len(FlattenSeq(seqs)) < Len(seqs)
<1>1. CASE Len(seqs) = 0
  <2>1. seqs = <<>> /\ Len(<<>>) = 0
    BY <1>1
  <2>2. Len(FlattenSeq(seqs)) = 0
    BY <2>1, FlattenEmpty, Zenon
  <2>3. QED
    BY <1>1, <2>2
<1>2. CASE Len(seqs) # 0
  <2>1. Len(seqs) \in Nat /\ Len(seqs) >= 1
    BY <1>2
  <2>2. PICK f : Grows(f, seqs) /\ FlattenSeq(seqs) = f[Len(seqs)]
    BY <2>1, FlattenIs, Zenon
  <2> DEFINE Good == {i \in Nat : i <= Len(seqs) =>
                        /\ f[i] \in Seq(S) /\ Len(f[i]) <= i
                        /\ (\E k \in 1..i : seqs[k] = <<>>) => Len(f[i]) < i}
  <2>3. 1 \in Good
    <3>1. f[1] = seqs[1]
      BY <2>2, Zenon DEF Grows
    <3>2. seqs[1] \in Seq(S) /\ Len(seqs[1]) <= 1
      BY <2>1
    <3>3. QED
      BY <3>1, <3>2
  <2>4. ASSUME NEW i \in Nat, i >= 1, i \in Good PROVE i + 1 \in Good
    <3> SUFFICES ASSUME i + 1 <= Len(seqs)
                 PROVE  /\ f[i + 1] \in Seq(S) /\ Len(f[i + 1]) <= i + 1
                        /\ (\E k \in 1..(i + 1) : seqs[k] = <<>>) => Len(f[i + 1]) < i + 1
      OBVIOUS
    <3>1. f[i + 1] = f[i] \o seqs[i + 1]
      BY <2>1, <2>2, <2>4, OneStep, Zenon
    <3>2. /\ f[i] \in Seq(S) /\ Len(f[i]) <= i
          /\ (\E k \in 1..i : seqs[k] = <<>>) => Len(f[i]) < i
          /\ seqs[i + 1] \in Seq(S) /\ Len(seqs[i + 1]) <= 1
      BY <2>4
    <3> DEFINE g == f[i]
               h == f[i + 1]
               s == seqs[i + 1]
    <3>3. h \in Seq(S) /\ Len(h) = Len(g) + Len(s)
      <4>1. g \in Seq(S) /\ s \in Seq(S) /\ h = g \o s
        BY <3>1, <3>2
      <4> HIDE DEF g, h, s
      <4>2. QED
        BY <4>1
    <3>4. Len(g) \in Nat /\ Len(s) \in Nat
      BY <3>2
    <3>5. ASSUME NEW k \in 1..(i + 1), seqs[k] = <<>> PROVE Len(h) < i + 1
      <4>1. CASE k = i + 1
        <5>1. Len(s) = 0
          BY <3>5, <4>1
        <5>2. Len(g) <= i
          BY <3>2
        <5> HIDE DEF g, h, s
        <5>3. QED
          BY <3>3, <3>4, <5>1, <5>2
      <4>2. CASE k \in 1..i
        <5>1. Len(g) < i /\ Len(s) <= 1
          BY <3>2, <3>5, <4>2
        <5> HIDE DEF g, h, s
        <5>2. QED
          BY <3>3, <3>4, <5>1
      <4>3. QED
        BY <4>1, <4>2
    <3>6. Len(h) <= i + 1
      <4>1. Len(g) <= i /\ Len(s) <= 1
        BY <3>2
      <4> HIDE DEF g, h, s
      <4>2. QED
        BY <3>3, <3>4, <4>1
    <3>7. QED
      BY <3>3, <3>5, <3>6
  <2>5. Len(seqs) \in Good
    <3> HIDE DEF Good
    <3>1. \A i \in Nat : i >= 1 /\ i \in Good => i + 1 \in Good
      BY <2>4
    <3>2. \A i \in Nat : i >= 1 => i \in Good
      BY <2>3, <3>1, Induction
    <3>3. QED
      BY <2>1, <3>2
  <2>6. Len(f[Len(seqs)]) <= Len(seqs) /\ ((\E k \in 1..Len(seqs) : seqs[k] = <<>>) => Len(f[Len(seqs)]) < Len(seqs))
    BY <2>1, <2>5
  <2>7. QED
    BY <2>2, <2>6, Zenon
<1>3. QED
  BY <1>1, <1>2

\* Up to three sequences.
LEMMA FlattenFew ==
    ASSUME NEW seqs
    PROVE  /\ Len(seqs) = 1 => FlattenSeq(seqs) = seqs[1]
           /\ Len(seqs) = 2 => FlattenSeq(seqs) = seqs[1] \o seqs[2]
           /\ Len(seqs) = 3 => FlattenSeq(seqs) = (seqs[1] \o seqs[2]) \o seqs[3]
<1>1. ASSUME Len(seqs) \in 1..3
      PROVE  \E f : Grows(f, seqs) /\ FlattenSeq(seqs) = f[Len(seqs)]
  <2>1. Len(seqs) \in Nat /\ Len(seqs) >= 1
    BY <1>1
  <2>2. QED
    BY <2>1, FlattenIs, Zenon
<1>2. ASSUME NEW f, Grows(f, seqs) 
      PROVE  /\ f[1] = seqs[1]
             /\ Len(seqs) \in {2, 3} => f[2] = f[1] \o seqs[2]
             /\ Len(seqs) = 3 => f[3] = f[2] \o seqs[3]
  <2>1. f[1] = seqs[1] /\ \A i \in Nat : i >= 1 /\ i < Len(seqs) => f[i + 1] = f[i] \o seqs[i + 1]
    BY <1>2, Zenon DEF Grows
  <2>2. (1 < Len(seqs) => f[1 + 1] = f[1] \o seqs[1 + 1]) /\ (2 < Len(seqs) => f[2 + 1] = f[2] \o seqs[2 + 1])
    <3>1. 1 \in Nat /\ 1 >= 1 /\ 2 \in Nat /\ 2 >= 1
      OBVIOUS
    <3>2. QED
      BY <2>1, <3>1, Zenon
  <2>3. 1 + 1 = 2 /\ 2 + 1 = 3
    OBVIOUS
  <2>4. (Len(seqs) \in {2, 3} => 1 < Len(seqs)) /\ (Len(seqs) = 3 => 2 < Len(seqs))
    OBVIOUS
  <2>5. QED
    BY <2>1, <2>2, <2>3, <2>4, Zenon
<1>3. CASE Len(seqs) = 1
  <2>1. Len(seqs) \in 1..3 /\ Len(seqs) \notin {2, 3}
    BY <1>3
  <2>2. QED
    BY <1>1, <1>2, <1>3, <2>1, Zenon
<1>4. CASE Len(seqs) = 2
  <2>1. Len(seqs) \in 1..3 /\ Len(seqs) \notin {1, 3}
    BY <1>4
  <2>2. QED
    BY <1>1, <1>2, <1>4, <2>1, Zenon
<1>5. CASE Len(seqs) = 3
  <2>1. Len(seqs) \in 1..3 /\ Len(seqs) \notin {1, 2}
    BY <1>5
  <2>2. QED
    BY <1>1, <1>2, <1>5, <2>1, Zenon
<1>6. QED
  BY <1>3, <1>4, <1>5

-----------------------------------------------------------------------------
\* Base64.
Byte == 0..255

\* Four letters make bytes.
LEMMA GroupIsByte ==
    ASSUME NEW b \in Seq(0..64), Len(b) = 4
    PROVE  Plain(b) \in Seq(Byte)
<1>1. b[1] \in Int /\ b[2] \in Int /\ b[3] \in Int /\ b[4] \in Int
  <2>1. \A i \in 1..Len(b) : b[i] \in 0..64
    BY ElementOfSeq
  <2>2. b[1] \in 0..64 /\ b[2] \in 0..64 /\ b[3] \in 0..64 /\ b[4] \in 0..64
    <3>1. 1 \in 1..Len(b) /\ 2 \in 1..Len(b) /\ 3 \in 1..Len(b) /\ 4 \in 1..Len(b)
      OBVIOUS
    <3>2. QED
      BY <2>1, <3>1, Zenon
  <2>3. \A e \in 0..64 : e \in Int
    OBVIOUS
  <2>4. QED
    BY <2>2, <2>3, Zenon
<1>2. \A x \in Int : x % 256 \in Byte
  BY DEF Byte
<1>3. /\ (b[1] * 4 + b[2] \div 16) % 256 \in Byte
      /\ (b[2] * 16 + b[3] \div 4) % 256 \in Byte
      /\ (b[3] * 64 + b[4]) % 256 \in Byte
  <2>1. \A k, l \in Int : k * 4 + l \div 16 \in Int /\ k * 16 + l \div 4 \in Int /\ k * 64 + l \in Int
    OBVIOUS
  <2>2. QED
    BY <1>1, <1>2, <2>1, Zenon
<1>4. \A x, y, z \in Byte : /\ <<x>> \in Seq(Byte) /\ <<y>> \in Seq(Byte)
                           /\ (<<x>> \o <<y>>) \o <<z>> \in Seq(Byte)
                           /\ (<<x>> \o <<>>) \o <<z>> \in Seq(Byte)
                           /\ (<<x>> \o <<y>>) \o <<>> \in Seq(Byte)
                           /\ (<<x>> \o <<>>) \o <<>> \in Seq(Byte)
  BY ConcatProperties, EmptySeq
<1> DEFINE x == (b[1] * 4 + b[2] \div 16) % 256
           y == (b[2] * 16 + b[3] \div 4) % 256
           z == (b[3] * 64 + b[4]) % 256
<1>5. x \in Byte /\ y \in Byte /\ z \in Byte
  BY <1>3
<1>6. Plain(b) = (<<x>> \o (IF b[3] # 64 THEN <<y>> ELSE <<>>)) \o (IF b[4] # 64 THEN <<z>> ELSE <<>>)
  BY DEF Plain
<1> HIDE DEF x, y, z
<1>7. QED
  BY <1>4, <1>5, <1>6

\* Whatever a field is, bytes come out.
LEMMA DecodedIn ==
    ASSUME NEW c \in Seq(0..64)
    PROVE  Decoded(c) \in Seq(Byte)
<1> DEFINE n == Len(c) \div 4
           group(g) == SubSeq(c, 4 * g - 3, 4 * g)
           seqs == [g \in 1..n |-> Plain(group(g))]
<1>1. n \in Nat
  OBVIOUS
<1>2. ASSUME NEW g \in 1..n PROVE Plain(group(g)) \in Seq(Byte)
  <2>1. 4 * g - 3 \in Int /\ 4 * g \in Int /\ 4 * g - 3 <= 4 * g /\ 4 * g - (4 * g - 3) + 1 = 4
        /\ \A i \in (4 * g - 3)..(4 * g) : i \in 1..Len(c)
    BY <1>1
  <2>2. \A i \in (4 * g - 3)..(4 * g) : c[i] \in 0..64
    BY <2>1, ElementOfSeq, Zenon
  <2>3. group(g) \in Seq(0..64) /\ Len(group(g)) = 4
    BY <2>1, <2>2, SubSeqProperties
  <2> HIDE DEF group
  <2>4. QED
    BY <2>3, GroupIsByte
<1>3. seqs \in Seq(Seq(Byte))
  <2> HIDE DEF n, group
  <2>1. seqs \in [1..n -> Seq(Byte)]
    BY <1>2
  <2> HIDE DEF seqs
  <2>2. QED
    BY <1>1, <2>1
<1>4. FlattenSeq(seqs) \in Seq(Byte)
  <2> HIDE DEF seqs
  <2>1. QED
    BY <1>3, FlattenIn
<1>5. QED
  BY <1>4 DEF Decoded

\* The arithmetic of a group: three bytes, two and one.
LEMMA ThreeBytes ==
    ASSUME NEW x \in Byte, NEW y \in Byte, NEW z \in Byte
    PROVE  /\ ((x \div 4) * 4 + ((x % 4) * 16 + y \div 16) \div 16) % 256 = x
           /\ (((x % 4) * 16 + y \div 16) * 16 + ((y % 16) * 4 + z \div 64) \div 4) % 256 = y
           /\ (((y % 16) * 4 + z \div 64) * 64 + (z % 64)) % 256 = z
           /\ (y % 16) * 4 + z \div 64 # 64 /\ z % 64 # 64
<1>1. x \div 4 \in 0..63 /\ x % 4 \in 0..3 /\ x = 4 * (x \div 4) + (x % 4)
  BY DEF Byte
<1>2. y \div 16 \in 0..15 /\ y % 16 \in 0..15 /\ y = 16 * (y \div 16) + (y % 16)
  BY DEF Byte
<1>3. z \div 64 \in 0..3 /\ z % 64 \in 0..63 /\ z = 64 * (z \div 64) + (z % 64)
  BY DEF Byte
<1>4. \A a \in 0..3, b \in 0..15 : (a * 16 + b) \div 16 = a
  OBVIOUS
<1>5. \A a \in 0..15, b \in 0..3 : (a * 4 + b) \div 4 = a
  OBVIOUS
<1>6. \A a \in 0..255, k \in 0..3 : (k * 256 + a) % 256 = a
  OBVIOUS
<1>7. (x \div 4) * 4 + (x % 4) = x /\ x \in 0..255 /\ y \in 0..255 /\ z \in 0..255
  BY <1>1 DEF Byte
<1>8. x % 256 = x
  BY <1>7
<1>9. ((x % 4) * 16 + y \div 16) * 16 + (y % 16) = (x % 4) * 256 + y
  BY <1>1, <1>2
<1>10. ((y % 16) * 4 + z \div 64) * 64 + (z % 64) = (y % 16) * 256 + z
  BY <1>2, <1>3
<1>11. \A a \in 0..255, k \in 0..15 : (k * 256 + a) % 256 = a
  OBVIOUS
<1>12. (y % 16) * 4 + z \div 64 # 64 /\ z % 64 # 64
  BY <1>2, <1>3
<1>13. QED
  BY <1>1, <1>2, <1>3, <1>4, <1>5, <1>6, <1>7, <1>8, <1>9, <1>10, <1>11, <1>12


\* What Encoded makes of the bytes from the i-th on.
ByteAt(id, i) == IF i <= Len(id) THEN id[i] ELSE 0

Quad(id, i) ==
    << ByteAt(id, i) \div 4,
       (ByteAt(id, i) % 4) * 16 + ByteAt(id, i + 1) \div 16,
       IF i + 1 <= Len(id) THEN (ByteAt(id, i + 1) % 16) * 4 + ByteAt(id, i + 2) \div 64 ELSE 64,
       IF i + 2 <= Len(id) THEN ByteAt(id, i + 2) % 64 ELSE 64 >>

Groups(id) == (Len(id) + 2) \div 3
End(id, i) == IF i + 2 <= Len(id) THEN i + 2 ELSE Len(id)

\* What an agent encodes, group by group.
LEMMA EncodedIs ==
    ASSUME NEW id
    PROVE  Encoded(id) = FlattenSeq([g \in 1..Groups(id) |-> Quad(id, 3 * g - 2)])
  BY DEF Encoded, Quad, ByteAt, Groups

\* One element of a sequence.
LEMMA OneOf ==
    ASSUME NEW S, NEW s \in Seq(S), NEW m \in 1..Len(s)
    PROVE  SubSeq(s, m, m) = <<s[m]>> /\ <<s[m]>> \in Seq(S)
<1>1. m \in m..Len(s) /\ m \in Int /\ m + 1 \in Int /\ m < m + 1
  OBVIOUS
<1>2. SubSeq(s, m, m) = <<s[m]>> \o SubSeq(s, m + 1, m)
  BY <1>1, SubSeqRecursiveFirst, Zenon
<1>3. SubSeq(s, m + 1, m) = <<>>
  BY <1>1, SubSeqEmpty, Zenon
<1>4. <<s[m]>> \in Seq(S)
  <2>1. s[m] \in S
    BY ElementOfSeq
  <2>2. QED
    BY <2>1
<1>5. <<s[m]>> \o <<>> = <<s[m]>>
  BY <1>4, ConcatEmptySeq, Zenon
<1>6. QED
  BY <1>2, <1>3, <1>4, <1>5, Zenon

\* One, two and three elements of a sequence.
LEMMA FewOf ==
    ASSUME NEW S, NEW s \in Seq(S), NEW i \in 1..Len(s)
    PROVE  /\ SubSeq(s, i, i) = (<<s[i]>> \o <<>>) \o <<>>
           /\ i + 1 <= Len(s) => SubSeq(s, i, i + 1) = (<<s[i]>> \o <<s[i + 1]>>) \o <<>>
           /\ i + 2 <= Len(s) => SubSeq(s, i, i + 2) = (<<s[i]>> \o <<s[i + 1]>>) \o <<s[i + 2]>>
<1>1. \A m \in 1..Len(s) : \A n \in m..Len(s) : SubSeq(s, m, n) = <<s[m]>> \o SubSeq(s, m + 1, n)
  BY SubSeqRecursiveFirst
<1>2. \A m \in 1..Len(s) : SubSeq(s, m, m) = <<s[m]>>
  BY OneOf, Zenon
<1>3. \A m \in 1..Len(s) : <<s[m]>> \in Seq(S)
  BY OneOf, Zenon
<1>4. i \in Nat /\ i >= 1 /\ i <= Len(s)
  OBVIOUS
<1>5. SubSeq(s, i, i) = (<<s[i]>> \o <<>>) \o <<>>
  BY <1>2, <1>3, ConcatEmptySeq, Zenon
<1>6. ASSUME i + 1 <= Len(s) PROVE SubSeq(s, i, i + 1) = (<<s[i]>> \o <<s[i + 1]>>) \o <<>>
  <2>1. i + 1 \in 1..Len(s) /\ i + 1 \in i..Len(s)
    BY <1>4, <1>6
  <2>2. SubSeq(s, i, i + 1) = <<s[i]>> \o <<s[i + 1]>>
    BY <1>1, <1>2, <2>1, Zenon
  <2>3. <<s[i]>> \o <<s[i + 1]>> \in Seq(S)
    BY <1>3, <2>1, ConcatProperties, Zenon
  <2>4. QED
    BY <2>2, <2>3, ConcatEmptySeq, Zenon
<1>7. ASSUME i + 2 <= Len(s) PROVE SubSeq(s, i, i + 2) = (<<s[i]>> \o <<s[i + 1]>>) \o <<s[i + 2]>>
  <2>1. i + 1 \in 1..Len(s) /\ i + 2 \in 1..Len(s) /\ i + 2 \in i..Len(s) /\ i + 2 \in (i + 1)..Len(s)
        /\ (i + 1) + 1 = i + 2
    BY <1>4, <1>7
  <2>2. SubSeq(s, i, i + 2) = <<s[i]>> \o SubSeq(s, i + 1, i + 2)
    BY <1>1, <2>1, Zenon
  <2>3. SubSeq(s, i + 1, i + 2) = <<s[i + 1]>> \o SubSeq(s, (i + 1) + 1, i + 2)
    BY <1>1, <2>1, Zenon
  <2>4. SubSeq(s, (i + 1) + 1, i + 2) = <<s[i + 2]>>
    BY <1>2, <2>1, Zenon
  <2>5. <<s[i]>> \in Seq(S) /\ <<s[i + 1]>> \in Seq(S) /\ <<s[i + 2]>> \in Seq(S)
    BY <1>3, <2>1, Zenon
  <2>6. (<<s[i]>> \o <<s[i + 1]>>) \o <<s[i + 2]>> = <<s[i]>> \o (<<s[i + 1]>> \o <<s[i + 2]>>)
    BY <2>5, ConcatAssociative
  <2>7. QED
    BY <2>2, <2>3, <2>4, <2>6, Zenon
<1>8. QED
  BY <1>5, <1>6, <1>7

\* A group of letters gives its bytes back.
LEMMA QuadBack ==
    ASSUME NEW id \in Seq(Byte), NEW i \in 1..Len(id)
    PROVE  Plain(Quad(id, i)) = SubSeq(id, i, End(id, i))
<1> DEFINE x == ByteAt(id, i)
           y == ByteAt(id, i + 1)
           z == ByteAt(id, i + 2)
           q == Quad(id, i)
<1>1. x \in Byte /\ y \in Byte /\ z \in Byte
  <2>1. \A j \in 1..Len(id) : id[j] \in Byte
    BY ElementOfSeq
  <2>2. 0 \in Byte
    BY DEF Byte
  <2>3. \A j \in Nat : j >= 1 => ByteAt(id, j) \in Byte
    BY <2>1, <2>2 DEF ByteAt
  <2>4. i \in Nat /\ i >= 1 /\ i + 1 \in Nat /\ i + 1 >= 1 /\ i + 2 \in Nat /\ i + 2 >= 1
    OBVIOUS
  <2>5. QED
    BY <2>3, <2>4, Zenon
<1>2. /\ q[1] = x \div 4
      /\ q[2] = (x % 4) * 16 + y \div 16
      /\ q[3] = IF i + 1 <= Len(id) THEN (y % 16) * 4 + z \div 64 ELSE 64
      /\ q[4] = IF i + 2 <= Len(id) THEN z % 64 ELSE 64
  BY DEF Quad
<1>3. x = id[i] /\ (i + 1 <= Len(id) => y = id[i + 1]) /\ (i + 2 <= Len(id) => z = id[i + 2])
      /\ (~ i + 1 <= Len(id) => y = 0) /\ (~ i + 2 <= Len(id) => z = 0)
  BY DEF ByteAt
<1> DEFINE p1 == (q[1] * 4 + q[2] \div 16) % 256
           p2 == (q[2] * 16 + q[3] \div 4) % 256
           p3 == (q[3] * 64 + q[4]) % 256
<1>4. Plain(q) = (<<p1>> \o (IF q[3] # 64 THEN <<p2>> ELSE <<>>)) \o (IF q[4] # 64 THEN <<p3>> ELSE <<>>)
  BY DEF Plain
<1>5. p1 = x
  <2> HIDE DEF x, y, z, q
  <2>1. QED
    BY <1>1, <1>2, ThreeBytes
<1>6. CASE i + 2 <= Len(id)
  <2>1. i + 1 <= Len(id)
    BY <1>6
  <2>2. q[3] = (y % 16) * 4 + z \div 64 /\ q[4] = z % 64
    <3> HIDE DEF x, y, z, q
    <3>1. QED
      BY <1>2, <1>6, <2>1
  <2>3. p2 = y /\ p3 = z /\ q[3] # 64 /\ q[4] # 64
    <3> HIDE DEF x, y, z, q
    <3>1. q[2] = (x % 4) * 16 + y \div 16
      BY <1>2
    <3>2. QED
      BY <1>1, <2>2, <3>1, ThreeBytes
  <2>4. Plain(q) = (<<x>> \o <<y>>) \o <<z>>
    <3> HIDE DEF x, y, z, q, p1, p2, p3
    <3>1. QED
      BY <1>4, <1>5, <2>3
  <2>5. End(id, i) = i + 2
    BY <1>6 DEF End
  <2>6. SubSeq(id, i, i + 2) = (<<id[i]>> \o <<id[i + 1]>>) \o <<id[i + 2]>>
    BY <1>6, FewOf, Zenon
  <2>8. x = id[i] /\ y = id[i + 1] /\ z = id[i + 2]
    BY <1>3, <1>6, <2>1, Zenon
  <2>9. QED
    <3> HIDE DEF x, y, z, q
    <3>1. Plain(q) = SubSeq(id, i, End(id, i))
      BY <2>4, <2>5, <2>6, <2>8, Zenon
    <3>2. QED
      BY <3>1 DEF q
<1>7. CASE i + 1 = Len(id)
  <2>1. i + 1 <= Len(id) /\ ~ i + 2 <= Len(id)
    BY <1>7
  <2>2. q[3] = (y % 16) * 4 + z \div 64 /\ q[4] = 64
    <3> HIDE DEF x, y, z, q
    <3>1. QED
      BY <1>2, <2>1
  <2>3. p2 = y /\ q[3] # 64
    <3> HIDE DEF x, y, z, q
    <3>1. q[2] = (x % 4) * 16 + y \div 16
      BY <1>2
    <3>2. QED
      BY <1>1, <2>2, <3>1, ThreeBytes
  <2>4. Plain(q) = (<<x>> \o <<y>>) \o <<>>
    <3> HIDE DEF x, y, z, q, p1, p2, p3
    <3>1. QED
      BY <1>4, <1>5, <2>2, <2>3
  <2>5. End(id, i) = i + 1
    BY <1>7 DEF End
  <2>6. SubSeq(id, i, i + 1) = (<<id[i]>> \o <<id[i + 1]>>) \o <<>>
    BY <2>1, FewOf, Zenon
  <2>8. x = id[i] /\ y = id[i + 1]
    BY <1>3, <2>1, Zenon
  <2>9. QED
    <3> HIDE DEF x, y, z, q
    <3>1. Plain(q) = SubSeq(id, i, End(id, i))
      BY <2>4, <2>5, <2>6, <2>8, Zenon
    <3>2. QED
      BY <3>1 DEF q
<1>8. CASE i = Len(id)
  <2>1. ~ i + 1 <= Len(id) /\ ~ i + 2 <= Len(id)
    BY <1>8
  <2>2. q[3] = 64 /\ q[4] = 64
    <3> HIDE DEF x, y, z, q
    <3>1. QED
      BY <1>2, <2>1
  <2>3. Plain(q) = (<<x>> \o <<>>) \o <<>>
    <3> HIDE DEF x, y, z, q, p1, p2, p3
    <3>1. QED
      BY <1>4, <1>5, <2>2
  <2>4. End(id, i) = i
    BY <1>8 DEF End
  <2>5. SubSeq(id, i, i) = (<<id[i]>> \o <<>>) \o <<>>
    BY FewOf, Zenon
  <2>7. QED
    <3> HIDE DEF y, z, q
    <3>1. x = id[i]
      BY <1>3
    <3> HIDE DEF x
    <3>2. Plain(q) = SubSeq(id, i, End(id, i))
      BY <2>3, <2>4, <2>5, <3>1, Zenon
    <3>3. QED
      BY <3>2 DEF q
<1>9. QED
  BY <1>6, <1>7, <1>8

\* What an agent encoded is decoded to what it was, for every id.
LEMMA RoundTrip ==
    ASSUME NEW id \in Seq(Byte)
    PROVE  Decoded(Encoded(id)) = id
<1>1. CASE Len(id) = 0
  <2>1. id = <<>>
    BY <1>1
  <2>2. Groups(id) = 0
    BY <1>1 DEF Groups
  <2>3. [g \in 1..Groups(id) |-> Quad(id, 3 * g - 2)] = <<>>
    BY <2>2
  <2>4. Encoded(id) = <<>>
    BY <2>3, EncodedIs, FlattenEmpty, Zenon
  <2>5. Decoded(<<>>) = <<>>
    <3>1. Len(<<>>) \div 4 = 0
      OBVIOUS
    <3>2. [g \in 1..0 |-> Plain(SubSeq(<<>>, 4 * g - 3, 4 * g))] = <<>>
      OBVIOUS
    <3>3. QED
      BY <3>1, <3>2, FlattenEmpty, Zenon DEF Decoded
  <2>6. QED
    BY <2>1, <2>4, <2>5, Zenon
<1>2. CASE Len(id) # 0
  <2> DEFINE n == Groups(id)
             place(k) == 3 * (((k - 1) \div 4) + 1) - 2
             w == [k \in 1..(4 * n) |-> Quad(id, place(k))[((k - 1) % 4) + 1]]
             L == {Quad(id, place(k))[((k - 1) % 4) + 1] : k \in 1..(4 * n)}
  <2>1. n \in Nat /\ n >= 1 /\ 3 * n >= Len(id) /\ 3 * n - 2 <= Len(id)
    BY <1>2 DEF Groups
  <2>2. w \in Seq(L) /\ Len(w) = 4 * n
    <3>1. w \in [1..(4 * n) -> L]
      OBVIOUS
    <3> HIDE DEF w, L
    <3>2. QED
      BY <2>1, <3>1
  <2>3. ASSUME NEW i \in Nat, i + 1 <= n
        PROVE  SubSeq(w, 4 * i + 1, 4 * (i + 1)) = Quad(id, 3 * (i + 1) - 2)
    <3> DEFINE q == Quad(id, 3 * (i + 1) - 2)
               v == SubSeq(w, 4 * i + 1, 4 * (i + 1))
    <3>1. ASSUME NEW j \in 1..4 PROVE w[4 * i + j] = q[j]
      <4>1. 4 * i + j \in 1..(4 * n)
        BY <2>1, <2>3
      <4>2. (4 * i + j - 1) \div 4 = i /\ ((4 * i + j - 1) % 4) + 1 = j
        OBVIOUS
      <4>3. place(4 * i + j) = 3 * (i + 1) - 2
        BY <4>2
      <4>4. w[4 * i + j] = Quad(id, place(4 * i + j))[((4 * i + j - 1) % 4) + 1]
        BY <4>1
      <4> HIDE DEF w, place
      <4>5. QED
        BY <4>2, <4>3, <4>4
    <3>2. q \in Seq({q[1], q[2], q[3], q[4]}) /\ Len(q) = 4
      BY DEF Quad
    <3>3. v \in Seq(L) /\ Len(v) = 4 /\ \A j \in 1..4 : v[j] = w[4 * i + j]
      <4> HIDE DEF w, L
      <4>1. 4 * i + 1 \in Int /\ 4 * (i + 1) \in Int /\ 4 * i + 1 <= 4 * (i + 1)
            /\ 4 * (i + 1) - (4 * i + 1) + 1 = 4 /\ \A j \in (4 * i + 1)..(4 * (i + 1)) : j \in 1..Len(w)
        BY <2>1, <2>2, <2>3
      <4>2. \A j \in (4 * i + 1)..(4 * (i + 1)) : w[j] \in L
        BY <2>2, <4>1, ElementOfSeq, Zenon
      <4>3. /\ v \in Seq(L) /\ Len(v) = 4
            /\ \A j \in 1..4 : v[j] = w[(4 * i + 1) + j - 1]
        BY <4>1, <4>2, SubSeqProperties
      <4>4. \A j \in 1..4 : (4 * i + 1) + j - 1 = 4 * i + j
        OBVIOUS
      <4>5. QED
        BY <4>3, <4>4
    <3>4. \A j \in 1..4 : v[j] = q[j]
      <4> HIDE DEF v, q
      <4>1. QED
        BY <3>1, <3>3
    <3>5. v = q
      <4> HIDE DEF v, q, w, L
      <4>1. q \in Seq(L \union {q[1], q[2], q[3], q[4]}) /\ v \in Seq(L \union {q[1], q[2], q[3], q[4]})
        BY <3>2, <3>3, SeqMonotonic
      <4>2. Len(v) = Len(q) /\ \A j \in 1..Len(v) : v[j] = q[j]
        BY <3>2, <3>3, <3>4
      <4>3. QED
        BY <4>1, <4>2, SeqEqual, Zenon
    <3>6. QED
      BY <3>5
  <2>4. Encoded(id) = w
    <3> DEFINE seqs == [g \in 1..n |-> Quad(id, 3 * g - 2)]
               cut == [i \in 0..n |-> 4 * i]
    <3>1. \A i \in 0..n : cut[i] \in Nat /\ cut[i] <= Len(w)
      <4> HIDE DEF w, n
      <4>1. QED
        BY <2>1, <2>2
    <3>2. cut[0] = 0 /\ cut[n] = Len(w)
      <4> HIDE DEF w, n
      <4>1. QED
        BY <2>1, <2>2
    <3>3. \A i \in Nat : i + 1 <= n => cut[i] = 4 * i /\ cut[i + 1] = 4 * (i + 1) /\ seqs[i + 1] = Quad(id, 3 * (i + 1) - 2)
      <4> HIDE DEF n
      <4>1. QED
        BY <2>1
    <3>4. Len(seqs) = n
      <4> HIDE DEF n
      <4>1. QED
        BY <2>1
    <3> HIDE DEF w, seqs, cut, L, n
    <3>5. \A i \in Nat : i + 1 <= n => cut[i] <= cut[i + 1]
      BY <3>3
    <3>6. \A i \in Nat : i + 1 <= n => seqs[i + 1] = SubSeq(w, cut[i] + 1, cut[i + 1])
      BY <2>3, <3>3, Zenon
    <3>7. FlattenSeq(seqs) = w
      <4>1. Pieces(seqs, n, cut, w)
        BY <3>1, <3>2, <3>4, <3>5, <3>6, Zenon DEF Pieces
      <4>2. QED
        BY <2>1, <2>2, <4>1, FlattenCuts, Zenon
    <3>8. QED
      BY <3>7, EncodedIs DEF seqs, n
  <2>5. Decoded(w) = id
    <3> DEFINE seqs == [g \in 1..n |-> Plain(SubSeq(w, 4 * g - 3, 4 * g))]
               cut == [i \in 0..n |-> IF 3 * i <= Len(id) THEN 3 * i ELSE Len(id)]
    <3>1. Decoded(w) = FlattenSeq(seqs)
      <4>1. Len(w) \div 4 = n
        <5> HIDE DEF w, n
        <5>1. QED
          BY <2>1, <2>2
      <4> HIDE DEF w, n
      <4>2. QED
        BY <4>1 DEF Decoded
    <3>2. \A i \in 0..n : cut[i] \in Nat /\ cut[i] <= Len(id)
      <4> HIDE DEF n
      <4>1. QED
        BY <2>1
    <3>3. cut[0] = 0 /\ cut[n] = Len(id)
      <4> HIDE DEF n
      <4>1. QED
        BY <2>1
    <3>4. Len(seqs) = n
      <4> HIDE DEF n, w
      <4>1. QED
        BY <2>1
    <3>5. ASSUME NEW i \in Nat, i + 1 <= n
          PROVE  /\ cut[i] <= cut[i + 1] /\ cut[i] = 3 * i
                 /\ cut[i + 1] = End(id, 3 * i + 1) /\ 3 * i + 1 \in 1..Len(id)
                 /\ seqs[i + 1] = Plain(SubSeq(w, 4 * i + 1, 4 * (i + 1)))
      <4> HIDE DEF n, w
      <4>1. i \in 0..n /\ i + 1 \in 0..n /\ i + 1 \in 1..n /\ 3 * i + 1 <= Len(id)
            /\ 4 * (i + 1) - 3 = 4 * i + 1 /\ 3 * (i + 1) = (3 * i + 1) + 2
        BY <2>1, <3>5
      <4>2. seqs[i + 1] = Plain(SubSeq(w, 4 * i + 1, 4 * (i + 1)))
        BY <4>1
      <4>3. cut[i] = 3 * i /\ cut[i + 1] = End(id, 3 * i + 1)
        BY <4>1 DEF End
      <4>4. cut[i] <= cut[i + 1] /\ 3 * i + 1 \in 1..Len(id)
        BY <4>1
      <4>5. QED
        BY <4>2, <4>3, <4>4
    <3> HIDE DEF w, seqs, cut, L, n
    <3>6. \A i \in Nat : i + 1 <= n => seqs[i + 1] = SubSeq(id, cut[i] + 1, cut[i + 1])
      <4> SUFFICES ASSUME NEW i \in Nat, i + 1 <= n PROVE seqs[i + 1] = SubSeq(id, cut[i] + 1, cut[i + 1])
        OBVIOUS
      <4>1. 3 * (i + 1) - 2 = 3 * i + 1
        OBVIOUS
      <4>2. SubSeq(w, 4 * i + 1, 4 * (i + 1)) = Quad(id, 3 * i + 1)
        BY <2>3, <4>1, Zenon
      <4>3. Plain(Quad(id, 3 * i + 1)) = SubSeq(id, 3 * i + 1, End(id, 3 * i + 1))
        BY <3>5, QuadBack, Zenon
      <4>4. QED
        BY <3>5, <4>2, <4>3, Zenon
    <3>7. \A i \in Nat : i + 1 <= n => cut[i] <= cut[i + 1]
      BY <3>5
    <3>8. FlattenSeq(seqs) = id
      <4>1. Pieces(seqs, n, cut, id)
        BY <3>2, <3>3, <3>4, <3>6, <3>7, Zenon DEF Pieces
      <4>2. QED
        BY <2>1, <4>1, FlattenCuts, Zenon
    <3>9. QED
      BY <3>1, <3>8
  <2>6. QED
    BY <2>4, <2>5, Zenon
<1>3. QED
  BY <1>1, <1>2

\* Bytes without a zero are the string that C sees; any others are bytes as well.
LEMMA CStringIs ==
    ASSUME NEW bytes \in Seq(Byte)
    PROVE  /\ CString(bytes) \in Seq(Byte)
           /\ (\A i \in DOMAIN bytes : bytes[i] # 0) => CString(bytes) = bytes
<1>1. CASE \A i \in DOMAIN bytes : bytes[i] # 0
  BY <1>1 DEF CString
<1>2. CASE \E i \in DOMAIN bytes : bytes[i] = 0
  <2> DEFINE Zeros == {i \in DOMAIN bytes : bytes[i] = 0}
             first == CHOOSE i \in DOMAIN bytes :
                         bytes[i] = 0 /\ \A j \in DOMAIN bytes : j < i => bytes[j] # 0
  <2>1. DOMAIN bytes = 1..Len(bytes) /\ Len(bytes) \in Nat
    OBVIOUS
  <2>2. Zeros \subseteq Nat /\ Zeros # {}
    BY <1>2, <2>1
  <2>3. PICK n \in Zeros : \A m \in Zeros : n <= m
    <3> HIDE DEF Zeros
    <3>1. QED
      BY <2>2, LeastOf
  <2>4. \E i \in DOMAIN bytes : bytes[i] = 0 /\ \A j \in DOMAIN bytes : j < i => bytes[j] # 0
    <3>1. n \in DOMAIN bytes /\ bytes[n] = 0
      OBVIOUS
    <3>2. ASSUME NEW j \in DOMAIN bytes, j < n PROVE bytes[j] # 0
      BY <2>1, <2>3, <3>2
    <3>3. QED
      BY <3>1, <3>2, Zenon
  <2>5. first \in DOMAIN bytes
    BY <2>4, Zenon
  <2>6. CString(bytes) = SubSeq(bytes, 1, first - 1)
    BY <1>2, Zenon DEF CString
  <2> HIDE DEF first
  <2>7. SubSeq(bytes, 1, first - 1) \in Seq(Byte)
    <3>1. first - 1 \in Int /\ \A i \in 1..(first - 1) : i \in 1..Len(bytes)
      BY <2>1, <2>5
    <3>2. \A i \in 1..(first - 1) : bytes[i] \in Byte
      BY <3>1, ElementOfSeq, Zenon
    <3>3. QED
      BY <3>1, <3>2, SubSeqProperties
  <2>8. QED
    BY <1>2, <2>6, <2>7, Zenon
<1>3. QED
  BY <1>1, <1>2, Zenon

-----------------------------------------------------------------------------
\* The fields of a header.
Parts(fields) == [i \in DOMAIN fields |-> IF fields[i] = <<>> THEN <<>> ELSE <<fields[i]>>]

\* What strtok makes of each field: the field, or nothing.
LEMMA PartsAre ==
    ASSUME NEW h \in Seq(Seq(0..64))
    PROVE  /\ Tokens(h) = FlattenSeq(Parts(h))
           /\ Parts(h) \in Seq(Seq(Seq(0..64))) /\ Len(Parts(h)) = Len(h)
           /\ \A i \in 1..Len(h) : Parts(h)[i] = IF h[i] = <<>> THEN <<>> ELSE <<h[i]>>
<1> DEFINE F == Seq(0..64)
<1>1. h \in Seq(F) /\ DOMAIN h = 1..Len(h) /\ Len(h) \in Nat /\ \A i \in 1..Len(h) : h[i] \in F
  BY LenProperties, ElementOfSeq
<1> HIDE DEF F
<1>2. \A x \in F : <<x>> \in Seq(F) /\ <<>> \in Seq(F)
  OBVIOUS
<1>3. Parts(h) \in [1..Len(h) -> Seq(F)]
  BY <1>1, <1>2 DEF Parts
<1>4. Parts(h) \in Seq(Seq(F)) /\ Len(Parts(h)) = Len(h)
  <2> DEFINE G == Seq(F)
             p == Parts(h)
  <2>1. p \in [1..Len(h) -> G] /\ Len(h) \in Nat
    BY <1>1, <1>3
  <2> HIDE DEF G, p
  <2>2. p \in Seq(G) /\ Len(p) = Len(h)
    <3> DEFINE n == Len(h)
    <3>1. p \in [1..n -> G] /\ n \in Nat
      BY <2>1
    <3> HIDE DEF n
    <3>2. p \in Seq(G) /\ Len(p) = n
      BY <3>1
    <3>3. QED
      BY <3>2 DEF n
  <2>3. QED
    BY <2>2 DEF G, p
<1>5. \A i \in 1..Len(h) : Parts(h)[i] = IF h[i] = <<>> THEN <<>> ELSE <<h[i]>>
  BY <1>1 DEF Parts
<1>6. Tokens(h) = FlattenSeq(Parts(h))
  BY DEF Tokens, Parts
<1>7. QED
  BY <1>4, <1>5, <1>6 DEF F

\* The tokens of a header are fields as well.
LEMMA TokensIn ==
    ASSUME NEW h \in Seq(Seq(0..64))
    PROVE  Tokens(h) \in Seq(Seq(0..64))
  BY PartsAre, FlattenIn, Zenon

\* A complete header is its fields.
LEMMA CompleteTokens ==
    ASSUME NEW h \in Seq(Seq(0..64)), Complete(h)
    PROVE  Tokens(h) = h
<1> DEFINE F == Seq(0..64)
           n == Len(h)
           cut == [i \in 0..n |-> i]
<1>1. n \in Nat /\ n >= 8 /\ DOMAIN h = 1..n /\ \A i \in 1..n : h[i] # <<>>
  BY DEF Complete
<1>2. \A i \in 1..n : Parts(h)[i] = <<h[i]>>
  BY <1>1, PartsAre, Zenon
<1>3. \A i \in 1..n : SubSeq(h, i, i) = <<h[i]>>
  <2>1. h \in Seq(F)
    OBVIOUS
  <2> HIDE DEF F
  <2>2. QED
    BY <2>1, OneOf
<1>4. Len(Parts(h)) = n
  BY PartsAre, Zenon
<1>5. Len(h) = n
  OBVIOUS
<1> HIDE DEF n
<1>6. \A i \in Nat : i + 1 <= n => cut[i] = i /\ cut[i + 1] = i + 1 /\ i + 1 \in 1..n
  BY <1>1
<1>7. \A i \in 0..n : cut[i] = i
  OBVIOUS
<1>8. \A i \in 0..n : cut[i] \in Nat /\ cut[i] <= Len(h)
  BY <1>5, <1>1
<1>9. cut[0] = 0 /\ cut[n] = Len(h) /\ \A i \in Nat : i + 1 <= n => cut[i] <= cut[i + 1]
  BY <1>5, <1>1
<1> HIDE DEF cut
<1>10. \A i \in Nat : i + 1 <= n => Parts(h)[i + 1] = SubSeq(h, cut[i] + 1, cut[i + 1])
  BY <1>2, <1>3, <1>6, Zenon
<1>11. Pieces(Parts(h), n, cut, h)
  BY <1>10, <1>8, <1>9, <1>4, Zenon DEF Pieces
<1>12. n \in Nat /\ n >= 1
  BY <1>1
<1>13. FlattenSeq(Parts(h)) = h
  BY <1>11, <1>12, FlattenCuts, Zenon
<1>14. QED
  BY <1>13, PartsAre, Zenon

\* A complete header continues; any other, of eight fields at most, has too few.
LEMMA OthersDoNotContinue ==
    ASSUME NEW h \in Seq(Seq(0..64))
    PROVE  /\ Complete(h) => Continues(h)
           /\ Len(h) <= 8 /\ ~ Complete(h) => ~ Continues(h)
<1>1. ASSUME Complete(h) PROVE Continues(h)
  <2>1. Len(h) >= 8 /\ Tokens(h) = h
    BY <1>1, CompleteTokens DEF Complete
  <2>2. QED
    BY <2>1 DEF Continues
<1>2. ASSUME Len(h) <= 8, ~ Complete(h) PROVE ~ Continues(h)
  <2> DEFINE p == Parts(h)
  <2>1. p \in Seq(Seq(Seq(0..64))) /\ Len(p) = Len(h) /\ Tokens(h) = FlattenSeq(p)
    BY PartsAre, Zenon
  <2>2. \A i \in 1..Len(p) : Len(p[i]) <= 1
    <3>1. \A i \in 1..Len(h) : p[i] = IF h[i] = <<>> THEN <<>> ELSE <<h[i]>>
      BY PartsAre, Zenon
    <3>2. Len(<<>>) <= 1 /\ \A x : Len(<<x>>) <= 1
      OBVIOUS
    <3> HIDE DEF p
    <3>3. QED
      BY <2>1, <3>1, <3>2, Zenon
  <2>3. CASE Len(h) < 8
    <3>1. Len(FlattenSeq(p)) <= Len(p)
      BY <2>1, <2>2, FlattenShort, Zenon
    <3>2. Len(h) \in Nat /\ Len(Tokens(h)) \in Nat
      BY TokensIn
    <3> HIDE DEF p
    <3>3. QED
      BY <2>1, <2>3, <3>1, <3>2 DEF Continues
  <2>4. CASE Len(h) = 8
    <3>1. PICK k \in 1..8 : h[k] = <<>>
      <4>1. DOMAIN h = 1..8 /\ Len(h) >= 8
        BY <2>4
      <4>2. QED
        BY <1>2, <4>1, Zenon DEF Complete
    <3>2. k \in 1..Len(p) /\ p[k] = <<>>
      BY <2>1, <2>4, <3>1, PartsAre
    <3>3. Len(FlattenSeq(p)) < Len(p)
      BY <2>1, <2>2, <3>2, FlattenShort, Zenon
    <3>4. Len(Tokens(h)) \in Nat
      BY TokensIn
    <3> HIDE DEF p
    <3>5. QED
      BY <2>1, <2>4, <3>3, <3>4 DEF Continues
  <2>5. Len(h) \in Nat
    OBVIOUS
  <2>6. Len(h) < 8 \/ Len(h) = 8
    <3>1. \A n \in Nat : n <= 8 => n < 8 \/ n = 8
      OBVIOUS
    <3>2. QED
      BY <1>2, <2>5, <3>1, Zenon
  <2>7. QED
    BY <2>3, <2>4, <2>6, Zenon
<1>3. QED
  BY <1>1, <1>2, Zenon

-----------------------------------------------------------------------------
\* A beginning of a text is a part of it.
LEMMA PrefixIsSubsequence ==
    ASSUME NEW S, NEW s \in Seq(S), NEW t \in Seq(S)
    PROVE  Subsequence(s, s \o t)
<1> DEFINE u == s \o t
           at == [i \in DOMAIN s |-> i]
<1>1. u \in Seq(S) /\ Len(u) = Len(s) + Len(t) /\ Len(s) \in Nat /\ Len(t) \in Nat
      /\ \A i \in 1..Len(s) : u[i] = s[i]
  BY ConcatProperties
<1>2. DOMAIN s = 1..Len(s) /\ DOMAIN u = 1..Len(u)
  BY <1>1, LenProperties
<1> HIDE DEF u
<1>3. at \in [DOMAIN s -> DOMAIN u]
  BY <1>1, <1>2
<1>4. \A i, j \in DOMAIN s : i < j => at[i] < at[j]
  BY <1>2
<1>5. \A i \in DOMAIN s : s[i] = u[at[i]]
  BY <1>1, <1>2
<1> HIDE DEF at
<1>6. Subsequence(s, u)
  BY <1>3, <1>4, <1>5, Zenon DEF Subsequence
<1>7. QED
  BY <1>6 DEF u

\* A text is a part of itself.
LEMMA SelfIsSubsequence ==
    ASSUME NEW S, NEW s \in Seq(S)
    PROVE  Subsequence(s, s)
<1>1. <<>> \in Seq(S) /\ s \o <<>> = s
  BY EmptySeq, ConcatEmptySeq, Zenon
<1>2. QED
  BY <1>1, PrefixIsSubsequence, Zenon

\* The word before a text, and the text.
LEMMA HeadAndTail ==
    ASSUME NEW S, NEW x \in S, NEW s \in Seq(S)
    PROVE  Head(<<x>> \o s) = x /\ Tail(<<x>> \o s) = s
<1>1. <<x>> \in Seq(S) /\ Len(<<x>>) = 1
  OBVIOUS
<1> DEFINE t == <<x>> \o s
<1>2. t \in Seq(S) /\ Len(t) = 1 + Len(s) /\ Len(s) \in Nat
      /\ \A i \in 1..(1 + Len(s)) : t[i] = IF i <= 1 THEN <<x>>[i] ELSE s[i - 1]
  BY <1>1, ConcatProperties
<1>3. t[1] = x /\ \A i \in 1..Len(s) : t[i + 1] = s[i]
  <2> HIDE DEF t
  <2>1. 1 \in 1..(1 + Len(s)) /\ <<x>>[1] = x
    BY <1>2
  <2>2. \A i \in 1..Len(s) : i + 1 \in 1..(1 + Len(s)) /\ ~ i + 1 <= 1 /\ (i + 1) - 1 = i
    BY <1>2
  <2>3. t[1] = x
    BY <1>2, <2>1
  <2>4. QED
    BY <1>2, <2>2, <2>3
<1> HIDE DEF t
<1>4. t # <<>>
  BY <1>2
<1>5. Tail(t) \in Seq(S) /\ Len(Tail(t)) = Len(s) /\ \A i \in 1..Len(s) : Tail(t)[i] = s[i]
  <2>1. /\ Tail(t) \in Seq(S) /\ Len(Tail(t)) = Len(t) - 1
        /\ \A i \in 1..Len(Tail(t)) : Tail(t)[i] = t[i + 1]
    BY <1>2, <1>4, HeadTailProperties, Zenon
  <2>2. Len(Tail(t)) = Len(s)
    BY <1>2, <2>1
  <2>3. QED
    BY <1>3, <2>1, <2>2
<1>6. Tail(t) = s
  <2>1. Len(Tail(t)) = Len(s) /\ \A i \in 1..Len(Tail(t)) : Tail(t)[i] = s[i]
    BY <1>5
  <2>2. QED
    BY <1>5, <2>1, SeqEqual, Zenon
<1>7. Head(t) = x
  BY <1>2, <1>3
<1>8. QED
  BY <1>6, <1>7 DEF t

\* The two halves of the tag and of what is sent, without their keywords.
ShownOf(kw, args) ==
    FlattenSeq([i \in DOMAIN Format(kw, args) |-> Shown(Format(kw, args)[i], args[i])])
GivenOf(kw, args) ==
    FlattenSeq([i \in DOMAIN Format(kw, args) |-> Given(Format(kw, args)[i], args[i])])

\* The formats.
LEMMA Formats ==
    ASSUME NEW kw, NEW args, IsCall(kw, args)
    PROVE  \/ kw = "MGET" /\ Format(kw, args) = <<"a">>
           \/ kw \in {"MSET", "MSETNX"} /\ Format(kw, args) = <<"m">>
           \/ kw = "SETRANGE" /\ Format(kw, args) = <<"k", "d", "s">>
           \/ /\ kw \notin {"MGET", "MSET", "MSETNX", "SETRANGE"}
              /\ Format(kw, args) \in {<<"k">>, <<"k", "v">>, <<"k", "l">>, <<"k", "f">>,
                                       <<"k", "l", "v">>, <<"k", "l", "l">>}
<1> DEFINE Goal == \/ kw = "MGET" /\ Format(kw, args) = <<"a">>
                   \/ kw \in {"MSET", "MSETNX"} /\ Format(kw, args) = <<"m">>
                   \/ kw = "SETRANGE" /\ Format(kw, args) = <<"k", "d", "s">>
                   \/ /\ kw \notin {"MGET", "MSET", "MSETNX", "SETRANGE"}
                      /\ Format(kw, args) \in {<<"k">>, <<"k", "v">>, <<"k", "l">>, <<"k", "f">>,
                                               <<"k", "l", "v">>, <<"k", "l", "l">>}
<1>1. CASE kw \in {"GET", "STRLEN"}
  BY <1>1 DEF Format
<1>2. CASE kw \in {"APPEND", "GETSET", "SET", "SETNX"}
  BY <1>2 DEF Format
<1>3. CASE kw \in {"DECRBY", "INCRBY"}
  BY <1>3 DEF Format
<1>4. CASE kw \in {"PSETEX", "SETEX"}
  BY <1>4 DEF Format
<1>5. CASE kw = "GETRANGE"
  BY <1>5 DEF Format
<1>6. CASE kw = "INCRBYFLOAT"
  BY <1>6 DEF Format
<1>7. CASE kw = "SETRANGE"
  BY <1>7 DEF Format
<1>8. CASE kw = "MGET"
  BY <1>8 DEF Format
<1>9. CASE kw \in {"MSET", "MSETNX"}
  BY <1>9 DEF Format
<1>10. CASE kw \in {"DECR", "INCR"}
  BY <1>10 DEF Format
<1>11. kw \in Hooked
  BY DEF IsCall
<1>12. QED
  BY <1>1, <1>2, <1>3, <1>4, <1>5, <1>6, <1>7, <1>8, <1>9, <1>10, <1>11 DEF Hooked

\* What stands for an argument.
LEMMA Letters ==
    ASSUME NEW arg
    PROVE  /\ \A letter \in {"k", "l", "f", "s"} : Shown(letter, arg) = <<arg>> /\ Given(letter, arg) = <<arg>>
           /\ Shown("d", arg) = <<Narrow(arg)>> /\ Given("d", arg) = <<arg>>
           /\ Shown("v", arg) \in {<<arg.text>>, <<>>} /\ Given("v", arg) = <<arg.text>>
           /\ Shown("a", arg) = [i \in DOMAIN arg |-> arg[i].value.text] /\ Given("a", arg) = Shown("a", arg)
           /\ Shown("m", arg) = [i \in DOMAIN arg |-> arg[i].key]
           /\ Given("m", arg) = FlattenSeq([i \in DOMAIN arg |-> <<arg[i].key, arg[i].value.text>>])
<1>1. \A letter \in {"k", "l", "f", "s"} : Shown(letter, arg) = <<arg>> /\ Given(letter, arg) = <<arg>>
  BY DEF Shown, Given
<1>2. Shown("d", arg) = <<Narrow(arg)>> /\ Given("d", arg) = <<arg>>
  BY DEF Shown, Given
<1>3. Shown("v", arg) \in {<<arg.text>>, <<>>} /\ Given("v", arg) = <<arg.text>>
  BY DEF Shown, Given
<1>4. Shown("a", arg) = [i \in DOMAIN arg |-> arg[i].value.text] /\ Given("a", arg) = Shown("a", arg)
  BY DEF Shown, Given
<1>5. Shown("m", arg) = [i \in DOMAIN arg |-> arg[i].key]
  BY DEF Shown
<1>6. Given("m", arg) = FlattenSeq([i \in DOMAIN arg |-> <<arg[i].key, arg[i].value.text>>])
  BY DEF Given
<1>7. QED
  BY <1>1, <1>2, <1>3, <1>4, <1>5, <1>6, Zenon

\* What a format of one to three letters makes of the arguments.
LEMMA FewLetters ==
    ASSUME NEW kw, NEW args, NEW fmt, fmt = Format(kw, args)
    PROVE  /\ Len(fmt) = 1 /\ DOMAIN fmt = 1..1 =>
                /\ ShownOf(kw, args) = Shown(fmt[1], args[1])
                /\ GivenOf(kw, args) = Given(fmt[1], args[1])
           /\ Len(fmt) = 2 /\ DOMAIN fmt = 1..2 =>
                /\ ShownOf(kw, args) = Shown(fmt[1], args[1]) \o Shown(fmt[2], args[2])
                /\ GivenOf(kw, args) = Given(fmt[1], args[1]) \o Given(fmt[2], args[2])
           /\ Len(fmt) = 3 /\ DOMAIN fmt = 1..3 =>
                /\ ShownOf(kw, args) = (Shown(fmt[1], args[1]) \o Shown(fmt[2], args[2])) \o Shown(fmt[3], args[3])
                /\ GivenOf(kw, args) = (Given(fmt[1], args[1]) \o Given(fmt[2], args[2])) \o Given(fmt[3], args[3])
<1> DEFINE s == [i \in DOMAIN fmt |-> Shown(fmt[i], args[i])]
           g == [i \in DOMAIN fmt |-> Given(fmt[i], args[i])]
<1>1. ShownOf(kw, args) = FlattenSeq(s) /\ GivenOf(kw, args) = FlattenSeq(g)
  BY DEF ShownOf, GivenOf
<1>2. \A n \in 1..3 : DOMAIN fmt = 1..n => Len(s) = n /\ Len(g) = n
  OBVIOUS
<1>3. \A i \in DOMAIN fmt : s[i] = Shown(fmt[i], args[i]) /\ g[i] = Given(fmt[i], args[i])
  OBVIOUS
<1> HIDE DEF s, g
<1>4. CASE DOMAIN fmt = 1..1
  <2>1. Len(s) = 1 /\ Len(g) = 1 /\ 1 \in DOMAIN fmt /\ DOMAIN fmt # 1..2 /\ DOMAIN fmt # 1..3
    <3>1. 2 \in 1..2 /\ 2 \notin 1..1 /\ 2 \in 1..3
      OBVIOUS
    <3>2. 1 \in 1..3 /\ 1 \in 1..1
      OBVIOUS
    <3>3. QED
      BY <1>2, <1>4, <3>1, <3>2, Zenon
  <2>2. FlattenSeq(s) = s[1] /\ FlattenSeq(g) = g[1]
    BY <2>1, FlattenFew, Zenon
  <2>3. QED
    BY <1>1, <1>3, <2>1, <2>2, Zenon
<1>5. CASE DOMAIN fmt = 1..2
  <2>1. Len(s) = 2 /\ Len(g) = 2 /\ 1 \in DOMAIN fmt /\ 2 \in DOMAIN fmt /\ DOMAIN fmt # 1..1 /\ DOMAIN fmt # 1..3
    <3>1. 1 \in 1..2 /\ 2 \in 1..2 /\ 2 \notin 1..1 /\ 3 \in 1..3 /\ 3 \notin 1..2 /\ 2 \in 1..3
      OBVIOUS
    <3>2. QED
      BY <1>2, <1>5, <3>1, Zenon
  <2>2. FlattenSeq(s) = s[1] \o s[2] /\ FlattenSeq(g) = g[1] \o g[2]
    BY <2>1, FlattenFew, Zenon
  <2>3. QED
    BY <1>1, <1>3, <2>1, <2>2, Zenon
<1>6. CASE DOMAIN fmt = 1..3
  <2>1. Len(s) = 3 /\ Len(g) = 3 /\ 1 \in DOMAIN fmt /\ 2 \in DOMAIN fmt /\ 3 \in DOMAIN fmt
        /\ DOMAIN fmt # 1..1 /\ DOMAIN fmt # 1..2
    <3>1. 1 \in 1..3 /\ 2 \in 1..3 /\ 3 \in 1..3 /\ 3 \notin 1..1 /\ 3 \notin 1..2
      OBVIOUS
    <3>2. QED
      BY <1>2, <1>6, <3>1, Zenon
  <2>2. FlattenSeq(s) = (s[1] \o s[2]) \o s[3] /\ FlattenSeq(g) = (g[1] \o g[2]) \o g[3]
    BY <2>1, FlattenFew, Zenon
  <2>3. QED
    BY <1>1, <1>3, <2>1, <2>2, Zenon
<1>7. QED
  BY <1>4, <1>5, <1>6, Zenon

\* A format of two letters.
LEMMA TwoLetters ==
    ASSUME NEW kw, NEW args, NEW l, NEW m, Format(kw, args) = <<l, m>>
    PROVE  /\ ShownOf(kw, args) = Shown(l, args[1]) \o Shown(m, args[2])
           /\ GivenOf(kw, args) = Given(l, args[1]) \o Given(m, args[2])
<1> DEFINE fmt == <<l, m>>
<1>1. Len(fmt) = 2 /\ DOMAIN fmt = 1..2 /\ fmt[1] = l /\ fmt[2] = m
  OBVIOUS
<1>2. fmt = Format(kw, args)
  OBVIOUS
<1> HIDE DEF fmt
<1>3. QED
  BY <1>1, <1>2, FewLetters, Zenon

\* A format of three letters.
LEMMA ThreeLetters ==
    ASSUME NEW kw, NEW args,
           Len(Format(kw, args)) = 3, DOMAIN Format(kw, args) = 1..3
    PROVE  /\ ShownOf(kw, args) = (Shown(Format(kw, args)[1], args[1]) \o Shown(Format(kw, args)[2], args[2]))
                                    \o Shown(Format(kw, args)[3], args[3])
           /\ GivenOf(kw, args) = (Given(Format(kw, args)[1], args[1]) \o Given(Format(kw, args)[2], args[2]))
                                    \o Given(Format(kw, args)[3], args[3])
  BY FewLetters, Zenon

\* A format of one letter.
LEMMA OneLetter ==
    ASSUME NEW kw, NEW args, NEW l, Format(kw, args) = <<l>>
    PROVE  /\ ShownOf(kw, args) = Shown(l, args[1])
           /\ GivenOf(kw, args) = Given(l, args[1])
<1> DEFINE fmt == <<l>>
<1>1. Len(fmt) = 1 /\ DOMAIN fmt = 1..1 /\ fmt[1] = l
  OBVIOUS
<1>2. fmt = Format(kw, args)
  OBVIOUS
<1> HIDE DEF fmt
<1>3. QED
  BY <1>1, <1>2, FewLetters, Zenon

\* One sequence goes on as the other.
GoesOn(S, s, t) == \E r \in Seq(S) : t = s \o r

\* How the arguments of a command go on.
LEMMA GoingOn ==
    ASSUME NEW S, NEW x \in Seq(S), NEW y \in Seq(S), NEW z \in Seq(S)
    PROVE  /\ x \o y \in Seq(S) /\ (x \o y) \o z \in Seq(S)
           /\ GoesOn(S, x, x) /\ GoesOn(S, x, x \o y) /\ GoesOn(S, x, (x \o y) \o z)
           /\ GoesOn(S, x \o <<>>, x \o y)
<1>1. x \o y \in Seq(S) /\ y \o z \in Seq(S) /\ <<>> \in Seq(S)
  BY ConcatProperties, EmptySeq, Zenon
<1>2. (x \o y) \o z \in Seq(S)
  BY <1>1, ConcatProperties, Zenon
<1>3. (x \o y) \o z = x \o (y \o z)
  BY ConcatAssociative
<1>4. x \o <<>> = x
  BY ConcatEmptySeq, Zenon
<1>5. GoesOn(S, x, x)
  BY <1>1, <1>4, Zenon DEF GoesOn
<1>6. GoesOn(S, x, x \o y)
  BY Zenon DEF GoesOn
<1>7. GoesOn(S, x, (x \o y) \o z)
  BY <1>1, <1>3, Zenon DEF GoesOn
<1>8. GoesOn(S, x \o <<>>, x \o y)
  BY <1>4, <1>6, Zenon
<1>9. QED
  BY <1>1, <1>2, <1>5, <1>6, <1>7, <1>8

\* Of a call with one key, the tag has the key first, and is the beginning of
\* what is sent.
LEMMA KeyFirst ==
    ASSUME NEW kw, NEW args, IsCall(kw, args), kw \notin {"MGET", "MSET", "MSETNX"},
           NEW S, args[1] \in S, args[2] \in S, args[3] \in S, args[2].text \in S, args[3].text \in S,
           Narrow(args[2]) \in S
    PROVE  /\ ShownOf(kw, args) \in Seq(S) /\ GivenOf(kw, args) \in Seq(S)
           /\ GoesOn(S, <<args[1]>>, ShownOf(kw, args))
           /\ (kw = "SETRANGE" => Narrow(args[2]) = args[2]) => GoesOn(S, ShownOf(kw, args), GivenOf(kw, args))
<1> DEFINE A == <<args[1]>>
           B == <<args[2]>>
           C == <<args[3]>>
           N == <<Narrow(args[2])>>
           T == <<args[2].text>>
           U == <<args[3].text>>
           Goal == /\ ShownOf(kw, args) \in Seq(S) /\ GivenOf(kw, args) \in Seq(S)
                   /\ GoesOn(S, A, ShownOf(kw, args))
                   /\ (kw = "SETRANGE" => Narrow(args[2]) = args[2]) => GoesOn(S, ShownOf(kw, args), GivenOf(kw, args))
<1>1. /\ A \in Seq(S) /\ B \in Seq(S) /\ C \in Seq(S) /\ N \in Seq(S) /\ T \in Seq(S) /\ U \in Seq(S)
      /\ <<>> \in Seq(S)
  <2>1. \A x \in S : <<x>> \in Seq(S)
    OBVIOUS
  <2>2. QED
    BY <2>1, EmptySeq, Zenon
<1>2. /\ Shown("k", args[1]) = A /\ Given("k", args[1]) = A
      /\ \A l \in {"k", "l", "f", "s"} : /\ Shown(l, args[2]) = B /\ Given(l, args[2]) = B
                                        /\ Shown(l, args[3]) = C /\ Given(l, args[3]) = C
      /\ Shown("d", args[2]) = N /\ Given("d", args[2]) = B
      /\ Shown("v", args[2]) \in {T, <<>>} /\ Given("v", args[2]) = T
      /\ Shown("v", args[3]) \in {U, <<>>} /\ Given("v", args[3]) = U
  <2>1. /\ Shown("k", args[1]) = A /\ Given("k", args[1]) = A
        /\ \A l \in {"k", "l", "f", "s"} : Shown(l, args[2]) = B /\ Given(l, args[2]) = B
        /\ \A l \in {"k", "l", "f", "s"} : Shown(l, args[3]) = C /\ Given(l, args[3]) = C
    BY Letters, Zenon
  <2>2. Shown("d", args[2]) = N /\ Given("d", args[2]) = B
    BY Letters, Zenon
  <2>3. /\ Shown("v", args[2]) \in {T, <<>>} /\ Given("v", args[2]) = T
        /\ Shown("v", args[3]) \in {U, <<>>} /\ Given("v", args[3]) = U
    BY Letters, Zenon
  <2>4. QED
    BY <2>1, <2>2, <2>3, Zenon
<1>3. N = B <=> Narrow(args[2]) = args[2]
  OBVIOUS
<1> HIDE DEF A, B, C, N, T, U
<1>4. ASSUME Format(kw, args) = <<"k">> PROVE Goal
  <2>1. ShownOf(kw, args) = A /\ GivenOf(kw, args) = A
    BY <1>2, <1>4, OneLetter, Zenon
  <2>2. QED
    BY <1>1, <2>1, GoingOn, Zenon
<1>5. ASSUME NEW l \in {"l", "f"}, Format(kw, args) = <<"k", l>> PROVE Goal
  <2>1. ShownOf(kw, args) = A \o B /\ GivenOf(kw, args) = A \o B
    <3>1. /\ ShownOf(kw, args) = Shown("k", args[1]) \o Shown(l, args[2])
          /\ GivenOf(kw, args) = Given("k", args[1]) \o Given(l, args[2])
      BY <1>5, TwoLetters
    <3>2. QED
      BY <1>2, <3>1, Zenon
  <2>2. A \o B \in Seq(S) /\ GoesOn(S, A, A \o B)
    BY <1>1, GoingOn, Zenon
  <2>3. GoesOn(S, A \o B, A \o B)
    BY <2>2, GoingOn, Zenon
  <2>4. QED
    BY <2>1, <2>2, <2>3, Zenon
<1>6. ASSUME Format(kw, args) = <<"k", "v">> PROVE Goal
  <2>1. ShownOf(kw, args) = A \o Shown("v", args[2]) /\ GivenOf(kw, args) = A \o T
    <3>1. /\ ShownOf(kw, args) = Shown("k", args[1]) \o Shown("v", args[2])
          /\ GivenOf(kw, args) = Given("k", args[1]) \o Given("v", args[2])
      BY <1>6, TwoLetters
    <3>2. QED
      BY <1>2, <3>1, Zenon
  <2>2. A \o T \in Seq(S) /\ A \o <<>> \in Seq(S) /\ GoesOn(S, A, A \o T) /\ GoesOn(S, A, A \o <<>>)
        /\ GoesOn(S, A \o <<>>, A \o T)
    BY <1>1, GoingOn, Zenon
  <2>3. GoesOn(S, A \o T, A \o T)
    BY <2>2, GoingOn, Zenon
  <2>4. CASE Shown("v", args[2]) = T
    BY <2>1, <2>2, <2>3, <2>4, Zenon
  <2>5. CASE Shown("v", args[2]) = <<>>
    BY <2>1, <2>2, <2>5, Zenon
  <2>6. QED
    BY <1>2, <2>4, <2>5, Zenon
<1>7. ASSUME Format(kw, args) = <<"k", "l", "v">> PROVE Goal
  <2> DEFINE D == A \o B
  <2>1. ShownOf(kw, args) = D \o Shown("v", args[3]) /\ GivenOf(kw, args) = D \o U
    <3>1. /\ ShownOf(kw, args) = (Shown("k", args[1]) \o Shown("l", args[2])) \o Shown("v", args[3])
          /\ GivenOf(kw, args) = (Given("k", args[1]) \o Given("l", args[2])) \o Given("v", args[3])
      <4>1. /\ Len(Format(kw, args)) = 3 /\ DOMAIN Format(kw, args) = 1..3
            /\ Format(kw, args)[1] = "k" /\ Format(kw, args)[2] = "l" /\ Format(kw, args)[3] = "v"
        BY <1>7
      <4>2. QED
        BY <4>1, ThreeLetters, Zenon
    <3>2. QED
      BY <1>2, <3>1, Zenon
  <2>2. D \in Seq(S) /\ D \o U \in Seq(S) /\ GoesOn(S, A, D \o U)
    BY <1>1, GoingOn, Zenon
  <2>3. D \o <<>> \in Seq(S) /\ GoesOn(S, A, D \o <<>>)
    BY <1>1, GoingOn, Zenon
  <2> HIDE DEF D
  <2>4. GoesOn(S, D \o <<>>, D \o U) /\ GoesOn(S, D \o U, D \o U)
    BY <1>1, <2>2, GoingOn, Zenon
  <2>5. CASE Shown("v", args[3]) = U
    BY <2>1, <2>2, <2>4, <2>5, Zenon
  <2>6. CASE Shown("v", args[3]) = <<>>
    BY <2>1, <2>2, <2>3, <2>4, <2>6, Zenon
  <2>7. QED
    BY <1>2, <2>5, <2>6, Zenon
<1>8. ASSUME Format(kw, args) = <<"k", "l", "l">> PROVE Goal
  <2> DEFINE D == (A \o B) \o C
  <2>1. ShownOf(kw, args) = D /\ GivenOf(kw, args) = D
    <3>1. /\ ShownOf(kw, args) = (Shown("k", args[1]) \o Shown("l", args[2])) \o Shown("l", args[3])
          /\ GivenOf(kw, args) = (Given("k", args[1]) \o Given("l", args[2])) \o Given("l", args[3])
      <4>1. /\ Len(Format(kw, args)) = 3 /\ DOMAIN Format(kw, args) = 1..3
            /\ Format(kw, args)[1] = "k" /\ Format(kw, args)[2] = "l" /\ Format(kw, args)[3] = "l"
        BY <1>8
      <4>2. QED
        BY <4>1, ThreeLetters, Zenon
    <3>2. QED
      BY <1>2, <3>1, Zenon
  <2>2. D \in Seq(S) /\ GoesOn(S, A, D)
    BY <1>1, GoingOn, Zenon
  <2> HIDE DEF D
  <2>3. GoesOn(S, D, D)
    BY <2>2, GoingOn, Zenon
  <2>4. QED
    BY <2>1, <2>2, <2>3, Zenon
<1>9. ASSUME kw = "SETRANGE", Format(kw, args) = <<"k", "d", "s">> PROVE Goal
  <2> DEFINE D == (A \o N) \o C
             E == (A \o B) \o C
  <2>1. ShownOf(kw, args) = D /\ GivenOf(kw, args) = E
    <3>1. /\ ShownOf(kw, args) = (Shown("k", args[1]) \o Shown("d", args[2])) \o Shown("s", args[3])
          /\ GivenOf(kw, args) = (Given("k", args[1]) \o Given("d", args[2])) \o Given("s", args[3])
      <4>1. /\ Len(Format(kw, args)) = 3 /\ DOMAIN Format(kw, args) = 1..3
            /\ Format(kw, args)[1] = "k" /\ Format(kw, args)[2] = "d" /\ Format(kw, args)[3] = "s"
        BY <1>9
      <4>2. QED
        BY <4>1, ThreeLetters, Zenon
    <3>2. QED
      BY <1>2, <3>1, Zenon
  <2>2. D \in Seq(S) /\ GoesOn(S, A, D) /\ E \in Seq(S)
    BY <1>1, GoingOn, Zenon
  <2>3. N = B => D = E
    BY Zenon
  <2> HIDE DEF D, E
  <2>4. GoesOn(S, D, D)
    BY <2>2, GoingOn, Zenon
  <2>5. QED
    BY <1>3, <1>9, <2>1, <2>2, <2>3, <2>4, Zenon
<1>10. Goal
  <2>1. \/ kw = "SETRANGE" /\ Format(kw, args) = <<"k", "d", "s">>
        \/ Format(kw, args) \in {<<"k">>, <<"k", "v">>, <<"k", "l">>, <<"k", "f">>, <<"k", "l", "v">>, <<"k", "l", "l">>}
    BY Formats, Zenon
  <2> HIDE DEF Goal
  <2>2. QED
    BY <1>4, <1>5, <1>6, <1>7, <1>8, <1>9, <2>1, Zenon
<1>11. QED
  BY <1>10, Zenon DEF A

\* The keys among the pairs that MSET sends.
LEMMA KeysAmongPairs ==
    ASSUME NEW arg, Len(arg) \in Nat, DOMAIN arg = 1..Len(arg)
    PROVE  Subsequence([i \in DOMAIN arg |-> arg[i].key],
                       FlattenSeq([i \in DOMAIN arg |-> <<arg[i].key, arg[i].value.text>>]))
<1> DEFINE n == Len(arg)
           keys == [i \in DOMAIN arg |-> arg[i].key]
           pairs == [i \in DOMAIN arg |-> <<arg[i].key, arg[i].value.text>>]
           S == {arg[i].key : i \in 1..n} \union {arg[i].value.text : i \in 1..n}
           whole == [j \in 1..(2 * n) |-> IF j % 2 = 1 THEN arg[(j + 1) \div 2].key ELSE arg[j \div 2].value.text]
           cut == [i \in 0..n |-> 2 * i]
           at == [i \in 1..n |-> 2 * i - 1]
<1>1. n \in Nat /\ DOMAIN arg = 1..n
  OBVIOUS
<1>2. whole \in Seq(S) /\ Len(whole) = 2 * n /\ DOMAIN whole = 1..(2 * n)
  <2>1. ASSUME NEW j \in 1..(2 * n) PROVE whole[j] \in S
    <3>1. CASE j % 2 = 1
      <4>1. (j + 1) \div 2 \in 1..n
        BY <1>1, <3>1
      <4>2. whole[j] = arg[(j + 1) \div 2].key
        BY <3>1
      <4> HIDE DEF whole, n
      <4>3. QED
        BY <4>1, <4>2
    <3>2. CASE j % 2 # 1
      <4>1. j \div 2 \in 1..n
        BY <1>1, <3>2
      <4>2. whole[j] = arg[j \div 2].value.text
        BY <3>2
      <4> HIDE DEF whole, n
      <4>3. QED
        BY <4>1, <4>2
    <3>3. QED
      BY <3>1, <3>2
  <2>2. whole = [j \in 1..(2 * n) |-> whole[j]] /\ DOMAIN whole = 1..(2 * n)
    OBVIOUS
  <2> HIDE DEF whole, S, n
  <2>3. whole \in [1..(2 * n) -> S]
    BY <2>1, <2>2
  <2>4. QED
    BY <1>1, <2>2, <2>3
<1>3. ASSUME NEW i \in 1..n
      PROVE  whole[2 * i - 1] = arg[i].key /\ whole[2 * i] = arg[i].value.text
  <2>1. 2 * i - 1 \in 1..(2 * n) /\ 2 * i \in 1..(2 * n) /\ (2 * i - 1) % 2 = 1 /\ (2 * i) % 2 # 1
        /\ ((2 * i - 1) + 1) \div 2 = i /\ (2 * i) \div 2 = i
    BY <1>1
  <2> HIDE DEF n
  <2>2. QED
    BY <2>1
<1>4. FlattenSeq(pairs) = whole \/ n = 0
  <2> SUFFICES ASSUME n # 0 PROVE FlattenSeq(pairs) = whole
    OBVIOUS
  <2>1. n \in Nat /\ n >= 1
    BY <1>1
  <2>2. Len(pairs) = n
    <3>1. DOMAIN pairs = 1..n /\ pairs = [i \in 1..n |-> pairs[i]]
      BY <1>1
    <3> HIDE DEF n, pairs
    <3>2. QED
      BY <1>1, <3>1
  <2>3. \A i \in 0..n : cut[i] \in Nat /\ cut[i] <= Len(whole)
    <3> HIDE DEF whole, n
    <3>1. QED
      BY <1>1, <1>2
  <2>4. cut[0] = 0 /\ cut[n] = Len(whole) /\ \A i \in Nat : i + 1 <= n => cut[i] <= cut[i + 1]
    <3> HIDE DEF whole, n
    <3>1. QED
      BY <1>1, <1>2
  <2>5. ASSUME NEW i \in Nat, i + 1 <= n PROVE pairs[i + 1] = SubSeq(whole, cut[i] + 1, cut[i + 1])
    <3>1. cut[i] + 1 = 2 * i + 1 /\ cut[i + 1] = 2 * i + 2 /\ i + 1 \in 1..n
          /\ 2 * (i + 1) - 1 = 2 * i + 1 /\ 2 * (i + 1) = 2 * i + 2
      <4> HIDE DEF n
      <4>1. QED
        BY <1>1, <2>5
    <3>2. pairs[i + 1] = <<arg[i + 1].key, arg[i + 1].value.text>>
      BY <1>1, <3>1
    <3>3. whole[2 * i + 1] = arg[i + 1].key /\ whole[2 * i + 2] = arg[i + 1].value.text
      <4> HIDE DEF whole, n
      <4>1. QED
        BY <1>3, <3>1
    <3>4. SubSeq(whole, 2 * i + 1, 2 * i + 2) = <<whole[2 * i + 1], whole[2 * i + 2]>>
      <4> DEFINE p == 2 * i + 1
      <4>1. p \in 1..Len(whole) /\ p + 1 \in 1..Len(whole) /\ p + 1 = 2 * i + 2
        <5> HIDE DEF whole, n
        <5>1. QED
          BY <1>1, <1>2, <2>5
      <4>2. whole \in Seq(S)
        BY <1>2
      <4> HIDE DEF whole, S, p, n
      <4>3. p + 1 <= Len(whole)
        BY <4>1
      <4> DEFINE x == whole[p]
                 y == whole[p + 1]
                 v == SubSeq(whole, p, p + 1)
                 q == <<x, y>>
      <4>4. x \in S /\ y \in S
        BY <4>1, <4>2, ElementOfSeq, Zenon
      <4>5. q \in Seq(S) /\ Len(q) = 2 /\ q[1] = x /\ q[2] = y
        <5> HIDE DEF x, y
        <5>1. QED
          BY <4>4
      <4>6. v \in Seq(S) /\ Len(v) = 2 /\ v[1] = x /\ v[2] = y
        <5>1. p \in Int /\ p + 1 \in Int /\ p <= p + 1 /\ (p + 1) - p + 1 = 2
              /\ \A k \in p..(p + 1) : k \in 1..Len(whole)
          BY <4>1, <4>3
        <5>2. \A k \in p..(p + 1) : whole[k] \in S
          BY <4>2, <5>1, ElementOfSeq, Zenon
        <5>3. v \in Seq(S) /\ Len(v) = 2 /\ \A k \in 1..2 : v[k] = whole[p + k - 1]
          BY <5>1, <5>2, SubSeqProperties
        <5>4. p + 1 - 1 = p /\ p + 2 - 1 = p + 1 /\ 1 \in 1..2 /\ 2 \in 1..2
          BY <5>1
        <5> HIDE DEF v
        <5>5. v[1] = whole[p + 1 - 1] /\ v[2] = whole[p + 2 - 1]
          BY <5>3, <5>4, Zenon
        <5>6. QED
          BY <5>3, <5>4, <5>5, Zenon
      <4>7. v = q
        <5> HIDE DEF v, q, x, y
        <5>1. Len(v) = Len(q) /\ \A k \in 1..Len(v) : v[k] = q[k]
          BY <4>5, <4>6
        <5>2. QED
          BY <4>5, <4>6, <5>1, SeqEqual, Zenon
      <4>8. SubSeq(whole, p, p + 1) = <<whole[p], whole[p + 1]>>
        BY <4>7
      <4>9. QED
        BY <4>1, <4>8 DEF p
    <3> HIDE DEF whole, cut, pairs, n
    <3>5. QED
      BY <3>1, <3>2, <3>3, <3>4, Zenon
  <2> HIDE DEF whole, cut, pairs, n, S
  <2>6. Pieces(pairs, n, cut, whole)
    BY <2>2, <2>3, <2>4, <2>5, Zenon DEF Pieces
  <2>7. QED
    BY <1>2, <2>1, <2>6, FlattenCuts, Zenon
<1>5. CASE n = 0
  <2>1. keys = <<>> /\ pairs = <<>>
    BY <1>1, <1>5
  <2>2. FlattenSeq(pairs) = <<>>
    BY <2>1, FlattenEmpty, Zenon
  <2>3. <<>> \in Seq({})
    BY EmptySeq, Zenon
  <2> HIDE DEF keys, pairs
  <2>4. Subsequence(keys, FlattenSeq(pairs))
    BY <2>1, <2>2, <2>3, SelfIsSubsequence, Zenon
  <2>5. QED
    BY <2>4 DEF keys, pairs
<1>6. CASE n # 0
  <2>1. DOMAIN keys = 1..n /\ \A i \in 1..n : keys[i] = arg[i].key
    BY <1>1
  <2>2. at \in [1..n -> 1..(2 * n)]
    <3> HIDE DEF n
    <3>1. QED
      BY <1>1
  <2>3. \A i, j \in 1..n : i < j => at[i] < at[j]
    <3> HIDE DEF n
    <3>1. QED
      BY <1>1
  <2>4. \A i \in 1..n : keys[i] = whole[at[i]]
    <3>1. \A i \in 1..n : at[i] = 2 * i - 1
      OBVIOUS
    <3> HIDE DEF at, keys, whole, n
    <3>2. QED
      BY <1>3, <2>1, <3>1
  <2> HIDE DEF at, keys, whole, pairs, n, S
  <2>5. Subsequence(keys, whole)
    BY <1>2, <2>1, <2>2, <2>3, <2>4, Zenon DEF Subsequence
  <2>6. Subsequence(keys, FlattenSeq(pairs))
    BY <1>4, <1>6, <2>5, Zenon
  <2>7. QED
    BY <2>6 DEF keys, pairs
<1>7. QED
  BY <1>5, <1>6

\* What CommandIsTold says of a call and its tag.
Tells(kw, args) ==
    /\ IsSeq(Command(kw, args))
    /\ Head(Command(kw, args)) = kw
    /\ Subsequence(Keys(kw, args), Tail(Command(kw, args)))
    /\ (kw = "SETRANGE" => Narrow(args[2]) = args[2]) =>
          Subsequence(Tail(Command(kw, args)), Tail(Sent(kw, args)))

\* The keyword that is sent.
SentWord(kw, args) ==
    CASE kw = "DECR" /\ args[2] # 1 -> "DECRBY"
      [] kw = "INCR" /\ args[2] # 1 -> "INCRBY"
      [] OTHER -> kw

\* The tag and what is sent are each a word, and then the arguments.
LEMMA InHalves ==
    ASSUME NEW kw, NEW args, NEW S, kw \in S, SentWord(kw, args) \in S,
           ShownOf(kw, args) \in Seq(S), GivenOf(kw, args) \in Seq(S), Options(kw, args) \in Seq(S)
    PROVE  /\ IsSeq(Command(kw, args))
           /\ Head(Command(kw, args)) = kw
           /\ Tail(Command(kw, args)) = ShownOf(kw, args)
           /\ Tail(Sent(kw, args)) = GivenOf(kw, args) \o Options(kw, args)
<1>1. Command(kw, args) = <<kw>> \o ShownOf(kw, args)
  BY Zenon DEF Command, ShownOf
<1>2. Sent(kw, args) = <<SentWord(kw, args)>> \o (GivenOf(kw, args) \o Options(kw, args))
  BY Zenon DEF Sent, GivenOf, SentWord
<1>3. GivenOf(kw, args) \o Options(kw, args) \in Seq(S)
  BY ConcatProperties, Zenon
<1>4. IsSeq(Command(kw, args))
  <2>1. \A x \in S : <<x>> \in Seq(S)
    OBVIOUS
  <2>2. Command(kw, args) \in Seq(S)
    BY <1>1, <2>1, ConcatProperties, Zenon
  <2>3. QED
    BY <2>2, SeqOfRange, Zenon DEF IsSeq
<1>5. QED
  BY <1>1, <1>2, <1>3, <1>4, HeadAndTail, Zenon

\* The commands with one key.
LEMMA TellsOneKey ==
    ASSUME NEW kw, NEW args, IsCall(kw, args), kw \notin {"MGET", "MSET", "MSETNX"}
    PROVE  Tells(kw, args)
<1> DEFINE S == {kw, SentWord(kw, args), args[1], args[2], args[3], args[2].text, args[3].text, Narrow(args[2])}
                \union {args[i] : i \in 1..Len(args)}
<1>1. /\ kw \in S /\ SentWord(kw, args) \in S
      /\ args[1] \in S /\ args[2] \in S /\ args[3] \in S /\ args[2].text \in S /\ args[3].text \in S
      /\ Narrow(args[2]) \in S
  BY Zenon
<1>2. \A i \in 1..Len(args) : args[i] \in S
  BY Zenon
<1> HIDE DEF S
<1>3. Options(kw, args) \in Seq(S)
  <2>1. CASE kw = "SET"
    <3>1. 3 \in Int /\ Len(args) \in Int /\ \A i \in 3..Len(args) : i \in 1..Len(args)
      BY DEF IsCall
    <3>2. SubSeq(args, 3, Len(args)) \in Seq(S)
      BY <1>2, <3>1, SubSeqProperties, Zenon
    <3>3. QED
      BY <2>1, <3>2, Zenon DEF Options
  <2>2. CASE kw # "SET"
    BY <2>2, EmptySeq, Zenon DEF Options
  <2>3. QED
    BY <2>1, <2>2, Zenon
<1>4. /\ ShownOf(kw, args) \in Seq(S) /\ GivenOf(kw, args) \in Seq(S)
      /\ GoesOn(S, <<args[1]>>, ShownOf(kw, args))
      /\ (kw = "SETRANGE" => Narrow(args[2]) = args[2]) => GoesOn(S, ShownOf(kw, args), GivenOf(kw, args))
  BY <1>1, KeyFirst, Zenon
<1>5. /\ IsSeq(Command(kw, args))
      /\ Head(Command(kw, args)) = kw
      /\ Tail(Command(kw, args)) = ShownOf(kw, args)
      /\ Tail(Sent(kw, args)) = GivenOf(kw, args) \o Options(kw, args)
  BY <1>1, <1>3, <1>4, InHalves, Zenon
<1>6. Keys(kw, args) = <<args[1]>>
  BY DEF Keys
<1>7. <<args[1]>> \in Seq(S)
  <2>1. \A x \in S : <<x>> \in Seq(S)
    OBVIOUS
  <2>2. QED
    BY <1>1, <2>1, Zenon
<1>8. Subsequence(Keys(kw, args), ShownOf(kw, args))
  BY <1>4, <1>6, <1>7, PrefixIsSubsequence, Zenon DEF GoesOn
<1>9. ASSUME kw = "SETRANGE" => Narrow(args[2]) = args[2]
      PROVE  Subsequence(ShownOf(kw, args), GivenOf(kw, args) \o Options(kw, args))
  <2>1. PICK r \in Seq(S) : GivenOf(kw, args) = ShownOf(kw, args) \o r
    BY <1>4, <1>9, Zenon DEF GoesOn
  <2>2. (ShownOf(kw, args) \o r) \o Options(kw, args) = ShownOf(kw, args) \o (r \o Options(kw, args))
    BY <1>3, <1>4, ConcatAssociative, SMTT(30)
  <2>3. r \o Options(kw, args) \in Seq(S)
    BY <1>3, ConcatProperties, Zenon
  <2>4. Subsequence(ShownOf(kw, args), ShownOf(kw, args) \o (r \o Options(kw, args)))
    BY <1>4, <2>3, PrefixIsSubsequence, Zenon
  <2>5. QED
    BY <2>1, <2>2, <2>4, Zenon
<1>10. QED
  BY <1>5, <1>8, <1>9, Zenon DEF Tells

\* The commands with many keys.
LEMMA TellsManyKeys ==
    ASSUME NEW kw, NEW args, IsCall(kw, args), kw \in {"MGET", "MSET", "MSETNX"}
    PROVE  Tells(kw, args)
<1> DEFINE arg == args[1]
           text == [i \in DOMAIN arg |-> arg[i].value.text]
           key == [i \in DOMAIN arg |-> arg[i].key]
           pairs == [i \in DOMAIN arg |-> <<arg[i].key, arg[i].value.text>>]
           S == {kw, SentWord(kw, args)} \union {arg[i].value.text : i \in DOMAIN arg} \union {arg[i].key : i \in DOMAIN arg}
<1>1. \/ kw = "MGET" /\ Format(kw, args) = <<"a">>
      \/ kw \in {"MSET", "MSETNX"} /\ Format(kw, args) = <<"m">>
  BY Formats
<1>2. Len(arg) \in Nat /\ DOMAIN arg = 1..Len(arg)
  <2>1. \E letter \in {"a", "m"} : DOMAIN Format(kw, args) = 1..1 /\ Format(kw, args)[1] = letter
    BY <1>1
  <2>2. 1 \in 1..1
    OBVIOUS
  <2>3. \E letter \in {"a", "m"} : Fits(letter, args[1])
    BY <2>1, <2>2, Zenon DEF IsCall
  <2>4. QED
    BY <2>3, Zenon DEF Fits
<1>3. kw \in S /\ SentWord(kw, args) \in S
      /\ \A i \in DOMAIN arg : arg[i].value.text \in S /\ arg[i].key \in S
  BY Zenon
<1>4. text \in Seq(S) /\ key \in Seq(S) /\ pairs \in Seq(Seq(S))
  <2> DEFINE n == Len(arg)
             P == Seq(S)
  <2> HIDE DEF S
  <2>1. \A x, y \in S : <<x, y>> \in P
    OBVIOUS
  <2>2. DOMAIN arg = 1..n /\ n \in Nat
    BY <1>2
  <2> HIDE DEF arg, n, P
  <2>3. text \in [1..n -> S] /\ key \in [1..n -> S] /\ pairs \in [1..n -> P]
    BY <1>3, <2>1, <2>2
  <2> HIDE DEF text, key, pairs
  <2>4. text \in Seq(S) /\ key \in Seq(S) /\ pairs \in Seq(P)
    BY <2>2, <2>3
  <2>5. QED
    BY <2>4 DEF P
<1>5. FlattenSeq(pairs) \in Seq(S)
  <2> HIDE DEF pairs, S
  <2>1. QED
    BY <1>4, FlattenIn, Zenon
<1>6. Options(kw, args) = <<>> /\ <<>> \in Seq(S)
  BY EmptySeq DEF Options
<1>7. Subsequence(key, FlattenSeq(pairs))
  BY <1>2, KeysAmongPairs, Zenon
<1>8. Subsequence(key, key) /\ Subsequence(text, text)
  <2> HIDE DEF key, text, S
  <2>1. QED
    BY <1>4, SelfIsSubsequence, Zenon
<1>9. \A x \in Seq(S) : x \o <<>> = x
  BY ConcatEmptySeq, Zenon
<1>10. /\ Shown("a", arg) = text /\ Given("a", arg) = text
       /\ Shown("m", arg) = key /\ Given("m", arg) = FlattenSeq(pairs)
  BY Letters, Zenon
<1>11. CASE kw = "MGET"
  <2>1. Format(kw, args) = <<"a">>
    BY <1>1, <1>11
  <2>2. ShownOf(kw, args) = Shown("a", arg) /\ GivenOf(kw, args) = Given("a", arg)
    BY <2>1, OneLetter, Zenon
  <2>3. Keys(kw, args) = text
    BY <1>11 DEF Keys
  <2> HIDE DEF text, key, pairs, S, arg
  <2>4. /\ IsSeq(Command(kw, args))
        /\ Head(Command(kw, args)) = kw /\ Tail(Command(kw, args)) = text
        /\ Tail(Sent(kw, args)) = text \o <<>>
    BY <1>3, <1>4, <1>6, <1>10, <2>2, InHalves, Zenon
  <2>5. QED
    BY <1>4, <1>8, <1>9, <2>3, <2>4, Zenon DEF Tells
<1>12. CASE kw \in {"MSET", "MSETNX"}
  <2>1. Format(kw, args) = <<"m">>
    BY <1>1, <1>12
  <2>2. ShownOf(kw, args) = Shown("m", arg) /\ GivenOf(kw, args) = Given("m", arg)
    BY <2>1, OneLetter, Zenon
  <2>3. Keys(kw, args) = key
    BY <1>12 DEF Keys
  <2> HIDE DEF text, key, pairs, S, arg
  <2>4. /\ IsSeq(Command(kw, args))
        /\ Head(Command(kw, args)) = kw /\ Tail(Command(kw, args)) = key
        /\ Tail(Sent(kw, args)) = FlattenSeq(pairs) \o <<>>
    BY <1>3, <1>4, <1>5, <1>6, <1>10, <2>2, InHalves, Zenon
  <2>5. QED
    BY <1>5, <1>7, <1>8, <1>9, <2>3, <2>4, Zenon DEF Tells
<1>13. QED
  BY <1>11, <1>12, Zenon

\* All commands.
LEMMA EveryCallTells ==
    ASSUME NEW kw, NEW args, IsCall(kw, args)
    PROVE  Tells(kw, args)
  BY TellsOneKey, TellsManyKeys, Zenon

-----------------------------------------------------------------------------
\* The reader of a segment: runs of it over texts, over the marks, fields,
\* lists and objects that a segment is made of, and over the whole.

\* One token more for a reader, which stays where it rejected the text.
Step(before, token) == IF before = Rejected THEN Rejected ELSE Read(before, token)

\* The names of the fields of all messages, and the tokens of a text.
FieldNames == UNION {DOMAIN Schema[message] : message \in DOMAIN Schema}
Token == [t : {"{", "}", "[", "]", ",", "number", "bool"}] \union [t : {"key"}, name : FieldNames]
         \union [t : {"string"}, clean : BOOLEAN]

\* A run of the reader over a text, and where it ends.
IsRun(f, stack, tokens) ==
    f[0] = stack /\ \A i \in 1..Len(tokens) : f[i] = Step(f[i - 1], tokens[i])

Reads(stack, tokens, end) ==
    tokens \in Seq(Token) /\ \E f : IsRun(f, stack, tokens) /\ f[Len(tokens)] = end

\* No token leaves the reader where it is.
LEMMA ReadsNothing == ASSUME NEW stack PROVE Reads(stack, <<>>, stack)
<1>1. IsRun([i \in 0..0 |-> stack], stack, <<>>) /\ [i \in 0..0 |-> stack][Len(<<>>)] = stack
  BY DEF IsRun
<1>2. QED
  BY <1>1 DEF Reads

\* One token.
LEMMA ReadsOne ==
    ASSUME NEW stack, NEW token \in Token
    PROVE  Reads(stack, <<token>>, Step(stack, token))
<1> DEFINE f == [i \in 0..1 |-> IF i = 0 THEN stack ELSE Step(stack, token)]
<1>1. f[0] = stack /\ f[1] = Step(stack, token) /\ Len(<<token>>) = 1 /\ <<token>>[1] = token
  OBVIOUS
<1> HIDE DEF f
<1>2. IsRun(f, stack, <<token>>) /\ f[Len(<<token>>)] = Step(stack, token)
  BY <1>1 DEF IsRun
<1>3. <<token>> \in Seq(Token)
  OBVIOUS
<1>4. QED
  BY <1>2, <1>3, Zenon DEF Reads

\* A rejected text stays rejected.
LEMMA RejectedStays ==
    ASSUME NEW tokens \in Seq(Token)
    PROVE  Reads(Rejected, tokens, Rejected)
<1> DEFINE f == [i \in 0..Len(tokens) |-> Rejected]
<1>1. \A i \in 0..Len(tokens) : f[i] = Rejected
  OBVIOUS
<1>2. Len(tokens) \in Nat
  OBVIOUS
<1> HIDE DEF f
<1>3. IsRun(f, Rejected, tokens) /\ f[Len(tokens)] = Rejected
  BY <1>1, <1>2 DEF IsRun, Step
<1>4. QED
  BY <1>3, Zenon DEF Reads

\* Two texts, one after the other.
LEMMA ReadsConcat ==
    ASSUME NEW stack, NEW a, NEW middle, NEW b, NEW end, Reads(stack, a, middle), Reads(middle, b, end)
    PROVE  Reads(stack, a \o b, end)
<1>1. a \in Seq(Token) /\ b \in Seq(Token)
  BY DEF Reads
<1>2. PICK f : IsRun(f, stack, a) /\ f[Len(a)] = middle
  BY Zenon DEF Reads
<1>3. PICK g : IsRun(g, middle, b) /\ g[Len(b)] = end
  BY Zenon DEF Reads
<1> DEFINE h == [i \in 0..Len(a \o b) |-> IF i <= Len(a) THEN f[i] ELSE g[i - Len(a)]]
<1>4. /\ a \o b \in Seq(Token) /\ Len(a \o b) = Len(a) + Len(b) /\ Len(a) \in Nat /\ Len(b) \in Nat
      /\ \A i \in 1..Len(a \o b) : (a \o b)[i] = IF i <= Len(a) THEN a[i] ELSE b[i - Len(a)]
  BY <1>1
<1>5. \A i \in 0..Len(a \o b) : h[i] = IF i <= Len(a) THEN f[i] ELSE g[i - Len(a)]
  OBVIOUS
<1>6. f[0] = stack /\ \A i \in 1..Len(a) : f[i] = Step(f[i - 1], a[i])
  BY <1>2 DEF IsRun
<1>7. g[0] = middle /\ \A i \in 1..Len(b) : g[i] = Step(g[i - 1], b[i])
  BY <1>3 DEF IsRun
<1> HIDE DEF h
<1>8. h[0] = stack /\ h[Len(a \o b)] = end
  BY <1>2, <1>3, <1>4, <1>5, <1>6, <1>7
<1>9. ASSUME NEW i \in 1..Len(a \o b) PROVE h[i] = Step(h[i - 1], (a \o b)[i])
  <2>1. CASE i <= Len(a)
    <3>1. i \in 1..Len(a) /\ i - 1 \in 0..Len(a \o b) /\ i \in 0..Len(a \o b) /\ i - 1 <= Len(a)
      BY <2>1, <1>4
    <3>2. h[i] = f[i] /\ h[i - 1] = f[i - 1] /\ (a \o b)[i] = a[i]
      BY <2>1, <3>1, <1>4, <1>5
    <3>3. QED
      BY <3>1, <3>2, <1>6
  <2>2. CASE i > Len(a)
    <3>1. i - Len(a) \in 1..Len(b) /\ i - 1 \in 0..Len(a \o b) /\ i \in 0..Len(a \o b) /\ (i - Len(a)) - 1 = (i - 1) - Len(a)
      BY <2>2, <1>4
    <3>2. h[i] = g[i - Len(a)] /\ (a \o b)[i] = b[i - Len(a)]
      BY <2>2, <3>1, <1>4, <1>5
    <3>3. h[i - 1] = g[(i - Len(a)) - 1]
      <4>1. CASE i - 1 <= Len(a)
        <5>1. i - 1 = Len(a) /\ (i - Len(a)) - 1 = 0
          BY <2>2, <4>1, <1>4
        <5>2. QED
          BY <5>1, <3>1, <1>2, <1>5, <1>7
      <4>2. CASE ~(i - 1 <= Len(a))
        BY <3>1, <4>2, <1>5
      <4>3. QED
        BY <4>1, <4>2
    <3>4. QED
      BY <3>1, <3>2, <3>3, <1>7
  <2>3. QED
    BY <2>1, <2>2, <1>4
<1>10. IsRun(h, stack, a \o b) /\ h[Len(a \o b)] = end
  BY <1>8, <1>9, Zenon DEF IsRun
<1>11. QED
  BY <1>4, <1>10, Zenon DEF Reads

\* Two runs over a text end alike.
LEMMA ReadsUnique ==
    ASSUME NEW stack, NEW tokens, NEW end, Reads(stack, tokens, end), NEW g, IsRun(g, stack, tokens)
    PROVE  g[Len(tokens)] = end
<1>1. PICK f : IsRun(f, stack, tokens) /\ f[Len(tokens)] = end
  BY Zenon DEF Reads
<1>2. Len(tokens) \in Nat
  BY DEF Reads
<1> DEFINE S == {i \in Nat : i <= Len(tokens) => f[i] = g[i]}
<1>3. 0 \in S
  BY <1>1 DEF IsRun
<1>4. ASSUME NEW i \in Nat, i >= 0, i \in S PROVE i + 1 \in S
  <2> SUFFICES ASSUME i + 1 <= Len(tokens) PROVE f[i + 1] = g[i + 1]
    OBVIOUS
  <2>1. i + 1 \in 1..Len(tokens) /\ (i + 1) - 1 = i /\ f[i] = g[i]
    BY <1>2, <1>4
  <2>2. QED
    BY <1>1, <2>1 DEF IsRun
<1>5. Len(tokens) \in S
  <2> HIDE DEF S
  <2>1. 0 \in Nat /\ \A i \in Nat : i >= 0 /\ i \in S => i + 1 \in S
    BY <1>4
  <2>2. \A i \in Nat : i >= 0 => i \in S
    BY <1>3, <2>1, Induction
  <2>3. QED
    BY <1>2, <2>2
<1>6. QED
  BY <1>1, <1>2, <1>5

\* What ReadRow returns: the end of the run over the row.
LEMMA ReadRowIs ==
    ASSUME NEW stack, NEW row, NEW end, Reads(stack, row, end)
    PROVE  ReadRow(stack, row) = end
<1>1. PICK f : IsRun(f, stack, row) /\ f[Len(row)] = end
  BY Zenon DEF Reads
<1>2. Len(row) \in Nat
  BY DEF Reads
<1> DEFINE Go(h, i) == IF i = 0 THEN stack
                       ELSE LET before == h[i - 1] IN IF before = Rejected THEN Rejected ELSE Read(before, row[i])
<1> DEFINE g == [i \in 0..Len(row) |-> f[i]]
<1>3. \A i \in 0..Len(row) : g[i] = Go(g, i)
  <2> SUFFICES ASSUME NEW i \in 0..Len(row) PROVE g[i] = Go(g, i)
    OBVIOUS
  <2>1. CASE i = 0
    <3>1. g[i] = f[i] /\ f[0] = stack
      BY <1>1, <1>2 DEF IsRun
    <3> HIDE DEF g
    <3>2. QED
      BY <2>1, <3>1
  <2>2. CASE i # 0
    <3>1. i \in 1..Len(row) /\ i - 1 \in 0..Len(row) /\ g[i] = f[i] /\ g[i - 1] = f[i - 1]
      BY <2>2, <1>2
    <3>2. f[i] = Step(f[i - 1], row[i])
      BY <1>1, <3>1 DEF IsRun
    <3> HIDE DEF g
    <3>3. QED
      BY <2>2, <3>1, <3>2 DEF Step
  <2>3. QED
    BY <2>1, <2>2
<1> DEFINE read == CHOOSE h : h = [i \in 0..Len(row) |-> Go(h, i)]
<1>4. g = [i \in 0..Len(row) |-> Go(g, i)]
  <2>1. g = [i \in 0..Len(row) |-> g[i]]
    OBVIOUS
  <2> HIDE DEF g, Go
  <2>2. QED
    BY <1>3, <2>1
<1>5. read = [i \in 0..Len(row) |-> Go(read, i)]
  <2>1. \E h : h = [i \in 0..Len(row) |-> Go(h, i)]
    <3> HIDE DEF g, Go
    <3>1. QED
      BY <1>4, Zenon
  <2> HIDE DEF Go
  <2>2. QED
    BY <2>1, Zenon
<1>6. ReadRow(stack, row) = read[Len(row)]
  BY Zenon DEF ReadRow
<1> HIDE DEF read
<1>7. IsRun(read, stack, row)
  <2>1. \A i \in 0..Len(row) : read[i] = Go(read, i)
    <3> HIDE DEF Go
    <3>1. QED
      BY <1>5
  <2>2. read[0] = stack
    <3>1. 0 \in 0..Len(row)
      BY <1>2
    <3>2. QED
      BY <2>1, <3>1
  <2>3. ASSUME NEW i \in 1..Len(row) PROVE read[i] = Step(read[i - 1], row[i])
    <3>1. i \in 0..Len(row) /\ i # 0
      BY <1>2
    <3>2. QED
      BY <2>1, <3>1 DEF Step
  <2>4. QED
    BY <2>2, <2>3, Zenon DEF IsRun
<1>8. read[Len(row)] = end
  BY <1>7, ReadsUnique, Zenon
<1>9. QED
  BY <1>6, <1>8, Zenon

\* A part of a run is a run over that part of the text.
LEMMA RunPart ==
    ASSUME NEW f, NEW stack, NEW tokens \in Seq(Token), IsRun(f, stack, tokens),
           NEW low \in Nat, NEW high \in Nat, low <= high, high <= Len(tokens)
    PROVE  Reads(f[low], SubSeq(tokens, low + 1, high), f[high])
<1> DEFINE part == SubSeq(tokens, low + 1, high)
           g == [i \in 0..Len(part) |-> f[low + i]]
<1>1. /\ part \in Seq(Token) /\ Len(part) = high - low /\ Len(part) \in Nat /\ Len(tokens) \in Nat
      /\ \A i \in 1..Len(part) : part[i] = tokens[low + i]
  OBVIOUS
<1>2. \A i \in 0..Len(part) : g[i] = f[low + i]
  OBVIOUS
<1> HIDE DEF g, part
<1>3. g[0] = f[low] /\ g[Len(part)] = f[high]
  BY <1>1, <1>2
<1>4. ASSUME NEW i \in 1..Len(part) PROVE g[i] = Step(g[i - 1], part[i])
  <2>1. i \in 0..Len(part) /\ i - 1 \in 0..Len(part) /\ low + i \in 1..Len(tokens) /\ (low + i) - 1 = low + (i - 1)
    BY <1>1
  <2>2. f[low + i] = Step(f[(low + i) - 1], tokens[low + i])
    BY <2>1, Zenon DEF IsRun
  <2>3. QED
    BY <2>1, <2>2, <1>1, <1>2
<1>5. IsRun(g, f[low], part)
  BY <1>3, <1>4, Zenon DEF IsRun
<1>6. Reads(f[low], part, f[high])
  BY <1>1, <1>3, <1>5, Zenon DEF Reads
<1>7. QED
  BY <1>6 DEF part

\* What Parses tells, though it reads the text in rows of ten.
LEMMA ParsesIs ==
    ASSUME NEW tokens, NEW end, Reads(<<Frame("Text", "value")>>, tokens, end)
    PROVE  Parses(tokens) <=> end = <<Frame("Text", "after")>>
<1> DEFINE start == <<Frame("Text", "value")>>
           rows == (Len(tokens) + 9) \div 10
           row(i) == SubSeq(tokens, 10 * i - 9, IF i = rows THEN Len(tokens) ELSE 10 * i)
           cut(i) == IF i = rows THEN Len(tokens) ELSE 10 * i
           Go(h, i) == IF i = 0 THEN start
                       ELSE LET before == h[i - 1]
                            IN  IF before = Rejected THEN Rejected ELSE ReadRow(before, row(i))
           read == CHOOSE h : h = [i \in 0..rows |-> Go(h, i)]
<1>1. PICK f : IsRun(f, start, tokens) /\ f[Len(tokens)] = end
  BY Zenon DEF Reads
<1>2. tokens \in Seq(Token) /\ Len(tokens) \in Nat
  BY DEF Reads
<1>3. rows \in Nat /\ 10 * rows - 9 <= Len(tokens) + 0 /\ Len(tokens) <= 10 * rows /\ (rows = 0 => Len(tokens) = 0)
  BY <1>2
<1>4. /\ cut(0) = 0 /\ cut(rows) = Len(tokens)
      /\ \A i \in 0..rows : cut(i) \in Nat /\ cut(i) <= Len(tokens)
      /\ \A i \in 1..rows : cut(i - 1) <= cut(i) /\ i - 1 \in 0..rows /\ row(i) = SubSeq(tokens, cut(i - 1) + 1, cut(i))
  <2>1. cut(0) = 0 /\ cut(rows) = Len(tokens)
    BY <1>2, <1>3
  <2>2. \A i \in 0..rows : cut(i) \in Nat /\ cut(i) <= Len(tokens)
    BY <1>2, <1>3
  <2>3. ASSUME NEW i \in 1..rows PROVE cut(i - 1) <= cut(i) /\ i - 1 \in 0..rows /\ row(i) = SubSeq(tokens, cut(i - 1) + 1, cut(i))
    <3>1. i - 1 # rows /\ i - 1 \in 0..rows /\ cut(i - 1) = 10 * (i - 1) /\ cut(i - 1) + 1 = 10 * i - 9
      BY <1>3
    <3>2. cut(i - 1) <= cut(i)
      <4>1. i \in 0..rows /\ (i < rows => cut(i) = 10 * i) /\ (i = rows => cut(i) = Len(tokens))
        BY <1>3
      <4> HIDE DEF rows, cut
      <4>2. QED
        BY <1>2, <1>3, <3>1, <4>1
    <3>3. row(i) = SubSeq(tokens, 10 * i - 9, cut(i))
      BY Zenon
    <3>4. QED
      BY <3>1, <3>2, <3>3, Zenon
  <2>4. QED
    BY <2>1, <2>2, <2>3
<1> HIDE DEF rows, row, cut
<1>5. ASSUME NEW i \in 1..rows
      PROVE  f[cut(i)] = IF f[cut(i - 1)] = Rejected THEN Rejected ELSE ReadRow(f[cut(i - 1)], row(i))
  <2>1. i \in 0..rows /\ i - 1 \in 0..rows
    BY <1>3, <1>4
  <2>2. /\ cut(i) \in Nat /\ cut(i - 1) \in Nat /\ cut(i) <= Len(tokens) /\ cut(i - 1) <= cut(i)
        /\ row(i) = SubSeq(tokens, cut(i - 1) + 1, cut(i))
    BY <2>1, <1>4, Zenon
  <2>3. Reads(f[cut(i - 1)], SubSeq(tokens, cut(i - 1) + 1, cut(i)), f[cut(i)])
    BY <1>1, <1>2, <2>2, RunPart, Zenon
  <2>4. Reads(f[cut(i - 1)], row(i), f[cut(i)])
    BY <2>2, <2>3, Zenon
  <2>5. ReadRow(f[cut(i - 1)], row(i)) = f[cut(i)]
    BY <2>4, ReadRowIs, Zenon
  <2>6. ASSUME f[cut(i - 1)] = Rejected PROVE f[cut(i)] = Rejected
    <3>1. Reads(Rejected, row(i), f[cut(i)]) /\ row(i) \in Seq(Token)
      BY <2>4, <2>6, Zenon DEF Reads
    <3>2. Reads(Rejected, row(i), Rejected)
      BY <3>1, RejectedStays, Zenon
    <3>3. ReadRow(Rejected, row(i)) = Rejected /\ ReadRow(Rejected, row(i)) = f[cut(i)]
      BY <3>1, <3>2, ReadRowIs, Zenon
    <3>4. QED
      BY <3>3, Zenon
  <2>7. QED
    BY <2>5, <2>6, Zenon
<1> DEFINE g == [i \in 0..rows |-> f[cut(i)]]
<1>6. \A i \in 0..rows : g[i] = f[cut(i)]
  OBVIOUS
<1>7. ASSUME NEW i \in 0..rows PROVE g[i] = Go(g, i)
  <2> HIDE DEF g
  <2>1. CASE i = 0
    <3>1. g[0] = f[0] /\ f[0] = start
      BY <1>1, <1>4, <1>6, <2>1 DEF IsRun
    <3> HIDE DEF start
    <3>2. QED
      BY <2>1, <3>1
  <2>2. CASE i # 0
    <3>1. i \in 1..rows /\ i - 1 \in 0..rows
      BY <2>2, <1>3
    <3>2. g[i] = f[cut(i)] /\ g[i - 1] = f[cut(i - 1)]
      BY <3>1, <1>6
    <3>3. f[cut(i)] = IF f[cut(i - 1)] = Rejected THEN Rejected ELSE ReadRow(f[cut(i - 1)], row(i))
      BY <3>1, <1>5, Zenon
    <3>4. QED
      BY <2>2, <3>2, <3>3, Zenon
  <2>3. QED
    BY <2>1, <2>2
<1>8. g = [i \in 0..rows |-> Go(g, i)]
  <2>1. g = [i \in 0..rows |-> g[i]]
    OBVIOUS
  <2> HIDE DEF g, Go
  <2>2. QED
    BY <1>7, <2>1
<1>9. read = [i \in 0..rows |-> Go(read, i)]
  <2>1. \E h : h = [i \in 0..rows |-> Go(h, i)]
    <3> HIDE DEF g, Go
    <3>1. QED
      BY <1>8, Zenon
  <2> HIDE DEF Go
  <2>2. QED
    BY <2>1, Zenon
<1>10. Parses(tokens) <=> read[rows] = <<Frame("Text", "after")>>
  BY Zenon DEF Parses, rows, row
<1> HIDE DEF read
<1>11. \A i \in 0..rows : read[i] = Go(read, i)
  <2> HIDE DEF Go
  <2>1. QED
    BY <1>9
<1> DEFINE S == {i \in Nat : i <= rows => read[i] = f[cut(i)]}
<1>12. 0 \in S
  <2>1. 0 \in 0..rows
    BY <1>3
  <2>2. read[0] = start /\ f[cut(0)] = start
    BY <2>1, <1>1, <1>4, <1>11 DEF IsRun
  <2>3. QED
    BY <2>2
<1>13. ASSUME NEW i \in Nat, i >= 0, i \in S PROVE i + 1 \in S
  <2> SUFFICES ASSUME i + 1 <= rows PROVE read[i + 1] = f[cut(i + 1)]
    OBVIOUS
  <2>1. i + 1 \in 1..rows /\ i + 1 \in 0..rows /\ (i + 1) - 1 = i /\ i + 1 # 0 /\ read[i] = f[cut(i)]
    BY <1>3, <1>13
  <2>2. read[i + 1] = Go(read, i + 1)
    BY <2>1, <1>11, Zenon
  <2>3. f[cut(i + 1)] = IF f[cut(i)] = Rejected THEN Rejected ELSE ReadRow(f[cut(i)], row(i + 1))
    <3>1. f[cut(i + 1)] = IF f[cut((i + 1) - 1)] = Rejected THEN Rejected ELSE ReadRow(f[cut((i + 1) - 1)], row(i + 1))
      BY <2>1, <1>5, Zenon
    <3>2. QED
      BY <2>1, <3>1
  <2>4. QED
    BY <2>1, <2>2, <2>3, Zenon
<1>14. rows \in S
  <2> HIDE DEF S
  <2>1. 0 \in Nat /\ \A i \in Nat : i >= 0 /\ i \in S => i + 1 \in S
    BY <1>13
  <2>2. \A i \in Nat : i >= 0 => i \in S
    BY <1>12, <2>1, Induction
  <2>3. QED
    BY <1>3, <2>2
<1>15. read[rows] = f[Len(tokens)]
  BY <1>3, <1>4, <1>14
<1>16. QED
  BY <1>1, <1>10, <1>15, Zenon

\* The frames of a reader.
Types == DOMAIN ElementOf \union DOMAIN Schema
Nexts == {"name", "value", "first", "after"}
NoName == ""
Names == FieldNames \union {NoName}
Frames == [type : Types, next : Nexts, names : SUBSET FieldNames, name : Names]
Place(type, next, names, name) == [type |-> type, next |-> next, names |-> names, name |-> name]

\* What is not clean in a text, and a reader that goes on if nothing is.
Faults(clean) == IF clean THEN {} ELSE {"unclean"}
Unless(stack, faults) == IF faults = {} THEN stack ELSE Rejected

\* Two texts, of which each may be rejected.
LEMMA ReadsBoth ==
    ASSUME NEW stack, NEW a, NEW b, NEW middle, NEW end, NEW one, NEW two,
           Reads(stack, a, Unless(middle, one)), Reads(middle, b, Unless(end, two))
    PROVE  Reads(stack, a \o b, Unless(end, one \union two))
<1>1. CASE one = {}
  <2>1. Reads(stack, a, middle) /\ one \union two = two
    BY <1>1, Zenon DEF Unless
  <2>2. Reads(stack, a \o b, Unless(end, two))
    BY <2>1, ReadsConcat, Zenon
  <2>3. QED
    BY <2>1, <2>2, Zenon
<1>2. CASE one # {}
  <2>1. one \union two # {}
    BY <1>2
  <2>2. Reads(stack, a, Rejected) /\ Unless(end, one \union two) = Rejected
    BY <1>2, <2>1, Zenon DEF Unless
  <2>3. Reads(Rejected, b, Rejected)
    BY RejectedStays, Zenon DEF Reads
  <2>4. Reads(stack, a \o b, Rejected)
    BY <2>2, <2>3, ReadsConcat, Zenon
  <2>5. QED
    BY <2>2, <2>4, Zenon
<1>3. QED
  BY <1>1, <1>2, Zenon

\* A text behind one that may be rejected.
LEMMA ReadsOn ==
    ASSUME NEW stack, NEW a, NEW b, NEW middle, NEW end, NEW faults,
           Reads(stack, a, Unless(middle, faults)), Reads(middle, b, end)
    PROVE  Reads(stack, a \o b, Unless(end, faults))
<1>1. Reads(middle, b, Unless(end, {})) /\ faults \union {} = faults
  BY Zenon DEF Unless
<1>2. QED
  BY <1>1, ReadsBoth, Zenon

\* The stack of a reader, taken apart again.
LEMMA TopOf ==
    ASSUME NEW st \in Seq(Frames), NEW top \in Frames
    PROVE  /\ Append(st, top) \in Seq(Frames) /\ Append(st, top) # Rejected
           /\ Last(Append(st, top)) = top /\ Front(Append(st, top)) = st
<1>1. Append(st, top) \in Seq(Frames) /\ Len(Append(st, top)) = Len(st) + 1 /\ Len(st) \in Nat
  OBVIOUS
<1>2. Append(st, top) # <<>> /\ Append(st, top)[Len(Append(st, top))] = top
  BY <1>1
<1>3. SubSeq(Append(st, top), 1, Len(Append(st, top)) - 1) = st
  BY <1>1
<1>4. QED
  BY <1>1, <1>2, <1>3, Zenon DEF Last, Front, Rejected

\* What becomes of a frame after a value.
After(top) == [top EXCEPT !.next = "after"]

\* So of a place.
LEMMA AfterPlace ==
    ASSUME NEW type, NEW next, NEW names, NEW name
    PROVE  After(Place(type, next, names, name)) = Place(type, "after", names, name)
  BY DEF Place, After

\* A place that is a frame, and what it becomes after a value.
LEMMA PlaceIs ==
    ASSUME NEW type \in Types, NEW next \in Nexts, NEW names \in SUBSET FieldNames, NEW name \in Names
    PROVE  /\ Place(type, next, names, name) \in Frames
           /\ Place(type, next, names, name).type = type /\ Place(type, next, names, name).next = next
           /\ Place(type, next, names, name).names = names /\ Place(type, next, names, name).name = name
           /\ After(Place(type, next, names, name)) = Place(type, "after", names, name)
<1> DEFINE place == [type |-> type, next |-> next, names |-> names, name |-> name]
<1>1. place \in Frames
  BY Zenon DEF Frames
<1>2. place.type = type /\ place.next = next /\ place.names = names /\ place.name = name
  OBVIOUS
<1>3. Place(type, next, names, name) = place
  BY Zenon DEF Place
<1>4. After(Place(type, next, names, name)) = Place(type, "after", names, name)
  BY AfterPlace, Zenon
<1> HIDE DEF place
<1>5. QED
  BY <1>1, <1>2, <1>3, <1>4, Zenon

\* Where a value is read.
Before(top, kind) == top \in Frames /\ top.next \in {"value", "first"} /\ Wanted(top) = kind

\* A text that is a value of a kind, but for the faults in it.
IsValue(tokens, kind, faults) ==
    \A st \in Seq(Frames) : \A top :
        Before(top, kind) => Reads(Append(st, top), tokens, Unless(Append(st, After(top)), faults))

\* A string is read if it is clean.
LEMMA StringIsRead ==
    ASSUME NEW clean \in BOOLEAN
    PROVE  IsValue(<<[t |-> "string", clean |-> clean]>>, "string", Faults(clean))
<1> DEFINE token == [t |-> "string", clean |-> clean]
<1>1. token \in Token /\ token.t = "string" /\ token.clean = clean
  BY DEF Token
<1> HIDE DEF token
<1>2. ASSUME NEW st \in Seq(Frames), NEW top, Before(top, "string")
      PROVE  Step(Append(st, top), token) = Unless(Append(st, After(top)), Faults(clean))
  <2>1. Append(st, top) # Rejected /\ Last(Append(st, top)) = top /\ Front(Append(st, top)) = st
    BY <1>2, TopOf, Zenon DEF Before
  <2>2. Step(Append(st, top), token) = Read(Append(st, top), token)
    BY <2>1, Zenon DEF Step
  <2>3. Read(Append(st, top), token) = Unless(Append(st, After(top)), Faults(clean))
    BY <1>1, <1>2, <2>1 DEF Read, Before, After, Unless, Faults
  <2>4. QED
    BY <2>2, <2>3, Zenon
<1>3. ASSUME NEW st \in Seq(Frames), NEW top, Before(top, "string")
      PROVE  Reads(Append(st, top), <<token>>, Unless(Append(st, After(top)), Faults(clean)))
  <2>1. Reads(Append(st, top), <<token>>, Step(Append(st, top), token))
    BY <1>1, ReadsOne, Zenon
  <2>2. QED
    BY <1>2, <1>3, <2>1, Zenon
<1>4. QED
  BY <1>3, Zenon DEF IsValue, token

\* A number or a truth value is read.
LEMMA ScalarIsRead ==
    ASSUME NEW kind \in {"number", "bool"}
    PROVE  IsValue(<<[t |-> kind]>>, kind, {})
<1> DEFINE token == [t |-> kind]
<1>1. token \in Token /\ token.t = kind
  BY DEF Token
<1> HIDE DEF token
<1>2. ASSUME NEW st \in Seq(Frames), NEW top, Before(top, kind)
      PROVE  Reads(Append(st, top), <<token>>, Unless(Append(st, After(top)), {}))
  <2>1. Append(st, top) # Rejected /\ Last(Append(st, top)) = top /\ Front(Append(st, top)) = st
    BY <1>2, TopOf, Zenon DEF Before
  <2>2. Step(Append(st, top), token) = Read(Append(st, top), token)
    BY <2>1, Zenon DEF Step
  <2>3. Read(Append(st, top), token) = Append(st, After(top))
    BY <1>1, <1>2, <2>1 DEF Read, Before, After
  <2>4. Reads(Append(st, top), <<token>>, Step(Append(st, top), token))
    BY <1>1, ReadsOne, Zenon
  <2>5. QED
    BY <2>2, <2>3, <2>4, Zenon DEF Unless
<1>3. QED
  BY <1>2, Zenon DEF IsValue, token

\* The tokens that stand for no value.
LEMMA Marks == \A mark \in {"{", "}", "[", "]", ","} : [t |-> mark] \in Token /\ [t |-> mark].t = mark
<1>1. ASSUME NEW mark \in {"{", "}", "[", "]", ","} PROVE [t |-> mark] \in Token /\ [t |-> mark].t = mark
  BY DEF Token
<1>2. QED
  BY <1>1

\* A step from a frame is one of Read, which looks at no other frame unless it closes one.
LEMMA StepFrom ==
    ASSUME NEW st \in Seq(Frames), NEW top \in Frames, NEW token
    PROVE  Step(Append(st, top), token) = Read(Append(st, top), token)
  BY TopOf, Zenon DEF Step

\* A list or an object begins.
LEMMA Opens ==
    ASSUME NEW st \in Seq(Frames), NEW top, NEW kind, Before(top, kind)
    PROVE  /\ kind \in DOMAIN Schema =>
                Reads(Append(st, top), <<[t |-> "{"]>>, Append(Append(st, top), Place(kind, "name", {}, NoName)))
           /\ kind \in DOMAIN ElementOf =>
                Reads(Append(st, top), <<[t |-> "["]>>, Append(Append(st, top), Place(kind, "first", {}, NoName)))
<1>1. Last(Append(st, top)) = top /\ Front(Append(st, top)) = st
  BY TopOf, Zenon DEF Before
<1>2. ASSUME NEW token \in Token PROVE Reads(Append(st, top), <<token>>, Read(Append(st, top), token))
  <2>1. Step(Append(st, top), token) = Read(Append(st, top), token)
    BY StepFrom, Zenon DEF Before
  <2>2. QED
    BY <2>1, ReadsOne, Zenon
<1>3. ASSUME kind \in DOMAIN Schema, NEW token, token.t = "{"
      PROVE  Read(Append(st, top), token) = Append(Append(st, top), Place(kind, "name", {}, NoName))
  BY <1>1, <1>3 DEF Read, Before, Frame, Place, NoName
<1>4. ASSUME kind \in DOMAIN ElementOf, NEW token, token.t = "["
      PROVE  Read(Append(st, top), token) = Append(Append(st, top), Place(kind, "first", {}, NoName))
  BY <1>1, <1>4 DEF Read, Before, Frame, Place, NoName
<1>5. QED
  BY <1>2, <1>3, <1>4, Marks, Zenon

\* A comma, in a list and in an object.
LEMMA CommaIsRead ==
    ASSUME NEW st \in Seq(Frames), NEW kind \in Types \ {"Text"},
           NEW names \in SUBSET FieldNames, NEW name \in Names
    PROVE  Reads(Append(st, Place(kind, "after", names, name)), Comma,
                 Append(st, Place(kind, IF kind \in DOMAIN ElementOf THEN "value" ELSE "name", names, name)))
<1> DEFINE top == Place(kind, "after", names, name)
           new == Place(kind, IF kind \in DOMAIN ElementOf THEN "value" ELSE "name", names, name)
<1>1. top \in Frames /\ top.type = kind /\ top.next = "after"
  <2>1. kind \in Types /\ "after" \in Nexts
    BY DEF Nexts
  <2>2. QED
    BY <2>1, PlaceIs
<1>2. [top EXCEPT !.next = IF top.type \in DOMAIN ElementOf THEN "value" ELSE "name"] = new
  <2>1. ASSUME NEW next PROVE [top EXCEPT !.next = next] = Place(kind, next, names, name)
    BY DEF Place
  <2> HIDE DEF top
  <2>2. QED
    BY <1>1, <2>1
<1> HIDE DEF top, new
<1>3. Last(Append(st, top)) = top /\ Front(Append(st, top)) = st
  BY <1>1, TopOf, Zenon
<1>4. ASSUME NEW token, token.t = "," PROVE Read(Append(st, top), token) = Append(st, new)
  BY <1>1, <1>2, <1>3, <1>4 DEF Read, Types
<1>5. Reads(Append(st, top), <<[t |-> ","]>>, Step(Append(st, top), [t |-> ","]))
  BY Marks, ReadsOne, Zenon
<1>6. Step(Append(st, top), [t |-> ","]) = Append(st, new)
  BY <1>1, <1>4, StepFrom, Marks, Zenon
<1>7. QED
  BY <1>5, <1>6, Zenon DEF Comma, top, new

\* A list or an object ends, and is a value of what it is in.
LEMMA Closes ==
    ASSUME NEW st \in Seq(Frames), NEW outer \in Frames, NEW top \in Frames
    PROVE  /\ top.type \in DOMAIN ElementOf \ {"Text"} /\ top.next \in {"first", "after"} =>
                Reads(Append(Append(st, outer), top), <<[t |-> "]"]>>, Append(st, After(outer)))
           /\ top.type \in DOMAIN Schema /\ top.next = "after" /\ top.names = DOMAIN Schema[top.type] =>
                Reads(Append(Append(st, outer), top), <<[t |-> "}"]>>, Append(st, After(outer)))
<1> DEFINE inner == Append(st, outer)
<1>1. inner \in Seq(Frames) /\ Last(inner) = outer /\ Front(inner) = st
  BY TopOf, Zenon
<1> HIDE DEF inner
<1>2. Last(Append(inner, top)) = top /\ Front(Append(inner, top)) = inner
  BY <1>1, TopOf, Zenon
<1>3. ASSUME NEW token \in Token PROVE Reads(Append(inner, top), <<token>>, Read(Append(inner, top), token))
  <2>1. Step(Append(inner, top), token) = Read(Append(inner, top), token)
    BY <1>1, StepFrom, Zenon
  <2>2. QED
    BY <2>1, ReadsOne, Zenon
<1>4. ASSUME top.type \in DOMAIN ElementOf \ {"Text"}, top.next \in {"first", "after"}, NEW token, token.t = "]"
      PROVE  Read(Append(inner, top), token) = Append(st, After(outer))
  BY <1>1, <1>2, <1>4 DEF Read, After
<1>5. ASSUME top.type \in DOMAIN Schema, top.next = "after", top.names = DOMAIN Schema[top.type],
             NEW token, token.t = "}"
      PROVE  Read(Append(inner, top), token) = Append(st, After(outer))
  BY <1>1, <1>2, <1>5 DEF Read, After
<1>6. QED
  BY <1>3, <1>4, <1>5, Marks, Zenon DEF inner

\* A key that its message has, and that was not read yet.
LEMMA KeyIsRead ==
    ASSUME NEW st \in Seq(Frames), NEW kind \in DOMAIN Schema, NEW names \in SUBSET FieldNames,
           NEW name \in Names, NEW k \in DOMAIN Schema[kind] \ names
    PROVE  Reads(Append(st, Place(kind, "name", names, name)), JsonKey(k),
                 Append(st, Place(kind, "value", names \union {k}, k)))
<1> DEFINE top == Place(kind, "name", names, name)
           new == Place(kind, "value", names \union {k}, k)
           token == [t |-> "key", name |-> k]
<1>1. top \in Frames /\ top.type = kind /\ top.next = "name" /\ top.names = names
  <2>1. kind \in Types /\ "name" \in Nexts
    BY DEF Types, Nexts
  <2>2. QED
    BY <2>1, PlaceIs
<1>2. [type |-> top.type, next |-> "value", names |-> top.names \union {k}, name |-> k] = new
  BY <1>1, Zenon DEF Place
<1>3. token \in Token /\ token.t = "key" /\ token.name = k
  <2>1. k \in FieldNames
    BY DEF FieldNames
  <2>2. QED
    BY <2>1 DEF Token
<1> HIDE DEF top, new, token
<1>4. Last(Append(st, top)) = top /\ Front(Append(st, top)) = st
  BY <1>1, TopOf, Zenon
<1>5. Read(Append(st, top), token) = Append(st, new)
  BY <1>1, <1>2, <1>3, <1>4 DEF Read
<1>6. Step(Append(st, top), token) = Append(st, new)
  BY <1>1, <1>5, StepFrom, Zenon
<1>7. Reads(Append(st, top), <<token>>, Step(Append(st, top), token))
  BY <1>3, ReadsOne, Zenon
<1>8. QED
  BY <1>6, <1>7, Zenon DEF JsonKey, top, new, token

\* A field is read behind those before it.
LEMMA FieldIsRead ==
    ASSUME NEW st \in Seq(Frames), NEW kind \in DOMAIN Schema, NEW names \in SUBSET FieldNames, NEW name \in Names,
           NEW k \in DOMAIN Schema[kind] \ names, NEW v, NEW faults, IsValue(v, Schema[kind][k], faults)
    PROVE  /\ k \in Names /\ names \union {k} \in SUBSET FieldNames
           /\ Reads(Append(st, Place(kind, "name", names, name)), JsonKey(k) \o v,
                    Unless(Append(st, Place(kind, "after", names \union {k}, k)), faults))
<1> DEFINE top == Place(kind, "value", names \union {k}, k)
<1>1. k \in Names /\ names \union {k} \in SUBSET FieldNames
  BY DEF FieldNames, Names
<1>2. kind \in Types /\ "value" \in Nexts
  BY DEF Types, Nexts
<1>3. /\ top \in Frames /\ top.type = kind /\ top.next = "value" /\ top.name = k
      /\ After(top) = Place(kind, "after", names \union {k}, k)
  BY <1>1, <1>2, PlaceIs
<1>4. Before(top, Schema[kind][k])
  <2> HIDE DEF top
  <2>1. kind \notin DOMAIN ElementOf
    BY DEF ElementOf, Schema
  <2>2. Wanted(top) = Schema[kind][k]
    BY <1>3, <2>1, Zenon DEF Wanted
  <2>3. QED
    BY <1>3, <2>2 DEF Before
<1> HIDE DEF top
<1>5. Reads(Append(st, top), v, Unless(Append(st, After(top)), faults))
  BY <1>4, Zenon DEF IsValue
<1>6. Reads(Append(st, Place(kind, "name", names, name)), JsonKey(k), Append(st, top))
  BY KeyIsRead DEF top
<1>7. Reads(Append(st, Place(kind, "name", names, name)), JsonKey(k) \o v, Unless(Append(st, After(top)), faults))
  BY <1>5, <1>6, ReadsConcat, Zenon
<1>8. QED
  BY <1>1, <1>3, <1>7, Zenon

\* The fields of a message with these names, name the last of them.
AreFields(tokens, kind, names, name, faults) ==
    /\ names \in SUBSET FieldNames /\ name \in Names
    /\ \A st \in Seq(Frames) :
          Reads(Append(st, Place(kind, "name", {}, NoName)), tokens,
                Unless(Append(st, Place(kind, "after", names, name)), faults))

\* A first field.
LEMMA OneField ==
    ASSUME NEW kind \in DOMAIN Schema, NEW k \in DOMAIN Schema[kind], NEW v, NEW faults,
           IsValue(v, Schema[kind][k], faults)
    PROVE  AreFields(JsonKey(k) \o v, kind, {k}, k, faults)
<1>1. {} \in SUBSET FieldNames /\ NoName \in Names /\ k \in DOMAIN Schema[kind] \ {} /\ {} \union {k} = {k}
  BY DEF Names
<1>2. \A st \in Seq(Frames) :
          /\ k \in Names /\ {} \union {k} \in SUBSET FieldNames
          /\ Reads(Append(st, Place(kind, "name", {}, NoName)), JsonKey(k) \o v,
                   Unless(Append(st, Place(kind, "after", {} \union {k}, k)), faults))
  BY <1>1, FieldIsRead
<1>3. <<>> \in Seq(Frames)
  OBVIOUS
<1>4. QED
  BY <1>1, <1>2, <1>3, Zenon DEF AreFields

\* A field more, behind a comma.
LEMMA OneFieldMore ==
    ASSUME NEW kind \in DOMAIN Schema, NEW before, NEW names, NEW name, NEW one, NEW two,
           AreFields(before, kind, names, name, one),
           NEW k \in DOMAIN Schema[kind] \ names, NEW v, IsValue(v, Schema[kind][k], two)
    PROVE  AreFields(before \o Comma \o (JsonKey(k) \o v), kind, names \union {k}, k, one \union two)
<1>1. names \in SUBSET FieldNames /\ name \in Names
  BY Zenon DEF AreFields
<1>2. kind \in Types \ {"Text"} /\ kind \notin DOMAIN ElementOf
  BY DEF Types, ElementOf, Schema
<1>3. k \in Names /\ names \union {k} \in SUBSET FieldNames
  BY <1>1 DEF FieldNames, Names
<1>4. ASSUME NEW st \in Seq(Frames)
      PROVE  Reads(Append(st, Place(kind, "name", {}, NoName)), before \o Comma \o (JsonKey(k) \o v),
                   Unless(Append(st, Place(kind, "after", names \union {k}, k)), one \union two))
  <2>1. Reads(Append(st, Place(kind, "name", {}, NoName)), before,
              Unless(Append(st, Place(kind, "after", names, name)), one))
    BY Zenon DEF AreFields
  <2>2. Reads(Append(st, Place(kind, "after", names, name)), Comma,
              Append(st, Place(kind, IF kind \in DOMAIN ElementOf THEN "value" ELSE "name", names, name)))
    BY <1>1, <1>2, CommaIsRead
  <2>3. Reads(Append(st, Place(kind, "after", names, name)), Comma, Append(st, Place(kind, "name", names, name)))
    BY <1>2, <2>2, Zenon
  <2>4. Reads(Append(st, Place(kind, "name", names, name)), JsonKey(k) \o v,
              Unless(Append(st, Place(kind, "after", names \union {k}, k)), two))
    BY <1>1, FieldIsRead
  <2>5. Reads(Append(st, Place(kind, "name", {}, NoName)), before \o Comma,
              Unless(Append(st, Place(kind, "name", names, name)), one))
    BY <2>1, <2>3, ReadsOn, Zenon
  <2>6. QED
    BY <2>4, <2>5, ReadsBoth, Zenon
<1>5. QED
  BY <1>3, <1>4, Zenon DEF AreFields

\* A message is read if its fields are.
LEMMA ObjectIsRead ==
    ASSUME NEW kind \in DOMAIN Schema, NEW fields, NEW name, NEW faults,
           AreFields(fields, kind, DOMAIN Schema[kind], name, faults)
    PROVE  IsValue(Object(fields), kind, faults)
<1> SUFFICES ASSUME NEW st \in Seq(Frames), NEW top, Before(top, kind)
             PROVE  Reads(Append(st, top), Object(fields), Unless(Append(st, After(top)), faults))
  BY Zenon DEF IsValue
<1> DEFINE inner == Place(kind, "after", DOMAIN Schema[kind], name)
<1>1. Reads(Append(st, top), <<[t |-> "{"]>>, Append(Append(st, top), Place(kind, "name", {}, NoName)))
  BY Opens, Zenon
<1>2. Append(st, top) \in Seq(Frames) /\ top \in Frames
  BY TopOf, Zenon DEF Before
<1>3. Reads(Append(Append(st, top), Place(kind, "name", {}, NoName)), fields, Unless(Append(Append(st, top), inner), faults))
  BY <1>2, Zenon DEF AreFields
<1>4. inner \in Frames /\ inner.type = kind /\ inner.next = "after" /\ inner.names = DOMAIN Schema[kind]
  <2>1. DOMAIN Schema[kind] \in SUBSET FieldNames /\ name \in Names
    BY Zenon DEF AreFields
  <2>2. kind \in Types /\ "after" \in Nexts
    BY DEF Types, Nexts
  <2>3. QED
    BY <2>1, <2>2, PlaceIs
<1> HIDE DEF inner
<1>5. Reads(Append(Append(st, top), inner), <<[t |-> "}"]>>, Append(st, After(top)))
  BY <1>2, <1>4, Closes, Zenon
<1>6. Reads(Append(st, top), <<[t |-> "{"]>> \o fields, Unless(Append(Append(st, top), inner), faults))
  BY <1>1, <1>3, ReadsConcat, Zenon
<1>7. Reads(Append(st, top), <<[t |-> "{"]>> \o fields \o <<[t |-> "}"]>>, Unless(Append(st, After(top)), faults))
  BY <1>5, <1>6, ReadsOn, Zenon
<1>8. QED
  BY <1>7, Zenon DEF Object

\* A list is read if its elements are.
LEMMA ListIsRead ==
    ASSUME NEW kind \in DOMAIN ElementOf \ {"Text"}, NEW elements, NEW n \in Nat, DOMAIN elements = 1..n,
           Len(elements) = n, NEW faults, \A i \in 1..n : IsValue(elements[i], ElementOf[kind], faults[i])
    PROVE  IsValue(List(elements), kind, UNION {faults[i] : i \in 1..n})
<1> SUFFICES ASSUME NEW st \in Seq(Frames), NEW top, Before(top, kind)
             PROVE  Reads(Append(st, top), List(elements),
                          Unless(Append(st, After(top)), UNION {faults[i] : i \in 1..n}))
  BY Zenon DEF IsValue
<1> DEFINE base == Append(st, top)
           At(next) == Place(kind, next, {}, NoName)
           Next1(i) == IF i < n THEN "value" ELSE "after"
           Upto(i) == UNION {faults[j] : j \in 1..i}
           seqs == [i \in DOMAIN elements |-> elements[i] \o IF i < Len(elements) THEN Comma ELSE <<>>]
<1>1. base \in Seq(Frames) /\ top \in Frames
  BY TopOf, Zenon DEF Before
<1>2. Reads(base, <<[t |-> "["]>>, Append(base, At("first")))
  BY Opens, Zenon
<1>3. kind \in Types \ {"Text"} /\ {} \in SUBSET FieldNames /\ NoName \in Names /\ kind \in DOMAIN ElementOf
  BY DEF Types, Names
<1>4. \A next \in Nexts : /\ At(next) \in Frames /\ At(next).type = kind /\ At(next).next = next
                          /\ After(At(next)) = At("after")
  <2>1. kind \in Types
    BY <1>3
  <2>2. ASSUME NEW next \in Nexts PROVE /\ At(next) \in Frames /\ At(next).type = kind /\ At(next).next = next
                                        /\ After(At(next)) = At("after")
    BY <1>3, <2>1, PlaceIs
  <2> HIDE DEF At
  <2>3. QED
    BY <2>2
<1>5. "first" \in Nexts /\ "value" \in Nexts /\ "after" \in Nexts
  BY DEF Nexts
<1>6. Reads(Append(base, At("after")), Comma, Append(base, At("value")))
  <2>1. Reads(Append(base, Place(kind, "after", {}, NoName)), Comma,
              Append(base, Place(kind, IF kind \in DOMAIN ElementOf THEN "value" ELSE "name", {}, NoName)))
    <3> HIDE DEF base
    <3>1. QED
      BY <1>1, <1>3, CommaIsRead
  <2>2. QED
    BY <1>3, <2>1, Zenon
<1>7. ASSUME NEW next \in Nexts, next \in {"first", "after"}
      PROVE  Reads(Append(base, At(next)), <<[t |-> "]"]>>, Append(st, After(top)))
  <2>1. At(next) \in Frames /\ At(next).type \in DOMAIN ElementOf \ {"Text"} /\ At(next).next \in {"first", "after"}
    <3>1. At(next) \in Frames /\ At(next).type = kind /\ At(next).next = next
      BY <1>4, Zenon
    <3> HIDE DEF At
    <3>2. QED
      BY <1>7, <3>1
  <2> HIDE DEF At
  <2>2. QED
    BY <1>1, <2>1, Closes
<1> HIDE DEF base, At
<1>8. ASSUME NEW i \in 1..n, NEW next \in {"first", "value"}
      PROVE  Reads(Append(base, At(next)), elements[i] \o IF i < n THEN Comma ELSE <<>>,
                   Unless(Append(base, At(Next1(i))), faults[i]))
  <2>1. next \in Nexts
    BY <1>5
  <2>2. Before(At(next), ElementOf[kind])
    <3>1. Wanted(At(next)) = ElementOf[kind]
      BY <1>3, <1>4, <2>1, Zenon DEF Wanted
    <3>2. QED
      BY <1>4, <2>1, <3>1 DEF Before
  <2>3. Reads(Append(base, At(next)), elements[i], Unless(Append(base, At("after")), faults[i]))
    BY <1>1, <1>4, <2>1, <2>2, Zenon DEF IsValue
  <2>4. CASE i < n
    <3>1. Next1(i) = "value"
      BY <2>4
    <3> HIDE DEF Next1
    <3>2. QED
      BY <1>6, <2>3, <2>4, <3>1, ReadsOn, Zenon
  <2>5. CASE ~(i < n)
    <3>1. Next1(i) = "after"
      BY <2>5
    <3>2. Reads(Append(base, At("after")), <<>>, Append(base, At("after")))
      BY ReadsNothing, Zenon
    <3> HIDE DEF Next1
    <3>3. QED
      BY <3>2, <2>3, <2>5, <3>1, ReadsOn, Zenon
  <2>6. QED
    BY <2>4, <2>5, Zenon
<1>9. List(elements) = <<[t |-> "["]>> \o FlattenSeq(seqs) \o <<[t |-> "]"]>>
  BY Zenon DEF List
<1>10. Len(seqs) = n /\ \A i \in 1..n : seqs[i] = elements[i] \o IF i < n THEN Comma ELSE <<>>
  OBVIOUS
<1>11. CASE n = 0
  <2>1. seqs = <<>>
    BY <1>11
  <2> HIDE DEF seqs
  <2>2. FlattenSeq(seqs) = <<>>
    BY <2>1, FlattenEmpty, Zenon
  <2>3. Upto(n) = {}
    BY <1>11
  <2>4. Reads(base, <<[t |-> "["]>> \o <<>>, Append(base, At("first")))
    BY <1>2, ReadsNothing, ReadsConcat, Zenon
  <2>5. Reads(Append(base, At("first")), <<[t |-> "]"]>>, Append(st, After(top)))
    BY <1>5, <1>7
  <2>6. Reads(base, List(elements), Append(st, After(top)))
    BY <1>9, <2>2, <2>4, <2>5, ReadsConcat, Zenon
  <2>7. QED
    BY <2>3, <2>6, Zenon DEF base, Unless
<1>12. CASE n # 0
  <2>1. n >= 1 /\ Len(seqs) \in Nat /\ Len(seqs) >= 1
    BY <1>10, <1>12
  <2> HIDE DEF seqs
  <2>2. PICK f : Grows(f, seqs) /\ FlattenSeq(seqs) = f[Len(seqs)]
    BY <2>1, FlattenIs, Zenon
  <2> DEFINE S == {i \in Nat : i <= n => Reads(Append(base, At("first")), f[i],
                                               Unless(Append(base, At(Next1(i))), Upto(i)))}
  <2>3. 1 \in S
    <3>1. f[1] = elements[1] \o IF 1 < n THEN Comma ELSE <<>>
      BY <1>10, <2>1, <2>2 DEF Grows
    <3>2. Upto(1) = faults[1]
      OBVIOUS
    <3>3. 1 \in 1..n
      BY <2>1
    <3> HIDE DEF Next1, Upto
    <3>4. Reads(Append(base, At("first")), f[1], Unless(Append(base, At(Next1(1))), Upto(1)))
      BY <1>8, <3>1, <3>2, <3>3
    <3>5. QED
      BY <3>4
  <2>4. ASSUME NEW i \in Nat, i >= 1, i \in S PROVE i + 1 \in S
    <3> SUFFICES ASSUME i + 1 <= n
                 PROVE  Reads(Append(base, At("first")), f[i + 1], Unless(Append(base, At(Next1(i + 1))), Upto(i + 1)))
      OBVIOUS
    <3>1. Reads(Append(base, At("first")), f[i], Unless(Append(base, At("value")), Upto(i)))
      BY <2>4
    <3>2. f[i + 1] = f[i] \o seqs[i + 1]
      BY <2>1, <2>2, <2>4, <1>10, OneStep
    <3>3. Upto(i + 1) = Upto(i) \union faults[i + 1]
      <4>1. 1..(i + 1) = 1..i \union {i + 1}
        BY <2>4
      <4>2. QED
        BY <4>1
    <3>4. i + 1 \in 1..n /\ "value" \in {"first", "value"}
      BY <2>1, <2>4
    <3>5. Reads(Append(base, At("value")), seqs[i + 1], Unless(Append(base, At(Next1(i + 1))), faults[i + 1]))
      BY <1>8, <1>10, <3>4
    <3> HIDE DEF Next1, Upto
    <3>6. Reads(Append(base, At("first")), f[i] \o seqs[i + 1],
                Unless(Append(base, At(Next1(i + 1))), Upto(i) \union faults[i + 1]))
      BY <3>1, <3>5, ReadsBoth, Zenon
    <3>7. QED
      BY <3>2, <3>3, <3>6
  <2>5. n \in S
    <3> HIDE DEF S
    <3>1. 1 \in Nat /\ \A i \in Nat : i >= 1 /\ i \in S => i + 1 \in S
      BY <2>4
    <3>2. \A i \in Nat : i >= 1 => i \in S
      BY <2>3, <3>1, Induction
    <3>3. QED
      BY <2>1, <3>2
  <2>6. Reads(Append(base, At("first")), FlattenSeq(seqs), Unless(Append(base, At("after")), Upto(n)))
    <3>1. Next1(n) = "after" /\ Len(seqs) = n
      BY <1>10
    <3> HIDE DEF Next1, Upto
    <3>2. Reads(Append(base, At("first")), f[n], Unless(Append(base, At(Next1(n))), Upto(n)))
      BY <2>5
    <3>3. QED
      BY <2>2, <3>1, <3>2, Zenon
  <2> HIDE DEF Upto
  <2>7. Reads(base, <<[t |-> "["]>> \o FlattenSeq(seqs), Unless(Append(base, At("after")), Upto(n)))
    BY <1>2, <2>6, ReadsConcat, Zenon
  <2>8. Reads(Append(base, At("after")), <<[t |-> "]"]>>, Append(st, After(top)))
    BY <1>5, <1>7
  <2>9. Reads(base, List(elements), Unless(Append(st, After(top)), Upto(n)))
    BY <1>9, <2>7, <2>8, ReadsOn, Zenon
  <2>10. QED
    BY <2>9, Zenon DEF base, Upto
<1>13. QED
  BY <1>11, <1>12

\* A field more that is a number or a truth value.
LEMMA OneScalarMore ==
    ASSUME NEW kind \in DOMAIN Schema, NEW before, NEW names, NEW name, NEW faults,
           AreFields(before, kind, names, name, faults),
           NEW k \in DOMAIN Schema[kind] \ names, NEW scalar \in {"number", "bool"}, Schema[kind][k] = scalar
    PROVE  AreFields(before \o Comma \o (JsonKey(k) \o <<[t |-> scalar]>>), kind, names \union {k}, k, faults)
<1>1. IsValue(<<[t |-> scalar]>>, Schema[kind][k], {})
  BY ScalarIsRead
<1>2. faults \union {} = faults
  OBVIOUS
<1>3. AreFields(before \o Comma \o (JsonKey(k) \o <<[t |-> scalar]>>), kind, names \union {k}, k, faults \union {})
  BY <1>1, OneFieldMore
<1>4. QED
  BY <1>2, <1>3

\* So of sky_util_json_int.
LEMMA OneIntMore ==
    ASSUME NEW kind \in DOMAIN Schema, NEW before, NEW names, NEW name, NEW faults,
           AreFields(before, kind, names, name, faults),
           NEW k \in DOMAIN Schema[kind] \ names, Schema[kind][k] = "number"
    PROVE  AreFields(before \o Comma \o JsonInt(k), kind, names \union {k}, k, faults)
<1>1. "number" \in {"number", "bool"}
  OBVIOUS
<1>2. QED
  BY <1>1, OneScalarMore, Zenon DEF JsonInt

\* So of sky_util_json_bool.
LEMMA OneBoolMore ==
    ASSUME NEW kind \in DOMAIN Schema, NEW before, NEW names, NEW name, NEW faults,
           AreFields(before, kind, names, name, faults),
           NEW k \in DOMAIN Schema[kind] \ names, Schema[kind][k] = "bool"
    PROVE  AreFields(before \o Comma \o JsonBool(k), kind, names \union {k}, k, faults)
<1>1. "bool" \in {"number", "bool"}
  OBVIOUS
<1>2. QED
  BY <1>1, OneScalarMore, Zenon DEF JsonBool

\* A string more, which may be unclean.
LEMMA OneStringMore ==
    ASSUME NEW kind \in DOMAIN Schema, NEW before, NEW names, NEW name, NEW faults,
           AreFields(before, kind, names, name, faults),
           NEW k \in DOMAIN Schema[kind] \ names, Schema[kind][k] = "string", NEW clean \in BOOLEAN
    PROVE  AreFields(before \o Comma \o JsonStr(k, clean), kind, names \union {k}, k, faults \union Faults(clean))
<1>1. IsValue(<<[t |-> "string", clean |-> clean]>>, Schema[kind][k], Faults(clean))
  BY StringIsRead, Zenon
<1>2. QED
  BY <1>1, OneFieldMore, Zenon DEF JsonStr

\* A list more, with the faults of its elements.
LEMMA OneListMore ==
    ASSUME NEW kind \in DOMAIN Schema, NEW before, NEW names, NEW name, NEW faults,
           AreFields(before, kind, names, name, faults), NEW k \in DOMAIN Schema[kind] \ names,
           NEW elements, NEW more, IsValue(List(elements), Schema[kind][k], more)
    PROVE  AreFields(before \o Comma \o JsonRaw(k, List(elements)), kind, names \union {k}, k, faults \union more)
  BY OneFieldMore, Zenon DEF JsonRaw

\* A list with nothing in it.
LEMMA NoElements == ASSUME NEW kind \in DOMAIN ElementOf \ {"Text"} PROVE IsValue(List(<<>>), kind, {})
<1> DEFINE faults == [i \in 1..0 |-> {}]
<1>1. DOMAIN <<>> = 1..0 /\ Len(<<>>) = 0 /\ 0 \in Nat
  OBVIOUS
<1>2. \A i \in 1..0 : IsValue(<<>>[i], ElementOf[kind], faults[i])
  OBVIOUS
<1>3. UNION {faults[i] : i \in 1..0} = {}
  OBVIOUS
<1> HIDE DEF faults
<1>4. IsValue(List(<<>>), kind, UNION {faults[i] : i \in 1..0})
  BY <1>1, <1>2, ListIsRead
<1>5. QED
  BY <1>3, <1>4

\* Nothing is wrong with a name that the agent gives.
LEMMA NoFaults == Faults(TRUE) = {} /\ \A clean \in BOOLEAN : Faults(clean) = {} <=> clean
  BY DEF Faults

\* A tag is read if its value is clean.
LEMMA TagIsRead ==
    ASSUME NEW clean \in BOOLEAN
    PROVE  IsValue(TagJson(clean), "KeyStringValuePair", Faults(clean))
<1> DEFINE kind == "KeyStringValuePair"
<1>1. /\ kind \in DOMAIN Schema /\ DOMAIN Schema[kind] = {"key"} \union {"value"}
      /\ Schema[kind]["key"] = "string" /\ Schema[kind]["value"] = "string"
      /\ "key" \in DOMAIN Schema[kind] /\ "value" \in DOMAIN Schema[kind] \ {"key"}
  BY DEF Schema
<1> HIDE DEF kind
<1>2. AreFields(JsonStr("key", TRUE), kind, {"key"}, "key", Faults(TRUE))
  <2>1. IsValue(<<[t |-> "string", clean |-> TRUE]>>, Schema[kind]["key"], Faults(TRUE))
    BY <1>1, StringIsRead
  <2>2. QED
    BY <1>1, <2>1, OneField, Zenon DEF JsonStr
<1>3. AreFields(JsonStr("key", TRUE) \o Comma \o JsonStr("value", clean), kind, {"key"} \union {"value"}, "value",
                Faults(TRUE) \union Faults(clean))
  BY <1>1, <1>2, OneStringMore, Zenon
<1>4. Faults(TRUE) \union Faults(clean) = Faults(clean)
  BY NoFaults
<1>5. QED
  BY <1>1, <1>3, <1>4, ObjectIsRead, Zenon DEF TagJson, kind

\* A span is read if its texts are clean and its tags are read.
LEMMA FieldsOfSpan ==
    ASSUME NEW span, span.operationName \in BOOLEAN, span.peer \in BOOLEAN, NEW tags, NEW faults,
           IsValue(List(tags), "Tags", faults), tags = [i \in DOMAIN span.tags |-> TagJson(span.tags[i])]
    PROVE  IsValue(SpanJson(span), "SpanObject", Faults(span.operationName) \union Faults(span.peer) \union faults)
<1> DEFINE kind == "SpanObject"
           Text1 == JsonInt("span_id")
           Names1 == {"span_id"}
           Text2 == Text1 \o Comma \o JsonInt("parent_span_id")
           Names2 == Names1 \union {"parent_span_id"}
           Text3 == Text2 \o Comma \o JsonInt("start_time")
           Names3 == Names2 \union {"start_time"}
           Text4 == Text3 \o Comma \o JsonInt("end_time")
           Names4 == Names3 \union {"end_time"}
           Text5 == Text4 \o Comma \o JsonRaw("refs", List(<<>>))
           Names5 == Names4 \union {"refs"}
           Text6 == Text5 \o Comma \o JsonStr("operation_name", span.operationName)
           Names6 == Names5 \union {"operation_name"}
           Text7 == Text6 \o Comma \o JsonStr("peer", span.peer)
           Names7 == Names6 \union {"peer"}
           Text8 == Text7 \o Comma \o JsonInt("span_type")
           Names8 == Names7 \union {"span_type"}
           Text9 == Text8 \o Comma \o JsonInt("span_layer")
           Names9 == Names8 \union {"span_layer"}
           Text10 == Text9 \o Comma \o JsonInt("component_id")
           Names10 == Names9 \union {"component_id"}
           Text11 == Text10 \o Comma \o JsonBool("is_error")
           Names11 == Names10 \union {"is_error"}
           Text12 == Text11 \o Comma \o JsonRaw("tags", List(tags))
           Names12 == Names11 \union {"tags"}
           Text13 == Text12 \o Comma \o JsonRaw("logs", List(<<>>))
           Names13 == Names12 \union {"logs"}
           Text14 == Text13 \o Comma \o JsonBool("skip_analysis")
           Names14 == Names13 \union {"skip_analysis"}
<1>1. /\ "span_id" \in DOMAIN Schema[kind] /\ Schema[kind]["span_id"] = "number"
      /\ "parent_span_id" \in DOMAIN Schema[kind] \ Names1 /\ Schema[kind]["parent_span_id"] = "number"
      /\ "start_time" \in DOMAIN Schema[kind] \ Names2 /\ Schema[kind]["start_time"] = "number"
      /\ "end_time" \in DOMAIN Schema[kind] \ Names3 /\ Schema[kind]["end_time"] = "number"
      /\ "refs" \in DOMAIN Schema[kind] \ Names4 /\ Schema[kind]["refs"] = "Refs"
      /\ "operation_name" \in DOMAIN Schema[kind] \ Names5 /\ Schema[kind]["operation_name"] = "string"
      /\ "peer" \in DOMAIN Schema[kind] \ Names6 /\ Schema[kind]["peer"] = "string"
      /\ "span_type" \in DOMAIN Schema[kind] \ Names7 /\ Schema[kind]["span_type"] = "number"
      /\ "span_layer" \in DOMAIN Schema[kind] \ Names8 /\ Schema[kind]["span_layer"] = "number"
      /\ "component_id" \in DOMAIN Schema[kind] \ Names9 /\ Schema[kind]["component_id"] = "number"
      /\ "is_error" \in DOMAIN Schema[kind] \ Names10 /\ Schema[kind]["is_error"] = "bool"
      /\ "tags" \in DOMAIN Schema[kind] \ Names11 /\ Schema[kind]["tags"] = "Tags"
      /\ "logs" \in DOMAIN Schema[kind] \ Names12 /\ Schema[kind]["logs"] = "Logs"
      /\ "skip_analysis" \in DOMAIN Schema[kind] \ Names13 /\ Schema[kind]["skip_analysis"] = "bool"
  BY DEF Schema
<1>2. kind \in DOMAIN Schema
  BY DEF Schema
<1>3. /\ Names2 = Names1 \union {"parent_span_id"}
      /\ Names3 = Names2 \union {"start_time"}
      /\ Names4 = Names3 \union {"end_time"}
      /\ Names5 = Names4 \union {"refs"}
      /\ Names6 = Names5 \union {"operation_name"}
      /\ Names7 = Names6 \union {"peer"}
      /\ Names8 = Names7 \union {"span_type"}
      /\ Names9 = Names8 \union {"span_layer"}
      /\ Names10 = Names9 \union {"component_id"}
      /\ Names11 = Names10 \union {"is_error"}
      /\ Names12 = Names11 \union {"tags"}
      /\ Names13 = Names12 \union {"logs"}
      /\ Names14 = Names13 \union {"skip_analysis"}
  OBVIOUS
<1>4. DOMAIN Schema[kind] = Names14
  BY DEF Schema
<1> HIDE DEF kind, Names2, Names3, Names4, Names5, Names6, Names7, Names8, Names9, Names10, Names11, Names12, Names13, Names14
<1>5. AreFields(Text1, kind, Names1, "span_id", {})
  <2>1. IsValue(<<[t |-> "number"]>>, Schema[kind]["span_id"], {})
    BY <1>1, ScalarIsRead
  <2>2. QED
    BY <1>1, <1>2, <2>1, OneField, Zenon DEF JsonInt
<1>6. AreFields(Text2, kind, Names2, "parent_span_id", {})
  <2>1. "parent_span_id" \in DOMAIN Schema[kind] \ Names1 /\ Schema[kind]["parent_span_id"] = "number"
    BY <1>1, Zenon
  <2>2. Names2 = Names1 \union {"parent_span_id"}
    BY <1>3, Zenon
  <2> HIDE DEF Text1
  <2>3. QED
    BY <1>2, <1>5, <2>1, <2>2, OneIntMore, Zenon
<1>7. AreFields(Text3, kind, Names3, "start_time", {})
  <2>1. "start_time" \in DOMAIN Schema[kind] \ Names2 /\ Schema[kind]["start_time"] = "number"
    BY <1>1, Zenon
  <2>2. Names3 = Names2 \union {"start_time"}
    BY <1>3, Zenon
  <2> HIDE DEF Text2
  <2>3. QED
    BY <1>2, <1>6, <2>1, <2>2, OneIntMore, Zenon
<1>8. AreFields(Text4, kind, Names4, "end_time", {})
  <2>1. "end_time" \in DOMAIN Schema[kind] \ Names3 /\ Schema[kind]["end_time"] = "number"
    BY <1>1, Zenon
  <2>2. Names4 = Names3 \union {"end_time"}
    BY <1>3, Zenon
  <2> HIDE DEF Text3
  <2>3. QED
    BY <1>2, <1>7, <2>1, <2>2, OneIntMore, Zenon
<1>9. AreFields(Text5, kind, Names5, "refs", {})
  <2>1. "refs" \in DOMAIN Schema[kind] \ Names4 /\ Schema[kind]["refs"] = "Refs"
    BY <1>1, Zenon
  <2>2. Names5 = Names4 \union {"refs"}
    BY <1>3, Zenon
  <2> HIDE DEF Text4
  <2>3. IsValue(List(<<>>), Schema[kind]["refs"], {})
    BY <2>1, NoElements DEF ElementOf
  <2>4. AreFields(Text5, kind, Names5, "refs", {} \union {})
    BY <1>2, <1>8, <2>1, <2>2, <2>3, OneListMore, Zenon
  <2>5. {} \union {} = {}
    OBVIOUS
  <2>6. QED
    BY <2>4, <2>5, Zenon
<1>10. AreFields(Text6, kind, Names6, "operation_name", Faults(span.operationName))
  <2>1. "operation_name" \in DOMAIN Schema[kind] \ Names5 /\ Schema[kind]["operation_name"] = "string"
    BY <1>1, Zenon
  <2>2. Names6 = Names5 \union {"operation_name"}
    BY <1>3, Zenon
  <2> HIDE DEF Text5
  <2>3. AreFields(Text6, kind, Names6, "operation_name", {} \union Faults(span.operationName))
    BY <1>2, <1>9, <2>1, <2>2, OneStringMore, Zenon
  <2>4. {} \union Faults(span.operationName) = Faults(span.operationName)
    BY NoFaults
  <2>5. QED
    BY <2>3, <2>4, Zenon
<1>11. AreFields(Text7, kind, Names7, "peer", Faults(span.operationName) \union Faults(span.peer))
  <2>1. "peer" \in DOMAIN Schema[kind] \ Names6 /\ Schema[kind]["peer"] = "string"
    BY <1>1, Zenon
  <2>2. Names7 = Names6 \union {"peer"}
    BY <1>3, Zenon
  <2> HIDE DEF Text6
  <2>3. QED
    BY <1>2, <1>10, <2>1, <2>2, OneStringMore, Zenon
<1>12. AreFields(Text8, kind, Names8, "span_type", Faults(span.operationName) \union Faults(span.peer))
  <2>1. "span_type" \in DOMAIN Schema[kind] \ Names7 /\ Schema[kind]["span_type"] = "number"
    BY <1>1, Zenon
  <2>2. Names8 = Names7 \union {"span_type"}
    BY <1>3, Zenon
  <2> HIDE DEF Text7
  <2>3. QED
    BY <1>2, <1>11, <2>1, <2>2, OneIntMore, Zenon
<1>13. AreFields(Text9, kind, Names9, "span_layer", Faults(span.operationName) \union Faults(span.peer))
  <2>1. "span_layer" \in DOMAIN Schema[kind] \ Names8 /\ Schema[kind]["span_layer"] = "number"
    BY <1>1, Zenon
  <2>2. Names9 = Names8 \union {"span_layer"}
    BY <1>3, Zenon
  <2> HIDE DEF Text8
  <2>3. QED
    BY <1>2, <1>12, <2>1, <2>2, OneIntMore, Zenon
<1>14. AreFields(Text10, kind, Names10, "component_id", Faults(span.operationName) \union Faults(span.peer))
  <2>1. "component_id" \in DOMAIN Schema[kind] \ Names9 /\ Schema[kind]["component_id"] = "number"
    BY <1>1, Zenon
  <2>2. Names10 = Names9 \union {"component_id"}
    BY <1>3, Zenon
  <2> HIDE DEF Text9
  <2>3. QED
    BY <1>2, <1>13, <2>1, <2>2, OneIntMore, Zenon
<1>15. AreFields(Text11, kind, Names11, "is_error", Faults(span.operationName) \union Faults(span.peer))
  <2>1. "is_error" \in DOMAIN Schema[kind] \ Names10 /\ Schema[kind]["is_error"] = "bool"
    BY <1>1, Zenon
  <2>2. Names11 = Names10 \union {"is_error"}
    BY <1>3, Zenon
  <2> HIDE DEF Text10
  <2>3. QED
    BY <1>2, <1>14, <2>1, <2>2, OneBoolMore, Zenon
<1>16. AreFields(Text12, kind, Names12, "tags", Faults(span.operationName) \union Faults(span.peer) \union faults)
  <2>1. "tags" \in DOMAIN Schema[kind] \ Names11 /\ Schema[kind]["tags"] = "Tags"
    BY <1>1, Zenon
  <2>2. Names12 = Names11 \union {"tags"}
    BY <1>3, Zenon
  <2> HIDE DEF Text11
  <2>3. QED
    BY <1>2, <1>15, <2>1, <2>2, OneListMore, Zenon
<1>17. AreFields(Text13, kind, Names13, "logs", Faults(span.operationName) \union Faults(span.peer) \union faults)
  <2>1. "logs" \in DOMAIN Schema[kind] \ Names12 /\ Schema[kind]["logs"] = "Logs"
    BY <1>1, Zenon
  <2>2. Names13 = Names12 \union {"logs"}
    BY <1>3, Zenon
  <2> HIDE DEF Text12
  <2>3. IsValue(List(<<>>), Schema[kind]["logs"], {})
    BY <2>1, NoElements DEF ElementOf
  <2>4. AreFields(Text13, kind, Names13, "logs", Faults(span.operationName) \union Faults(span.peer) \union faults \union {})
    BY <1>2, <1>16, <2>1, <2>2, <2>3, OneListMore, Zenon
  <2>5. Faults(span.operationName) \union Faults(span.peer) \union faults \union {} = Faults(span.operationName) \union Faults(span.peer) \union faults
    OBVIOUS
  <2>6. QED
    BY <2>4, <2>5, Zenon
<1>18. AreFields(Text14, kind, Names14, "skip_analysis", Faults(span.operationName) \union Faults(span.peer) \union faults)
  <2>1. "skip_analysis" \in DOMAIN Schema[kind] \ Names13 /\ Schema[kind]["skip_analysis"] = "bool"
    BY <1>1, Zenon
  <2>2. Names14 = Names13 \union {"skip_analysis"}
    BY <1>3, Zenon
  <2> HIDE DEF Text13
  <2>3. QED
    BY <1>2, <1>17, <2>1, <2>2, OneBoolMore, Zenon
<1>19. IsValue(Object(Text14), kind, Faults(span.operationName) \union Faults(span.peer) \union faults)
  BY <1>2, <1>4, <1>18, ObjectIsRead, Zenon
<1>20. QED
  BY <1>19, Zenon DEF SpanJson, kind

\* A segment is read if its trace, its service and its instance are clean and its
\* spans are read.
LEMMA FieldsOfSegment ==
    ASSUME NEW segment, segment.traceId \in BOOLEAN, segment.service \in BOOLEAN,
           segment.serviceInstance \in BOOLEAN, NEW spanTexts, NEW faults,
           IsValue(List(spanTexts), "Spans", faults),
           spanTexts = [i \in DOMAIN segment.spans |-> SpanJson(segment.spans[i])]
    PROVE  IsValue(SegmentJson(segment), "SegmentObject",
                   Faults(segment.traceId) \union faults
                     \union Faults(segment.service) \union Faults(segment.serviceInstance))
<1> DEFINE kind == "SegmentObject"
           Text1 == JsonStr("trace_id", segment.traceId)
           Names1 == {"trace_id"}
           Text2 == Text1 \o Comma \o JsonStr("trace_segment_id", TRUE)
           Names2 == Names1 \union {"trace_segment_id"}
           Text3 == Text2 \o Comma \o JsonRaw("spans", List(spanTexts))
           Names3 == Names2 \union {"spans"}
           Text4 == Text3 \o Comma \o JsonStr("service", segment.service)
           Names4 == Names3 \union {"service"}
           Text5 == Text4 \o Comma \o JsonStr("service_instance", segment.serviceInstance)
           Names5 == Names4 \union {"service_instance"}
           Text6 == Text5 \o Comma \o JsonBool("is_size_limited")
           Names6 == Names5 \union {"is_size_limited"}
<1>1. /\ "trace_id" \in DOMAIN Schema[kind] /\ Schema[kind]["trace_id"] = "string"
      /\ "trace_segment_id" \in DOMAIN Schema[kind] \ Names1 /\ Schema[kind]["trace_segment_id"] = "string"
      /\ "spans" \in DOMAIN Schema[kind] \ Names2 /\ Schema[kind]["spans"] = "Spans"
      /\ "service" \in DOMAIN Schema[kind] \ Names3 /\ Schema[kind]["service"] = "string"
      /\ "service_instance" \in DOMAIN Schema[kind] \ Names4 /\ Schema[kind]["service_instance"] = "string"
      /\ "is_size_limited" \in DOMAIN Schema[kind] \ Names5 /\ Schema[kind]["is_size_limited"] = "bool"
  BY DEF Schema
<1>2. kind \in DOMAIN Schema
  BY DEF Schema
<1>3. /\ Names2 = Names1 \union {"trace_segment_id"}
      /\ Names3 = Names2 \union {"spans"}
      /\ Names4 = Names3 \union {"service"}
      /\ Names5 = Names4 \union {"service_instance"}
      /\ Names6 = Names5 \union {"is_size_limited"}
  OBVIOUS
<1>4. DOMAIN Schema[kind] = Names6
  BY DEF Schema
<1> HIDE DEF kind, Names2, Names3, Names4, Names5, Names6
<1>5. AreFields(Text1, kind, Names1, "trace_id", Faults(segment.traceId))
  <2>1. IsValue(<<[t |-> "string", clean |-> segment.traceId]>>, Schema[kind]["trace_id"], Faults(segment.traceId))
    BY <1>1, StringIsRead, Zenon
  <2>2. QED
    BY <1>1, <1>2, <2>1, OneField, Zenon DEF JsonStr
<1>6. AreFields(Text2, kind, Names2, "trace_segment_id", Faults(segment.traceId))
  <2>1. "trace_segment_id" \in DOMAIN Schema[kind] \ Names1 /\ Schema[kind]["trace_segment_id"] = "string"
    BY <1>1, Zenon
  <2>2. Names2 = Names1 \union {"trace_segment_id"}
    BY <1>3, Zenon
  <2> HIDE DEF Text1
  <2>3. AreFields(Text2, kind, Names2, "trace_segment_id", Faults(segment.traceId) \union Faults(TRUE))
    BY <1>2, <1>5, <2>1, <2>2, OneStringMore, Zenon
  <2>4. Faults(segment.traceId) \union Faults(TRUE) = Faults(segment.traceId)
    BY NoFaults
  <2>5. QED
    BY <2>3, <2>4, Zenon
<1>7. AreFields(Text3, kind, Names3, "spans", Faults(segment.traceId) \union faults)
  <2>1. "spans" \in DOMAIN Schema[kind] \ Names2 /\ Schema[kind]["spans"] = "Spans"
    BY <1>1, Zenon
  <2>2. Names3 = Names2 \union {"spans"}
    BY <1>3, Zenon
  <2> HIDE DEF Text2
  <2>3. QED
    BY <1>2, <1>6, <2>1, <2>2, OneListMore, Zenon
<1>8. AreFields(Text4, kind, Names4, "service",
                Faults(segment.traceId) \union faults \union Faults(segment.service))
  <2>1. "service" \in DOMAIN Schema[kind] \ Names3 /\ Schema[kind]["service"] = "string"
    BY <1>1, Zenon
  <2>2. Names4 = Names3 \union {"service"}
    BY <1>3, Zenon
  <2> HIDE DEF Text3
  <2>3. QED
    BY <1>2, <1>7, <2>1, <2>2, OneStringMore, Zenon
<1> DEFINE all == Faults(segment.traceId) \union faults
                    \union Faults(segment.service) \union Faults(segment.serviceInstance)
<1>9. AreFields(Text5, kind, Names5, "service_instance", all)
  <2>1. "service_instance" \in DOMAIN Schema[kind] \ Names4 /\ Schema[kind]["service_instance"] = "string"
    BY <1>1, Zenon
  <2>2. Names5 = Names4 \union {"service_instance"}
    BY <1>3, Zenon
  <2> HIDE DEF Text4
  <2>3. QED
    BY <1>2, <1>8, <2>1, <2>2, OneStringMore, Zenon
<1> HIDE DEF all
<1>10. AreFields(Text6, kind, Names6, "is_size_limited", all)
  <2>1. "is_size_limited" \in DOMAIN Schema[kind] \ Names5 /\ Schema[kind]["is_size_limited"] = "bool"
    BY <1>1, Zenon
  <2>2. Names6 = Names5 \union {"is_size_limited"}
    BY <1>3, Zenon
  <2> HIDE DEF Text5
  <2>3. QED
    BY <1>2, <1>9, <2>1, <2>2, OneBoolMore, Zenon
<1>11. IsValue(Object(Text6), kind, all)
  BY <1>2, <1>4, <1>10, ObjectIsRead, Zenon
<1>12. QED
  BY <1>11, Zenon DEF SegmentJson, kind, all

\* What SegmentJson is given: whether each text is clean.
IsChecked(span) ==
    /\ span.operationName \in BOOLEAN /\ span.peer \in BOOLEAN
    /\ Len(span.tags) \in Nat /\ DOMAIN span.tags = 1..Len(span.tags)
    /\ \A j \in 1..Len(span.tags) : span.tags[j] \in BOOLEAN

CleanSpan(span) == span.operationName /\ span.peer /\ \A j \in DOMAIN span.tags : span.tags[j]

SpanFaults(span) == Faults(span.operationName) \union Faults(span.peer)
                    \union UNION {Faults(span.tags[j]) : j \in 1..Len(span.tags)}

\* A span is read, if its texts are clean.
LEMMA SpanIsRead ==
    ASSUME NEW span, IsChecked(span)
    PROVE  /\ IsValue(SpanJson(span), "SpanObject", SpanFaults(span))
           /\ SpanFaults(span) = {} <=> CleanSpan(span)
<1> DEFINE n == Len(span.tags)
           texts == [i \in DOMAIN span.tags |-> TagJson(span.tags[i])]
           faults == [i \in 1..n |-> Faults(span.tags[i])]
<1>1. n \in Nat /\ DOMAIN span.tags = 1..n
  BY DEF IsChecked
<1>2. DOMAIN texts = 1..n /\ Len(texts) = n /\ \A i \in 1..n : texts[i] = TagJson(span.tags[i]) /\ faults[i] = Faults(span.tags[i])
  BY <1>1
<1>3. UNION {faults[i] : i \in 1..n} = UNION {Faults(span.tags[i]) : i \in 1..n}
  BY <1>1
<1>4. "Tags" \in DOMAIN ElementOf \ {"Text"} /\ ElementOf["Tags"] = "KeyStringValuePair"
  BY DEF ElementOf
<1>5. ASSUME NEW i \in 1..n PROVE IsValue(texts[i], ElementOf["Tags"], faults[i])
  <2>1. span.tags[i] \in BOOLEAN
    BY Zenon DEF IsChecked
  <2>2. IsValue(TagJson(span.tags[i]), "KeyStringValuePair", Faults(span.tags[i]))
    BY <2>1, TagIsRead, Zenon
  <2> HIDE DEF texts, faults, n
  <2>3. QED
    BY <1>2, <1>4, <2>2
<1>6. texts = [i \in DOMAIN span.tags |-> TagJson(span.tags[i])]
  OBVIOUS
<1> HIDE DEF texts, faults, n
<1>7. IsValue(List(texts), "Tags", UNION {faults[i] : i \in 1..n})
  BY <1>1, <1>2, <1>4, <1>5, ListIsRead
<1>8. IsValue(SpanJson(span), "SpanObject",
              Faults(span.operationName) \union Faults(span.peer) \union UNION {faults[i] : i \in 1..n})
  <2>1. span.operationName \in BOOLEAN /\ span.peer \in BOOLEAN
    BY Zenon DEF IsChecked
  <2>2. QED
    BY <1>6, <1>7, <2>1, FieldsOfSpan
<1>9. IsValue(SpanJson(span), "SpanObject", SpanFaults(span))
  BY <1>3, <1>8, Zenon DEF SpanFaults, n
<1>10. UNION {Faults(span.tags[i]) : i \in 1..n} = {} <=> \A i \in 1..n : span.tags[i]
  <2>1. \A i \in 1..n : Faults(span.tags[i]) = {} <=> span.tags[i]
    BY NoFaults, Zenon DEF IsChecked, n
  <2>2. UNION {Faults(span.tags[i]) : i \in 1..n} = {} <=> \A i \in 1..n : Faults(span.tags[i]) = {}
    OBVIOUS
  <2>3. QED
    BY <2>1, <2>2, Zenon
<1>11. (Faults(span.operationName) = {} <=> span.operationName) /\ (Faults(span.peer) = {} <=> span.peer)
  BY NoFaults, Zenon DEF IsChecked
<1>12. SpanFaults(span) = {} <=> /\ Faults(span.operationName) = {} /\ Faults(span.peer) = {}
                                 /\ UNION {Faults(span.tags[i]) : i \in 1..n} = {}
  <2>1. \A a, b, c : a \union b \union c = {} <=> a = {} /\ b = {} /\ c = {}
    OBVIOUS
  <2>2. QED
    BY <2>1, Zenon DEF SpanFaults, n
<1>13. QED
  BY <1>1, <1>9, <1>10, <1>11, <1>12, Zenon DEF CleanSpan

\* The reporter's reader takes a segment exactly if every text in it is clean,
\* whatever the numbers of its spans and of their tags are.
THEOREM SegmentIsRead ==
    ASSUME NEW segment, segment.traceId \in BOOLEAN, segment.service \in BOOLEAN,
           segment.serviceInstance \in BOOLEAN, Len(segment.spans) \in Nat,
           DOMAIN segment.spans = 1..Len(segment.spans),
           \A i \in 1..Len(segment.spans) : IsChecked(segment.spans[i])
    PROVE  Parses(SegmentJson(segment))
             <=> /\ segment.traceId /\ segment.service /\ segment.serviceInstance
                 /\ \A i \in DOMAIN segment.spans : CleanSpan(segment.spans[i])
<1> DEFINE n == Len(segment.spans)
           texts == [i \in DOMAIN segment.spans |-> SpanJson(segment.spans[i])]
           faults == [i \in 1..n |-> SpanFaults(segment.spans[i])]
           all == Faults(segment.traceId) \union (UNION {faults[i] : i \in 1..n})
                    \union Faults(segment.service) \union Faults(segment.serviceInstance)
           ends == segment.traceId /\ segment.service /\ segment.serviceInstance
           start == Place("Text", "value", {}, NoName)
<1>1. n \in Nat /\ DOMAIN segment.spans = 1..n
  OBVIOUS
<1>2. DOMAIN texts = 1..n /\ Len(texts) = n
      /\ \A i \in 1..n : texts[i] = SpanJson(segment.spans[i]) /\ faults[i] = SpanFaults(segment.spans[i])
  BY <1>1
<1>3. "Spans" \in DOMAIN ElementOf \ {"Text"} /\ ElementOf["Spans"] = "SpanObject"
  BY DEF ElementOf
<1>4. ASSUME NEW i \in 1..n PROVE IsValue(texts[i], ElementOf["Spans"], faults[i])
  <2>1. IsValue(SpanJson(segment.spans[i]), "SpanObject", SpanFaults(segment.spans[i]))
    BY SpanIsRead, Zenon
  <2> HIDE DEF texts, faults, n
  <2>2. QED
    BY <1>2, <1>3, <2>1
<1>5. texts = [i \in DOMAIN segment.spans |-> SpanJson(segment.spans[i])]
  OBVIOUS
<1>6. all = {} <=> ends /\ \A i \in 1..n : CleanSpan(segment.spans[i])
  <2>1. /\ Faults(segment.traceId) = {} <=> segment.traceId
        /\ Faults(segment.service) = {} <=> segment.service
        /\ Faults(segment.serviceInstance) = {} <=> segment.serviceInstance
    BY NoFaults, Zenon
  <2>2. \A i \in 1..n : faults[i] = {} <=> CleanSpan(segment.spans[i])
    <3> HIDE DEF faults
    <3>1. QED
      BY <1>2, SpanIsRead, Zenon DEF n
  <2>3. all = {} <=> /\ Faults(segment.traceId) = {} /\ \A i \in 1..n : faults[i] = {}
                     /\ Faults(segment.service) = {} /\ Faults(segment.serviceInstance) = {}
    <3> HIDE DEF faults, n
    <3>1. QED
      OBVIOUS
  <2> HIDE DEF all, faults
  <2>4. QED
    BY <2>1, <2>2, <2>3, Zenon
<1> HIDE DEF texts, faults, n
<1>7. IsValue(List(texts), "Spans", UNION {faults[i] : i \in 1..n})
  BY <1>1, <1>2, <1>3, <1>4, ListIsRead
<1>8. IsValue(SegmentJson(segment), "SegmentObject", all)
  BY <1>5, <1>7, FieldsOfSegment
<1> HIDE DEF all
<1>9. Before(start, "SegmentObject") /\ After(start) = Place("Text", "after", {}, NoName)
  <2>1. "Text" \in Types /\ "value" \in Nexts /\ {} \in SUBSET FieldNames /\ NoName \in Names
        /\ "Text" \in DOMAIN ElementOf /\ ElementOf["Text"] = "SegmentObject"
    BY DEF Types, Nexts, Names, ElementOf
  <2>2. start \in Frames /\ start.type = "Text" /\ start.next = "value" /\ After(start) = Place("Text", "after", {}, NoName)
    BY <2>1, PlaceIs
  <2> HIDE DEF start
  <2>3. Wanted(start) = "SegmentObject"
    BY <2>1, <2>2, Zenon DEF Wanted
  <2>4. QED
    BY <2>2, <2>3 DEF Before
<1>10. <<>> \in Seq(Frames) /\ \A frame : Append(<<>>, frame) = <<frame>> /\ <<frame>> # Rejected
  BY DEF Rejected
<1> HIDE DEF start
<1>11. Reads(Append(<<>>, start), SegmentJson(segment), Unless(Append(<<>>, After(start)), all))
  BY <1>8, <1>9, <1>10, Zenon DEF IsValue
<1>12. start = Frame("Text", "value") /\ After(start) = Frame("Text", "after")
  BY <1>9, Zenon DEF Frame, start, Place, NoName
<1>13. Reads(<<Frame("Text", "value")>>, SegmentJson(segment), Unless(<<Frame("Text", "after")>>, all))
  BY <1>10, <1>11, <1>12, Zenon
<1>14. Parses(SegmentJson(segment)) <=> Unless(<<Frame("Text", "after")>>, all) = <<Frame("Text", "after")>>
  BY <1>13, ParsesIs
<1>15. Unless(<<Frame("Text", "after")>>, all) = <<Frame("Text", "after")>> <=> all = {}
  BY <1>10, Zenon DEF Unless
<1>16. all = {} <=> ends /\ \A i \in DOMAIN segment.spans : CleanSpan(segment.spans[i])
  BY <1>1, <1>6, Zenon DEF n
<1>17. Parses(SegmentJson(segment)) <=> all = {}
  BY <1>14, <1>15, Zenon
<1>18. QED
  BY <1>16, <1>17, Zenon

-----------------------------------------------------------------------------
\* The inductive invariant: nothing is recorded before the request, what is
\* recorded are sequences, and each redis call keeps its span with its tag.
NothingBefore == phase = "idle" => spans = <<>> /\ redis = <<>>
Begun == phase # "idle" => Len(spans) >= 1
RecordsInv == IsSeq(spans) /\ IsSeq(redis)
TagsInv == \A i \in DOMAIN redis :
              spans[redis[i].span].tags[2].value = Command(redis[i].call.kw, redis[i].call.args)

IInv == TypeOK /\ TraceContinues /\ NothingBefore /\ Begun /\ RecordsInv /\ TagsInv

\* A sequence of which nothing is known but that it is one, and one element more.
LEMMA OneMore ==
    ASSUME NEW s, IsSeq(s), NEW x
    PROVE  /\ IsSeq(Append(s, x))
           /\ Len(s) \in Nat /\ DOMAIN s = 1..Len(s)
           /\ Len(Append(s, x)) = Len(s) + 1 /\ DOMAIN Append(s, x) = 1..(Len(s) + 1)
           /\ \A i \in 1..Len(s) : Append(s, x)[i] = s[i]
           /\ Append(s, x)[Len(s) + 1] = x
<1> DEFINE S == Range(s) \union {x}
           t == Append(s, x)
<1>1. Range(s) \subseteq S /\ x \in S
  BY Zenon
<1> HIDE DEF S
<1>2. s \in Seq(S)
  BY <1>1, SeqMonotonic, Zenon DEF IsSeq
<1>3. /\ t \in Seq(S) /\ Len(t) = Len(s) + 1
      /\ \A i \in 1..Len(s) : t[i] = s[i]
      /\ t[Len(s) + 1] = x
  BY <1>1, <1>2, AppendProperties
<1> HIDE DEF t
<1>4. Len(s) \in Nat /\ DOMAIN s = 1..Len(s) /\ DOMAIN t = 1..Len(t)
  BY <1>2, <1>3, LenProperties, Zenon
<1>5. IsSeq(t)
  BY <1>3, SeqOfRange, Zenon DEF IsSeq
<1>6. QED
  BY <1>3, <1>4, <1>5, Zenon DEF t

\* The numbers of tags that spans are made with.
LEMMA SomeTags ==
    ASSUME NEW a, NEW b, NEW c
    PROVE  /\ Len(<<a>> \o <<>>) = 1 /\ Len(<<a>> \o <<b>>) = 2
           /\ Len(<<a, b>>) = 2 /\ <<a, b>>[2] = b
           /\ Len(<<a>> \o (<<b>> \o <<c>>)) = 3 /\ Len(<<a>> \o (<<b>> \o <<>>)) = 2
<1>1. <<a>> \in Seq({a, b, c}) /\ <<b>> \in Seq({a, b, c}) /\ <<c>> \in Seq({a, b, c}) /\ <<>> \in Seq({a, b, c})
      /\ Len(<<a>>) = 1 /\ Len(<<b>>) = 1 /\ Len(<<c>>) = 1 /\ Len(<<>>) = 0
  OBVIOUS
<1>2. Len(<<a, b>>) = 2 /\ <<a, b>>[2] = b
  OBVIOUS
<1>3. \A x, y \in Seq({a, b, c}) : x \o y \in Seq({a, b, c}) /\ Len(x \o y) = Len(x) + Len(y)
  BY ConcatProperties, Zenon
<1> DEFINE S == {a, b, c}
           A == <<a>>
           B == <<b>>
           C == <<c>>
           N == <<>>
<1>4. A \in Seq(S) /\ B \in Seq(S) /\ C \in Seq(S) /\ N \in Seq(S) /\ Len(A) = 1 /\ Len(B) = 1 /\ Len(C) = 1 /\ Len(N) = 0
  BY <1>1
<1>5. \A x, y \in Seq(S) : x \o y \in Seq(S) /\ Len(x \o y) = Len(x) + Len(y)
  BY <1>3
<1> HIDE DEF S, A, B, C, N
<1>6. /\ Len(A \o N) = Len(A) + Len(N) /\ Len(A \o B) = Len(A) + Len(B)
      /\ B \o C \in Seq(S) /\ Len(B \o C) = Len(B) + Len(C)
      /\ B \o N \in Seq(S) /\ Len(B \o N) = Len(B) + Len(N)
  BY <1>4, <1>5, Zenon
<1>7. Len(A \o (B \o C)) = Len(A) + Len(B \o C) /\ Len(A \o (B \o N)) = Len(A) + Len(B \o N)
  BY <1>4, <1>5, <1>6, Zenon
<1>8. Len(A \o N) = 1 /\ Len(A \o B) = 2 /\ Len(A \o (B \o C)) = 3 /\ Len(A \o (B \o N)) = 2
  BY <1>4, <1>6, <1>7
<1>9. QED
  BY <1>2, <1>8, Zenon DEF A, B, C, N

\* Before the request.
LEMMA InitIInv == Init => IInv
<1> SUFFICES ASSUME Init PROVE IInv
  OBVIOUS
<1>1. phase = "idle" /\ header = NoHeader /\ tail = {} /\ traceId = <<>> /\ spans = <<>> /\ redis = <<>> /\ parsed = FALSE
      /\ service = <<>> /\ instance = <<>> /\ freed = "whole"
  BY Zenon DEF Init
<1>2. \A S : <<>> \in Seq(S)
  BY EmptySeq, Zenon
<1>3. Len(<<>>) = 0 /\ DOMAIN <<>> = {}
  OBVIOUS
<1>4. RecordsInv
  BY <1>1, <1>2, Zenon DEF RecordsInv, IsSeq
<1>5. TypeOK
  <2>1. Len(spans) \in 0..MaxSpans
    BY <1>1, RecordingAssumption
  <2>2. /\ phase \in {"idle", "script", "broken", "sent", "lost"} /\ header \in Headers \union {NoHeader}
        /\ traceId \in Seq(0..255) /\ service \in Services \union {<<>>} /\ instance \in Rests
        /\ freed \in {"whole", "spoiled", "unmapped"}
    BY <1>1, <1>2, Zenon DEF Rests
  <2>3. parsed \in BOOLEAN /\ tail \subseteq {<<t>> : t \in Garbage \union Dirty}
    BY <1>1
  <2>4. DOMAIN spans = {} /\ DOMAIN redis = {}
    BY <1>1, <1>3, Zenon
  <2>5. QED
    BY <2>1, <2>2, <2>3, <2>4, Zenon DEF TypeOK
<1>6. NothingBefore
  BY <1>1, Zenon DEF NothingBefore
<1>7. TraceContinues
  BY <1>1, Zenon DEF TraceContinues
<1>8. TagsInv
  BY <1>1, <1>3, Zenon DEF TagsInv
<1>9. Begun
  BY <1>1, Zenon DEF Begun
<1>10. QED
  BY <1>4, <1>5, <1>6, <1>7, <1>8, <1>9, Zenon DEF IInv

\* No peer is ever set.
LEMMA NoPeer == \A text : Peer(text) = <<>>
  BY SubSeqEmpty DEF Peer

\* A request begins.
LEMMA RequestInitKeeps == IInv /\ RequestInit => IInv'
<1> SUFFICES ASSUME IInv, RequestInit PROVE IInv'
  OBVIOUS
<1>1. PICK h \in Headers, uri \in Uris, rest \in Rests,
           behind \in {<<>>} \union {<<b>> : b \in Garbage},
           method \in {<<>>, <<Tag("http.method", <<>>)>>} :
          /\ header' = h
          /\ traceId' = TraceId(h, OwnId) \o IF RunsOn(h) THEN behind ELSE <<>>
          /\ tail' = {IF Ended(uri) THEN <<>> ELSE rest,
                      IF RunsOn(h) THEN behind ELSE <<>>} \ {<<>>}
          /\ spans' = <<Span(uri, rest, <<>>, <<Tag("url", Whole(uri))>> \o method)>>
  BY Zenon DEF RequestInit
<1> DEFINE span == Span(uri, rest, <<>>, <<Tag("url", Whole(uri))>> \o method)
<1>2. phase = "idle" /\ phase' \in {"script", "broken"} /\ redis' = redis /\ UNCHANGED ending
  BY Zenon DEF RequestInit, AfterWriting
<1>3. redis' = <<>> /\ DOMAIN redis' = {} /\ IsSeq(redis')
  <2>1. redis' = <<>>
    BY <1>2, Zenon DEF IInv, NothingBefore
  <2>2. DOMAIN <<>> = {}
    OBVIOUS
  <2>3. <<>> \in Seq(Range(<<>>))
    BY EmptySeq, Zenon
  <2>4. QED
    BY <2>1, <2>2, <2>3, Zenon DEF IsSeq
<1>4. span.peer = <<>> /\ Len(span.tags) \in 1..3
  <2>1. Peer(<<>>) = <<>>
    BY NoPeer, Zenon
  <2>2. span.peer = Peer(<<>>) /\ span.tags = <<Tag("url", Whole(uri))>> \o method
    BY DEF Span
  <2>3. Len(<<Tag("url", Whole(uri))>> \o method) \in {1, 2}
    <3>1. CASE method = <<>>
      <4>1. Len(<<Tag("url", Whole(uri))>> \o <<>>) = 1
        BY SomeTags, Zenon
      <4>2. QED
        BY <3>1, <4>1, Zenon
    <3>2. CASE method = <<Tag("http.method", <<>>)>>
      <4>1. Len(<<Tag("url", Whole(uri))>> \o <<Tag("http.method", <<>>)>>) = 2
        BY SomeTags, Zenon
      <4>2. QED
        BY <3>2, <4>1, Zenon
    <3>3. QED
      BY <3>1, <3>2, Zenon
  <2>4. 1 \in 1..3 /\ 2 \in 1..3
    OBVIOUS
  <2>5. QED
    BY <2>1, <2>2, <2>3, <2>4, Zenon
<1> HIDE DEF span
<1>5. spans' = <<span>> /\ Len(spans') = 1 /\ DOMAIN spans' = {1} /\ spans'[1] = span /\ IsSeq(spans')
  <2>1. spans' = <<span>>
    BY <1>1 DEF span
  <2>2. Len(<<span>>) = 1 /\ DOMAIN <<span>> = {1} /\ <<span>>[1] = span /\ <<span>> \in Seq({span})
    OBVIOUS
  <2>3. <<span>> \in Seq(Range(<<span>>))
    BY <2>2, SeqOfRange, Zenon
  <2>4. QED
    BY <2>1, <2>2, <2>3, Zenon DEF IsSeq
<1>6. /\ h \in Seq(Seq(0..64))
      /\ \A id \in TraceIds : id \in Seq(1..255)
      /\ OwnId \in Seq(0..255)
      /\ \A b \in Garbage : b \in 0..255
      /\ MaxSpans \in Nat /\ MaxSpans >= 1
  <2>1. /\ Headers \subseteq Seq(Seq(0..64)) /\ TraceIds \subseteq Seq(1..255) /\ OwnId \in Seq(1..255)
        /\ Garbage \subseteq 1..255 /\ MaxSpans \in Nat /\ MaxSpans >= 1
    BY RecordingAssumption, Zenon
  <2>2. \A n \in 1..255 : n \in 0..255
    OBVIOUS
  <2>3. OwnId \in Seq(0..255)
    <3> DEFINE A == 1..255
               B == 0..255
    <3>1. OwnId \in Seq(A) /\ A \subseteq B
      BY <2>1, <2>2
    <3> HIDE DEF A, B
    <3>2. OwnId \in Seq(B)
      BY <3>1, SeqMonotonic, Zenon
    <3>3. QED
      BY <3>2 DEF B
  <2>4. QED
    BY <2>1, <2>2, <2>3, Zenon
<1>7. behind \in Seq(0..255)
  <2>1. \A b \in Garbage : <<b>> \in Seq(0..255)
    BY <1>6
  <2>2. <<>> \in Seq(0..255)
    BY EmptySeq, Zenon
  <2>3. QED
    BY <2>1, <2>2, Zenon
<1> DEFINE found == Decoded(Tokens(h)[2])
<1>8. Continues(h) => found \in Seq(Byte) /\ CString(found) \in Seq(Byte)
  <2> DEFINE F == Seq(0..64)
  <2>1. Tokens(h) \in Seq(F)
    BY <1>6, TokensIn, Zenon
  <2> HIDE DEF F
  <2>2. ASSUME Continues(h) PROVE Tokens(h)[2] \in F
    <3>1. 2 \in 1..Len(Tokens(h))
      BY <2>1, <2>2 DEF Continues
    <3>2. QED
      BY <2>1, <3>1, ElementOfSeq, Zenon
  <2>3. QED
    BY <2>2, DecodedIn, CStringIs, Zenon DEF F
<1>9. ASSUME Complete(h), NEW id \in TraceIds, h[2] = Encoded(id)
      PROVE  traceId' = id \o behind /\ RunsOn(h)
  <2>1. id \in Seq(Byte) /\ \A i \in DOMAIN id : id[i] # 0
    <3>1. id \in Seq(1..255) /\ 1..255 \subseteq Byte
      BY <1>6 DEF Byte
    <3>2. \A i \in DOMAIN id : id[i] \in 1..255
      BY <3>1, ElementOfSeq, LenProperties, Zenon
    <3>3. \A n \in 1..255 : n # 0
      OBVIOUS
    <3>4. QED
      BY <3>1, <3>2, <3>3, SeqMonotonic, Zenon
  <2>2. Tokens(h) = h /\ Continues(h)
    BY <1>6, <1>9, CompleteTokens, OthersDoNotContinue, Zenon
  <2>3. found = id
    BY <1>9, <2>1, <2>2, RoundTrip, Zenon
  <2>4. RunsOn(h) /\ TraceId(h, OwnId) = id
    <3>1. CString(id) = id
      BY <2>1, CStringIs, Zenon
    <3>2. QED
      BY <2>1, <2>2, <2>3, <3>1, Zenon DEF RunsOn, TraceId
  <2>5. QED
    BY <1>1, <2>4, Zenon
<1>10. ASSUME ~ Continues(h)
       PROVE  traceId' = OwnId
  <2>1. OwnId \o <<>> = OwnId
    BY <1>6, ConcatEmptySeq, Zenon
  <2>2. QED
    BY <1>1, <1>10, <2>1, Zenon DEF TraceId, RunsOn
<1>11. traceId' \in Seq(0..255)
  <2>1. ASSUME Continues(h) PROVE traceId' \in Seq(0..255)
    <3>1. TraceId(h, OwnId) \in Seq(0..255)
      BY <1>8, <2>1, Zenon DEF TraceId, Byte
    <3>2. <<>> \in Seq(0..255)
      BY EmptySeq, Zenon
    <3>3. (IF RunsOn(h) THEN behind ELSE <<>>) \in Seq(0..255)
      BY <1>7, <3>2, Zenon
    <3>4. QED
      BY <1>1, <3>1, <3>3, ConcatProperties, Zenon
  <2>2. QED
    BY <1>6, <1>10, <2>1, Zenon
<1>12. tail' \subseteq {<<t>> : t \in Garbage \union Dirty}
  BY <1>1, Zenon DEF Rests
<1>13. TypeOK'
  <2>1. Len(spans') \in 0..MaxSpans
    BY <1>5, <1>6
  <2>2. \A i \in DOMAIN spans' : spans'[i].peer = <<>> /\ Len(spans'[i].tags) \in 1..3
    BY <1>4, <1>5, Zenon
  <2>3. /\ phase' \in {"idle", "script", "broken", "sent", "lost"} /\ header' \in Headers \union {NoHeader}
        /\ service' \in Services \union {<<>>} /\ instance' \in Rests
        /\ freed' \in {"whole", "spoiled", "unmapped"} /\ parsed' \in BOOLEAN
    BY <1>1, <1>2, Zenon DEF IInv, TypeOK, ending
  <2>4. \A i \in DOMAIN redis' : redis'[i].call \in Calls /\ redis'[i].span \in 2..Len(spans')
    BY <1>3, Zenon
  <2>5. QED
    BY <1>11, <1>12, <2>1, <2>2, <2>3, <2>4, Zenon DEF TypeOK
<1>14. TraceContinues'
  <2>1. header' = h
    BY <1>1, Zenon
  <2>2. ASSUME Complete(h), NEW id \in TraceIds, h[2] = Encoded(id)
        PROVE  \E more \in tail' \union {<<>>} : traceId' = id \o more
    <3>1. traceId' = id \o behind /\ RunsOn(h)
      BY <1>9, <2>2, Zenon
    <3>2. behind \in tail' \union {<<>>}
      BY <1>1, <3>1, Zenon
    <3>3. QED
      BY <3>1, <3>2, Zenon
  <2>3. Len(h) <= 8 /\ ~ Complete(h) => traceId' = OwnId
    BY <1>6, <1>10, OthersDoNotContinue, Zenon
  <2>4. QED
    BY <2>1, <2>2, <2>3, Zenon DEF TraceContinues
<1>15. NothingBefore'
  BY <1>2 DEF NothingBefore
<1>16. RecordsInv'
  BY <1>3, <1>5, Zenon DEF RecordsInv
<1>17. TagsInv'
  BY <1>3, Zenon DEF TagsInv
<1>18. Begun'
  <2>1. 1 >= 1
    OBVIOUS
  <2>2. QED
    BY <1>5, <2>1, Zenon DEF Begun
<1>19. QED
  BY <1>13, <1>14, <1>15, <1>16, <1>17, <1>18, Zenon DEF IInv

\* What a span more leaves of the invariant: everything but the calls of redis.
LEMMA SpanAdded ==
    ASSUME IInv, phase = "script", Len(spans) < MaxSpans, NEW span,
           spans' = Append(spans, span), span.peer = <<>>, Len(span.tags) \in 1..3,
           phase' \in {"script", "broken"}, tail \subseteq tail', UNCHANGED <<header, traceId>>
    PROVE  /\ IsSeq(spans') /\ Len(spans') = Len(spans) + 1 /\ Len(spans) \in Nat
           /\ \A i \in 1..Len(spans) : spans'[i] = spans[i]
           /\ spans'[Len(spans) + 1] = span
           /\ Len(spans') \in 0..MaxSpans
           /\ \A i \in DOMAIN spans' : spans'[i].peer = <<>> /\ Len(spans'[i].tags) \in 1..3
           /\ TraceContinues' /\ NothingBefore'
<1>1. /\ IsSeq(spans') /\ Len(spans) \in Nat /\ DOMAIN spans = 1..Len(spans)
      /\ Len(spans') = Len(spans) + 1 /\ DOMAIN spans' = 1..(Len(spans) + 1)
      /\ \A i \in 1..Len(spans) : spans'[i] = spans[i]
      /\ spans'[Len(spans) + 1] = span
  <2>1. IsSeq(spans)
    BY Zenon DEF IInv, RecordsInv
  <2>2. /\ IsSeq(Append(spans, span)) /\ Len(spans) \in Nat /\ DOMAIN spans = 1..Len(spans)
        /\ Len(Append(spans, span)) = Len(spans) + 1 /\ DOMAIN Append(spans, span) = 1..(Len(spans) + 1)
        /\ \A i \in 1..Len(spans) : Append(spans, span)[i] = spans[i]
        /\ Append(spans, span)[Len(spans) + 1] = span
    BY <2>1, OneMore, ZenonT(60)
  <2>3. QED
    BY <2>2, Zenon DEF IsSeq
<1>2. Len(spans') \in 0..MaxSpans
  <2>1. MaxSpans \in Nat
    BY RecordingAssumption
  <2>2. QED
    BY <1>1, <2>1
<1>3. \A i \in DOMAIN spans' : spans'[i].peer = <<>> /\ Len(spans'[i].tags) \in 1..3
  <2>1. \A i \in 1..Len(spans) : spans[i].peer = <<>> /\ Len(spans[i].tags) \in 1..3
    BY <1>1, Zenon DEF IInv, TypeOK
  <2>2. \A i \in 1..(Len(spans) + 1) : i \in 1..Len(spans) \/ i = Len(spans) + 1
    BY <1>1
  <2>3. QED
    BY <1>1, <2>1, <2>2, Zenon
<1>4. TraceContinues'
  <2>1. phase \in {"script", "sent"}
    OBVIOUS
  <2>2. QED
    BY <2>1, Zenon DEF IInv, TraceContinues
<1>5. NothingBefore'
  BY DEF NothingBefore
<1>6. QED
  BY <1>1, <1>2, <1>3, <1>4, <1>5, Zenon

\* A redis call, with its record and its span.
LEMMA RedisCallKeeps == IInv /\ RedisCall => IInv'
<1> SUFFICES ASSUME IInv, RedisCall PROVE IInv'
  OBVIOUS
<1>1. PICK call \in Calls :
          /\ redis' = Append(redis, [call |-> call, span |-> Len(spans) + 1])
          /\ spans' = Append(spans,
                Span([path |-> <<>>, query |-> <<>>, fills |-> FALSE], <<>>, <<>>,
                     <<Tag("db.type", <<>>), Tag("db.command", Command(call.kw, call.args))>>))
  BY Zenon DEF RedisCall
<1> DEFINE tag == Tag("db.command", Command(call.kw, call.args))
           span == Span([path |-> <<>>, query |-> <<>>, fills |-> FALSE], <<>>, <<>>, <<Tag("db.type", <<>>), tag>>)
           record == [call |-> call, span |-> Len(spans) + 1]
<1>2. phase = "script" /\ Len(spans) < MaxSpans /\ UNCHANGED <<phase, header, tail, traceId, ending>>
      /\ phase' \in {"script", "broken"} /\ tail \subseteq tail'
  BY Zenon DEF RedisCall
<1>3. span.peer = <<>> /\ Len(span.tags) \in 1..3 /\ span.tags[2].value = Command(call.kw, call.args)
  <2>1. span.peer = Peer(<<>>) /\ span.tags = <<Tag("db.type", <<>>), tag>> /\ tag.value = Command(call.kw, call.args)
    <3> HIDE DEF tag
    <3>1. span.peer = Peer(<<>>) /\ span.tags = <<Tag("db.type", <<>>), tag>>
      BY DEF Span
    <3>2. tag.value = Command(call.kw, call.args)
      BY DEF tag, Tag
    <3>3. QED
      BY <3>1, <3>2, Zenon
  <2> HIDE DEF tag, span
  <2>2. Len(<<Tag("db.type", <<>>), tag>>) = 2 /\ <<Tag("db.type", <<>>), tag>>[2] = tag
    BY SomeTags, Zenon
  <2>3. 2 \in 1..3
    OBVIOUS
  <2>4. QED
    BY <2>1, <2>2, <2>3, NoPeer, Zenon
<1>4. record.call = call /\ record.span = Len(spans) + 1
  OBVIOUS
<1> HIDE DEF tag, span, record
<1>5. redis' = Append(redis, record) /\ spans' = Append(spans, span)
  BY <1>1, Zenon DEF tag, span, record
<1>6. /\ IsSeq(spans') /\ Len(spans') = Len(spans) + 1 /\ Len(spans) \in Nat
      /\ \A i \in 1..Len(spans) : spans'[i] = spans[i]
      /\ spans'[Len(spans) + 1] = span
      /\ Len(spans') \in 0..MaxSpans
      /\ \A i \in DOMAIN spans' : spans'[i].peer = <<>> /\ Len(spans'[i].tags) \in 1..3
      /\ TraceContinues' /\ NothingBefore'
  BY <1>2, <1>3, <1>5, SpanAdded, Zenon
<1>7. /\ IsSeq(redis') /\ Len(redis) \in Nat /\ DOMAIN redis = 1..Len(redis)
      /\ DOMAIN redis' = 1..(Len(redis) + 1)
      /\ \A i \in 1..Len(redis) : redis'[i] = redis[i]
      /\ redis'[Len(redis) + 1] = record
  <2>1. IsSeq(redis)
    BY Zenon DEF IInv, RecordsInv
  <2>2. /\ IsSeq(Append(redis, record))
        /\ Len(redis) \in Nat /\ DOMAIN redis = 1..Len(redis)
        /\ Len(Append(redis, record)) = Len(redis) + 1
        /\ DOMAIN Append(redis, record) = 1..(Len(redis) + 1)
    BY <2>1, OneMore, Zenon
  <2>4. ASSUME NEW i \in 1..Len(redis) PROVE Append(redis, record)[i] = redis[i]
    BY <2>1, OneMore
  <2>5. Append(redis, record)[Len(redis) + 1] = record
    BY <2>1, OneMore, Zenon
  <2>6. QED
    BY <1>5, <2>2, <2>4, <2>5, Zenon DEF IsSeq
<1>8. \A i \in 1..(Len(redis) + 1) : i \in 1..Len(redis) \/ i = Len(redis) + 1
  BY <1>7
<1>9. /\ Len(spans) >= 1 => Len(spans) + 1 \in 2..Len(spans')
      /\ \A k \in 2..Len(spans) : k \in 2..Len(spans') /\ k \in 1..Len(spans)
  BY <1>6
<1>10. Len(spans) >= 1
  BY <1>2 DEF IInv, Begun
<1>11. \A i \in 1..Len(redis) : /\ redis[i].call \in Calls /\ redis[i].span \in 2..Len(spans)
                               /\ spans[redis[i].span].tags[2].value = Command(redis[i].call.kw, redis[i].call.args)
  BY <1>7, Zenon DEF IInv, TypeOK, TagsInv
<1>12. \A i \in DOMAIN redis' : redis'[i].call \in Calls /\ redis'[i].span \in 2..Len(spans')
  BY <1>4, <1>7, <1>8, <1>9, <1>10, <1>11, Zenon
<1>13. TagsInv'
  <2>1. \A i \in DOMAIN redis' : spans'[redis'[i].span].tags[2].value = Command(redis'[i].call.kw, redis'[i].call.args)
    BY <1>3, <1>4, <1>6, <1>7, <1>8, <1>9, <1>11, Zenon
  <2>2. QED
    BY <2>1, Zenon DEF TagsInv
<1>14. TypeOK'
  BY <1>2, <1>6, <1>12, Zenon DEF IInv, TypeOK, ending
<1>15. RecordsInv' /\ Begun'
  <2>1. phase' # "idle" => Len(spans') >= 1
    BY <1>6
  <2>2. QED
    BY <1>6, <1>7, <2>1, Zenon DEF RecordsInv, Begun
<1>16. QED
  BY <1>6, <1>13, <1>14, <1>15, Zenon DEF IInv

\* A transfer, with its span.
LEMMA CurlExecKeeps == IInv /\ CurlExec => IInv'
<1> SUFFICES ASSUME IInv, CurlExec PROVE IInv'
  OBVIOUS
<1>1. PICK url \in Urls, rest \in Rests, response \in Responses :
          /\ phase' \in AfterWriting(url.long \/ url.fills)
          /\ tail' = tail \union ({IF url.fills THEN rest ELSE <<>>} \ {<<>>})
          /\ spans' = Append(spans,
                Span([path |-> url.path, query |-> <<>>, fills |-> url.fills], rest, url.path,
                     <<Tag("url", Whole(url))>> \o ResponseTags(response)))
  BY Zenon DEF CurlExec
<1> DEFINE span == Span([path |-> url.path, query |-> <<>>, fills |-> url.fills], rest, url.path,
                        <<Tag("url", Whole(url))>> \o ResponseTags(response))
<1>2. /\ phase = "script" /\ Len(spans) < MaxSpans /\ UNCHANGED <<header, traceId, redis, ending>>
      /\ phase' \in {"script", "broken"} /\ tail \subseteq tail'
      /\ tail' \subseteq {<<t>> : t \in Garbage \union Dirty}
  <2>1. phase = "script" /\ Len(spans) < MaxSpans /\ UNCHANGED <<header, traceId, redis, ending>>
    BY Zenon DEF CurlExec
  <2>2. phase' \in {"script", "broken"} /\ tail \subseteq tail'
    BY <1>1, Zenon DEF AfterWriting
  <2>3. tail \subseteq {<<t>> : t \in Garbage \union Dirty}
    BY Zenon DEF IInv, TypeOK
  <2>4. tail' \subseteq {<<t>> : t \in Garbage \union Dirty}
    BY <1>1, <2>3, Zenon DEF Rests
  <2>5. QED
    BY <2>1, <2>2, <2>4, Zenon
<1>3. span.peer = <<>> /\ Len(span.tags) \in 1..3
  <2>1. span.peer = Peer(url.path) /\ span.tags = <<Tag("url", Whole(url))>> \o ResponseTags(response)
    BY DEF Span
  <2> HIDE DEF span
  <2>2. Len(<<Tag("url", Whole(url))>> \o ResponseTags(response)) \in {2, 3}
    BY SomeTags, Zenon DEF ResponseTags
  <2>3. 2 \in 1..3 /\ 3 \in 1..3
    OBVIOUS
  <2>4. QED
    BY <2>1, <2>2, <2>3, NoPeer, Zenon
<1> HIDE DEF span
<1>5. spans' = Append(spans, span)
  BY <1>1, Zenon DEF span
<1>6. /\ IsSeq(spans') /\ Len(spans') = Len(spans) + 1 /\ Len(spans) \in Nat
      /\ \A i \in 1..Len(spans) : spans'[i] = spans[i]
      /\ Len(spans') \in 0..MaxSpans
      /\ \A i \in DOMAIN spans' : spans'[i].peer = <<>> /\ Len(spans'[i].tags) \in 1..3
      /\ TraceContinues' /\ NothingBefore'
  BY <1>2, <1>3, <1>5, SpanAdded, Zenon
<1>7. \A k \in 2..Len(spans) : k \in 2..Len(spans') /\ k \in 1..Len(spans)
  BY <1>6
<1>8. \A i \in DOMAIN redis' : redis'[i].call \in Calls /\ redis'[i].span \in 2..Len(spans')
  BY <1>2, <1>7, Zenon DEF IInv, TypeOK
<1>9. TagsInv'
  <2>1. \A i \in DOMAIN redis : redis[i].span \in 1..Len(spans)
    BY <1>7, Zenon DEF IInv, TypeOK
  <2>2. QED
    BY <1>2, <1>6, <2>1, Zenon DEF IInv, TagsInv
<1>10. TypeOK'
  <2>1. phase' \in {"idle", "script", "broken", "sent", "lost"}
    BY <1>2
  <2>2. QED
    BY <1>2, <1>6, <1>8, <2>1, Zenon DEF IInv, TypeOK, ending
<1>11. RecordsInv' /\ Begun'
  <2>1. phase' # "idle" => Len(spans') >= 1
    BY <1>6
  <2>2. IsSeq(redis')
    BY <1>2, Zenon DEF IInv, RecordsInv
  <2>3. QED
    BY <1>6, <2>1, <2>2, Zenon DEF RecordsInv, Begun
<1>12. QED
  BY <1>6, <1>9, <1>10, <1>11, Zenon DEF IInv

\* The segment is sent, or nothing happens.
LEMMA OthersKeep == IInv /\ (RequestFree \/ UNCHANGED vars) => IInv'
<1> SUFFICES ASSUME IInv, RequestFree \/ UNCHANGED vars PROVE IInv'
  OBVIOUS
<1>1. /\ UNCHANGED <<header, tail, traceId, spans, redis>>
      /\ \/ /\ phase = "script" /\ phase' \in {"sent", "lost"} /\ parsed' \in BOOLEAN
            /\ service' \in Services /\ instance' \in Rests /\ freed' \in {"whole", "spoiled", "unmapped"}
         \/ UNCHANGED <<phase, ending>>
  BY Zenon DEF RequestFree, vars, ending
<1>2. TypeOK'
  BY <1>1, Zenon DEF IInv, TypeOK, ending
<1>3. TraceContinues'
  BY <1>1, Zenon DEF IInv, TraceContinues
<1>4. NothingBefore' /\ RecordsInv' /\ TagsInv' /\ Begun'
  BY <1>1, Zenon DEF IInv, NothingBefore, RecordsInv, TagsInv, Begun
<1>5. QED
  BY <1>2, <1>3, <1>4, Zenon DEF IInv

\* Every step.
LEMMA StepIInv == IInv /\ [Next]_vars => IInv'
  BY RequestInitKeeps, RedisCallKeeps, CurlExecKeeps, OthersKeep, Zenon DEF Next

-----------------------------------------------------------------------------
\* What is recorded of a request, by the definitions of the code, in whatever
\* order its redis calls and transfers come.
THEOREM RecordingInvariant == Spec => []IInv
<1>1. QED
  BY InitIInv, StepIInv, PTL DEF Spec

\* Every span has its tags, and no peer; every recorded redis call has a span of
\* this request.
THEOREM TypeCorrect == Spec => []TypeOK
<1>1. IInv => TypeOK
  BY DEF IInv
<1>2. QED
  BY <1>1, RecordingInvariant, PTL

\* The trace continues exactly for complete headers, for ids of every length:
\* base64 gives back what an agent encoded, and strtok what it wrote.
THEOREM TraceIsContinued == Spec => []TraceContinues
<1>1. IInv => TraceContinues
  BY DEF IInv
<1>2. QED
  BY <1>1, RecordingInvariant, PTL

\* The tag of every redis call has its keyword and all of its keys, and nothing
\* but what is sent, for any number of keys.
THEOREM CommandsAreTold == Spec => []CommandIsTold
<1>1. IInv => CommandIsTold
  <2> SUFFICES ASSUME IInv, NEW i \in DOMAIN redis
               PROVE  LET call == redis[i].call
                          tag == spans[redis[i].span].tags[2].value
                      IN  /\ Head(tag) = call.kw
                          /\ Subsequence(Keys(call.kw, call.args), Tail(tag))
                          /\ InInt(call) => Subsequence(Tail(tag), Tail(Sent(call.kw, call.args)))
    BY Zenon DEF CommandIsTold
  <2> DEFINE call == redis[i].call
  <2>1. call \in Calls /\ spans[redis[i].span].tags[2].value = Command(call.kw, call.args)
    BY Zenon DEF IInv, TypeOK, TagsInv
  <2>2. IsCall(call.kw, call.args)
    BY <2>1, RecordingAssumption, Zenon
  <2>3. Tells(call.kw, call.args)
    BY <2>2, EveryCallTells, Zenon
  <2>4. QED
    BY <2>1, <2>3, Zenon DEF Tells, InInt
<1>2. QED
  BY <1>1, RecordingInvariant, PTL

-----------------------------------------------------------------------------
\* What the reporter can read of what was recorded.

\* Two sequences of which nothing is known but that they are, and a text that is
\* clean if both are.
LEMMA TwoTexts ==
    ASSUME NEW a, NEW b, IsSeq(a), IsSeq(b)
    PROVE  IsSeq(a \o b) /\ (Clean(a \o b) <=> Clean(a) /\ Clean(b))
<1> DEFINE S == Range(a) \union Range(b)
           c == a \o b
<1>1. Range(a) \subseteq S /\ Range(b) \subseteq S
  BY Zenon
<1> HIDE DEF S
<1>2. a \in Seq(S) /\ b \in Seq(S)
  BY <1>1, SeqMonotonic, Zenon DEF IsSeq
<1>3. /\ c \in Seq(S) /\ Len(c) = Len(a) + Len(b) /\ Len(a) \in Nat /\ Len(b) \in Nat
      /\ DOMAIN a = 1..Len(a) /\ DOMAIN b = 1..Len(b) /\ DOMAIN c = 1..Len(c)
      /\ \A i \in 1..Len(a) : c[i] = a[i]
      /\ \A i \in 1..Len(b) : c[Len(a) + i] = b[i]
  BY <1>2
<1> HIDE DEF c
<1>4. IsSeq(c)
  BY <1>3, SeqOfRange, Zenon DEF IsSeq
<1>5. ASSUME Clean(c) PROVE Clean(a) /\ Clean(b)
  <2>1. \A i \in 1..Len(a) : i \in 1..Len(c)
    BY <1>3
  <2>2. \A i \in 1..Len(b) : Len(a) + i \in 1..Len(c)
    BY <1>3
  <2>3. QED
    BY <1>3, <1>5, <2>1, <2>2, Zenon DEF Clean
<1>6. ASSUME Clean(a), Clean(b) PROVE Clean(c)
  <2>1. ASSUME NEW i \in 1..Len(c) PROVE c[i] \notin Dirty
    <3>1. CASE i <= Len(a)
      <4>1. i \in 1..Len(a)
        BY <1>3, <3>1
      <4>2. QED
        BY <1>3, <1>6, <4>1, Zenon DEF Clean
    <3>2. CASE i > Len(a)
      <4>1. i - Len(a) \in 1..Len(b) /\ Len(a) + (i - Len(a)) = i
        BY <1>3, <3>2
      <4>2. c[Len(a) + (i - Len(a))] = b[i - Len(a)] /\ b[i - Len(a)] \notin Dirty
        BY <1>3, <1>6, <4>1, Zenon DEF Clean
      <4>3. QED
        BY <4>1, <4>2
    <3>3. QED
      BY <1>3, <3>1, <3>2
  <2>2. QED
    BY <1>3, <2>1, Zenon DEF Clean
<1>7. QED
  BY <1>4, <1>5, <1>6, Zenon DEF c

\* Texts, one after the other, are clean if each is.
LEMMA ManyTexts ==
    ASSUME NEW texts, NEW n \in Nat, DOMAIN texts = 1..n, Len(texts) = n, texts \in Seq(Range(texts)),
           \A i \in 1..n : IsSeq(texts[i])
    PROVE  IsSeq(FlattenSeq(texts)) /\ (Clean(FlattenSeq(texts)) <=> \A i \in 1..n : Clean(texts[i]))
<1>1. CASE n = 0
  <2>1. texts = <<>> /\ DOMAIN <<>> = {}
    BY <1>1
  <2>2. FlattenSeq(texts) = <<>>
    BY <2>1, FlattenEmpty, Zenon
  <2>3. IsSeq(<<>>)
    BY EmptySeq, Zenon DEF IsSeq
  <2>4. \A i \in 1..n : FALSE
    BY <1>1
  <2>5. Clean(<<>>)
    BY <2>1, Zenon DEF Clean
  <2>6. QED
    BY <2>2, <2>3, <2>4, <2>5, Zenon
<1>2. CASE n # 0
  <2>1. Len(texts) \in Nat /\ Len(texts) >= 1
    BY <1>2
  <2>2. PICK f : Grows(f, texts) /\ FlattenSeq(texts) = f[Len(texts)]
    BY <2>1, FlattenIs, Zenon
  <2> DEFINE Good(i) == IsSeq(f[i]) /\ (Clean(f[i]) <=> \A j \in 1..i : Clean(texts[j]))
             S == {i \in Nat : i <= n => Good(i)}
  <2>3. 1 \in S
    <3>1. f[1] = texts[1] /\ 1 \in 1..n
      BY <2>1, <2>2 DEF Grows
    <3>2. \A j \in 1..1 : j = 1
      OBVIOUS
    <3>3. 1 \in 1..1
      OBVIOUS
    <3>4. Good(1)
      BY <3>1, <3>2, <3>3, Zenon
    <3> HIDE DEF Good
    <3>5. QED
      BY <3>4
  <2>4. ASSUME NEW i \in Nat, i >= 1, i \in S PROVE i + 1 \in S
    <3> SUFFICES ASSUME i + 1 <= n PROVE Good(i + 1)
      <4> HIDE DEF Good
      <4>1. QED
        OBVIOUS
    <3>1. f[i + 1] = f[i] \o texts[i + 1]
      BY <2>1, <2>2, <2>4, OneStep, Zenon
    <3>2. Good(i)
      <4> HIDE DEF Good
      <4>1. QED
        BY <2>4
    <3>3. IsSeq(texts[i + 1])
      <4>1. i + 1 \in 1..n
        BY <2>4
      <4>2. QED
        BY <4>1, Zenon
    <3>4. IsSeq(f[i + 1]) /\ (Clean(f[i + 1]) <=> Clean(f[i]) /\ Clean(texts[i + 1]))
      <4>1. IsSeq(f[i])
        BY <3>2, Zenon
      <4>2. IsSeq(f[i] \o texts[i + 1])
            /\ (Clean(f[i] \o texts[i + 1]) <=> Clean(f[i]) /\ Clean(texts[i + 1]))
        BY <3>3, <4>1, TwoTexts, ZenonT(60)
      <4>3. QED
        BY <3>1, <4>2, Zenon
    <3>5. (\A j \in 1..(i + 1) : j \in 1..i \/ j = i + 1) /\ (\A j \in 1..i : j \in 1..(i + 1)) /\ i + 1 \in 1..(i + 1)
      BY <2>4
    <3>6. QED
      BY <3>2, <3>4, <3>5, Zenon
  <2>5. n \in S
    <3> HIDE DEF S
    <3>1. 1 \in Nat /\ \A i \in Nat : i >= 1 /\ i \in S => i + 1 \in S
      BY <2>4
    <3>2. \A i \in Nat : i >= 1 => i \in S
      BY <2>3, <3>1, Induction
    <3>3. QED
      BY <2>1, <3>2
  <2>6. Good(n)
    <3> HIDE DEF Good
    <3>1. QED
      BY <2>5
  <2>7. QED
    BY <2>2, <2>6, Zenon
<1>3. QED
  BY <1>1, <1>2

\* The texts of a span are sequences, and its tags are one.
AreTexts(span) ==
    /\ IsSeq(span.operationName)
    /\ Len(span.tags) \in Nat /\ DOMAIN span.tags = 1..Len(span.tags)
    /\ \A j \in 1..Len(span.tags) : IsSeq(span.tags[j].value)

TextsInv == \A i \in DOMAIN spans : AreTexts(spans[i])

\* What is told of a span is clean if its name and its tags are.
LEMMA ToldOf ==
    ASSUME NEW span, AreTexts(span)
    PROVE  Clean(span.operationName \o FlattenSeq([j \in DOMAIN span.tags |-> span.tags[j].value]))
             <=> Clean(span.operationName) /\ \A j \in DOMAIN span.tags : Clean(span.tags[j].value)
<1> DEFINE n == Len(span.tags)
           texts == [j \in DOMAIN span.tags |-> span.tags[j].value]
<1>1. n \in Nat /\ DOMAIN span.tags = 1..n /\ \A j \in 1..n : IsSeq(span.tags[j].value)
  BY Zenon DEF AreTexts
<1>2. DOMAIN texts = 1..n /\ Len(texts) = n /\ \A j \in 1..n : texts[j] = span.tags[j].value
  <2> HIDE DEF n
  <2>1. QED
    BY <1>1
<1>3. texts \in Seq(Range(texts))
  <2>1. texts \in [1..n -> Range(texts)]
    <3>1. \A j \in 1..n : texts[j] \in Range(texts)
      <4> HIDE DEF texts
      <4>1. QED
        BY <1>2, Zenon DEF Range
    <3>2. QED
      BY <1>1, <3>1
  <2> HIDE DEF texts, n
  <2>2. QED
    BY <1>1, <2>1
<1> HIDE DEF n, texts
<1>4. \A j \in 1..n : IsSeq(texts[j])
  BY <1>1, <1>2
<1>5. IsSeq(FlattenSeq(texts)) /\ (Clean(FlattenSeq(texts)) <=> \A j \in 1..n : Clean(texts[j]))
  BY <1>1, <1>2, <1>3, <1>4, ManyTexts, Zenon
<1>6. Clean(span.operationName \o FlattenSeq(texts)) <=> Clean(span.operationName) /\ Clean(FlattenSeq(texts))
  BY <1>5, TwoTexts, Zenon DEF AreTexts
<1>7. (\A j \in 1..n : Clean(texts[j])) <=> \A j \in DOMAIN span.tags : Clean(span.tags[j].value)
  BY <1>1, <1>2
<1>8. Clean(span.operationName \o FlattenSeq(texts))
        <=> Clean(span.operationName) /\ \A j \in DOMAIN span.tags : Clean(span.tags[j].value)
  BY <1>5, <1>6, <1>7, Zenon
<1>9. QED
  BY <1>8 DEF texts

\* Where a span is added, its texts are sequences if those it is made of are.
LEMMA TextsAdded ==
    ASSUME TextsInv, IsSeq(spans), NEW span, AreTexts(span), spans' = Append(spans, span)
    PROVE  TextsInv'
<1>1. /\ Len(spans) \in Nat /\ DOMAIN spans = 1..Len(spans)
      /\ DOMAIN spans' = 1..(Len(spans) + 1)
      /\ \A i \in 1..Len(spans) : spans'[i] = spans[i]
      /\ spans'[Len(spans) + 1] = span
  <2>1. /\ IsSeq(Append(spans, span)) /\ Len(spans) \in Nat /\ DOMAIN spans = 1..Len(spans)
        /\ Len(Append(spans, span)) = Len(spans) + 1 /\ DOMAIN Append(spans, span) = 1..(Len(spans) + 1)
    BY OneMore, Zenon
  <2>2. ASSUME NEW i \in 1..Len(spans) PROVE Append(spans, span)[i] = spans[i]
    BY OneMore
  <2>3. Append(spans, span)[Len(spans) + 1] = span
    BY OneMore, Zenon
  <2>4. QED
    BY <2>1, <2>2, <2>3, Zenon
<1>2. \A i \in 1..(Len(spans) + 1) : i \in 1..Len(spans) \/ i = Len(spans) + 1
  BY <1>1
<1>3. QED
  BY <1>1, <1>2, Zenon DEF TextsInv

\* A span as its makers make it.
LEMMA SpanTexts ==
    ASSUME NEW uri, NEW rest, NEW peer, NEW tags, IsSeq(OperationName(uri, rest)), IsSeq(tags),
           \A j \in DOMAIN tags : IsSeq(tags[j].value)
    PROVE  AreTexts(Span(uri, rest, peer, tags))
<1> DEFINE span == Span(uri, rest, peer, tags)
<1>1. span.operationName = OperationName(uri, rest) /\ span.tags = tags
  BY DEF Span
<1>2. Len(tags) \in Nat /\ DOMAIN tags = 1..Len(tags)
  BY LenProperties, Zenon DEF IsSeq
<1> HIDE DEF span
<1>3. QED
  BY <1>1, <1>2, Zenon DEF AreTexts, span

\* The tags that spans are made with.
LEMMA TagsAre ==
    ASSUME NEW k, NEW text, IsSeq(text), NEW l, NEW other, IsSeq(other), NEW m, NEW last, IsSeq(last)
    PROVE  \A tags \in {<<Tag(k, text)>> \o <<>>, <<Tag(k, text)>> \o <<Tag(l, other)>>,
                        <<Tag(k, text), Tag(l, other)>>,
                        <<Tag(k, text)>> \o (<<Tag(l, other)>> \o <<>>),
                        <<Tag(k, text)>> \o (<<Tag(l, other)>> \o <<Tag(m, last)>>)} :
              IsSeq(tags) /\ \A j \in DOMAIN tags : IsSeq(tags[j].value)
<1> DEFINE a == Tag(k, text)
           b == Tag(l, other)
           c == Tag(m, last)
           S == {a, b, c}
<1>1. a.value = text /\ b.value = other /\ c.value = last
  BY DEF Tag
<1> HIDE DEF a, b, c
<1>2. <<>> \in Seq(S) /\ <<a>> \in Seq(S) /\ <<b>> \in Seq(S) /\ <<c>> \in Seq(S) /\ <<a, b>> \in Seq(S)
  OBVIOUS
<1>3. \A x \in S : IsSeq(x.value)
  BY <1>1
<1> HIDE DEF S
<1>4. ASSUME NEW tags \in Seq(S) PROVE IsSeq(tags) /\ \A j \in DOMAIN tags : IsSeq(tags[j].value)
  <2>1. IsSeq(tags)
    BY SeqOfRange, Zenon DEF IsSeq
  <2>2. \A j \in DOMAIN tags : tags[j] \in S
    BY ElementOfSeq, LenProperties, Zenon
  <2>3. QED
    BY <1>3, <2>1, <2>2, Zenon
<1>5. \A x, y \in Seq(S) : x \o y \in Seq(S)
  BY ConcatProperties, Zenon
<1>6. /\ <<a>> \o <<>> \in Seq(S) /\ <<a>> \o <<b>> \in Seq(S) /\ <<b>> \o <<>> \in Seq(S) /\ <<b>> \o <<c>> \in Seq(S)
  BY <1>2, <1>5, Zenon
<1>7. <<a>> \o (<<b>> \o <<>>) \in Seq(S) /\ <<a>> \o (<<b>> \o <<c>>) \in Seq(S)
  BY <1>2, <1>5, <1>6, Zenon
<1>8. QED
  BY <1>2, <1>4, <1>6, <1>7, Zenon DEF a, b, c

\* Texts of one part, or of none.
LEMMA ShortTexts == IsSeq(<<>>) /\ \A part : IsSeq(<<part>>)
<1>1. IsSeq(<<>>)
  BY EmptySeq, Zenon DEF IsSeq
<1>2. ASSUME NEW part PROVE IsSeq(<<part>>)
  <2>1. <<part>> \in Seq({part})
    OBVIOUS
  <2>2. QED
    BY <2>1, SeqOfRange, Zenon DEF IsSeq
<1>3. QED
  BY <1>1, <1>2, Zenon

\* No text is recorded before the request.
LEMMA InitTexts == Init => TextsInv
<1>1. DOMAIN <<>> = {}
  OBVIOUS
<1>2. QED
  BY <1>1, Zenon DEF Init, TextsInv

\* The first span of a request, with its address and its method.
LEMMA RequestInitTexts == RequestInit => TextsInv'
<1> SUFFICES ASSUME RequestInit PROVE TextsInv'
  OBVIOUS
<1>1. PICK uri \in Uris, rest \in Rests,
           method \in {<<>>, <<Tag("http.method", <<>>)>>} :
          spans' = <<Span(uri, rest, <<>>, <<Tag("url", Whole(uri))>> \o method)>>
  BY Zenon DEF RequestInit
<1> DEFINE tags == <<Tag("url", Whole(uri))>> \o method
<1>2. IsSeq(uri.path) /\ IsSeq(uri.query) /\ IsSeq(rest)
  BY RecordingAssumption, ShortTexts, Zenon DEF Rests
<1>3. IsSeq(Whole(uri)) /\ IsSeq(OperationName(uri, rest))
  BY <1>2, TwoTexts, Zenon DEF Whole, OperationName
<1>4. IsSeq(tags) /\ \A j \in DOMAIN tags : IsSeq(tags[j].value)
  <2>1. IsSeq(<<>>)
    BY ShortTexts, Zenon
  <2>2. tags \in {<<Tag("url", Whole(uri))>> \o <<>>, <<Tag("url", Whole(uri))>> \o <<Tag("http.method", <<>>)>>}
    BY Zenon
  <2> HIDE DEF tags
  <2>3. QED
    BY <1>3, <2>1, <2>2, TagsAre, Zenon
<1> HIDE DEF tags
<1>5. AreTexts(Span(uri, rest, <<>>, tags))
  BY <1>3, <1>4, SpanTexts, Zenon
<1> DEFINE span == Span(uri, rest, <<>>, tags)
<1>6. spans' = <<span>>
  BY <1>1, Zenon DEF tags
<1>7. DOMAIN <<span>> = {1} /\ <<span>>[1] = span
  <2> HIDE DEF span
  <2>1. QED
    OBVIOUS
<1>8. QED
  BY <1>5, <1>6, <1>7, Zenon DEF TextsInv

\* The span of a redis call, with its tag.
LEMMA RedisCallTexts == IInv /\ TextsInv /\ RedisCall => TextsInv'
<1> SUFFICES ASSUME IInv, TextsInv, RedisCall PROVE TextsInv'
  OBVIOUS
<1>1. PICK call \in Calls :
          spans' = Append(spans,
                Span([path |-> <<>>, query |-> <<>>, fills |-> FALSE], <<>>, <<>>,
                     <<Tag("db.type", <<>>), Tag("db.command", Command(call.kw, call.args))>>))
  BY Zenon DEF RedisCall
<1> DEFINE tags == <<Tag("db.type", <<>>), Tag("db.command", Command(call.kw, call.args))>>
           uri == [path |-> <<>>, query |-> <<>>, fills |-> FALSE]
<1>2. IsSeq(<<>>) /\ IsSeq(Command(call.kw, call.args))
  <2>1. IsCall(call.kw, call.args)
    BY RecordingAssumption, Zenon
  <2>2. QED
    BY <2>1, EveryCallTells, ShortTexts, Zenon DEF Tells
<1>3. OperationName(uri, <<>>) = <<>>
  BY DEF OperationName, Ended
<1>4. IsSeq(tags) /\ \A j \in DOMAIN tags : IsSeq(tags[j].value)
  BY <1>2, TagsAre, Zenon
<1> HIDE DEF tags, uri
<1>5. AreTexts(Span(uri, <<>>, <<>>, tags))
  BY <1>2, <1>3, <1>4, SpanTexts, Zenon
<1>6. spans' = Append(spans, Span(uri, <<>>, <<>>, tags))
  BY <1>1, Zenon DEF tags, uri
<1>7. QED
  BY <1>5, <1>6, TextsAdded, Zenon DEF IInv, RecordsInv

\* The span of a transfer, with its address, its status and its answer.
LEMMA CurlExecTexts == IInv /\ TextsInv /\ CurlExec => TextsInv'
<1> SUFFICES ASSUME IInv, TextsInv, CurlExec PROVE TextsInv'
  OBVIOUS
<1>1. PICK url \in Urls, rest \in Rests, response \in Responses :
          spans' = Append(spans,
              Span([path |-> url.path, query |-> <<>>, fills |-> url.fills], rest, url.path,
                   <<Tag("url", Whole(url))>> \o ResponseTags(response)))
  BY Zenon DEF CurlExec
<1> DEFINE tags == <<Tag("url", Whole(url))>> \o ResponseTags(response)
           uri == [path |-> url.path, query |-> <<>>, fills |-> url.fills]
<1>2. /\ IsSeq(url.path) /\ IsSeq(url.query) /\ IsSeq(rest)
      /\ IsSeq(response.body) /\ IsSeq(<<response.http_code>>)
  BY RecordingAssumption, ShortTexts, Zenon DEF Rests
<1>3. IsSeq(Whole(url)) /\ IsSeq(OperationName(uri, rest))
  <2>1. OperationName(uri, rest) \in {url.path, url.path \o rest}
    BY DEF OperationName
  <2> HIDE DEF uri
  <2>2. QED
    BY <1>2, <2>1, TwoTexts, Zenon DEF Whole
<1>4. IsSeq(tags) /\ \A j \in DOMAIN tags : IsSeq(tags[j].value)
  <2>1. tags \in {<<Tag("url", Whole(url))>> \o (<<Tag("status_code", <<response.http_code>>)>> \o <<>>),
                  <<Tag("url", Whole(url))>> \o (<<Tag("status_code", <<response.http_code>>)>>
                                                 \o <<Tag("http.response", response.body)>>)}
    BY Zenon DEF ResponseTags
  <2> HIDE DEF tags
  <2>2. QED
    BY <1>2, <1>3, <2>1, TagsAre, Zenon
<1> HIDE DEF tags, uri
<1>5. AreTexts(Span(uri, rest, url.path, tags))
  BY <1>2, <1>3, <1>4, SpanTexts, Zenon
<1>6. spans' = Append(spans, Span(uri, rest, url.path, tags))
  BY <1>1, Zenon DEF tags, uri
<1>7. QED
  BY <1>5, <1>6, TextsAdded, Zenon DEF IInv, RecordsInv

\* When the segment is sent, the reporter reads it exactly if what is told is clean.
LEMMA RequestFreeReads == IInv /\ TextsInv /\ RequestFree => CleanSegmentsAreRead'
<1> SUFFICES ASSUME IInv, TextsInv, RequestFree PROVE CleanSegmentsAreRead'
  OBVIOUS
<1> DEFINE text(i) == [operationName |-> Clean(spans[i].operationName),
                       peer |-> Clean(spans[i].peer),
                       tags |-> [j \in DOMAIN spans[i].tags |-> Clean(spans[i].tags[j].value)]]
           segment == [traceId |-> CleanBytes(traceId), service |-> Clean(service'),
                       serviceInstance |-> Clean(instance'), spans |-> [i \in DOMAIN spans |-> text(i)]]
           n == Len(spans)
<1>1. n \in Nat /\ DOMAIN spans = 1..n
  BY LenProperties, Zenon DEF IInv, RecordsInv, IsSeq
<1>2. \A i \in 1..n : AreTexts(spans[i]) /\ spans[i].peer = <<>>
  BY <1>1, Zenon DEF IInv, TypeOK, TextsInv
<1>3. Clean(<<>>)
  <2>1. DOMAIN <<>> = {}
    OBVIOUS
  <2>2. QED
    BY <2>1, Zenon DEF Clean
<1>4. ASSUME NEW i \in 1..n
      PROVE  IsChecked(text(i)) /\ (CleanSpan(text(i)) <=> Clean(Told[i]))
  <2> DEFINE span == spans[i]
             values == [j \in DOMAIN span.tags |-> Clean(span.tags[j].value)]
  <2>1. /\ text(i).operationName = Clean(span.operationName) /\ text(i).peer = Clean(span.peer)
        /\ text(i).tags = values
    OBVIOUS
  <2>2. Len(span.tags) \in Nat /\ DOMAIN span.tags = 1..Len(span.tags)
    BY <1>2, Zenon DEF AreTexts
  <2>3. /\ DOMAIN values = 1..Len(span.tags) /\ Len(values) = Len(span.tags)
        /\ \A j \in 1..Len(span.tags) : values[j] = Clean(span.tags[j].value)
    <3> HIDE DEF span
    <3>1. QED
      BY <2>2
  <2>4. \A s : Clean(s) \in BOOLEAN
    BY DEF Clean
  <2> HIDE DEF text, values
  <2>5. IsChecked(text(i))
    BY <2>1, <2>2, <2>3, <2>4 DEF IsChecked
  <2>6. CleanSpan(text(i)) <=> Clean(span.operationName) /\ \A j \in DOMAIN span.tags : Clean(span.tags[j].value)
    BY <1>2, <1>3, <2>1, <2>2, <2>3, Zenon DEF CleanSpan
  <2>7. Told[i] = span.operationName \o FlattenSeq([j \in DOMAIN span.tags |-> span.tags[j].value])
    BY <1>1 DEF Told
  <2>8. Clean(Told[i]) <=> Clean(span.operationName) /\ \A j \in DOMAIN span.tags : Clean(span.tags[j].value)
    BY <1>2, <2>7, ToldOf, Zenon
  <2>9. QED
    BY <2>5, <2>6, <2>8, Zenon
<1>5. parsed' = (freed' = "whole" /\ Parses(SegmentJson(segment))) /\ UNCHANGED <<traceId, spans>>
  BY Zenon DEF RequestFree
<1>6. /\ segment.traceId = CleanBytes(traceId) /\ segment.traceId \in BOOLEAN
      /\ segment.service = Clean(service') /\ segment.service \in BOOLEAN
      /\ segment.serviceInstance = Clean(instance') /\ segment.serviceInstance \in BOOLEAN
      /\ DOMAIN segment.spans = 1..n /\ Len(segment.spans) = n
      /\ \A i \in 1..n : segment.spans[i] = text(i)
  <2>1. /\ segment.traceId = CleanBytes(traceId) /\ segment.spans = [i \in DOMAIN spans |-> text(i)]
        /\ segment.service = Clean(service') /\ segment.serviceInstance = Clean(instance')
    <3> HIDE DEF text
    <3>1. QED
      OBVIOUS
  <2>2. CleanBytes(traceId) \in BOOLEAN /\ Clean(service') \in BOOLEAN /\ Clean(instance') \in BOOLEAN
    BY DEF CleanBytes, Clean
  <2> HIDE DEF text, segment, n
  <2>3. QED
    BY <1>1, <2>1, <2>2
<1> HIDE DEF text, segment, n
<1>7. Parses(SegmentJson(segment)) <=>
          /\ segment.traceId /\ segment.service /\ segment.serviceInstance
          /\ \A i \in DOMAIN segment.spans : CleanSpan(segment.spans[i])
  <2>1. \A i \in 1..Len(segment.spans) : IsChecked(segment.spans[i])
    BY <1>4, <1>6
  <2>2. Len(segment.spans) \in Nat /\ DOMAIN segment.spans = 1..Len(segment.spans)
    BY <1>1, <1>6
  <2>3. QED
    BY <1>6, <2>1, <2>2, SegmentIsRead
<1>8. (\A i \in DOMAIN segment.spans : CleanSpan(segment.spans[i])) <=> \A i \in DOMAIN spans : Clean(Told[i])
  BY <1>1, <1>4, <1>6
<1>9. parsed' <=> /\ freed' = "whole"
                  /\ CleanBytes(traceId) /\ Clean(service') /\ Clean(instance')
                  /\ \A i \in DOMAIN spans : Clean(Told[i])
  BY <1>5, <1>6, <1>7, <1>8, Zenon
<1>10. Told' = Told /\ CleanBytes(traceId') = CleanBytes(traceId)
  BY <1>5, Zenon DEF Told, CleanBytes
<1>11. QED
  BY <1>5, <1>9, <1>10, Zenon DEF CleanSegmentsAreRead

\* The reporter reads a segment exactly if every text told in it is clean, for
\* any number of spans, tags and parts.
THEOREM CleanSegmentsRead == Spec => []CleanSegmentsAreRead
<1> DEFINE Inv == IInv /\ TextsInv /\ CleanSegmentsAreRead
<1>1. Init => Inv
  BY InitIInv, InitTexts, Zenon DEF Init, CleanSegmentsAreRead
<1>2. Inv /\ [Next]_vars => Inv'
  <2> SUFFICES ASSUME Inv, [Next]_vars PROVE Inv'
    OBVIOUS
  <2>1. IInv'
    BY StepIInv, Zenon
  <2>2. TextsInv'
    <3>1. CASE RequestInit \/ RedisCall \/ CurlExec
      BY <3>1, RequestInitTexts, RedisCallTexts, CurlExecTexts, Zenon
    <3>2. CASE RequestFree \/ UNCHANGED vars
      <4>1. spans' = spans
        BY <3>2, Zenon DEF RequestFree, vars
      <4>2. QED
        BY <4>1, Zenon DEF TextsInv
    <3>3. QED
      BY <3>1, <3>2, Zenon DEF Next
  <2>3. CleanSegmentsAreRead'
    <3>1. CASE RequestFree
      BY <3>1, RequestFreeReads, Zenon
    <3>2. CASE RequestInit \/ RedisCall \/ CurlExec
      <4>1. phase' \in {"script", "broken"}
        BY <3>2, Zenon DEF RequestInit, RedisCall, CurlExec, AfterWriting
      <4>2. phase' # "sent"
        BY <4>1
      <4>3. QED
        BY <4>2, Zenon DEF CleanSegmentsAreRead
    <3>3. CASE UNCHANGED vars
      BY <3>3 DEF vars, CleanSegmentsAreRead, Told
    <3>4. QED
      BY <3>1, <3>2, <3>3, Zenon DEF Next
  <2>4. QED
    BY <2>1, <2>2, <2>3, Zenon
<1>3. Inv => CleanSegmentsAreRead
  OBVIOUS
<1>4. QED
  BY <1>1, <1>2, <1>3, PTL DEF Spec
==============================================================================
