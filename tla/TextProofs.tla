------------------------------ MODULE TextProofs ------------------------------
(***************************************************************************)
(* Induction over texts, for the proofs about Params and Printing: what is *)
(* written piece by piece (FlattenSeq) is read token by token (a recursive *)
(* function), and both are followed prefix by prefix.                      *)
(*                                                                         *)
(* A number that is the smallest without a property gives the induction:   *)
(* the library's own theorem has the property as a parameter, which the    *)
(* provers cannot give a value, so here the property is a set of numbers.  *)
(***************************************************************************)
EXTENDS Integers, SequencesExt, SequenceTheorems, WellFoundedInduction, TLAPS

\* A set of numbers has a smallest one.
LEMMA LeastNumber ==
  ASSUME NEW T \in SUBSET Nat, T # {}
  PROVE  \E x \in T : \A y \in T : x <= y
<1> DEFINE R == OpToRel(<, Nat)
<1>1. IsWellFoundedOn(R, Nat)
  BY NatLessThanWellFounded
<1>2. PICK x \in T : \A y \in T : <<y, x>> \notin R
  <2> HIDE DEF R
  <2>1. QED
    BY <1>1, WFMin
<1>3. ASSUME NEW y \in T
      PROVE  x <= y
  <2>1. x \in Nat /\ y \in Nat
    OBVIOUS
  <2>2. ~ (y < x)
    BY <1>2, <2>1 DEF OpToRel
  <2>3. QED
    BY <2>1, <2>2
<1>4. QED
  BY <1>3

\* Induction up to n.
LEMMA Induction ==
  ASSUME NEW n \in Nat, NEW S, 0 \in S,
         \A k \in 0..(n - 1) : k \in S => k + 1 \in S
  PROVE  \A k \in 0..n : k \in S
<1> DEFINE T == {k \in 0..n : k \notin S}
<1>1. SUFFICES ASSUME T # {} PROVE FALSE
  OBVIOUS
<1>2. PICK x \in T : \A y \in T : x <= y
  <2>1. T \in SUBSET Nat
    OBVIOUS
  <2> HIDE DEF T
  <2>2. QED
    BY <1>1, <2>1, LeastNumber
<1>3. x # 0 /\ x - 1 \in 0..(n - 1) /\ x - 1 \notin T
  BY <1>2
<1>4. x - 1 \in S
  BY <1>3
<1>5. QED
  BY <1>3, <1>4, x = (x - 1) + 1

\* What FlattenSeq returns, with all it has been on the way.
LEMMA FlattenPrefixes ==
  ASSUME NEW A, NEW ss \in Seq(Seq(A))
  PROVE  \E flat \in [0..Len(ss) -> Seq(A)] :
           /\ flat[0] = <<>>
           /\ \A k \in 1..Len(ss) : flat[k] = flat[k - 1] \o ss[k]
           /\ FlattenSeq(ss) = flat[Len(ss)]
<1> DEFINE n == Len(ss)
           Step(f, i) == IF i = 1 THEN ss[i] ELSE f[i - 1] \o ss[i]
           h == CHOOSE f : f = [i \in 1..n |-> Step(f, i)]
<1>1. n \in Nat
  BY LenProperties
<1>2. CASE n = 0
  <2>1. ss = <<>> /\ FlattenSeq(ss) = <<>>
    BY <1>2, EmptySeq DEF FlattenSeq
  <2>2. <<>> \in Seq(A)
    OBVIOUS
  <2> DEFINE flat == [k \in 0..0 |-> <<>>]
  <2>3. flat \in [0..n -> Seq(A)] /\ flat[0] = <<>> /\ \A k \in 1..n : FALSE
    BY <1>2, <2>2
  <2>4. QED
    BY <1>2, <2>1, <2>3
<1>3. CASE n # 0
  <2>1. \E f : f = [i \in 1..n |-> Step(f, i)]
    <3> DEFINE S == {m \in 0..n : \E f : f = [i \in 1..m |-> Step(f, i)]}
    <3>1. 0 \in S
      <4> DEFINE f == [i \in 1..0 |-> 0]
      <4>1. f = [i \in 1..0 |-> Step(f, i)]
        OBVIOUS
      <4>2. \E g : g = [i \in 1..0 |-> Step(g, i)]
        BY <4>1, Zenon
      <4>3. 0 \in 0..n
        BY <1>1
      <4>4. QED
        BY <4>2, <4>3, Zenon
    <3>2. ASSUME NEW m \in 0..(n - 1), m \in S
          PROVE  m + 1 \in S
      <4>1. PICK f : f = [i \in 1..m |-> Step(f, i)]
        BY <3>2
      <4> DEFINE g == [i \in 1..(m + 1) |-> IF i <= m THEN f[i] ELSE Step(f, i)]
      <4>2. ASSUME NEW i \in 1..(m + 1)
            PROVE  g[i] = Step(g, i)
        <5>1. g[i] = Step(f, i)
          <6>1. CASE i <= m
            <7>1. i \in 1..m /\ g[i] = f[i]
              BY <1>1, <6>1
            <7>2. QED
              BY <4>1, <7>1
          <6>2. CASE ~ (i <= m)
            BY <6>2
          <6>3. QED
            BY <6>1, <6>2
        <5>2. i # 1 => g[i - 1] = f[i - 1]
          BY <1>1
        <5>3. QED
          BY <5>1, <5>2
      <4>3. g = [i \in 1..(m + 1) |-> Step(g, i)]
        BY <4>2
      <4>4. \E f2 : f2 = [i \in 1..(m + 1) |-> Step(f2, i)]
        BY <4>3, Zenon
      <4>5. m + 1 \in 0..n
        BY <1>1
      <4>6. QED
        BY <4>4, <4>5
    <3>3. n \in S
      <4> HIDE DEF S
      <4>1. \A k \in 0..n : k \in S
        BY <1>1, <3>1, <3>2, Induction
      <4>2. QED
        BY <1>1, <4>1
    <3>4. QED
      BY <3>3
  <2>2. h = [i \in 1..n |-> Step(h, i)]
    BY <2>1
  <2>3. FlattenSeq(ss) = h[n]
    BY <1>3 DEF FlattenSeq
  <2> HIDE DEF h
  <2> DEFINE flat == [k \in 0..n |-> IF k = 0 THEN <<>> ELSE h[k]]
  <2>4. ASSUME NEW k \in 1..n
        PROVE  h[k] = flat[k - 1] \o ss[k]
    <3>1. CASE k = 1
      <4>1. h[k] = ss[k] /\ ss[k] \in Seq(A) /\ flat[k - 1] = <<>>
        BY <1>1, <2>2, <3>1, ElementOfSeq
      <4>2. QED
        BY <4>1, ConcatEmptySeq
    <3>2. CASE k # 1
      <4>1. k - 1 \in 1..n /\ k - 1 \in 0..n /\ k - 1 # 0
        BY <1>1, <3>2
      <4>2. h[k] = Step(h, k)
        BY <2>2
      <4>3. flat[k - 1] = h[k - 1]
        BY <4>1
      <4>4. QED
        BY <3>2, <4>2, <4>3
    <3>3. QED
      BY <3>1, <3>2
  <2>5. \A k \in 0..n : flat[k] \in Seq(A)
    <3> DEFINE S == {k \in 0..n : flat[k] \in Seq(A)}
    <3>1. 0 \in S
      BY <1>1
    <3>2. ASSUME NEW k \in 0..(n - 1), k \in S
          PROVE  k + 1 \in S
      <4>1. k + 1 \in 1..n /\ flat[k] \in Seq(A) /\ flat[k + 1] = h[k + 1]
        BY <1>1, <3>2
      <4>2. h[k + 1] = flat[k] \o ss[k + 1]
        BY <1>1, <2>4, <4>1, (k + 1) - 1 = k
      <4>3. ss[k + 1] \in Seq(A)
        BY <4>1, ElementOfSeq
      <4> HIDE DEF flat
      <4>4. h[k + 1] \in Seq(A)
        BY <4>1, <4>2, <4>3, ConcatProperties
      <4>5. QED
        BY <1>1, <4>1, <4>4
    <3> HIDE DEF S
    <3>3. \A k \in 0..n : k \in S
      BY <1>1, <3>1, <3>2, Induction
    <3>4. QED
      BY <3>3 DEF S
  <2>6. flat \in [0..n -> Seq(A)]
    BY <2>5
  <2>7. /\ flat[0] = <<>> /\ flat[n] = h[n]
        /\ \A k \in 1..n : flat[k] = flat[k - 1] \o ss[k]
    <3>1. flat[0] = <<>> /\ \A k \in 1..n : flat[k] = h[k]
      BY <1>1
    <3>2. n \in 1..n
      BY <1>1, <1>3
    <3> HIDE DEF flat
    <3>3. QED
      BY <2>4, <3>1, <3>2
  <2> HIDE DEF flat
  <2>8. QED
    BY <2>3, <2>6, <2>7
<1>4. QED
  BY <1>2, <1>3

\* Sequences of one, two and three.
LEMMA OneOf ==
  ASSUME NEW A, NEW a \in A
  PROVE  <<a>> \in Seq(A) /\ Len(<<a>>) = 1 /\ <<a>>[1] = a
OBVIOUS

LEMMA TwoOf ==
  ASSUME NEW A, NEW a \in A, NEW b \in A
  PROVE  <<a, b>> \in Seq(A) /\ <<a, b>> = <<a>> \o <<b>>
<1> DEFINE s == <<a, b>>  t == <<a>> \o <<b>>
<1>1. s \in Seq(A) /\ Len(s) = 2 /\ s[1] = a /\ s[2] = b
  OBVIOUS
<1>2. t \in Seq(A) /\ Len(t) = 2 /\ t[1] = a /\ t[2] = b
  <2>1. /\ <<a>> \in Seq(A) /\ Len(<<a>>) = 1 /\ <<a>>[1] = a
        /\ <<b>> \in Seq(A) /\ Len(<<b>>) = 1 /\ <<b>>[1] = b
    BY OneOf
  <2>2. QED
    BY <2>1, ConcatProperties
<1> HIDE DEF s, t
<1>3. \A i \in 1..Len(s) : s[i] = t[i]
  BY <1>1, <1>2
<1>4. s = t
  BY <1>1, <1>2, <1>3, SeqEqual
<1>5. QED
  BY <1>1, <1>4 DEF s, t

LEMMA ThreeOf ==
  ASSUME NEW A, NEW a \in A, NEW b \in A, NEW c \in A
  PROVE  <<a, b, c>> \in Seq(A)
OBVIOUS

\* The next prefix has the next element.
LEMMA PrefixGrows ==
  ASSUME NEW A, NEW s \in Seq(A), NEW k \in Nat, k + 1 \in 1..Len(s)
  PROVE  SubSeq(s, 1, k + 1) = Append(SubSeq(s, 1, k), s[k + 1])
<1>1. 1 \in 1..Len(s) /\ k + 1 \in 1..Len(s) /\ (k + 1) - 1 = k /\ Len(s) \in Nat
  BY LenProperties
<1>2. SubSeq(s, 1, k + 1) = SubSeq(s, 1, k) \o <<s[k + 1]>>
  BY <1>1, SubSeqRecursiveSecond
<1>3. SubSeq(s, 1, k) \in Seq(A) /\ s[k + 1] \in A
  BY <1>1, SubSeqProperties, ElementOfSeq
<1>4. QED
  BY <1>2, <1>3, AppendIsConcat

\* A function on 1..n is a sequence of n.
LEMMA FunctionOf ==
  ASSUME NEW A, NEW n \in Nat, NEW f \in [1..n -> A]
  PROVE  f \in Seq(A) /\ Len(f) = n
<1>1. f \in Seq(A)
  BY SeqDef
<1>2. QED
  BY <1>1, LenProperties
=============================================================================
