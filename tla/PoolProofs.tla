------------------------------ MODULE PoolProofs ------------------------------
(***************************************************************************)
(* Proofs about Pool and Params, for any users, uses, connections, limits, *)
(* queries and arguments.                                                  *)
(*                                                                         *)
(* A connection has one holder, so nobody else touches the statement on it *)
(* while a use is going on: what the use found there is still so when it   *)
(* is its turn, and a new connection still has none.                       *)
(*                                                                         *)
(* What is sent is what Request makes of an accepted use (SentInv).  About *)
(* Request, literals are followed byte by byte as they are read, a query   *)
(* with one in it token by token, and times number by number.              *)
(***************************************************************************)
EXTENDS Pool, FiniteSetTheorems, TextProofs

\* The texts of a query and its arguments, and what is written into them: the
\* provers do not know that a string of the model is in STRING.
Tokens == STRING \cup Lettered \cup {"'", "?", "0", "n", "r", "Z", "_binary"}

\* The states that reading a text goes through.
LEMMA ReadRuns ==
  ASSUME NEW start, NEW text \in Seq(Tokens)
  PROVE  \E run : /\ run[0] = start
                  /\ \A i \in 1..Len(text) : run[i] = ReadToken(run[i - 1], text[i])
                  /\ ReadFrom(start, text) = run[Len(text)]
<1> DEFINE n == Len(text)
           Step(f, i) == IF i = 0 THEN start ELSE ReadToken(f[i - 1], text[i])
           read == CHOOSE f : f = [i \in 0..n |-> Step(f, i)]
<1>1. n \in Nat
  BY LenProperties
<1>2. \E f : f = [i \in 0..n |-> Step(f, i)]
  <2> DEFINE S == {m \in 0..n : \E f : f = [i \in 0..m |-> Step(f, i)]}
  <2>1. 0 \in S
    <3> DEFINE f == [i \in 0..0 |-> start]
    <3>1. f = [i \in 0..0 |-> Step(f, i)]
      OBVIOUS
    <3>2. \E g : g = [i \in 0..0 |-> Step(g, i)]
      BY <3>1, Zenon
    <3>3. 0 \in 0..n
      BY <1>1
    <3>4. QED
      BY <3>2, <3>3, Zenon
  <2>2. ASSUME NEW m \in 0..(n - 1), m \in S
        PROVE  m + 1 \in S
    <3>1. PICK f : f = [i \in 0..m |-> Step(f, i)]
      BY <2>2
    <3> DEFINE g == [i \in 0..(m + 1) |-> IF i <= m THEN f[i] ELSE Step(f, i)]
    <3> HIDE DEF Step
    <3>2. ASSUME NEW i \in 0..(m + 1)
          PROVE  g[i] = Step(g, i)
      <4>1. g[i] = Step(f, i)
        <5>1. CASE i <= m
          <6>1. i \in 0..m /\ g[i] = f[i]
            BY <1>1, <5>1
          <6>2. QED
            BY <3>1, <6>1
        <5>2. CASE ~ (i <= m)
          BY <5>2
        <5>3. QED
          BY <5>1, <5>2
      <4>2. i # 0 => g[i - 1] = f[i - 1]
        BY <1>1
      <4>3. QED
        BY <4>1, <4>2 DEF Step
    <3>3. g = [i \in 0..(m + 1) |-> Step(g, i)]
      BY <3>2
    <3>4. \E h : h = [i \in 0..(m + 1) |-> Step(h, i)]
      BY <3>3, Zenon
    <3>5. m + 1 \in 0..n
      BY <1>1
    <3>6. QED
      BY <3>4, <3>5
  <2>3. n \in S
    <3> HIDE DEF S
    <3>1. \A k \in 0..n : k \in S
      BY <1>1, <2>1, <2>2, Induction
    <3>2. QED
      BY <1>1, <3>1
  <2>4. QED
    BY <2>3
<1>3. read = [i \in 0..n |-> Step(read, i)]
  BY <1>2
<1>4. ReadFrom(start, text) = read[n]
  BY DEF ReadFrom
<1> HIDE DEF read
<1>5. read[0] = start /\ \A i \in 1..n : read[i] = ReadToken(read[i - 1], text[i])
  <2>1. read[0] = Step(read, 0)
    <3> HIDE DEF Step
    <3>1. QED
      BY <1>1, <1>3
  <2>2. ASSUME NEW i \in 1..n
        PROVE  read[i] = ReadToken(read[i - 1], text[i])
    <3>1. read[i] = Step(read, i)
      <4> HIDE DEF Step
      <4>1. QED
        BY <1>1, <1>3
    <3>2. QED
      BY <1>1, <3>1
  <2>3. QED
    BY <2>1, <2>2
<1>6. QED
  BY <1>4, <1>5

\* A text is read in one go or in two.
LEMMA ReadOn ==
  ASSUME NEW start, NEW s \in Seq(Tokens), NEW t \in Seq(Tokens)
  PROVE  ReadFrom(start, s \o t) = ReadFrom(ReadFrom(start, s), t)
<1> DEFINE m == Len(s)  n == Len(t)  u == s \o t
<1>1. /\ m \in Nat /\ n \in Nat /\ u \in Seq(Tokens) /\ Len(u) = m + n
      /\ \A i \in 1..(m + n) : u[i] = IF i <= m THEN s[i] ELSE t[i - m]
  BY LenProperties, ConcatProperties
<1> HIDE DEF u
<1>2. PICK all : /\ all[0] = start
                 /\ \A i \in 1..Len(u) : all[i] = ReadToken(all[i - 1], u[i])
                 /\ ReadFrom(start, u) = all[Len(u)]
  BY <1>1, ReadRuns
<1>3. PICK first : /\ first[0] = start
                   /\ \A i \in 1..m : first[i] = ReadToken(first[i - 1], s[i])
                   /\ ReadFrom(start, s) = first[m]
  BY ReadRuns
<1>4. all[m] = first[m]
  <2> DEFINE S == {k \in 0..m : all[k] = first[k]}
  <2>1. 0 \in S
    BY <1>1, <1>2, <1>3
  <2>2. ASSUME NEW k \in 0..(m - 1), k \in S
        PROVE  k + 1 \in S
    <3>1. k + 1 \in 1..(m + n) /\ k + 1 \in 1..m /\ (k + 1) - 1 = k /\ k + 1 <= m
      BY <1>1
    <3>2. all[k + 1] = ReadToken(all[k], s[k + 1])
      BY <1>1, <1>2, <3>1
    <3>3. first[k + 1] = ReadToken(first[k], s[k + 1])
      BY <1>3, <3>1
    <3>4. QED
      BY <2>2, <3>1, <3>2, <3>3
  <2> HIDE DEF S
  <2>3. \A k \in 0..m : k \in S
    BY <1>1, <2>1, <2>2, Induction
  <2>4. m \in S
    BY <1>1, <2>3
  <2>5. QED
    BY <2>4 DEF S
<1>5. PICK rest : /\ rest[0] = first[m]
                  /\ \A i \in 1..n : rest[i] = ReadToken(rest[i - 1], t[i])
                  /\ ReadFrom(first[m], t) = rest[n]
  BY ReadRuns
<1>6. all[m + n] = rest[n]
  <2> DEFINE S == {k \in 0..n : all[m + k] = rest[k]}
  <2>1. 0 \in S
    BY <1>1, <1>4, <1>5
  <2>2. ASSUME NEW k \in 0..(n - 1), k \in S
        PROVE  k + 1 \in S
    <3>1. /\ m + (k + 1) \in 1..(m + n) /\ k + 1 \in 1..n /\ (k + 1) - 1 = k
          /\ (m + (k + 1)) - 1 = m + k /\ (m + (k + 1)) - m = k + 1 /\ ~ (m + (k + 1) <= m)
      BY <1>1
    <3>2. all[m + (k + 1)] = ReadToken(all[m + k], t[k + 1])
      BY <1>1, <1>2, <3>1
    <3>3. rest[k + 1] = ReadToken(rest[k], t[k + 1])
      BY <1>5, <3>1
    <3>4. QED
      BY <2>2, <3>1, <3>2, <3>3
  <2> HIDE DEF S
  <2>3. \A k \in 0..n : k \in S
    BY <1>1, <2>1, <2>2, Induction
  <2>4. n \in S
    BY <1>1, <2>3
  <2>5. QED
    BY <2>4 DEF S
<1>7. QED
  BY <1>2, <1>3, <1>5, <1>6 DEF u

LEMMA ReadNone ==
  ASSUME NEW start
  PROVE  ReadFrom(start, <<>>) = start
<1> DEFINE text == <<>>
<1>1. text \in Seq(Tokens) /\ Len(text) = 0
  OBVIOUS
<1> HIDE DEF text
<1>2. PICK run : /\ run[0] = start
                 /\ \A i \in 1..Len(text) : run[i] = ReadToken(run[i - 1], text[i])
                 /\ ReadFrom(start, text) = run[Len(text)]
  BY <1>1, ReadRuns
<1>3. ReadFrom(start, text) = start
  BY <1>1, <1>2
<1>4. QED
  BY <1>3 DEF text

LEMMA ReadOne ==
  ASSUME NEW start, NEW c \in Tokens
  PROVE  ReadFrom(start, <<c>>) = ReadToken(start, c)
<1> DEFINE text == <<c>>
<1>1. text \in Seq(Tokens) /\ Len(text) = 1 /\ text[1] = c
  BY OneOf
<1> HIDE DEF text
<1>2. PICK run : /\ run[0] = start
                 /\ \A i \in 1..Len(text) : run[i] = ReadToken(run[i - 1], text[i])
                 /\ ReadFrom(start, text) = run[Len(text)]
  BY <1>1, ReadRuns
<1>3. run[1] = ReadToken(start, c)
  <2>1. 1 \in 1..Len(text) /\ 1 - 1 = 0
    BY <1>1
  <2>2. run[1] = ReadToken(run[1 - 1], text[1])
    BY <1>2, <2>1
  <2>3. QED
    BY <1>1, <1>2, <2>1, <2>2
<1>4. QED
  BY <1>1, <1>2, <1>3 DEF text

LEMMA ReadTwo ==
  ASSUME NEW start, NEW c \in Tokens, NEW d \in Tokens
  PROVE  ReadFrom(start, <<c, d>>) = ReadToken(ReadToken(start, c), d)
<1> DEFINE first == <<c>>  second == <<d>>  both == <<c, d>>
<1>1. first \in Seq(Tokens) /\ second \in Seq(Tokens) /\ both = first \o second
  BY OneOf, TwoOf
<1>2. /\ ReadFrom(start, first) = ReadToken(start, c)
      /\ ReadFrom(ReadToken(start, c), second) = ReadToken(ReadToken(start, c), d)
  BY ReadOne
<1> HIDE DEF first, second, both
<1>3. ReadFrom(start, first \o second) = ReadFrom(ReadFrom(start, first), second)
  BY <1>1, ReadOn
<1>4. ReadFrom(start, both) = ReadToken(ReadToken(start, c), d)
  BY <1>1, <1>2, <1>3
<1>5. QED
  BY <1>4 DEF both
-----------------------------------------------------------------------------
\* A byte is written as itself, a quote twice, or as a backslash and a letter
\* that stands for it.
LEMMA EscapeByteIs ==
  ASSUME NEW c \in Tokens
  PROVE  \/ EscapeByte(c) = <<c>> /\ c \notin {"'", "\\"}
         \/ EscapeByte(c) = <<c, c>> /\ c = "'"
         \/ \E e \in Tokens : EscapeByte(c) = <<"\\", e>> /\ Unescaped(e) = c
<1>1. CASE c = "'"
  BY <1>1 DEF EscapeByte
<1>2. CASE c # "'" /\ c \in Lettered
  <2>1. Letter(c) \in Tokens /\ Unescaped(Letter(c)) = c
    <3>1. CASE c \in {"nul", "nl", "cr", "sub"}
      BY <3>1 DEF Letter, Unescaped, Tokens
    <3>2. CASE c \in {"\"", "\\"}
      <4>1. Letter(c) = c
        BY <3>2 DEF Letter
      <4>2. Unescaped(c) = c
        BY <3>2 DEF Unescaped
      <4>3. QED
        BY <4>1, <4>2
    <3>3. QED
      BY <1>2, <3>1, <3>2 DEF Lettered
  <2>2. EscapeByte(c) = <<"\\", Letter(c)>>
    BY <1>2 DEF EscapeByte
  <2>3. QED
    BY <2>1, <2>2
<1>3. CASE c # "'" /\ c \notin Lettered
  BY <1>3 DEF EscapeByte, Lettered
<1>4. QED
  BY <1>1, <1>2, <1>3

\* What was written for a byte is read as that byte.
LEMMA ReadByte ==
  ASSUME NEW c \in Tokens, NEW value
  PROVE  /\ EscapeByte(c) \in Seq(Tokens)
         /\ ReadFrom(At("in", value), EscapeByte(c)) = At("in", Append(value, c))
<1>1. CASE EscapeByte(c) = <<c>> /\ c \notin {"'", "\\"}
  <2>1. ReadToken(At("in", value), c) = At("in", Append(value, c))
    BY <1>1 DEF ReadToken, At
  <2>2. QED
    BY <1>1, <2>1, OneOf, ReadOne
<1>2. CASE EscapeByte(c) = <<c, c>> /\ c = "'"
  <2>1. ReadToken(At("in", value), c) = At("quote", value)
    BY <1>2 DEF ReadToken, At
  <2>2. ReadToken(At("quote", value), c) = At("in", Append(value, c))
    BY <1>2 DEF ReadToken, At
  <2>3. QED
    BY <1>2, <2>1, <2>2, TwoOf, ReadTwo
<1>3. ASSUME NEW e \in Tokens, EscapeByte(c) = <<"\\", e>>, Unescaped(e) = c
      PROVE  /\ EscapeByte(c) \in Seq(Tokens)
             /\ ReadFrom(At("in", value), EscapeByte(c)) = At("in", Append(value, c))
  <2>1. ReadToken(At("in", value), "\\") = At("escape", value)
    BY DEF ReadToken, At
  <2>2. ReadToken(At("escape", value), e) = At("in", Append(value, c))
    BY <1>3 DEF ReadToken, At
  <2>3. "\\" \in Tokens
    BY DEF Tokens, Lettered
  <2>4. <<"\\", e>> \in Seq(Tokens)
    BY <2>3, TwoOf
  <2>5. ReadFrom(At("in", value), <<"\\", e>>) = At("in", Append(value, c))
    BY <2>1, <2>2, <2>3, ReadTwo
  <2>6. QED
    BY <1>3, <2>4, <2>5
<1>4. QED
  BY <1>1, <1>2, <1>3, EscapeByteIs

\* What was written for a string is read as that string.
LEMMA ReadBytes ==
  ASSUME NEW v \in Seq(Tokens)
  PROVE  /\ EscapeBytes(v) \in Seq(Tokens)
         /\ ReadFrom(At("in", <<>>), EscapeBytes(v)) = At("in", v)
<1> DEFINE n == Len(v)
           ss == [i \in DOMAIN v |-> EscapeByte(v[i])]
<1>1. n \in Nat /\ DOMAIN v = 1..n /\ \A i \in 1..n : v[i] \in Tokens
  BY LenProperties, ElementOfSeq
<1>2. ss \in Seq(Seq(Tokens)) /\ Len(ss) = n /\ \A i \in 1..n : ss[i] = EscapeByte(v[i])
  <2>1. \A i \in 1..n : EscapeByte(v[i]) \in Seq(Tokens)
    BY <1>1, ReadByte
  <2>2. ss = [i \in 1..n |-> EscapeByte(v[i])]
    BY <1>1
  <2>3. QED
    BY <1>1, <2>1, <2>2
<1>3. EscapeBytes(v) = FlattenSeq(ss)
  BY DEF EscapeBytes
<1> HIDE DEF ss
<1>4. PICK flat \in [0..Len(ss) -> Seq(Tokens)] :
        /\ flat[0] = <<>>
        /\ \A k \in 1..Len(ss) : flat[k] = flat[k - 1] \o ss[k]
        /\ FlattenSeq(ss) = flat[Len(ss)]
  BY <1>2, FlattenPrefixes
<1> DEFINE Unread == At("in", <<>>)
           S == {k \in 0..n : ReadFrom(Unread, flat[k]) = At("in", SubSeq(v, 1, k))}
<1>5. 0 \in S
  <2>1. SubSeq(v, 1, 0) = <<>>
    BY SubSeqEmpty
  <2>2. ReadFrom(Unread, flat[0]) = Unread
    BY <1>4, ReadNone
  <2>3. 0 \in 0..n
    BY <1>1
  <2>4. ReadFrom(Unread, flat[0]) = At("in", SubSeq(v, 1, 0))
    BY <2>1, <2>2
  <2>5. QED
    BY <2>3, <2>4
<1>6. ASSUME NEW k \in 0..(n - 1), k \in S
      PROVE  k + 1 \in S
  <2>1. k + 1 \in 1..n /\ (k + 1) - 1 = k /\ k \in 0..n /\ k + 1 \in 0..n
    BY <1>1
  <2>2. flat[k] \in Seq(Tokens)
    BY <1>2, <2>1
  <2>3. flat[k + 1] = flat[k] \o ss[k + 1]
    <3>1. flat[k + 1] = flat[(k + 1) - 1] \o ss[k + 1]
      BY <1>2, <1>4, <2>1
    <3>2. QED
      BY <3>1, <2>1
  <2>4. ss[k + 1] = EscapeByte(v[k + 1]) /\ v[k + 1] \in Tokens
    BY <1>1, <1>2, <2>1
  <2>5. ss[k + 1] \in Seq(Tokens)
    BY <2>4, ReadByte
  <2>6. ReadFrom(Unread, flat[k + 1]) = ReadFrom(ReadFrom(Unread, flat[k]), ss[k + 1])
    BY <2>2, <2>3, <2>5, ReadOn
  <2>7. ReadFrom(Unread, flat[k]) = At("in", SubSeq(v, 1, k))
    BY <1>6
  <2>8. ReadFrom(Unread, flat[k + 1]) = At("in", Append(SubSeq(v, 1, k), v[k + 1]))
    BY <2>4, <2>6, <2>7, ReadByte
  <2>9. Append(SubSeq(v, 1, k), v[k + 1]) = SubSeq(v, 1, k + 1)
    BY <1>1, <2>1, PrefixGrows
  <2>10. QED
    BY <2>1, <2>8, <2>9
<1>7. ReadFrom(Unread, flat[n]) = At("in", SubSeq(v, 1, n))
  <2>1. \A k \in 0..n : k \in S
    <3> HIDE DEF S
    <3>1. QED
      BY <1>1, <1>5, <1>6, Induction
  <2>2. QED
    BY <1>1, <2>1
<1>8. SubSeq(v, 1, n) = v
  BY SubSeqFull
<1>9. n \in 0..n
  BY <1>1
<1>10. flat[n] \in Seq(Tokens)
  BY <1>2, <1>9
<1>11. QED
  BY <1>2, <1>3, <1>4, <1>7, <1>8, <1>10
-----------------------------------------------------------------------------
(* Reading literals, on their own and in a query. *)

Unread == At("before", <<>>)

LEMMA ReadQuoted ==
  ASSUME NEW v \in Seq(Tokens)
  PROVE  /\ Quoted(EscapeBytes(v)) \in Seq(Tokens)
         /\ ReadFrom(Unread, Quoted(EscapeBytes(v))) = At("quote", v)
<1> DEFINE q == <<"'">>  text == EscapeBytes(v)
<1>1. q \in Seq(Tokens) /\ "'" \in Tokens
  BY OneOf DEF Tokens
<1>2. text \in Seq(Tokens) /\ ReadFrom(At("in", <<>>), text) = At("in", v)
  BY ReadBytes
<1>3. ReadFrom(Unread, q) = At("in", <<>>)
  <2>1. ReadToken(Unread, "'") = At("in", <<>>)
    BY DEF ReadToken, At, Unread
  <2>2. QED
    BY <1>1, <2>1, ReadOne
<1>4. ReadFrom(At("in", v), q) = At("quote", v)
  <2>1. ReadToken(At("in", v), "'") = At("quote", v)
    BY DEF ReadToken, At
  <2>2. QED
    BY <1>1, <2>1, ReadOne
<1> HIDE DEF q, text
<1>5. q \o text \in Seq(Tokens) /\ (q \o text) \o q \in Seq(Tokens)
  BY <1>1, <1>2, ConcatProperties
<1>6. ReadFrom(Unread, (q \o text) \o q) = At("quote", v)
  <2>1. ReadFrom(Unread, q \o text) = At("in", v)
    BY <1>1, <1>2, <1>3, ReadOn
  <2>2. ReadFrom(Unread, (q \o text) \o q) = ReadFrom(ReadFrom(Unread, q \o text), q)
    BY <1>1, <1>5, ReadOn
  <2>3. QED
    BY <1>4, <2>1, <2>2
<1>7. QED
  BY <1>5, <1>6 DEF Quoted, q, text

\* The literals of FormatString and FormatBytes have their value.
LEMMA FormatsReadBack ==
  ASSUME NEW v \in Seq(Tokens)
  PROVE  \A text \in {FormatString(v), FormatBytes(v)} :
            text \in Seq(Tokens) /\ ReadFrom(Unread, text) = At("quote", v)
<1> DEFINE b == <<"_binary">>  text == Quoted(EscapeBytes(v))
<1>1. b \in Seq(Tokens) /\ "_binary" \in Tokens
  BY OneOf DEF Tokens
<1>2. ReadFrom(Unread, b) = Unread
  <2>1. ReadToken(Unread, "_binary") = Unread
    BY DEF ReadToken, At, Unread
  <2>2. QED
    BY <1>1, <2>1, ReadOne
<1>3. text \in Seq(Tokens) /\ ReadFrom(Unread, text) = At("quote", v)
  BY ReadQuoted
<1> HIDE DEF b, text
<1>4. b \o text \in Seq(Tokens) /\ ReadFrom(Unread, b \o text) = At("quote", v)
  BY <1>1, <1>2, <1>3, ConcatProperties, ReadOn
<1>5. QED
  BY <1>3, <1>4 DEF FormatString, FormatBytes, b, text

LEMMA OneMark ==
  ASSUME NEW query \in Seq(Tokens), NumInput(query) = 1
  PROVE  \E p \in 1..Len(query) :
           /\ \A i \in 1..Len(query) : query[i] = "?" <=> i = p
           /\ Cardinality(Marks(query) \cap 1..p) = 1
<1>1. Len(query) \in Nat /\ DOMAIN query = 1..Len(query)
  BY LenProperties
<1>2. IsFiniteSet(Marks(query))
  <2>1. IsFiniteSet(1..Len(query))
    BY <1>1, FS_Interval
  <2>2. Marks(query) \subseteq 1..Len(query)
    BY <1>1 DEF Marks
  <2>3. QED
    BY <2>1, <2>2, FS_Subset
<1>3. PICK p : Marks(query) = {p}
  BY <1>2, FS_Singleton DEF NumInput
<1>4. p \in 1..Len(query) /\ \A i \in 1..Len(query) : query[i] = "?" <=> i = p
  BY <1>1, <1>3 DEF Marks
<1>5. Marks(query) \cap 1..p = {p}
  BY <1>3, <1>4
<1>6. Cardinality({p}) = 1
  BY FS_Singleton
<1>7. QED
  BY <1>4, <1>5, <1>6

\* What stands before the only placeholder, in a query without quotes, is not
\* part of the literal, and neither is what stands behind it.
LEMMA ReadFilled ==
  ASSUME NEW query \in Seq(Tokens), NumInput(query) = 1,
         \A i \in DOMAIN query : query[i] # "'",
         NEW texts, NEW v, texts[1] \in Seq(Tokens), ReadFrom(Unread, texts[1]) = At("quote", v)
  PROVE  ReadFrom(Unread, Filled(query, texts)) =
           At(IF Last(query) = "?" THEN "quote" ELSE "ended", v)
<1> DEFINE n == Len(query)
           ss == [i \in DOMAIN query |->
                    IF query[i] = "?" THEN texts[Cardinality(Marks(query) \cap 1..i)]
                    ELSE <<query[i]>>]
<1>1. n \in Nat /\ DOMAIN query = 1..n /\ \A i \in 1..n : query[i] \in Tokens
  BY LenProperties, ElementOfSeq
<1>2. PICK p \in 1..n : /\ \A i \in 1..n : query[i] = "?" <=> i = p
                        /\ Cardinality(Marks(query) \cap 1..p) = 1
  BY OneMark
<1>3. \A i \in 1..n : ss[i] = IF i = p THEN texts[1] ELSE <<query[i]>>
  BY <1>1, <1>2
<1>4. ss \in Seq(Seq(Tokens)) /\ Len(ss) = n
  <2>1. \A i \in 1..n : ss[i] \in Seq(Tokens)
    BY <1>1, <1>3, OneOf
  <2>2. ss = [i \in 1..n |-> ss[i]]
    BY <1>1
  <2>3. ss \in [1..n -> Seq(Tokens)]
    BY <2>1, <2>2
  <2> HIDE DEF ss
  <2>4. ss \in Seq(Seq(Tokens))
    BY <1>1, <2>3, SeqDef
  <2>5. Len(ss) = n
    BY <1>1, <2>3, <2>4, LenProperties
  <2>6. QED
    BY <2>4, <2>5
<1>5. Filled(query, texts) = FlattenSeq(ss)
  <2>1. ss = [i \in DOMAIN query |->
                IF i \in Marks(query) THEN texts[Cardinality(Marks(query) \cap 1..i)]
                ELSE <<query[i]>>]
    BY DEF Marks
  <2> HIDE DEF ss
  <2>2. QED
    BY <2>1 DEF Filled, PutAt
<1> HIDE DEF ss
<1>6. PICK flat \in [0..Len(ss) -> Seq(Tokens)] :
        /\ flat[0] = <<>>
        /\ \A k \in 1..Len(ss) : flat[k] = flat[k - 1] \o ss[k]
        /\ FlattenSeq(ss) = flat[Len(ss)]
  BY <1>4, FlattenPrefixes
<1> DEFINE R(k) == IF k < p THEN Unread ELSE IF k = p THEN At("quote", v) ELSE At("ended", v)
           S == {k \in 0..n : ReadFrom(Unread, flat[k]) = R(k)}
<1>7. 0 \in S
  BY <1>1, <1>2, <1>6, ReadNone
<1>8. ASSUME NEW k \in 0..(n - 1), k \in S
      PROVE  k + 1 \in S
  <2>1. k + 1 \in 1..n /\ (k + 1) - 1 = k /\ k \in 0..n /\ k + 1 \in 0..n /\ k \in Nat /\ p \in Nat
    BY <1>1
  <2>2. flat[k] \in Seq(Tokens) /\ ss[k + 1] \in Seq(Tokens)
    BY <1>4, <2>1, ElementOfSeq
  <2>3. flat[k + 1] = flat[k] \o ss[k + 1]
    <3>1. flat[k + 1] = flat[(k + 1) - 1] \o ss[k + 1]
      BY <1>4, <1>6, <2>1
    <3>2. QED
      BY <3>1, <2>1
  <2>4. ReadFrom(Unread, flat[k + 1]) = ReadFrom(R(k), ss[k + 1])
    <3>1. ReadFrom(Unread, flat[k]) = R(k)
      BY <1>8
    <3>2. QED
      BY <2>2, <2>3, <3>1, ReadOn
  <2>5. ReadFrom(R(k), ss[k + 1]) = R(k + 1)
    <3>1. CASE k + 1 = p
      <4>1. R(k) = Unread /\ R(k + 1) = At("quote", v)
        BY <2>1, <3>1
      <4> HIDE DEF R
      <4>2. ss[k + 1] = texts[1]
        BY <1>3, <2>1, <3>1
      <4>3. QED
        BY <4>1, <4>2
    <3>2. CASE k + 1 # p
      <4>1. ss[k + 1] = <<query[k + 1]>> /\ query[k + 1] \in Tokens /\ query[k + 1] # "'"
        BY <1>1, <1>3, <2>1, <3>2
      <4>2. ReadFrom(R(k), ss[k + 1]) = ReadToken(R(k), query[k + 1])
        BY <4>1, ReadOne
      <4>3. CASE k + 1 < p
        <5>1. R(k) = Unread /\ R(k + 1) = Unread
          BY <2>1, <4>3
        <5>2. ReadToken(Unread, query[k + 1]) = Unread
          BY <4>1 DEF ReadToken, At, Unread
        <5> HIDE DEF R
        <5>3. QED
          BY <4>2, <5>1, <5>2
      <4>4. CASE k >= p
        <5>1. R(k) \in {At("quote", v), At("ended", v)} /\ R(k + 1) = At("ended", v)
          BY <2>1, <4>4
        <5>2. \A r \in {At("quote", v), At("ended", v)} : ReadToken(r, query[k + 1]) = At("ended", v)
          BY <4>1 DEF ReadToken, At
        <5> HIDE DEF R
        <5>3. QED
          BY <4>2, <5>1, <5>2
      <4>5. QED
        BY <2>1, <3>2, <4>3, <4>4
    <3>3. QED
      BY <3>1, <3>2
  <2>6. ReadFrom(Unread, flat[k + 1]) = R(k + 1)
    <3> HIDE DEF R
    <3>1. QED
      BY <2>4, <2>5
  <2> HIDE DEF R
  <2>7. QED
    BY <2>1, <2>6
<1>9. ReadFrom(Unread, flat[n]) = R(n)
  <2>1. \A k \in 0..n : k \in S
    <3> HIDE DEF S
    <3>1. QED
      BY <1>1, <1>7, <1>8, Induction
  <2> HIDE DEF R
  <2>2. n \in 0..n
    BY <1>1
  <2>3. QED
    BY <2>1, <2>2
<1>10. R(n) = At(IF Last(query) = "?" THEN "quote" ELSE "ended", v)
  <2>1. Last(query) = query[n]
    BY DEF Last
  <2>2. n \in 1..n
    BY <1>1, <1>2
  <2>3. query[n] = "?" <=> n = p
    BY <1>2, <2>2
  <2> HIDE DEF n
  <2>4. R(n) = IF n = p THEN At("quote", v) ELSE At("ended", v)
    BY <1>1, <1>2
  <2> HIDE DEF R
  <2>5. QED
    BY <2>1, <2>3, <2>4
<1> HIDE DEF R
<1>11. QED
  BY <1>4, <1>5, <1>6, <1>9, <1>10
-----------------------------------------------------------------------------
(* Times: both ways print a year of four digits and the microseconds alike. *)

\* A number of two digits: those of n that p and q give.
IsPair(h, n, p, q) == h = 10 * ((n \div p) % 10) + ((n \div q) % 10)

Digit(n, p) == Digits[((n \div p) % 10) + 1]

LEMMA DigitType ==
  ASSUME NEW n \in Nat, NEW p \in Nat \ {0}
  PROVE  (n \div p) % 10 \in 0..9 /\ Digit(n, p) \in Range(Digits)
<1> DEFINE m == n \div p  d == m % 10
<1>1. m \in Nat
  BY SMT
<1> HIDE DEF m
<1>2. d \in 0..9
  BY <1>1, SMT
<1> HIDE DEF d
<1>3. DOMAIN Digits = 1..10
  BY DEF Digits
<1>4. d + 1 \in DOMAIN Digits
  BY <1>2, <1>3
<1>5. QED
  BY <1>2, <1>4 DEF Range, Digit, d, m

LEMMA DigitPair ==
  ASSUME NEW n \in Nat, NEW p \in Nat \ {0}, NEW q \in Nat \ {0}, NEW h,
         IsPair(h, n, p, q)
  PROVE  /\ TwoDigits(h) \in Seq(Range(Digits)) /\ Len(TwoDigits(h)) = 2
         /\ TwoDigits(h)[1] = Digit(n, p) /\ TwoDigits(h)[2] = Digit(n, q)
<1> DEFINE R == Range(Digits)  d == TwoDigits(h)  a == (n \div p) % 10  b == (n \div q) % 10
<1>1. Digit(n, p) \in R /\ Digit(n, q) \in R /\ a \in 0..9 /\ b \in 0..9
  BY DigitType
<1>2. d = <<Digit(n, p), Digit(n, q)>>
  <2>1. h \div 10 = a /\ h % 10 = b
    <3> HIDE DEF a, b
    <3>1. h = 10 * a + b
      BY DEF a, b, IsPair
    <3>2. QED
      BY <1>1, <3>1, SMT
  <2>2. QED
    BY <2>1 DEF TwoDigits, Digit
<1> HIDE DEF R, d, a, b
<1>3. d \in Seq(R) /\ Len(d) = 2 /\ d[1] = Digit(n, p) /\ d[2] = Digit(n, q)
  BY <1>1, <1>2
<1>4. QED
  BY <1>3 DEF R, d

\* Two more digits, behind others.
LEMMA PairFollows ==
  ASSUME NEW R, NEW s \in Seq(R), NEW d \in Seq(R), Len(d) = 2
  PROVE  /\ s \o d \in Seq(R) /\ Len(s \o d) = Len(s) + 2
         /\ \A i \in 1..Len(s) : (s \o d)[i] = s[i]
         /\ (s \o d)[Len(s) + 1] = d[1] /\ (s \o d)[Len(s) + 2] = d[2]
<1>1. Len(s) \in Nat
  BY LenProperties
<1>2. /\ s \o d \in Seq(R) /\ Len(s \o d) = Len(s) + Len(d)
      /\ \A i \in 1..(Len(s) + Len(d)) : (s \o d)[i] = IF i <= Len(s) THEN s[i] ELSE d[i - Len(s)]
  BY ConcatProperties
<1>3. /\ Len(s) + 1 \in 1..(Len(s) + Len(d)) /\ Len(s) + 2 \in 1..(Len(s) + Len(d))
      /\ (Len(s) + 1) - Len(s) = 1 /\ (Len(s) + 2) - Len(s) = 2
      /\ ~ (Len(s) + 1 <= Len(s)) /\ ~ (Len(s) + 2 <= Len(s))
  BY <1>1
<1>4. (s \o d)[Len(s) + 1] = d[(Len(s) + 1) - Len(s)]
  BY <1>2, <1>3
<1>5. (s \o d)[Len(s) + 2] = d[(Len(s) + 2) - Len(s)]
  BY <1>2, <1>3
<1>6. \A i \in 1..Len(s) : (s \o d)[i] = s[i]
  BY <1>1, <1>2
<1>7. QED
  BY <1>2, <1>3, <1>4, <1>5, <1>6

\* digits10 and digits01 print a year of up to four digits as time.Format does.
LEMMA YearsAgree ==
  ASSUME NEW year \in ShortYears
  PROVE  TwoDigits(year \div 100) \o TwoDigits(year % 100) = YearText(year)
<1> DEFINE R == Range(Digits)  s == TwoDigits(year \div 100)  t == TwoDigits(year % 100)
           y == [i \in 1..4 |-> Digit(year, Powers[i + 2])]
<1>1. year \in Nat /\ year <= 9999 /\ year < 1000 * 1000
  BY SMT DEF ShortYears
<1>2. IsPair(year \div 100, year, 1000, 100) /\ IsPair(year % 100, year, 10, 1)
  <2>1. IsPair(year \div 100, year, 1000, 100)
    BY <1>1, SMT DEF IsPair
  <2>2. IsPair(year % 100, year, 10, 1)
    BY <1>1, SMT DEF IsPair
  <2>3. QED
    BY <2>1, <2>2
<1>3. s \in Seq(R) /\ Len(s) = 2 /\ s[1] = Digit(year, 1000) /\ s[2] = Digit(year, 100)
  BY <1>1, <1>2, DigitPair
<1>4. t \in Seq(R) /\ Len(t) = 2 /\ t[1] = Digit(year, 10) /\ t[2] = Digit(year, 1)
  BY <1>1, <1>2, DigitPair
<1>5. YearText(year) = y
  BY <1>1 DEF YearText, Digit
<1>6. Powers[3] = 1000 /\ Powers[4] = 100 /\ Powers[5] = 10 /\ Powers[6] = 1
  BY DEF Powers
<1>7. /\ y[1] = Digit(year, 1000) /\ y[2] = Digit(year, 100)
      /\ y[3] = Digit(year, 10) /\ y[4] = Digit(year, 1)
  BY <1>6
<1>8. y \in [1..4 -> R]
  <2>1. \A i \in 1..4 : y[i] \in R
    <3>1. \A p \in {1000, 100, 10, 1} : Digit(year, p) \in R
      BY <1>1, DigitType
    <3> HIDE DEF R, y
    <3>2. QED
      BY <1>7, <3>1
  <2> HIDE DEF R
  <2>2. QED
    BY <2>1
<1> HIDE DEF R, s, t, y
<1>9. y \in Seq(R) /\ Len(y) = 4
  <2>1. \A n \in Nat : y \in [1..n -> R] => y \in Seq(R) /\ Len(y) = n
    BY FunctionOf
  <2>2. QED
    BY <1>8, <2>1
<1>10. /\ s \o t \in Seq(R) /\ Len(s \o t) = 4
       /\ (s \o t)[1] = s[1] /\ (s \o t)[2] = s[2] /\ (s \o t)[3] = t[1] /\ (s \o t)[4] = t[2]
  BY <1>3, <1>4, PairFollows
<1>11. \A i \in 1..4 : (s \o t)[i] = y[i]
  BY <1>3, <1>4, <1>7, <1>10
<1>12. s \o t = y
  BY <1>9, <1>10, <1>11, SeqEqual
<1>13. QED
  BY <1>5, <1>12 DEF s, t

\* Two pairs one after the other are a text of four.
LEMMA TwoPairs ==
  ASSUME NEW R, NEW s \in Seq(R), NEW t \in Seq(R), Len(s) = 2, Len(t) = 2
  PROVE  \E v \in Seq(R) : /\ s \o t = v /\ Len(v) = 4
                           /\ v[1] = s[1] /\ v[2] = s[2] /\ v[3] = t[1] /\ v[4] = t[2]
<1> DEFINE v == s \o t
<1>1. /\ v \in Seq(R) /\ Len(v) = Len(s) + 2 /\ \A i \in 1..Len(s) : v[i] = s[i]
      /\ v[Len(s) + 1] = t[1] /\ v[Len(s) + 2] = t[2]
  BY PairFollows
<1>2. s \o t = v
  OBVIOUS
<1> HIDE DEF v
<1>3. Len(v) = 4 /\ v[1] = s[1] /\ v[2] = s[2] /\ v[3] = t[1] /\ v[4] = t[2]
  BY <1>1
<1>4. QED
  BY <1>1, <1>2, <1>3, Zenon

\* Three pairs one after the other are a text of six.
ArePairsOf(s, t, u, y) ==
  /\ Len(s) = 2 /\ Len(t) = 2 /\ Len(u) = 2 /\ Len(y) = 6
  /\ y[1] = s[1] /\ y[2] = s[2] /\ y[3] = t[1] /\ y[4] = t[2] /\ y[5] = u[1] /\ y[6] = u[2]

LEMMA ThreePairs ==
  ASSUME NEW R, NEW s \in Seq(R), NEW t \in Seq(R), NEW u \in Seq(R), NEW y \in Seq(R),
         ArePairsOf(s, t, u, y)
  PROVE  (s \o t) \o u = y
<1>0. /\ Len(s) = 2 /\ Len(t) = 2 /\ Len(u) = 2 /\ Len(y) = 6
      /\ y[1] = s[1] /\ y[2] = s[2] /\ y[3] = t[1] /\ y[4] = t[2] /\ y[5] = u[1] /\ y[6] = u[2]
  BY DEF ArePairsOf
<1>1. PICK v \in Seq(R) : /\ s \o t = v /\ Len(v) = 4
                          /\ v[1] = s[1] /\ v[2] = s[2] /\ v[3] = t[1] /\ v[4] = t[2]
  BY <1>0, TwoPairs, Zenon
<1> DEFINE w == v \o u
<1>2. /\ w \in Seq(R) /\ Len(w) = Len(v) + 2
      /\ \A i \in 1..Len(v) : w[i] = v[i]
      /\ w[Len(v) + 1] = u[1] /\ w[Len(v) + 2] = u[2]
  BY <1>0, PairFollows
<1> HIDE DEF w
<1>3. Len(w) = 6 /\ w[5] = y[5] /\ w[6] = y[6]
  BY <1>0, <1>1, <1>2
<1>4. w[1] = y[1] /\ w[2] = y[2] /\ w[3] = y[3] /\ w[4] = y[4]
  BY <1>0, <1>1, <1>2
<1>5. \A i \in 1..6 : w[i] = y[i]
  <2>1. SUFFICES ASSUME NEW i \in 1..6
                 PROVE  w[i] = y[i]
    OBVIOUS
  <2>2. i = 1 \/ i = 2 \/ i = 3 \/ i = 4 \/ i = 5 \/ i = 6
    OBVIOUS
  <2>3. CASE i = 1 \/ i = 2
    BY <1>4, <2>3, Zenon
  <2>4. CASE i = 3 \/ i = 4
    BY <1>4, <2>4, Zenon
  <2>5. CASE i = 5 \/ i = 6
    BY <1>3, <2>5, Zenon
  <2>6. QED
    BY <2>2, <2>3, <2>4, <2>5, Zenon
<1>6. w = y
  <2>1. Len(w) = Len(y) /\ \A i \in 1..Len(w) : w[i] = y[i]
    BY <1>0, <1>3, <1>5
  <2>2. QED
    BY <1>2, <2>1, SeqEqual, Zenon
<1>7. QED
  <2>1. (s \o t) \o u = v \o u
    BY <1>1, Zenon
  <2>2. QED
    BY <1>6, <2>1, Zenon DEF w

\* And so they print the microseconds of a second.
Micros == {n \in Nat : n < 1000 * 1000}

LEMMA MicrosAgree ==
  ASSUME NEW micro \in Micros
  PROVE  MicroPairs(micro) = MicroText(micro)
<1> DEFINE R == Range(Digits)  s == TwoDigits(micro \div 10000)
           t == TwoDigits((micro \div 100) % 100)  u == TwoDigits(micro % 100)
           y == [i \in 1..6 |-> Digit(micro, Powers[i])]
<1>0. micro \in Nat
  BY DEF Micros
<1>1. /\ IsPair(micro \div 10000, micro, 100000, 10000)
      /\ IsPair((micro \div 100) % 100, micro, 1000, 100)
      /\ IsPair(micro % 100, micro, 10, 1)
  <2>1. IsPair(micro \div 10000, micro, 100000, 10000)
    BY SMT DEF IsPair, Micros
  <2>2. IsPair((micro \div 100) % 100, micro, 1000, 100)
    BY SMT DEF IsPair, Micros
  <2>3. IsPair(micro % 100, micro, 10, 1)
    BY SMT DEF IsPair, Micros
  <2>4. QED
    BY <2>1, <2>2, <2>3, SMT
<1>2. s \in Seq(R) /\ Len(s) = 2 /\ s[1] = Digit(micro, 100000) /\ s[2] = Digit(micro, 10000)
  BY <1>0, <1>1, DigitPair, SMT
<1>3. t \in Seq(R) /\ Len(t) = 2 /\ t[1] = Digit(micro, 1000) /\ t[2] = Digit(micro, 100)
  BY <1>0, <1>1, DigitPair
<1>4. u \in Seq(R) /\ Len(u) = 2 /\ u[1] = Digit(micro, 10) /\ u[2] = Digit(micro, 1)
  BY <1>0, <1>1, DigitPair
<1>5. MicroText(micro) = y
  BY DEF MicroText, Digit
<1>6. /\ Powers[1] = 100000 /\ Powers[2] = 10000 /\ Powers[3] = 1000
      /\ Powers[4] = 100 /\ Powers[5] = 10 /\ Powers[6] = 1
  BY SMT DEF Powers
<1>7. /\ y[1] = Digit(micro, 100000) /\ y[2] = Digit(micro, 10000) /\ y[3] = Digit(micro, 1000)
      /\ y[4] = Digit(micro, 100) /\ y[5] = Digit(micro, 10) /\ y[6] = Digit(micro, 1)
  BY <1>6, SMT
<1>8. y \in [1..6 -> R]
  <2>1. \A i \in 1..6 : y[i] \in R
    <3>1. \A p \in {100000, 10000, 1000, 100, 10, 1} : Digit(micro, p) \in R
      BY <1>0, DigitType, SMT
    <3> HIDE DEF R, y
    <3>2. QED
      BY <1>7, <3>1, SMT
  <2> HIDE DEF R
  <2>2. QED
    BY <2>1
<1> HIDE DEF R, s, t, u, y
<1>9. y \in Seq(R) /\ Len(y) = 6
  <2>1. \A n \in Nat : y \in [1..n -> R] => y \in Seq(R) /\ Len(y) = n
    BY FunctionOf
  <2>2. QED
    BY <1>8, <2>1
<1>10. y[1] = s[1] /\ y[2] = s[2]
  BY <1>2, <1>7
<1>11. y[3] = t[1] /\ y[4] = t[2]
  BY <1>3, <1>7
<1>12. y[5] = u[1] /\ y[6] = u[2]
  BY <1>4, <1>7
<1>13. /\ s \in Seq(R) /\ t \in Seq(R) /\ u \in Seq(R)
       /\ Len(s) = 2 /\ Len(t) = 2 /\ Len(u) = 2
  BY <1>2, <1>3, <1>4
<1>14. (s \o t) \o u = y
  <2>1. ArePairsOf(s, t, u, y)
    BY <1>9, <1>10, <1>11, <1>12, <1>13 DEF ArePairsOf
  <2>2. s \in Seq(R) /\ t \in Seq(R) /\ u \in Seq(R) /\ y \in Seq(R)
    BY <1>9, <1>13, Zenon
  <2>3. QED
    BY <2>1, <2>2, ThreePairs, Zenon
<1>15. QED
  BY <1>5, <1>14 DEF s, t, u, MicroPairs

\* An instant whose year the digit tables reach is printed alike.
LEMMA TimesAgree ==
  ASSUME NEW time \in Instants, time = ZeroTime \/ HalfMicroLater(time).year \in ShortYears
  PROVE  InterpolatedTime(time) = FormattedTime(time)
<1> DEFINE t == HalfMicroLater(time)  micro == t.ns \div 1000
<1>1. micro \in Nat /\ micro < 1000 * 1000
  <2> DEFINE ns == time.ns + 500
  <2>1. ns \in Nat
    BY DEF Instants
  <2>2. t.ns = ns % NanosPerSecond
    BY Zenon DEF HalfMicroLater
  <2>3. t.ns \in Nat /\ t.ns < NanosPerSecond
    <3>1. NanosPerSecond \in Nat /\ NanosPerSecond > 0
      BY SMT DEF NanosPerSecond
    <3> HIDE DEF ns, t
    <3>2. QED
      BY <2>1, <2>2, <3>1, SMT
  <2> HIDE DEF t
  <2>4. QED
    BY <2>3, SMT DEF NanosPerSecond
<1>2. time # ZeroTime => t.year \in ShortYears
  OBVIOUS
<1> HIDE DEF t, micro
<1>3. time # ZeroTime => TwoDigits(t.year \div 100) \o TwoDigits(t.year % 100) = YearText(t.year)
  BY <1>2, YearsAgree, Zenon
<1>4. MicroPairs(micro) = MicroText(micro)
  BY <1>1, MicrosAgree DEF Micros
<1>5. CASE time = ZeroTime
  BY <1>5 DEF InterpolatedTime, FormattedTime
<1>6. CASE time # ZeroTime
  <2> DEFINE rest(text) == IF micro # 0 THEN <<".">> \o text ELSE <<>>
  <2>1. InterpolatedTime(time) =
          TwoDigits(t.year \div 100) \o TwoDigits(t.year % 100) \o Clock(t.sec) \o rest(MicroPairs(micro))
    BY <1>6, Zenon DEF InterpolatedTime, t, micro
  <2>2. FormattedTime(time) = YearText(t.year) \o Clock(t.sec) \o rest(MicroText(micro))
    BY <1>6, Zenon DEF FormattedTime, t, micro
  <2> HIDE DEF rest
  <2>3. QED
    BY <1>3, <1>4, <1>6, <2>1, <2>2
<1>7. QED
  BY <1>5, <1>6
-----------------------------------------------------------------------------
(* The pool. *)

Holding == {"connect", "call", "running", "rows", "panicked"}
Entries == {"none", "fresh", "used"}

\* The parts of TypeOK about the pool, and about the uses.
PoolType ==
  /\ maxOpen \in Limits
  /\ conn    \in [Conns -> {"none", "connecting", "opening", "idle", "busy"}]
  /\ entry   \in [Conns -> Entries]
  /\ at      \in [Users -> {"idle", "acquire", "connect", "wait", "call", "running", "rows",
                            "panicked"}]
  /\ on      \in [Users -> Conns \cup {None}]

TryType ==
  /\ try     \in [Users -> 0..3]
  /\ ctxDone \in [Users -> BOOLEAN]
  /\ started \in [Users -> Nat]
  /\ answer  \in [Users -> {"none", "ok", "error", "ContextError", "ErrBadConn", "panic"}]

KindType ==
  /\ DOMAIN use = Users
  /\ \A u \in Users : use[u] \in Uses[u] \cup {[NoUse EXCEPT !.kind = k] : k \in Kinds \cup {"none"}}

SentType ==
  /\ DOMAIN sent = Users
  /\ \A u \in Users : sent[u] = Nothing \/ at[u] \in {"running", "rows"}

UseType == TryType /\ KindType /\ SentType

HeldInv ==
  \A u \in Users : at[u] \in Holding =>
    on[u] \in Conns /\ conn[on[u]] = (IF at[u] = "connect" THEN "connecting" ELSE "busy")

ApartInv ==
  \A u, v \in Users : at[u] \in Holding /\ at[v] \in Holding /\ on[u] = on[v] => u = v

EntryInv ==
  \A c \in Conns : conn[c] \in {"none", "connecting", "opening"} => entry[c] = "none"

PoolInv == PoolType /\ HeldInv /\ ApartInv /\ EntryInv

\* A use that has not had its turn has started nothing and answered nothing.
TurnInv ==
  \A u \in Users :
    /\ at[u] # "idle" => answer[u] = "none"
    /\ at[u] \in {"acquire", "connect", "wait", "call"} => started[u] = 0

\* Without a limit nobody waits, and the last try is on a new connection.
NewInv ==
  maxOpen = 0 => \A u \in Users :
    /\ at[u] # "wait"
    /\ at[u] = "call" /\ try[u] = 3 => entry[on[u]] = "none"

USE PoolAssumption
-----------------------------------------------------------------------------
(* The pool: what putting back and discarding a connection leaves. *)

LEMMA PutKeepsPool ==
  ASSUME PoolInv, NEW u \in Users, at[u] \in Holding \ {"connect"}, NEW e \in Entries, Put(u, e)
  PROVE  PoolInv'
<1> DEFINE c == on[u]
<1>1. c \in Conns /\ conn[c] = "busy"
  BY DEF PoolInv, HeldInv, Holding
<1>2. ASSUME NEW w \in Waiting,
             at' = [at EXCEPT ![u] = "idle", ![w] = "call"],
             on' = [on EXCEPT ![u] = None, ![w] = c],
             entry' = [entry EXCEPT ![c] = e], UNCHANGED <<conn, maxOpen>>
      PROVE  PoolInv'
  <2>1. w \in Users /\ at[w] = "wait" /\ w # u
    BY <1>2 DEF Waiting, Holding
  <2>2. PoolType'
    BY <1>1, <1>2, <2>1 DEF PoolInv, PoolType
  <2>3. HeldInv'
    BY <1>1, <1>2, <2>1 DEF PoolInv, PoolType, HeldInv, Holding
  <2>4. ApartInv'
    BY <1>1, <1>2, <2>1 DEF PoolInv, PoolType, ApartInv, Holding
  <2>5. EntryInv'
    BY <1>1, <1>2 DEF PoolInv, PoolType, EntryInv
  <2>6. QED
    BY <2>2, <2>3, <2>4, <2>5 DEF PoolInv
<1>3. ASSUME at' = [at EXCEPT ![u] = "idle"], on' = [on EXCEPT ![u] = None],
             conn'  = [conn EXCEPT ![c] = IF IdleRoom THEN "idle" ELSE "none"],
             entry' = [entry EXCEPT ![c] = IF IdleRoom THEN e ELSE "none"], UNCHANGED maxOpen
      PROVE  PoolInv'
  <2>1. PoolType'
    BY <1>1, <1>3 DEF PoolInv, PoolType, Entries
  <2>2. HeldInv'
    BY <1>1, <1>3 DEF PoolInv, PoolType, HeldInv, ApartInv, Holding
  <2>3. ApartInv'
    BY <1>1, <1>3 DEF PoolInv, PoolType, ApartInv, Holding
  <2>4. EntryInv'
    BY <1>1, <1>3 DEF PoolInv, PoolType, EntryInv
  <2>5. QED
    BY <2>1, <2>2, <2>3, <2>4 DEF PoolInv
<1>4. QED
  BY <1>2, <1>3 DEF Put

LEMMA DiscardKeepsPool ==
  ASSUME PoolInv, NEW u \in Users, at[u] \in Holding, NEW where \in {"idle", "acquire"},
         Discard(u, where)
  PROVE  PoolInv'
<1> DEFINE c == on[u]
<1>1. c \in Conns
  BY DEF PoolInv, HeldInv
<1>2. /\ at' = [at EXCEPT ![u] = where] /\ on' = [on EXCEPT ![u] = None]
      /\ conn' = [conn EXCEPT ![c] = Freed] /\ entry' = [entry EXCEPT ![c] = "none"]
      /\ maxOpen' = maxOpen /\ Freed \in {"none", "opening"}
  BY DEF Discard, Freed
<1>3. PoolType'
  BY <1>1, <1>2 DEF PoolInv, PoolType, Entries
<1>4. HeldInv'
  BY <1>1, <1>2 DEF PoolInv, PoolType, HeldInv, ApartInv, Holding
<1>5. ApartInv'
  BY <1>1, <1>2 DEF PoolInv, PoolType, ApartInv, Holding
<1>6. EntryInv'
  BY <1>1, <1>2 DEF PoolInv, PoolType, EntryInv
<1>7. QED
  BY <1>3, <1>4, <1>5, <1>6 DEF PoolInv

\* A use moves on without touching the pool.
LEMMA MoveKeepsPool ==
  ASSUME PoolInv, NEW u \in Users, NEW where, UNCHANGED <<poolVars, on>>,
         at' = [at EXCEPT ![u] = where],
         \/ where \in {"idle", "acquire", "wait"}
         \/ at[u] \in Holding \ {"connect"} /\ where \in {"running", "rows", "panicked"}
  PROVE  PoolInv'
<1>1. PoolType'
  BY DEF PoolInv, PoolType, poolVars, Holding
<1>2. HeldInv'
  BY DEF PoolInv, PoolType, HeldInv, poolVars, Holding
<1>3. ApartInv'
  BY DEF PoolInv, PoolType, ApartInv, poolVars, Holding
<1>4. EntryInv'
  BY DEF PoolInv, EntryInv, poolVars
<1>5. QED
  BY <1>1, <1>2, <1>3, <1>4 DEF PoolInv

LEMMA EntryTypes ==
  ASSUME PoolType, NEW c \in Conns, NEW u \in Users, on[u] = c
  PROVE  entry[c] \in Entries /\ PreparedOn(c) \in Entries /\ AfterUse(u) \in Entries
BY DEF PoolType, Entries, PreparedOn, AfterUse

LEMMA NewNameIsFree ==
  (\E c \in Conns : conn[c] = "none") => NewName \in Conns /\ conn[NewName] = "none"
BY DEF NewName

LEMMA FailsKeepsPool ==
  ASSUME PoolInv, NEW u \in Users, at[u] \in Holding \ {"connect"}, NEW what, Fails(u, what)
  PROVE  PoolInv'
<1>1. on[u] \in Conns /\ PoolType
  BY DEF PoolInv, HeldInv
<1>2. Discard(u, "idle") \/ (AfterUse(u) \in Entries /\ Put(u, AfterUse(u)))
  BY <1>1, EntryTypes DEF Fails
<1>3. QED
  BY <1>2, PutKeepsPool, DiscardKeepsPool

LEMMA AcquireKeepsPool ==
  ASSUME PoolInv, NEW u \in Users, Acquire(u)
  PROVE  PoolInv'
<1>1. CASE TakeIdle(u)
  <2>1. PICK c \in Idle : conn' = [conn EXCEPT ![c] = "busy"] /\ on' = [on EXCEPT ![u] = c]
    BY <1>1 DEF TakeIdle
  <2>2. at' = [at EXCEPT ![u] = "call"] /\ UNCHANGED <<maxOpen, entry>>
    BY <1>1 DEF TakeIdle
  <2>3. c \in Conns /\ conn[c] = "idle"
    BY <2>1 DEF Idle
  <2>4. PoolType'
    BY <2>1, <2>2, <2>3 DEF PoolInv, PoolType
  <2>5. HeldInv'
    BY <2>1, <2>2, <2>3 DEF PoolInv, PoolType, HeldInv, Holding
  <2>6. ApartInv'
    BY <2>1, <2>2, <2>3 DEF PoolInv, PoolType, HeldInv, ApartInv, Holding
  <2>7. EntryInv'
    BY <2>1, <2>2, <2>3 DEF PoolInv, PoolType, EntryInv
  <2>8. QED
    BY <2>4, <2>5, <2>6, <2>7 DEF PoolInv
<1>2. CASE Wait(u)
  BY <1>2, MoveKeepsPool DEF Wait, poolVars
<1>3. CASE Open(u)
  <2> DEFINE c == NewName
  <2>1. c \in Conns /\ conn[c] = "none"
    BY <1>3, NewNameIsFree DEF Open
  <2>2. /\ conn' = [conn EXCEPT ![c] = "connecting"] /\ on' = [on EXCEPT ![u] = c]
        /\ at' = [at EXCEPT ![u] = "connect"] /\ UNCHANGED <<maxOpen, entry>>
    BY <1>3 DEF Open
  <2> HIDE DEF c
  <2>4. PoolType'
    BY <2>1, <2>2 DEF PoolInv, PoolType
  <2>5. HeldInv'
    BY <2>1, <2>2 DEF PoolInv, PoolType, HeldInv, Holding
  <2>6. ApartInv'
    BY <2>1, <2>2 DEF PoolInv, PoolType, HeldInv, ApartInv, Holding
  <2>7. EntryInv'
    BY <2>1, <2>2 DEF PoolInv, PoolType, EntryInv
  <2>8. QED
    BY <2>4, <2>5, <2>6, <2>7 DEF PoolInv
<1>4. CASE Connected(u)
  <2>1. on[u] \in Conns /\ at[u] = "connect"
    BY <1>4 DEF Connected, PoolInv, HeldInv, Holding
  <2>2. /\ conn' = [conn EXCEPT ![on[u]] = "busy"] /\ at' = [at EXCEPT ![u] = "call"]
        /\ UNCHANGED <<maxOpen, entry, on>>
    BY <1>4 DEF Connected
  <2>4. PoolType'
    BY <2>1, <2>2 DEF PoolInv, PoolType
  <2>5. HeldInv'
    BY <2>1, <2>2 DEF PoolInv, PoolType, HeldInv, ApartInv, Holding
  <2>6. ApartInv'
    BY <2>1, <2>2 DEF PoolInv, PoolType, ApartInv, Holding
  <2>7. EntryInv'
    BY <2>1, <2>2 DEF PoolInv, PoolType, EntryInv
  <2>8. QED
    BY <2>4, <2>5, <2>6, <2>7 DEF PoolInv
<1>5. CASE ConnectFails(u)
  BY <1>5, DiscardKeepsPool DEF ConnectFails, Holding
<1>6. CASE GiveUp(u)
  BY <1>6, MoveKeepsPool DEF GiveUp
<1>7. QED
  BY <1>1, <1>2, <1>3, <1>4, <1>5, <1>6 DEF Acquire

LEMMA OpenerKeepsPool ==
  ASSUME PoolInv, NEW c \in Conns, Opener(c)
  PROVE  PoolInv'
<1>1. conn[c] = "opening" /\ UNCHANGED <<maxOpen, entry>> /\ entry[c] = "none"
  BY DEF Opener, OpenerConnects, OpenerFails, PoolInv, EntryInv
<1>2. ASSUME NEW w \in Waiting, conn' = [conn EXCEPT ![c] = "busy"],
             at' = [at EXCEPT ![w] = "call"], on' = [on EXCEPT ![w] = c]
      PROVE  PoolInv'
  <2>1. w \in Users /\ at[w] = "wait"
    BY DEF Waiting
  <2>2. PoolType'
    BY <1>1, <1>2, <2>1 DEF PoolInv, PoolType
  <2>3. HeldInv'
    BY <1>1, <1>2, <2>1 DEF PoolInv, PoolType, HeldInv, Holding
  <2>4. ApartInv'
    BY <1>1, <1>2, <2>1 DEF PoolInv, PoolType, HeldInv, ApartInv, Holding
  <2>5. EntryInv'
    BY <1>1, <1>2, <2>1 DEF PoolInv, PoolType, EntryInv
  <2>6. QED
    BY <2>2, <2>3, <2>4, <2>5 DEF PoolInv
<1>3. ASSUME NEW s \in {"idle", "none", "opening"}, conn' = [conn EXCEPT ![c] = s],
             UNCHANGED on,
             UNCHANGED at \/ \E w \in Waiting : at' = [at EXCEPT ![w] = "idle"]
      PROVE  PoolInv'
  <2>1. /\ at' \in [Users -> {"idle", "acquire", "connect", "wait", "call", "running", "rows",
                               "panicked"}]
        /\ \A u \in Users : at'[u] \in Holding => at'[u] = at[u]
    BY <1>3 DEF Waiting, PoolInv, PoolType, Holding
  <2>2. PoolType'
    BY <1>1, <1>3, <2>1 DEF PoolInv, PoolType
  <2>3. HeldInv'
    BY <1>1, <1>3, <2>1 DEF PoolInv, PoolType, HeldInv
  <2>4. ApartInv'
    BY <1>1, <1>3, <2>1 DEF PoolInv, PoolType, ApartInv
  <2>5. EntryInv'
    BY <1>1, <1>3 DEF PoolInv, PoolType, EntryInv
  <2>6. QED
    BY <2>2, <2>3, <2>4, <2>5 DEF PoolInv
<1>4. CASE OpenerConnects(c)
  BY <1>2, <1>3, <1>4 DEF OpenerConnects
<1>5. CASE OpenerFails(c)
  BY <1>3, <1>5 DEF OpenerFails
<1>6. QED
  BY <1>4, <1>5 DEF Opener

LEMMA CallKeepsPool ==
  ASSUME PoolInv, NEW u \in Users, Call(u)
  PROVE  PoolInv'
<1>1. at[u] = "call" /\ at[u] \in Holding \ {"connect"}
  BY DEF Call, NotPassed, EndsBeforeStatement, AnswerBadConn, Panic, Refuse, Start, StartFails,
     Reached, Holding
<1>2. on[u] \in Conns /\ PoolType
  BY <1>1 DEF PoolInv, HeldInv
<1>3. entry[on[u]] \in Entries /\ PreparedOn(on[u]) \in Entries
  BY <1>2, EntryTypes
<1>4. CASE NotPassed(u) \/ EndsBeforeStatement(u)
  BY <1>1, <1>3, <1>4, PutKeepsPool DEF NotPassed, EndsBeforeStatement
<1>5. CASE AnswerBadConn(u)
  BY <1>1, <1>5, DiscardKeepsPool DEF AnswerBadConn
<1>6. CASE Panic(u)
  BY <1>1, <1>3, <1>6, PutKeepsPool, MoveKeepsPool DEF Panic
<1>7. CASE Refuse(u) \/ StartFails(u)
  BY <1>1, <1>7, FailsKeepsPool DEF Refuse, StartFails
<1>8. CASE Start(u)
  BY <1>1, <1>8, MoveKeepsPool DEF Start
<1>9. QED
  BY <1>4, <1>5, <1>6, <1>7, <1>8 DEF Call

LEMMA RunKeepsPool ==
  ASSUME PoolInv, NEW u \in Users, Run(u)
  PROVE  PoolInv'
<1>1. at[u] \in {"running", "rows"} /\ at[u] \in Holding \ {"connect"}
  BY DEF Run, Finish, Failed, HonorContext, CloseRows, Holding
<1>2. on[u] \in Conns /\ PoolType /\ conn[on[u]] = "busy"
  BY <1>1 DEF PoolInv, HeldInv
<1>3. entry[on[u]] \in Entries /\ AfterUse(u) \in Entries
  BY <1>2, EntryTypes
<1>4. CASE Finish(u)
  <2>1. CASE Put(u, AfterUse(u))
    BY <1>1, <1>3, <2>1, PutKeepsPool
  <2>2. CASE /\ at' = [at EXCEPT ![u] = "rows"] /\ UNCHANGED <<maxOpen, conn, on>>
             /\ entry' = [entry EXCEPT ![on[u]] = AfterUse(u)]
    <3>1. PoolType'
      BY <1>2, <1>3, <2>2 DEF PoolType
    <3>2. HeldInv' /\ ApartInv'
      BY <1>1, <2>2 DEF PoolInv, PoolType, HeldInv, ApartInv, Holding
    <3>3. EntryInv'
      BY <1>2, <2>2 DEF PoolInv, EntryInv, PoolType
    <3>4. QED
      BY <3>1, <3>2, <3>3 DEF PoolInv
  <2>3. QED
    BY <1>4, <2>1, <2>2 DEF Finish
<1>5. CASE Failed(u) \/ HonorContext(u)
  BY <1>1, <1>5, FailsKeepsPool DEF Failed, HonorContext
<1>6. CASE CloseRows(u)
  BY <1>1, <1>3, <1>6, PutKeepsPool DEF CloseRows
<1>7. QED
  BY <1>4, <1>5, <1>6 DEF Run

LEMMA PoolInvariant == Spec => []PoolInv
<1>1. Init => PoolInv
  BY DEF Init, PoolInv, PoolType, HeldInv, ApartInv, EntryInv, Holding, Entries
<1>2. PoolInv /\ [Next]_vars => PoolInv'
  <2> SUFFICES ASSUME PoolInv, [Next]_vars
               PROVE  PoolInv'
    OBVIOUS
  <2>1. CASE UNCHANGED vars
    BY <2>1 DEF vars, poolVars, PoolInv, PoolType, HeldInv, ApartInv, EntryInv
  <2>2. ASSUME NEW u \in Users, BeginUse(u)
        PROVE  PoolInv'
    BY <2>2, MoveKeepsPool DEF BeginUse
  <2>3. ASSUME NEW u \in Users, UserCancels(u)
        PROVE  PoolInv'
    BY <2>3 DEF UserCancels, poolVars, PoolInv, PoolType, HeldInv, ApartInv, EntryInv
  <2>4. QED
    BY <2>1, <2>2, <2>3, AcquireKeepsPool, CallKeepsPool, RunKeepsPool, OpenerKeepsPool DEF Next
<1>3. QED
  BY <1>1, <1>2, PTL DEF Spec
-----------------------------------------------------------------------------
(* The uses: what has been started and answered. *)

UseInv == UseType /\ TurnInv /\ OneRunPerUse

Answers == {"none", "ok", "error", "ContextError", "ErrBadConn", "panic"}

\* The other users stay where they are, or are given a connection.
OthersStay(u) ==
  \A v \in Users \ {u} : at'[v] = at[v] \/ (at[v] = "wait" /\ at'[v] = "call")

LEMMA KindOfUse ==
  ASSUME UseType, NEW u \in Users
  PROVE  use[u].kind \in Kinds \cup {"none"}
<1>1. use[u] \in Uses[u] \/ \E k \in Kinds \cup {"none"} : use[u] = [NoUse EXCEPT !.kind = k]
  BY DEF UseType, KindType
<1>2. QED
  BY <1>1 DEF NoUse

LEMMA ReportKeepsUses ==
  ASSUME UseInv, NEW u \in Users, NEW what \in Answers, Report(u, what),
         what = "ErrBadConn" /\ use[u].kind \in PreparedKinds => started[u] = 0,
         at'[u] = "idle", OthersStay(u)
  PROVE  UseInv'
<1>1. /\ answer'  = [answer EXCEPT ![u] = what]
      /\ try'     = [try EXCEPT ![u] = 0]
      /\ ctxDone' = [ctxDone EXCEPT ![u] = FALSE]
      /\ sent'    = [sent EXCEPT ![u] = Nothing]
      /\ use'     = [use EXCEPT ![u] = [NoUse EXCEPT !.kind = use[u].kind]]
      /\ started' = started
  BY DEF Report
<1>2. use'[u].kind = use[u].kind /\ \A v \in Users \ {u} : use'[v] = use[v]
  BY <1>1 DEF UseInv, UseType, KindType, NoUse
<1>3. use'[u] \in {[NoUse EXCEPT !.kind = k] : k \in Kinds \cup {"none"}}
  BY <1>1, KindOfUse DEF UseInv, UseType, KindType
<1>4. UseType'
  <2>1. TryType'
    BY <1>1 DEF UseInv, UseType, TryType, Answers
  <2>2. KindType'
    BY <1>1, <1>2, <1>3 DEF UseInv, UseType, KindType
  <2>3. SentType'
    BY <1>1 DEF UseInv, UseType, SentType, OthersStay
  <2>4. QED
    BY <2>1, <2>2, <2>3 DEF UseType
<1>5. TurnInv'
  BY <1>1 DEF UseInv, UseType, TryType, TurnInv, OthersStay
<1>6. OneRunPerUse'
  BY <1>1, <1>2 DEF UseInv, UseType, TryType, OneRunPerUse
<1>7. QED
  BY <1>4, <1>5, <1>6 DEF UseInv

LEMMA PutMoves ==
  ASSUME PoolType, NEW u \in Users, NEW e, Put(u, e), at[u] # "wait"
  PROVE  at'[u] = "idle" /\ OthersStay(u)
BY DEF PoolType, Put, Waiting, OthersStay

LEMMA DiscardMoves ==
  ASSUME PoolType, NEW u \in Users, NEW where, Discard(u, where)
  PROVE  at'[u] = where /\ OthersStay(u)
BY DEF PoolType, Discard, OthersStay

LEMMA FailsKeepsUses ==
  ASSUME PoolType, UseInv, NEW u \in Users, at[u] # "wait",
         NEW what \in {"error", "ContextError"}, Fails(u, what)
  PROVE  UseInv'
<1>1. CASE use[u].kind = "ping" /\ Report(u, "ErrBadConn") /\ Discard(u, "idle")
  BY <1>1, DiscardMoves, ReportKeepsUses DEF PreparedKinds, Answers
<1>2. CASE Report(u, what) /\ Put(u, AfterUse(u))
  BY <1>2, PutMoves, ReportKeepsUses DEF Answers
<1>3. QED
  BY <1>1, <1>2 DEF Fails

\* A use moves on with its answer and its context as they are.
LEMMA StepKeepsUses ==
  ASSUME PoolType, UseInv, NEW u \in Users, OthersStay(u),
         UNCHANGED <<use, ctxDone, started, answer>>,
         try' \in [Users -> 0..3],
         DOMAIN sent' = Users, \A v \in Users : sent'[v] = Nothing \/ sent'[v] = sent[v],
         at[u] # "idle",
         \/ at[u] \in {"acquire", "connect", "wait", "call"} /\ sent'[u] = Nothing
         \/ at'[u] = "panicked" /\ sent'[u] = Nothing
         \/ at'[u] = "rows"
  PROVE  UseInv'
<1>1. UseType'
  <2>1. TryType' /\ KindType'
    BY DEF UseInv, UseType, TryType, KindType
  <2>2. SentType'
    BY DEF UseInv, UseType, SentType, OthersStay
  <2>3. QED
    BY <2>1, <2>2 DEF UseType
<1>2. TurnInv'
  BY DEF UseInv, UseType, TryType, KindType, SentType, TurnInv, OthersStay
<1>3. OneRunPerUse'
  BY DEF UseInv, OneRunPerUse
<1>4. QED
  BY <1>1, <1>2, <1>3 DEF UseInv

LEMMA AcquireKeepsUses ==
  ASSUME PoolType, UseInv, NEW u \in Users, Acquire(u)
  PROVE  UseInv'
<1>1. CASE TakeIdle(u) \/ Wait(u) \/ Open(u) \/ Connected(u)
  <2>1. /\ OthersStay(u) /\ UNCHANGED useVars
        /\ at[u] \in {"acquire", "connect"}
    BY <1>1 DEF TakeIdle, Wait, Open, Connected, NeedsNew, OthersStay, PoolType
  <2>2. sent[u] = Nothing
    BY <2>1 DEF UseInv, UseType, TryType, KindType, SentType
  <2>3. QED
    BY <2>1, <2>2, StepKeepsUses DEF useVars, UseInv, UseType, TryType, KindType, SentType
<1>2. CASE ConnectFails(u)
  BY <1>2, DiscardMoves, ReportKeepsUses DEF ConnectFails, Answers
<1>3. CASE GiveUp(u)
  <2>1. at'[u] = "idle" /\ OthersStay(u)
    BY <1>3 DEF GiveUp, PoolType, OthersStay
  <2>2. QED
    BY <1>3, <2>1, ReportKeepsUses DEF GiveUp, Answers
<1>4. QED
  BY <1>1, <1>2, <1>3 DEF Acquire

LEMMA OpenerKeepsUses ==
  ASSUME PoolType, UseInv, NEW c \in Conns, Opener(c)
  PROVE  UseInv'
<1>1. CASE UNCHANGED useVars /\ UNCHANGED at
  BY <1>1 DEF useVars, UseInv, UseType, TryType, KindType, SentType, TurnInv, OneRunPerUse
<1>2. ASSUME NEW w \in Waiting, UNCHANGED useVars, at' = [at EXCEPT ![w] = "call"]
      PROVE  UseInv'
  <2>1. w \in Users /\ at[w] = "wait" /\ OthersStay(w) /\ sent[w] = Nothing
    BY <1>2 DEF Waiting, OthersStay, PoolType, UseInv, UseType, TryType, KindType, SentType
  <2>2. QED
    BY <1>2, <2>1, StepKeepsUses DEF useVars, UseInv, UseType, TryType, KindType, SentType
<1>3. ASSUME NEW w \in Waiting, Report(w, "error"), at' = [at EXCEPT ![w] = "idle"]
      PROVE  UseInv'
  <2>1. w \in Users /\ at'[w] = "idle" /\ OthersStay(w)
    BY <1>3 DEF Waiting, OthersStay, PoolType
  <2>2. QED
    BY <1>3, <2>1, ReportKeepsUses DEF Answers
<1>4. QED
  BY <1>1, <1>2, <1>3 DEF Opener, OpenerConnects, OpenerFails

LEMMA CallKeepsUses ==
  ASSUME PoolType, UseInv, NEW u \in Users, Call(u)
  PROVE  UseInv'
<1>1. at[u] = "call"
  BY DEF Call, NotPassed, EndsBeforeStatement, AnswerBadConn, Panic, Refuse, Start, StartFails,
     Reached
<1>2. started[u] = 0 /\ sent[u] = Nothing /\ answer[u] = "none"
  BY <1>1 DEF UseInv, TurnInv, UseType, TryType, KindType, SentType
<1>3. CASE NotPassed(u) \/ EndsBeforeStatement(u)
  BY <1>1, <1>3, PutMoves, ReportKeepsUses DEF NotPassed, EndsBeforeStatement, Answers
<1>4. CASE AnswerBadConn(u)
  <2>1. CASE /\ try[u] < 3 /\ Discard(u, "acquire") /\ try' = [try EXCEPT ![u] = @ + 1]
             /\ UNCHANGED <<use, ctxDone, sent, started, answer>>
    <3>1. try' \in [Users -> 0..3]
      BY <2>1 DEF UseInv, UseType, TryType, KindType, SentType
    <3>2. QED
      BY <1>1, <1>2, <2>1, <3>1, DiscardMoves, StepKeepsUses DEF UseInv, UseType, TryType, KindType, SentType
  <2>2. CASE Discard(u, "idle") /\ Report(u, "ErrBadConn")
    BY <1>2, <2>2, DiscardMoves, ReportKeepsUses DEF Answers
  <2>3. QED
    BY <1>4, <2>1, <2>2 DEF AnswerBadConn
<1>5. CASE Panic(u)
  <2>1. CASE at' = [at EXCEPT ![u] = "panicked"] /\ UNCHANGED <<poolVars, on, useVars>>
    <3>1. at'[u] = "panicked" /\ OthersStay(u)
      BY <2>1 DEF PoolType, OthersStay
    <3>2. QED
      BY <1>1, <1>2, <2>1, <3>1, StepKeepsUses DEF useVars, UseInv, UseType, TryType, KindType, SentType
  <2>2. CASE Report(u, "panic") /\ Put(u, entry[on[u]])
    BY <1>1, <2>2, PutMoves, ReportKeepsUses DEF Answers
  <2>3. QED
    BY <1>5, <2>1, <2>2 DEF Panic
<1>6. CASE Refuse(u) \/ StartFails(u)
  BY <1>1, <1>6, FailsKeepsUses DEF Refuse, StartFails
<1>7. CASE Start(u)
  <2>1. /\ at' = [at EXCEPT ![u] = "running"] /\ started' = [started EXCEPT ![u] = @ + 1]
        /\ DOMAIN sent' = Users /\ \A v \in Users \ {u} : sent'[v] = sent[v]
        /\ UNCHANGED <<try, use, ctxDone, answer>>
    BY <1>7 DEF Start, UseInv, UseType, TryType, KindType, SentType
  <2>2. UseType'
    <3>1. TryType'
      BY <1>2, <2>1 DEF UseInv, UseType, TryType
    <3>2. KindType'
      BY <2>1 DEF UseInv, UseType, KindType
    <3>3. SentType'
      BY <2>1 DEF UseInv, UseType, SentType, PoolType
    <3>4. QED
      BY <3>1, <3>2, <3>3 DEF UseType
  <2>3. TurnInv'
    BY <1>2, <2>1 DEF UseInv, UseType, TryType, KindType, SentType, TurnInv, PoolType
  <2>4. OneRunPerUse'
    BY <1>2, <2>1 DEF UseInv, UseType, TryType, KindType, SentType, OneRunPerUse
  <2>5. QED
    BY <2>2, <2>3, <2>4 DEF UseInv
<1>8. QED
  BY <1>3, <1>4, <1>5, <1>6, <1>7 DEF Call

LEMMA RunKeepsUses ==
  ASSUME PoolType, UseInv, NEW u \in Users, Run(u)
  PROVE  UseInv'
<1>1. at[u] \in {"running", "rows"}
  BY DEF Run, Finish, Failed, HonorContext, CloseRows
<1>2. CASE Finish(u)
  <2>1. CASE at' = [at EXCEPT ![u] = "rows"] /\ UNCHANGED useVars
    <3>1. at'[u] = "rows" /\ OthersStay(u)
      BY <2>1 DEF PoolType, OthersStay
    <3>2. QED
      BY <1>1, <2>1, <3>1, StepKeepsUses DEF useVars, UseInv, UseType, TryType, KindType, SentType
  <2>2. CASE Report(u, "ok") /\ Put(u, AfterUse(u))
    BY <1>1, <2>2, PutMoves, ReportKeepsUses DEF Answers
  <2>3. QED
    BY <1>2, <2>1, <2>2 DEF Finish
<1>3. CASE Failed(u) \/ HonorContext(u)
  BY <1>1, <1>3, FailsKeepsUses DEF Failed, HonorContext
<1>4. CASE CloseRows(u)
  BY <1>1, <1>4, PutMoves, ReportKeepsUses DEF CloseRows, Answers
<1>5. QED
  BY <1>2, <1>3, <1>4 DEF Run

LEMMA UseInvariant == Spec => []UseInv
<1>1. Init => UseInv
  <2> SUFFICES ASSUME Init PROVE UseInv
    OBVIOUS
  <2>1. TryType /\ SentType /\ TurnInv /\ OneRunPerUse
    BY DEF Init, TryType, SentType, TurnInv, OneRunPerUse
  <2>2. NoUse = [NoUse EXCEPT !.kind = "none"]
    BY DEF NoUse
  <2>3. KindType
    BY <2>2 DEF Init, KindType
  <2>4. QED
    BY <2>1, <2>3 DEF UseInv, UseType
<1>2. PoolType /\ UseInv /\ [Next]_vars => UseInv'
  <2> SUFFICES ASSUME PoolType, UseInv, [Next]_vars
               PROVE  UseInv'
    OBVIOUS
  <2>1. CASE UNCHANGED vars
    BY <2>1 DEF vars, useVars, UseInv, UseType, TryType, KindType, SentType, TurnInv, OneRunPerUse
  <2>2. ASSUME NEW u \in Users, BeginUse(u)
        PROVE  UseInv'
    <3>1. PICK new \in Uses[u] : use' = [use EXCEPT ![u] = new]
      BY <2>2 DEF BeginUse
    <3>2. /\ at[u] = "idle" /\ at' = [at EXCEPT ![u] = "acquire"]
          /\ try' = [try EXCEPT ![u] = 1] /\ started' = [started EXCEPT ![u] = 0]
          /\ answer' = [answer EXCEPT ![u] = "none"] /\ UNCHANGED <<ctxDone, sent>>
      BY <2>2 DEF BeginUse
    <3>3. UseType'
      <4>1. TryType'
        BY <3>2 DEF UseInv, UseType, TryType
      <4>2. KindType'
        BY <3>1 DEF UseInv, UseType, KindType
      <4>3. SentType'
        BY <3>2 DEF UseInv, UseType, SentType, PoolType
      <4>4. QED
        BY <4>1, <4>2, <4>3 DEF UseType
    <3>4. TurnInv'
      BY <3>2 DEF UseInv, UseType, TryType, KindType, SentType, TurnInv, PoolType
    <3>5. OneRunPerUse'
      BY <3>1, <3>2 DEF UseInv, UseType, TryType, KindType, SentType, OneRunPerUse
    <3>6. QED
      BY <3>3, <3>4, <3>5 DEF UseInv
  <2>3. ASSUME NEW u \in Users, UserCancels(u)
        PROVE  UseInv'
    BY <2>3 DEF UserCancels, UseInv, UseType, TryType, KindType, SentType, TurnInv, OneRunPerUse
  <2>4. QED
    BY <2>1, <2>2, <2>3, AcquireKeepsUses, CallKeepsUses, RunKeepsUses, OpenerKeepsUses DEF Next
<1>3. QED
  BY <1>1, <1>2, PoolInvariant, PTL DEF Spec, PoolInv
\* Every variable keeps its type.
THEOREM TypeCorrect == Spec => []TypeOK
<1>1. PoolType /\ UseType => TypeOK
  BY DEF PoolType, UseType, TryType, KindType, SentType, TypeOK, Entries
<1>2. QED
  BY <1>1, PoolInvariant, UseInvariant, PTL DEF PoolInv, UseInv

\* No retry runs a query again.
THEOREM RunsOnce == Spec => []OneRunPerUse
BY UseInvariant, PTL DEF UseInv
-----------------------------------------------------------------------------
(* The last try finds no statement on its connection. *)

LEMMA PutKeepsNew ==
  ASSUME PoolInv, NewInv, NEW u \in Users, at[u] \in Holding, NEW e, Put(u, e),
         \A v \in Users \ {u} : try'[v] = try[v]
  PROVE  NewInv'
<1> SUFFICES ASSUME maxOpen = 0
             PROVE  \A v \in Users :
                      /\ at'[v] # "wait"
                      /\ at'[v] = "call" /\ try'[v] = 3 => entry'[on'[v]] = "none"
  BY DEF NewInv, Put
<1>1. Waiting = {}
  BY DEF NewInv, Waiting
<1>2. /\ at' = [at EXCEPT ![u] = "idle"] /\ on' = [on EXCEPT ![u] = None]
      /\ \A c \in Conns \ {on[u]} : entry'[c] = entry[c]
  BY <1>1 DEF Put, PoolInv, PoolType
<1>3. ASSUME NEW v \in Users, v # u
      PROVE  /\ at'[v] # "wait"
             /\ at'[v] = "call" /\ try'[v] = 3 => entry'[on'[v]] = "none"
  <2>1. at'[v] = at[v] /\ on'[v] = on[v] /\ try'[v] = try[v] /\ at[v] # "wait"
    BY <1>2, <1>3 DEF PoolInv, PoolType, NewInv
  <2>2. at[v] = "call" => on[v] \in Conns /\ on[v] # on[u]
    BY <1>3 DEF PoolInv, HeldInv, ApartInv, Holding
  <2>3. QED
    BY <1>2, <2>1, <2>2 DEF NewInv
<1>4. at'[u] = "idle"
  BY <1>2 DEF PoolInv, PoolType
<1>5. QED
  BY <1>3, <1>4

LEMMA DiscardKeepsNew ==
  ASSUME PoolInv, NewInv, NEW u \in Users, at[u] \in Holding, NEW where \in {"idle", "acquire"},
         Discard(u, where), \A v \in Users \ {u} : try'[v] = try[v]
  PROVE  NewInv'
<1> SUFFICES ASSUME maxOpen = 0
             PROVE  \A v \in Users :
                      /\ at'[v] # "wait"
                      /\ at'[v] = "call" /\ try'[v] = 3 => entry'[on'[v]] = "none"
  BY DEF NewInv, Discard
<1>1. /\ at' = [at EXCEPT ![u] = where] /\ on' = [on EXCEPT ![u] = None]
      /\ \A c \in Conns \ {on[u]} : entry'[c] = entry[c]
  BY DEF Discard, PoolInv, PoolType
<1>2. ASSUME NEW v \in Users, v # u
      PROVE  /\ at'[v] # "wait"
             /\ at'[v] = "call" /\ try'[v] = 3 => entry'[on'[v]] = "none"
  <2>1. at'[v] = at[v] /\ on'[v] = on[v] /\ try'[v] = try[v] /\ at[v] # "wait"
    BY <1>1, <1>2 DEF PoolInv, PoolType, NewInv
  <2>2. at[v] = "call" => on[v] \in Conns /\ on[v] # on[u]
    BY <1>2 DEF PoolInv, HeldInv, ApartInv, Holding
  <2>3. QED
    BY <1>1, <2>1, <2>2 DEF NewInv
<1>3. at'[u] = where
  BY <1>1 DEF PoolInv, PoolType
<1>4. QED
  BY <1>2, <1>3

\* A step of one use that is not about to call, or keeps what it calls with.
LEMMA MoveKeepsNew ==
  ASSUME PoolInv, NewInv, NEW u \in Users, UNCHANGED maxOpen,
         \A v \in Users \ {u} : at'[v] = at[v] /\ on'[v] = on[v] /\ try'[v] = try[v],
         \A c \in Conns : (\A v \in Users \ {u} : at[v] = "call" => on[v] # c)
                           \/ entry'[c] = entry[c],
         maxOpen = 0 => at'[u] # "wait",
         maxOpen = 0 /\ at'[u] = "call" /\ try'[u] = 3 => entry'[on'[u]] = "none"
  PROVE  NewInv'
<1> SUFFICES ASSUME maxOpen = 0, NEW v \in Users, v # u
             PROVE  /\ at'[v] # "wait"
                    /\ at'[v] = "call" /\ try'[v] = 3 => entry'[on'[v]] = "none"
  BY DEF NewInv
<1>1. at'[v] = at[v] /\ on'[v] = on[v] /\ try'[v] = try[v] /\ at[v] # "wait"
  BY DEF NewInv
<1>2. at[v] = "call" => on[v] \in Conns
  BY DEF PoolInv, HeldInv, Holding
<1>3. at[v] = "call" => entry'[on[v]] = entry[on[v]]
  BY <1>2
<1>4. QED
  BY <1>1, <1>3 DEF NewInv

LEMMA ReportTries ==
  ASSUME TryType, NEW u \in Users, NEW what, Report(u, what)
  PROVE  \A v \in Users \ {u} : try'[v] = try[v]
BY DEF Report, TryType

LEMMA FailsKeepsNew ==
  ASSUME PoolInv, TryType, NewInv, NEW u \in Users, at[u] \in Holding, NEW what, Fails(u, what)
  PROVE  NewInv'
BY ReportTries, PutKeepsNew, DiscardKeepsNew DEF Fails

LEMMA StepKeepsNew ==
  ASSUME PoolInv, UseInv, NewInv, Next
  PROVE  NewInv'
<1>1. TryType /\ PoolType
  BY DEF UseInv, UseType, PoolInv
<1>2. ASSUME NEW u \in Users, BeginUse(u) \/ UserCancels(u) \/ GiveUp(u)
      PROVE  NewInv'
  <2>1. /\ \A v \in Users \ {u} : at'[v] = at[v] /\ on'[v] = on[v] /\ try'[v] = try[v]
        /\ UNCHANGED <<maxOpen, entry>>
    BY <1>1, <1>2 DEF BeginUse, UserCancels, GiveUp, Report, poolVars, PoolType, TryType
  <2>2. \/ at'[u] \in {"idle", "acquire"}
        \/ at'[u] = at[u] /\ on'[u] = on[u] /\ try'[u] = try[u]
    BY <1>1, <1>2 DEF BeginUse, UserCancels, GiveUp, PoolType
  <2>3. /\ maxOpen = 0 => at'[u] # "wait"
        /\ maxOpen = 0 /\ at'[u] = "call" /\ try'[u] = 3 => entry'[on'[u]] = "none"
    BY <2>1, <2>2 DEF NewInv
  <2>4. QED
    BY <2>1, <2>3, MoveKeepsNew
<1>3. ASSUME NEW u \in Users, TakeIdle(u) \/ Wait(u) \/ Open(u) \/ Connected(u)
      PROVE  NewInv'
  <2>1. /\ \A v \in Users \ {u} : at'[v] = at[v] /\ on'[v] = on[v]
        /\ UNCHANGED <<maxOpen, entry, try>>
    BY <1>1, <1>3 DEF TakeIdle, Wait, Open, Connected, poolVars, useVars, PoolType
  <2>2. maxOpen = 0 => at'[u] # "wait"
    BY <1>1, <1>3 DEF TakeIdle, Wait, Full, Open, Connected, PoolType
  <2>3. at'[u] = "call" /\ try'[u] = 3 => entry'[on'[u]] = "none"
    <3>1. CASE TakeIdle(u)
      BY <2>1, <3>1 DEF TakeIdle, AlwaysNew
    <3>2. CASE Wait(u) \/ Open(u)
      BY <1>1, <3>2 DEF Wait, Open, PoolType
    <3>3. CASE Connected(u)
      <4>1. on[u] \in Conns /\ conn[on[u]] = "connecting"
        BY <3>3 DEF Connected, PoolInv, HeldInv, Holding
      <4>2. QED
        BY <2>1, <3>3, <4>1 DEF Connected, PoolInv, EntryInv
    <3>4. QED
      BY <1>3, <3>1, <3>2, <3>3
  <2>4. QED
    BY <2>1, <2>2, <2>3, MoveKeepsNew
<1>4. ASSUME NEW u \in Users, ConnectFails(u)
      PROVE  NewInv'
  BY <1>1, <1>4, ReportTries, DiscardKeepsNew DEF ConnectFails, Holding
<1>5. ASSUME NEW c \in Conns, Opener(c)
      PROVE  NewInv'
  <2>1. maxOpen = 0 => Waiting = {}
    BY DEF NewInv, Waiting
  <2>2. UNCHANGED <<maxOpen, entry>> /\ (maxOpen = 0 => UNCHANGED <<at, on, try>>)
    BY <1>5, <2>1 DEF Opener, OpenerConnects, OpenerFails, useVars
  <2>3. QED
    BY <2>2 DEF NewInv
<1>6. ASSUME NEW u \in Users, Call(u)
      PROVE  NewInv'
  <2>1. at[u] = "call" /\ at[u] \in Holding
    BY <1>6 DEF Call, NotPassed, EndsBeforeStatement, AnswerBadConn, Panic, Refuse, Start,
       StartFails, Reached, Holding
  <2>2. CASE NotPassed(u) \/ EndsBeforeStatement(u)
    BY <1>1, <2>1, <2>2, ReportTries, PutKeepsNew DEF NotPassed, EndsBeforeStatement
  <2>3. CASE AnswerBadConn(u)
    <3>1. CASE Discard(u, "acquire") /\ try' = [try EXCEPT ![u] = @ + 1]
      <4>1. \A v \in Users \ {u} : try'[v] = try[v]
        BY <1>1, <3>1 DEF TryType
      <4>2. QED
        BY <2>1, <3>1, <4>1, DiscardKeepsNew
    <3>2. CASE Discard(u, "idle") /\ Report(u, "ErrBadConn")
      BY <1>1, <2>1, <3>2, ReportTries, DiscardKeepsNew
    <3>3. QED
      BY <2>3, <3>1, <3>2 DEF AnswerBadConn
  <2>4. CASE Panic(u)
    <3>1. CASE Report(u, "panic") /\ Put(u, entry[on[u]])
      BY <1>1, <2>1, <3>1, ReportTries, PutKeepsNew
    <3>2. CASE at' = [at EXCEPT ![u] = "panicked"] /\ UNCHANGED <<poolVars, on, useVars>>
      BY <1>1, <3>2, MoveKeepsNew DEF poolVars, useVars, PoolType
    <3>3. QED
      BY <2>4, <3>1, <3>2 DEF Panic
  <2>5. CASE Refuse(u) \/ StartFails(u)
    BY <1>1, <2>1, <2>5, FailsKeepsNew DEF Refuse, StartFails
  <2>6. CASE Start(u)
    BY <1>1, <2>6, MoveKeepsNew DEF Start, poolVars, PoolType
  <2>7. QED
    BY <1>6, <2>2, <2>3, <2>4, <2>5, <2>6 DEF Call
<1>7. ASSUME NEW u \in Users, Run(u)
      PROVE  NewInv'
  <2>1. at[u] \in {"running", "rows"} /\ at[u] \in Holding
    BY <1>7 DEF Run, Finish, Failed, HonorContext, CloseRows, Holding
  <2>2. CASE Finish(u)
    <3>1. CASE Report(u, "ok") /\ Put(u, AfterUse(u))
      BY <1>1, <2>1, <3>1, ReportTries, PutKeepsNew
    <3>2. CASE /\ at' = [at EXCEPT ![u] = "rows"] /\ UNCHANGED <<maxOpen, conn, on, useVars>>
               /\ entry' = [entry EXCEPT ![on[u]] = AfterUse(u)]
      <4>1. \A v \in Users \ {u} : at[v] = "call" => on[v] # on[u]
        BY <2>1 DEF PoolInv, ApartInv, Holding
      <4>2. \A c \in Conns : c = on[u] \/ entry'[c] = entry[c]
        BY <1>1, <3>2 DEF PoolType
      <4>3. \A c \in Conns : (\A v \in Users \ {u} : at[v] = "call" => on[v] # c)
                             \/ entry'[c] = entry[c]
        BY <4>1, <4>2
      <4>4. QED
        BY <1>1, <3>2, <4>3, MoveKeepsNew DEF useVars, PoolType
    <3>3. QED
      BY <2>2, <3>1, <3>2 DEF Finish
  <2>3. CASE Failed(u) \/ HonorContext(u)
    BY <1>1, <2>1, <2>3, FailsKeepsNew DEF Failed, HonorContext
  <2>4. CASE CloseRows(u)
    BY <1>1, <2>1, <2>4, ReportTries, PutKeepsNew DEF CloseRows
  <2>5. QED
    BY <1>7, <2>2, <2>3, <2>4 DEF Run
<1>8. QED
  BY <1>2, <1>3, <1>4, <1>5, <1>6, <1>7 DEF Next, Acquire

\* The answers: only Ping, and the last try on a used statement, are bad.
LEMMA StepKeepsAnswers ==
  ASSUME PoolInv, UseInv, NewInv, RetriesSuffice, Next
  PROVE  RetriesSuffice'
<1>1. TryType /\ DOMAIN use = Users
  BY DEF UseInv, UseType, KindType
<1>2. ASSUME NEW u \in Users, NEW what, Report(u, what), UNCHANGED maxOpen,
             what = "ErrBadConn" /\ maxOpen = 0 => use[u].kind = "ping"
      PROVE  RetriesSuffice'
  <2>1. /\ answer' = [answer EXCEPT ![u] = what]
        /\ use'[u].kind = use[u].kind /\ \A v \in Users \ {u} : use'[v] = use[v]
    BY <1>1, <1>2 DEF Report, NoUse
  <2>2. QED
    BY <1>1, <1>2, <2>1 DEF RetriesSuffice, TryType
<1>3. CASE UNCHANGED <<maxOpen, use, answer>>
  BY <1>3 DEF RetriesSuffice
<1>4. ASSUME NEW u \in Users, BeginUse(u)
      PROVE  RetriesSuffice'
  BY <1>1, <1>4 DEF BeginUse, poolVars, RetriesSuffice, TryType
<1>5. ASSUME NEW u \in Users, UserCancels(u) \/ Acquire(u)
      PROVE  RetriesSuffice'
  <2>1. \/ UNCHANGED <<maxOpen, use, answer>>
        \/ UNCHANGED maxOpen /\ (Report(u, "error") \/ Report(u, "ContextError"))
    BY <1>5 DEF UserCancels, Acquire, TakeIdle, Wait, Open, Connected, ConnectFails, Discard,
       GiveUp, poolVars, useVars
  <2>2. QED
    BY <1>2, <1>3, <2>1
<1>6. ASSUME NEW c \in Conns, Opener(c)
      PROVE  RetriesSuffice'
  <2>1. \/ UNCHANGED <<maxOpen, use, answer>>
        \/ UNCHANGED maxOpen /\ \E w \in Waiting : Report(w, "error")
    BY <1>6 DEF Opener, OpenerConnects, OpenerFails, useVars
  <2>2. QED
    BY <1>2, <1>3, <2>1 DEF Waiting
<1>7. ASSUME NEW u \in Users, NEW what \in {"error", "ContextError"}, Fails(u, what)
      PROVE  RetriesSuffice'
  <2>1. /\ UNCHANGED maxOpen
        /\ Report(u, what) \/ (use[u].kind = "ping" /\ Report(u, "ErrBadConn"))
    BY <1>7 DEF Fails, Put, Discard
  <2>2. QED
    BY <1>2, <2>1
<1>8. ASSUME NEW u \in Users, Call(u)
      PROVE  RetriesSuffice'
  <2>1. CASE NotPassed(u) \/ EndsBeforeStatement(u)
    BY <1>2, <2>1 DEF NotPassed, EndsBeforeStatement, Put
  <2>2. CASE AnswerBadConn(u)
    <3>1. maxOpen = 0 => try[u] # 3
      BY <2>2 DEF AnswerBadConn, NewInv, PreparedOn
    <3>2. QED
      BY <1>2, <1>3, <2>2, <3>1 DEF AnswerBadConn, Discard
  <2>3. CASE Panic(u)
    BY <1>2, <1>3, <2>3 DEF Panic, Put, poolVars, useVars
  <2>4. CASE Refuse(u) \/ StartFails(u)
    BY <1>7, <2>4 DEF Refuse, StartFails
  <2>5. CASE Start(u)
    BY <1>3, <2>5 DEF Start, poolVars
  <2>6. QED
    BY <1>8, <2>1, <2>2, <2>3, <2>4, <2>5 DEF Call
<1>9. ASSUME NEW u \in Users, Run(u)
      PROVE  RetriesSuffice'
  <2>1. CASE Finish(u)
    BY <1>2, <1>3, <2>1 DEF Finish, Put, useVars
  <2>2. CASE Failed(u) \/ HonorContext(u)
    BY <1>7, <2>2 DEF Failed, HonorContext
  <2>3. CASE CloseRows(u)
    BY <1>2, <2>3 DEF CloseRows, Put
  <2>4. QED
    BY <1>9, <2>1, <2>2, <2>3 DEF Run
<1>10. QED
  BY <1>4, <1>5, <1>6, <1>8, <1>9 DEF Next

\* The retries of database/sql hide every ErrBadConn of a statement.
THEOREM RetriesHide == Spec => []RetriesSuffice
<1>1. Init => NewInv /\ RetriesSuffice
  BY DEF Init, NewInv, RetriesSuffice
<1>2. PoolInv /\ UseInv /\ NewInv /\ RetriesSuffice /\ [Next]_vars => NewInv' /\ RetriesSuffice'
  <2>1. CASE UNCHANGED vars
    BY <2>1 DEF vars, poolVars, useVars, NewInv, RetriesSuffice
  <2>2. QED
    BY <2>1, StepKeepsNew, StepKeepsAnswers
<1>3. QED
  BY <1>1, <1>2, PoolInvariant, UseInvariant, PTL DEF Spec
-----------------------------------------------------------------------------
(* What the service was asked is what the use in its place asks. *)

SentInv == \A u \in Users : sent[u] = Nothing \/ (Accepts(u) /\ sent[u] = Request(use[u]))

\* A step that answers the use it is about, or leaves use and request alone.
LEMMA StepKeepsSent ==
  ASSUME UseType, SentInv, NEW u \in Users,
         \A v \in Users \ {u} : use'[v] = use[v] /\ sent'[v] = sent[v],
         \/ sent'[u] = Nothing
         \/ use'[u] = use[u] /\ sent'[u] = sent[u]
         \/ use'[u] = use[u] /\ Accepts(u) /\ sent'[u] = Request(use[u])
  PROVE  SentInv'
<1> SUFFICES ASSUME NEW v \in Users, sent'[v] # Nothing
             PROVE  use'[v] \in Acceptable /\ sent'[v] = Request(use'[v])
  BY DEF SentInv, Accepts
<1>1. use'[v] = use[v]
  OBVIOUS
<1>2. use[v] \in Acceptable /\ sent'[v] = Request(use[v])
  BY DEF SentInv, Accepts
<1>3. QED
  BY <1>1, <1>2

LEMMA ReportKeepsSent ==
  ASSUME UseType, SentInv, NEW u \in Users, NEW what, Report(u, what)
  PROVE  SentInv'
<1>1. /\ sent' = [sent EXCEPT ![u] = Nothing]
      /\ use' = [use EXCEPT ![u] = [NoUse EXCEPT !.kind = use[u].kind]]
  BY DEF Report
<1>2. sent'[u] = Nothing /\ \A v \in Users \ {u} : use'[v] = use[v] /\ sent'[v] = sent[v]
  BY <1>1 DEF UseType, KindType, SentType
<1>3. QED
  BY <1>2, StepKeepsSent

LEMMA NextKeepsSent ==
  ASSUME PoolType, UseType, SentInv, Next
  PROVE  SentInv'
<1>1. CASE UNCHANGED <<use, sent>>
  BY <1>1 DEF SentInv, Accepts
<1>2. ASSUME NEW u \in Users, NEW what, Report(u, what)
      PROVE  SentInv'
  BY <1>2, ReportKeepsSent
<1>3. ASSUME NEW u \in Users, BeginUse(u)
      PROVE  SentInv'
  <2>1. /\ at[u] = "idle" /\ sent' = sent
        /\ \E new \in Uses[u] : use' = [use EXCEPT ![u] = new]
    BY <1>3 DEF BeginUse
  <2>2. sent'[u] = Nothing /\ \A v \in Users \ {u} : use'[v] = use[v] /\ sent'[v] = sent[v]
    BY <2>1 DEF UseType, KindType, SentType
  <2>3. QED
    BY <2>2, StepKeepsSent
<1>4. ASSUME NEW u \in Users, Start(u)
      PROVE  SentInv'
  <2>1. Accepts(u) /\ use' = use /\ sent' = [sent EXCEPT ![u] = Request(use[u])]
    BY <1>4 DEF Start
  <2>2. /\ sent'[u] = Request(use[u])
        /\ \A v \in Users \ {u} : use'[v] = use[v] /\ sent'[v] = sent[v]
    BY <2>1 DEF UseType, SentType
  <2>3. QED
    BY <2>1, <2>2, StepKeepsSent
<1>5. ASSUME NEW u \in Users, UserCancels(u) \/ Acquire(u)
      PROVE  SentInv'
  <2>1. UNCHANGED <<use, sent>> \/ Report(u, "error") \/ Report(u, "ContextError")
    BY <1>5 DEF UserCancels, Acquire, TakeIdle, Wait, Open, Connected, ConnectFails, GiveUp, useVars
  <2>2. QED
    BY <1>1, <1>2, <2>1
<1>6. ASSUME NEW c \in Conns, Opener(c)
      PROVE  SentInv'
  <2>1. UNCHANGED <<use, sent>> \/ \E w \in Users : Report(w, "error")
    BY <1>6 DEF Opener, OpenerConnects, OpenerFails, useVars, Waiting
  <2>2. QED
    BY <1>1, <1>2, <2>1
<1>7. ASSUME NEW u \in Users, Call(u), ~Start(u)
      PROVE  SentInv'
  <2>1. UNCHANGED <<use, sent>> \/ \E what : Report(u, what)
    BY <1>7 DEF Call, NotPassed, EndsBeforeStatement, AnswerBadConn, Panic, Refuse, StartFails,
       Fails, useVars
  <2>2. QED
    BY <1>1, <1>2, <2>1
<1>8. ASSUME NEW u \in Users, Run(u)
      PROVE  SentInv'
  <2>1. UNCHANGED <<use, sent>> \/ \E what : Report(u, what)
    BY <1>8 DEF Run, Finish, Failed, HonorContext, CloseRows, Fails, useVars
  <2>2. QED
    BY <1>1, <1>2, <2>1
<1>9. QED
  BY <1>3, <1>4, <1>5, <1>6, <1>7, <1>8 DEF Next

LEMMA SentInvariant == Spec => []SentInv
<1>1. Init => SentInv
  BY DEF Init, SentInv
<1>2. PoolType /\ UseType /\ SentInv /\ [Next]_vars => SentInv'
  <2>1. CASE UNCHANGED vars
    BY <2>1 DEF vars, useVars, SentInv, Accepts
  <2>2. QED
    BY <2>1, NextKeepsSent
<1>3. QED
  BY <1>1, <1>2, PoolInvariant, UseInvariant, PTL DEF Spec, PoolInv, UseInv

\* What is known of a use whose request was sent.
LEMMA SentUse ==
  ASSUME SentInv, NEW u \in Users, sent[u] # Nothing
  PROVE  /\ use[u].query \in Seq(STRING) /\ use[u].args \in Seq(Arguments)
         /\ use[u].kind = "ping" \/ Accepted(use[u].query, use[u].args)
         /\ \/ use[u].kind = "ping" /\ sent[u].params = <<>>
            \/ /\ use[u].kind \in {"exec", "preparedExec"} /\ sent[u].params = <<>>
               /\ sent[u].text = Interpolated(use[u].query, use[u].args)
            \/ /\ use[u].kind \in {"query", "preparedQuery"}
               /\ sent[u].text = use[u].query
               /\ sent[u].params = ExecutionParams(use[u].args)
<1>1. use[u] \in Acceptable /\ sent[u] = Request(use[u])
  BY DEF SentInv, Accepts
<1>2. PICK v \in Users : use[u] \in Uses[v]
  BY <1>1 DEF Acceptable, AllUses
<1>3. use[u].kind \in Kinds /\ use[u].query \in Seq(STRING) /\ use[u].args \in Seq(Arguments)
  BY <1>2
<1>4. use[u].kind = "ping" \/ Accepted(use[u].query, use[u].args)
  BY <1>1 DEF Acceptable
<1>5. CASE use[u].kind = "ping"
  BY <1>1, <1>3, <1>4, <1>5 DEF Request
<1>6. CASE use[u].kind \in {"exec", "preparedExec"}
  BY <1>1, <1>3, <1>4, <1>6 DEF Request
<1>7. CASE use[u].kind \in {"query", "preparedQuery"}
  BY <1>1, <1>3, <1>4, <1>7 DEF Request
<1>8. QED
  BY <1>3, <1>5, <1>6, <1>7 DEF Kinds, PlainKinds, PreparedKinds

\* A parameter reads as the literal, unless it is a text.
LEMMA ParamIsLiteral ==
  ASSUME NEW a \in Arguments, a.kind \in Convertible, a.kind \notin {"string", "bytes"},
         a.kind = "time" => a.time = ZeroTime \/ HalfMicroLater(a.time).year \in ShortYears
  PROVE  Param(a) = Literal(a)
<1>1. CASE a.kind = "time"
  <2>1. a.time \in Instants
    BY DEF Arguments
  <2>2. InterpolatedTime(a.time) = FormattedTime(a.time)
    BY <1>1, <2>1, TimesAgree
  <2>3. Param(a) = Quoted(FormattedTime(a.time)) /\ Literal(a) = Quoted(InterpolatedTime(a.time))
    BY <1>1 DEF Param, Literal
  <2>4. QED
    BY <2>2, <2>3
<1>2. CASE a.kind \in {"nil", "int", "float", "bool"}
  BY <1>2 DEF Param, Literal
<1>3. QED
  BY <1>1, <1>2 DEF Convertible

\* buildExecutionParams makes one parameter of each argument.
LEMMA ParamsLen ==
  ASSUME NEW args \in Seq(Arguments)
  PROVE  Len(ExecutionParams(args)) = Len(args)
<1> DEFINE n == Len(args)  T == {Param(args[i]) : i \in 1..n}  params == ExecutionParams(args)
<1>1. n \in Nat /\ DOMAIN args = 1..n
  BY LenProperties
<1>2. params = [i \in 1..n |-> Param(args[i])]
  BY <1>1 DEF ExecutionParams
<1>3. \A i \in 1..n : Param(args[i]) \in T
  OBVIOUS
<1> HIDE DEF T, n, params
<1>4. params \in [1..n -> T]
  BY <1>2, <1>3
<1>5. params \in Seq(T) /\ DOMAIN params = 1..n
  BY <1>1, <1>4, SeqDef
<1>6. Len(params) = n
  BY <1>1, <1>5, LenProperties
<1>7. QED
  BY <1>6 DEF params, n

\* The service finds as many placeholders as the driver counts marks only if
\* every mark is one.
LEMMA PlacesCounted ==
  ASSUME NEW query \in Seq(STRING), Cardinality(Placeholders(query)) = NumInput(query)
  PROVE  Placeholders(query) = Marks(query)
<1>1. Len(query) \in Nat /\ DOMAIN query = 1..Len(query)
  BY LenProperties
<1>2. Marks(query) \subseteq 1..Len(query) /\ IsFiniteSet(1..Len(query))
  BY <1>1, FS_Interval DEF Marks
<1>3. IsFiniteSet(Marks(query))
  BY <1>2, FS_Subset
<1>4. Placeholders(query) \subseteq Marks(query)
  BY DEF Placeholders
<1>5. QED
  BY <1>3, <1>4, FS_Subset DEF NumInput

\* Written into the query by interpolateParams or sent next to it by
\* buildExecutionParams, arguments without text ask the same question, for any
\* instants and any query whose every "?" the service takes for a placeholder;
\* any other query it refuses with its parameters: SameQuestion.
THEOREM QuestionsAgree == Spec => []SameQuestion
<1>1. SentInv => SameQuestion
  <2> SUFFICES ASSUME SentInv, NEW u \in Users, sent[u].params # <<>>,
                      \A i \in DOMAIN use[u].args : use[u].args[i].kind \notin {"string", "bytes"}
               PROVE  IF Placeholders(use[u].query) = Marks(use[u].query)
                      THEN /\ Fits(sent[u])
                           /\ Bound(sent[u]) = Interpolated(use[u].query, use[u].args)
                      ELSE ~Fits(sent[u])
    BY DEF SameQuestion
  <2> DEFINE args == use[u].args  query == use[u].query
  <2>1. sent[u] # Nothing
    BY DEF Nothing
  <2>2. /\ query \in Seq(STRING) /\ args \in Seq(Arguments) /\ Accepted(query, args)
        /\ sent[u].text = query /\ sent[u].params = ExecutionParams(args)
    BY <2>1, SentUse
  <2> HIDE DEF args, query
  <2>3. ASSUME NEW i \in DOMAIN args
        PROVE  Param(args[i]) = Literal(args[i])
    <3>1. args # <<>> /\ args[i] \in Arguments
      BY <2>2
    <3>2. args[i].kind \in Convertible /\ ~Panics(args)
      BY <2>2, <3>1 DEF Accepted
    <3>3. args[i].kind = "time" =>
            args[i].time = ZeroTime \/ HalfMicroLater(args[i].time).year \in ShortYears
      BY <3>2 DEF Panics
    <3>4. QED
      BY <3>1, <3>2, <3>3, ParamIsLiteral DEF args
  <2>4. ExecutionParams(args) = [i \in DOMAIN args |-> Literal(args[i])]
    BY <2>3 DEF ExecutionParams
  <2>5. Len(sent[u].params) = NumInput(query)
    <3>1. args # <<>>
      BY <2>2 DEF ExecutionParams
    <3>2. QED
      BY <2>2, <3>1, ParamsLen DEF Accepted
  <2>6. Fits(sent[u]) <=> Placeholders(query) = Marks(query)
    <3>1. Fits(sent[u]) <=> NumInput(query) = Cardinality(Placeholders(query))
      BY <2>2, <2>5 DEF Fits
    <3>2. QED
      BY <2>2, <3>1, PlacesCounted DEF NumInput
  <2>7. ASSUME Placeholders(query) = Marks(query)
        PROVE  Bound(sent[u]) = Interpolated(query, args)
    BY <2>2, <2>4, <2>7 DEF Bound, Interpolated, Filled
  <2>8. QED
    BY <2>6, <2>7 DEF args, query
<1>2. QED
  BY <1>1, SentInvariant, PTL

\* What escapeBytesBackslash made of a text is read as that text, whatever its
\* bytes, and the literal ends where it should: LiteralsReadBack.
THEOREM LiteralsKeepValue == Spec => []LiteralsReadBack
<1>1. SentInv => LiteralsReadBack
  <2> SUFFICES ASSUME SentInv, NEW u \in Users, sent[u] # Nothing, Len(use[u].args) = 1,
                      NumInput(use[u].query) = 1, use[u].args[1].kind \in {"string", "bytes"}
               PROVE  LET a == use[u].args[1]  query == use[u].query IN
        /\ use[u].kind \in {"exec", "preparedExec"} /\ (\A i \in DOMAIN query : query[i] # "'") =>
             LET literal == ReadLiteral(sent[u].text) IN
             literal.value = a.text /\ literal.mode = IF Last(query) = "?" THEN "quote" ELSE "ended"
        /\ use[u].kind \in {"query", "preparedQuery"} =>
             \A v \in Texts : a.text \in {FormatString(v), FormatBytes(v)} =>
               ReadLiteral(sent[u].params[1]) = At("quote", v)
    BY DEF LiteralsReadBack
  <2> DEFINE args == use[u].args  query == use[u].query  a == args[1]
  <2>1. query \in Seq(STRING) /\ args \in Seq(Arguments)
    BY SentUse
  <2>2. 1 \in DOMAIN args /\ a \in Arguments /\ a.text \in Seq(STRING)
    <3>1. Len(args) = 1
      OBVIOUS
    <3> HIDE DEF args
    <3>2. 1 \in DOMAIN args
      BY <2>1, <3>1, LenProperties
    <3>3. a \in Arguments
      BY <2>1, <3>1, ElementOfSeq
    <3> HIDE DEF a
    <3>4. QED
      BY <3>2, <3>3 DEF Arguments
  <2>3. query \in Seq(Tokens) /\ \A v \in Seq(STRING) : v \in Seq(Tokens)
    BY <2>1 DEF Tokens
  <2>4. Unread = At("before", <<>>)
    BY DEF Unread
  <2>5. ASSUME use[u].kind \in {"exec", "preparedExec"}, \A i \in DOMAIN query : query[i] # "'"
        PROVE  ReadLiteral(sent[u].text) = At(IF Last(query) = "?" THEN "quote" ELSE "ended", a.text)
    <3> DEFINE texts == [i \in DOMAIN args |-> Literal(args[i])]
    <3>1. sent[u].text = Filled(query, texts)
      BY <2>5, SentUse DEF Interpolated
    <3>2. texts[1] \in {FormatString(a.text), FormatBytes(a.text)}
      <4>1. texts[1] = Literal(a)
        BY <2>2
      <4>2. Literal(a) \in {FormatString(a.text), FormatBytes(a.text)}
        BY DEF Literal
      <4>3. QED
        BY <4>1, <4>2
    <3>3. texts[1] \in Seq(Tokens) /\ ReadFrom(Unread, texts[1]) = At("quote", a.text)
      BY <2>2, <2>3, <3>2, FormatsReadBack
    <3> HIDE DEF texts, query, a, args
    <3>4. ReadFrom(Unread, Filled(query, texts)) =
            At(IF Last(query) = "?" THEN "quote" ELSE "ended", a.text)
      BY <2>3, <2>5, <3>3, ReadFilled DEF query
    <3>5. QED
      BY <2>4, <3>1, <3>4 DEF ReadLiteral
  <2>6. ASSUME use[u].kind \in {"query", "preparedQuery"}, NEW v \in Texts,
               a.text \in {FormatString(v), FormatBytes(v)}
        PROVE  ReadLiteral(sent[u].params[1]) = At("quote", v)
    <3>1. v \in Seq(Tokens)
      <4>1. PICK w \in AllUses : \E i \in DOMAIN w.args : v = w.args[i].text
        BY <2>6 DEF Texts
      <4>2. w.args \in Seq(Arguments)
        BY DEF AllUses
      <4>3. \A i \in DOMAIN w.args : w.args[i] \in Arguments
        BY <4>1, <4>2
      <4>4. QED
        BY <2>3, <4>1, <4>3 DEF Arguments
    <3>2. sent[u].params[1] = a.text
      <4>1. sent[u].params = ExecutionParams(args)
        BY <2>6, SentUse
      <4>2. sent[u].params[1] = Param(a)
        BY <2>2, <4>1 DEF ExecutionParams
      <4>3. Param(a) = a.text
        BY DEF Param
      <4>4. QED
        BY <4>2, <4>3
    <3>3. ReadFrom(Unread, a.text) = At("quote", v)
      BY <2>6, <3>1, FormatsReadBack
    <3>4. QED
      BY <2>4, <3>2, <3>3 DEF ReadLiteral
  <2>7. \A mode, value : At(mode, value).mode = mode /\ At(mode, value).value = value
    BY DEF At
  <2>8. QED
    BY <2>5, <2>6, <2>7
<1>2. QED
  BY <1>1, SentInvariant, PTL
=============================================================================
