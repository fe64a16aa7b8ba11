---------------------------- MODULE ResultsProofs ----------------------------
(***************************************************************************)
(* Proofs about Results and Printing, for any answers of the service and   *)
(* any Config.                                                             *)
(*                                                                         *)
(* Most properties follow from what one field becomes (Convert), from the  *)
(* columns being those of the repaired page once there are rows, and, for  *)
(* a described result, from the position: one line behind the rows.  What  *)
(* is written as CSV is followed field by field, and each field character  *)
(* by character, as it is read (TextProofs has the induction).             *)
(***************************************************************************)
EXTENDS Printing, TextProofs

(* Reading a line of CSV, in one go or piece by piece. *)

\* What a line is made of: words, the names of made up columns, and what Printing
\* writes for values without a text or splits a word into.
Glyphs == Words \cup {"_col" \o ToString(k) : k \in Nat}
          \cup {" ", "a", ",", "b", "\"", "rfc3339", "0", "false"}

\* The states that reading goes through.
LEMMA ReadRuns ==
  ASSUME NEW start, NEW line \in Seq(Glyphs)
  PROVE  \E run : /\ run[0] = start
                  /\ \A i \in 1..Len(line) : run[i] = ReadChar(run[i - 1], line[i])
                  /\ ReadChars(start, line) = run[Len(line)]
<1> DEFINE n == Len(line)
           Step(f, i) == IF i = 0 THEN start ELSE ReadChar(f[i - 1], line[i])
           read == CHOOSE f : f = [i \in 0..n |-> Step(f, i)]
<1>1. n \in Nat
  BY LenProperties
<1>2. \E f : f = [i \in 0..n |-> Step(f, i)]
  <2> DEFINE S == {m \in 0..n : \E f : f = [i \in 0..m |-> Step(f, i)]}
  <2>1. 0 \in S
    <3> DEFINE f == [i \in 0..0 |-> start]
    <3>1. f = [i \in 0..0 |-> Step(f, i)]
      OBVIOUS
    <3>2. \E g : g = [i \in 0..0 |-> Step(g, i)]
      BY <3>1, Zenon
    <3>3. 0 \in 0..n
      BY <1>1
    <3>4. QED
      BY <3>2, <3>3, Zenon
  <2>2. ASSUME NEW m \in 0..(n - 1), m \in S
        PROVE  m + 1 \in S
    <3>1. PICK f : f = [i \in 0..m |-> Step(f, i)]
      BY <2>2
    <3> DEFINE g == [i \in 0..(m + 1) |-> IF i <= m THEN f[i] ELSE Step(f, i)]
    <3> HIDE DEF Step
    <3>2. ASSUME NEW i \in 0..(m + 1)
          PROVE  g[i] = Step(g, i)
      <4>1. g[i] = Step(f, i)
        <5>1. CASE i <= m
          <6>1. i \in 0..m /\ g[i] = f[i]
            BY <1>1, <5>1
          <6>2. QED
            BY <3>1, <6>1
        <5>2. CASE ~ (i <= m)
          BY <5>2
        <5>3. QED
          BY <5>1, <5>2
      <4>2. i # 0 => g[i - 1] = f[i - 1]
        BY <1>1
      <4>3. QED
        BY <4>1, <4>2 DEF Step
    <3>3. g = [i \in 0..(m + 1) |-> Step(g, i)]
      BY <3>2
    <3>4. \E h : h = [i \in 0..(m + 1) |-> Step(h, i)]
      BY <3>3, Zenon
    <3>5. m + 1 \in 0..n
      BY <1>1
    <3>6. QED
      BY <3>4, <3>5
  <2>3. n \in S
    <3> HIDE DEF S
    <3>1. \A k \in 0..n : k \in S
      BY <1>1, <2>1, <2>2, Induction
    <3>2. QED
      BY <1>1, <3>1
  <2>4. QED
    BY <2>3
<1>3. read = [i \in 0..n |-> Step(read, i)]
  BY <1>2
<1>4. ReadChars(start, line) = read[n]
  BY DEF ReadChars
<1> HIDE DEF read
<1>5. read[0] = start /\ \A i \in 1..n : read[i] = ReadChar(read[i - 1], line[i])
  <2>1. read[0] = Step(read, 0)
    <3> HIDE DEF Step
    <3>1. QED
      BY <1>1, <1>3
  <2>2. ASSUME NEW i \in 1..n
        PROVE  read[i] = ReadChar(read[i - 1], line[i])
    <3>1. read[i] = Step(read, i)
      <4> HIDE DEF Step
      <4>1. QED
        BY <1>1, <1>3
    <3>2. QED
      BY <1>1, <3>1
  <2>3. QED
    BY <2>1, <2>2
<1>6. QED
  BY <1>4, <1>5

\* A line is read in one go or in two.
LEMMA ReadOn ==
  ASSUME NEW start, NEW s \in Seq(Glyphs), NEW t \in Seq(Glyphs)
  PROVE  ReadChars(start, s \o t) = ReadChars(ReadChars(start, s), t)
<1> DEFINE m == Len(s)  n == Len(t)  u == s \o t
<1>1. /\ m \in Nat /\ n \in Nat /\ u \in Seq(Glyphs) /\ Len(u) = m + n
      /\ \A i \in 1..(m + n) : u[i] = IF i <= m THEN s[i] ELSE t[i - m]
  BY LenProperties, ConcatProperties
<1> HIDE DEF u
<1>2. PICK all : /\ all[0] = start
                 /\ \A i \in 1..Len(u) : all[i] = ReadChar(all[i - 1], u[i])
                 /\ ReadChars(start, u) = all[Len(u)]
  BY <1>1, ReadRuns
<1>3. PICK first : /\ first[0] = start
                   /\ \A i \in 1..m : first[i] = ReadChar(first[i - 1], s[i])
                   /\ ReadChars(start, s) = first[m]
  BY ReadRuns
<1>4. all[m] = first[m]
  <2> DEFINE S == {k \in 0..m : all[k] = first[k]}
  <2>1. 0 \in S
    BY <1>1, <1>2, <1>3
  <2>2. ASSUME NEW k \in 0..(m - 1), k \in S
        PROVE  k + 1 \in S
    <3>1. k + 1 \in 1..(m + n) /\ k + 1 \in 1..m /\ (k + 1) - 1 = k /\ k + 1 <= m
      BY <1>1
    <3>2. all[k + 1] = ReadChar(all[k], s[k + 1])
      BY <1>1, <1>2, <3>1
    <3>3. first[k + 1] = ReadChar(first[k], s[k + 1])
      BY <1>3, <3>1
    <3>4. QED
      BY <2>2, <3>1, <3>2, <3>3
  <2> HIDE DEF S
  <2>3. \A k \in 0..m : k \in S
    BY <1>1, <2>1, <2>2, Induction
  <2>4. m \in S
    BY <1>1, <2>3
  <2>5. QED
    BY <2>4 DEF S
<1>5. PICK rest : /\ rest[0] = first[m]
                  /\ \A i \in 1..n : rest[i] = ReadChar(rest[i - 1], t[i])
                  /\ ReadChars(first[m], t) = rest[n]
  BY ReadRuns
<1>6. all[m + n] = rest[n]
  <2> DEFINE S == {k \in 0..n : all[m + k] = rest[k]}
  <2>1. 0 \in S
    BY <1>1, <1>4, <1>5
  <2>2. ASSUME NEW k \in 0..(n - 1), k \in S
        PROVE  k + 1 \in S
    <3>1. /\ m + (k + 1) \in 1..(m + n) /\ k + 1 \in 1..n /\ (k + 1) - 1 = k
          /\ (m + (k + 1)) - 1 = m + k /\ (m + (k + 1)) - m = k + 1 /\ ~ (m + (k + 1) <= m)
      BY <1>1
    <3>2. all[m + (k + 1)] = ReadChar(all[m + k], t[k + 1])
      BY <1>1, <1>2, <3>1
    <3>3. rest[k + 1] = ReadChar(rest[k], t[k + 1])
      BY <1>5, <3>1
    <3>4. QED
      BY <2>2, <3>1, <3>2, <3>3
  <2> HIDE DEF S
  <2>3. \A k \in 0..n : k \in S
    BY <1>1, <2>1, <2>2, Induction
  <2>4. n \in S
    BY <1>1, <2>3
  <2>5. QED
    BY <2>4 DEF S
<1>7. QED
  BY <1>2, <1>3, <1>5, <1>6 DEF u

LEMMA ReadNone ==
  ASSUME NEW start
  PROVE  ReadChars(start, <<>>) = start
<1> DEFINE line == <<>>
<1>1. line \in Seq(Glyphs) /\ Len(line) = 0
  OBVIOUS
<1> HIDE DEF line
<1>2. PICK run : /\ run[0] = start
                 /\ \A i \in 1..Len(line) : run[i] = ReadChar(run[i - 1], line[i])
                 /\ ReadChars(start, line) = run[Len(line)]
  BY <1>1, ReadRuns
<1>3. ReadChars(start, line) = start
  BY <1>1, <1>2
<1>4. QED
  BY <1>3 DEF line

LEMMA ReadOne ==
  ASSUME NEW start, NEW c \in Glyphs
  PROVE  ReadChars(start, <<c>>) = ReadChar(start, c)
<1> DEFINE line == <<c>>
<1>1. line \in Seq(Glyphs) /\ Len(line) = 1 /\ line[1] = c
  BY OneOf
<1> HIDE DEF line
<1>2. PICK run : /\ run[0] = start
                 /\ \A i \in 1..Len(line) : run[i] = ReadChar(run[i - 1], line[i])
                 /\ ReadChars(start, line) = run[Len(line)]
  BY <1>1, ReadRuns
<1>3. run[1] = ReadChar(start, c)
  <2>1. 1 \in 1..Len(line) /\ 1 - 1 = 0
    BY <1>1
  <2>2. run[1] = ReadChar(run[1 - 1], line[1])
    BY <1>2, <2>1
  <2>3. QED
    BY <1>1, <1>2, <2>1, <2>2
<1>4. QED
  BY <1>1, <1>2, <1>3 DEF line

-----------------------------------------------------------------------------
(* Reading a field. *)

\* After a text the field it stands for has been read, behind the fields before.
Reads(line, fields, field) ==
  LET end == ReadChars(Reading(fields, <<>>, "start"), line) IN
  end.fields = fields /\ end.field = field /\ end.mode # "quoted"

\* A text without commas and quotes is read as it stands.
LEMMA ReadPlain ==
  ASSUME NEW chars \in Seq(Glyphs), ~Marked(chars), NEW fields
  PROVE  Reads(chars, fields, chars)
<1> DEFINE n == Len(chars)
           start == Reading(fields, <<>>, "start")
           Place(k) == Reading(fields, SubSeq(chars, 1, k), IF k = 0 THEN "start" ELSE "plain")
<1>1. n \in Nat
  BY LenProperties
<1>2. \A i \in 1..n : chars[i] # "," /\ chars[i] # "\""
  BY LenProperties DEF Marked
<1>3. PICK run : /\ run[0] = start
                 /\ \A i \in 1..n : run[i] = ReadChar(run[i - 1], chars[i])
                 /\ ReadChars(start, chars) = run[n]
  <2> HIDE DEF start
  <2>1. QED
    BY ReadRuns
<1> HIDE DEF n
<1>4. run[0] = Place(0)
  <2>1. Place(0) = start
    <3>1. SubSeq(chars, 1, 0) = <<>>
      BY SubSeqEmpty
    <3>2. QED
      BY <3>1
  <2>2. QED
    BY <1>3, <2>1
<1>5. ASSUME NEW k \in 0..(n - 1), run[k] = Place(k)
      PROVE  run[k + 1] = Place(k + 1)
  <2>1. k + 1 \in 1..n /\ (k + 1) - 1 = k /\ k + 1 # 0 /\ k \in Nat
    <3> HIDE DEF Place, start
    <3>1. QED
      BY <1>1
  <2>2. run[k + 1] = ReadChar(run[k], chars[k + 1])
    <3> HIDE DEF Place, start
    <3>1. QED
      BY <1>3, <2>1
  <2>3. chars[k + 1] # "," /\ chars[k + 1] # "\""
    BY <1>2, <2>1
  <2>4. ASSUME NEW field, NEW mode \in {"start", "plain"}
        PROVE  ReadChar(Reading(fields, field, mode), chars[k + 1])
                 = Reading(fields, Append(field, chars[k + 1]), "plain")
    BY <2>3, <2>4 DEF ReadChar, Reading
  <2>5. SubSeq(chars, 1, k + 1) = Append(SubSeq(chars, 1, k), chars[k + 1])
    BY <2>1, PrefixGrows DEF n
  <2>6. QED
    BY <1>5, <2>1, <2>2, <2>4, <2>5
<1>6. run[n] = Place(n)
  <2> DEFINE T == {k \in 0..n : run[k] = Place(k)}
  <2> HIDE DEF Place
  <2>1. 0 \in T
    BY <1>1, <1>4
  <2>2. \A k \in 0..(n - 1) : k \in T => k + 1 \in T
    BY <1>1, <1>5
  <2> HIDE DEF T
  <2>3. \A k \in 0..n : k \in T
    BY <1>1, <2>1, <2>2, Induction
  <2>4. n \in T
    BY <1>1, <2>3
  <2>5. QED
    BY <2>4 DEF T
<1>7. SubSeq(chars, 1, n) = chars
  BY SubSeqFull DEF n
<1>8. ReadChars(start, chars) = Reading(fields, chars, IF n = 0 THEN "start" ELSE "plain")
  <2> HIDE DEF start
  <2>1. QED
    BY <1>3, <1>6, <1>7
<1>9. QED
  BY <1>8 DEF Reads, Reading

Double(c) == IF c = "\"" THEN <<"\"", "\"">> ELSE <<c>>

\* Between quotes, what was written for a character is read as it.
LEMMA ReadDouble ==
  ASSUME NEW c \in Glyphs, NEW fields, NEW field
  PROVE  /\ Double(c) \in Seq(Glyphs)
         /\ ReadChars(Reading(fields, field, "quoted"), Double(c))
              = Reading(fields, Append(field, c), "quoted")
<1>1. CASE c = "\""
  <2>1. Double(c) = <<c, c>> /\ <<c>> \in Seq(Glyphs) /\ <<c, c>> \in Seq(Glyphs)
        /\ <<c, c>> = <<c>> \o <<c>>
    BY <1>1, OneOf, TwoOf DEF Double
  <2>2. ReadChar(Reading(fields, field, "quoted"), c) = Reading(fields, field, "quote")
    BY <1>1 DEF ReadChar, Reading
  <2>3. ReadChar(Reading(fields, field, "quote"), c) = Reading(fields, Append(field, c), "quoted")
    BY <1>1 DEF ReadChar, Reading
  <2>4. ReadChars(Reading(fields, field, "quoted"), <<c>>) = Reading(fields, field, "quote")
    BY <2>2, ReadOne
  <2>5. ReadChars(Reading(fields, field, "quote"), <<c>>) = Reading(fields, Append(field, c), "quoted")
    BY <2>3, ReadOne
  <2>6. ReadChars(Reading(fields, field, "quoted"), <<c>> \o <<c>>)
          = ReadChars(ReadChars(Reading(fields, field, "quoted"), <<c>>), <<c>>)
    BY <2>1, ReadOn
  <2>7. QED
    BY <2>1, <2>4, <2>5, <2>6
<1>2. CASE c # "\""
  <2>1. Double(c) = <<c>> /\ <<c>> \in Seq(Glyphs)
    BY <1>2, OneOf DEF Double
  <2>2. ReadChar(Reading(fields, field, "quoted"), c) = Reading(fields, Append(field, c), "quoted")
    BY <1>2 DEF ReadChar, Reading
  <2>3. QED
    BY <2>1, <2>2, ReadOne
<1>3. QED
  BY <1>1, <1>2

\* Between quotes, what was written for a text is read as it.
LEMMA ReadDoubled ==
  ASSUME NEW chars \in Seq(Glyphs), NEW fields
  PROVE  /\ Doubled(chars) \in Seq(Glyphs)
         /\ ReadChars(Reading(fields, <<>>, "quoted"), Doubled(chars))
              = Reading(fields, chars, "quoted")
<1> DEFINE n == Len(chars)
           ss == [i \in DOMAIN chars |-> Double(chars[i])]
           start == Reading(fields, <<>>, "quoted")
<1>1. n \in Nat /\ DOMAIN chars = 1..n /\ \A i \in 1..n : chars[i] \in Glyphs
  BY LenProperties, ElementOfSeq
<1>2. ss \in Seq(Seq(Glyphs)) /\ Len(ss) = n /\ \A i \in 1..n : ss[i] = Double(chars[i])
  <2>1. \A i \in 1..n : Double(chars[i]) \in Seq(Glyphs)
    BY <1>1, ReadDouble
  <2>2. ss \in [1..n -> Seq(Glyphs)]
    BY <1>1, <2>1
  <2>3. \A i \in 1..n : ss[i] = Double(chars[i])
    BY <1>1
  <2> HIDE DEF ss
  <2>4. QED
    BY <1>1, <2>2, <2>3, FunctionOf
<1>3. Doubled(chars) = FlattenSeq(ss)
  BY DEF Doubled, Double
<1> HIDE DEF ss, start
<1>4. PICK flat \in [0..Len(ss) -> Seq(Glyphs)] :
        /\ flat[0] = <<>>
        /\ \A k \in 1..Len(ss) : flat[k] = flat[k - 1] \o ss[k]
        /\ FlattenSeq(ss) = flat[Len(ss)]
  BY <1>2, FlattenPrefixes
<1> DEFINE S == {k \in 0..n : ReadChars(start, flat[k]) = Reading(fields, SubSeq(chars, 1, k), "quoted")}
<1>5. 0 \in S
  <2>1. ReadChars(start, flat[0]) = start /\ SubSeq(chars, 1, 0) = <<>> /\ 0 \in 0..n
    BY <1>1, <1>4, ReadNone, SubSeqEmpty
  <2>2. QED
    BY <2>1 DEF start
<1>6. ASSUME NEW k \in 0..(n - 1), k \in S
      PROVE  k + 1 \in S
  <2>1. k + 1 \in 1..n /\ (k + 1) - 1 = k /\ k \in 0..n /\ k + 1 \in 0..n
    BY <1>1
  <2>2. flat[k] \in Seq(Glyphs) /\ flat[k + 1] = flat[k] \o ss[k + 1]
    <3>1. flat[k + 1] = flat[(k + 1) - 1] \o ss[k + 1]
      BY <1>2, <1>4, <2>1
    <3>2. QED
      BY <1>2, <2>1, <3>1
  <2>3. ss[k + 1] = Double(chars[k + 1]) /\ chars[k + 1] \in Glyphs
    BY <1>1, <1>2, <2>1
  <2>4. ss[k + 1] \in Seq(Glyphs)
    BY <2>3, ReadDouble
  <2>5. ReadChars(start, flat[k + 1]) = ReadChars(ReadChars(start, flat[k]), ss[k + 1])
    BY <2>2, <2>4, ReadOn
  <2>6. ReadChars(start, flat[k]) = Reading(fields, SubSeq(chars, 1, k), "quoted")
    BY <1>6
  <2>7. ReadChars(start, flat[k + 1])
          = Reading(fields, Append(SubSeq(chars, 1, k), chars[k + 1]), "quoted")
    BY <2>3, <2>5, <2>6, ReadDouble
  <2>8. SubSeq(chars, 1, k + 1) = Append(SubSeq(chars, 1, k), chars[k + 1])
    BY <2>1, PrefixGrows
  <2>9. QED
    BY <2>1, <2>7, <2>8
<1>7. ReadChars(start, flat[n]) = Reading(fields, SubSeq(chars, 1, n), "quoted")
  <2>1. \A k \in 0..n : k \in S
    <3> HIDE DEF S
    <3>1. QED
      BY <1>1, <1>5, <1>6, Induction
  <2>2. n \in S
    BY <1>1, <2>1
  <2>3. QED
    BY <2>2
<1>8. SubSeq(chars, 1, n) = chars /\ n \in 0..n
  BY <1>1, SubSeqFull
<1>9. flat[n] \in Seq(Glyphs)
  BY <1>2, <1>8
<1>10. QED
  BY <1>2, <1>3, <1>4, <1>7, <1>8, <1>9 DEF start

\* What a field is written as.
Field(chars) == IF NeedsQuotes(chars) THEN <<"\"">> \o Doubled(chars) \o <<"\"">> ELSE chars

\* A field is read as the text it was written for, whatever that holds.
LEMMA ReadField ==
  ASSUME NEW chars \in Seq(Glyphs), NEW fields
  PROVE  Field(chars) \in Seq(Glyphs) /\ Reads(Field(chars), fields, chars)
<1>1. CASE NeedsQuotes(chars)
  <2> DEFINE q == "\""  mid == Doubled(chars)
  <2>1. q \in Glyphs /\ <<q>> \in Seq(Glyphs)
    BY OneOf DEF Glyphs
  <2>2. mid \in Seq(Glyphs)
        /\ ReadChars(Reading(fields, <<>>, "quoted"), mid) = Reading(fields, chars, "quoted")
    BY ReadDoubled
  <2>3. ReadChar(Reading(fields, <<>>, "start"), q) = Reading(fields, <<>>, "quoted")
    BY DEF ReadChar, Reading
  <2>4. ReadChar(Reading(fields, chars, "quoted"), q) = Reading(fields, chars, "quote")
    BY DEF ReadChar, Reading
  <2>5. Field(chars) = (<<q>> \o mid) \o <<q>>
    BY <1>1 DEF Field
  <2> HIDE DEF q, mid
  <2>6. <<q>> \o mid \in Seq(Glyphs) /\ (<<q>> \o mid) \o <<q>> \in Seq(Glyphs)
    BY <2>1, <2>2, ConcatProperties
  <2>7. ReadChars(Reading(fields, <<>>, "start"), <<q>> \o mid) = Reading(fields, chars, "quoted")
    <3> DEFINE start == Reading(fields, <<>>, "start")
    <3>1. ReadChars(start, <<q>>) = Reading(fields, <<>>, "quoted")
      BY <2>1, <2>3, ReadOne
    <3> HIDE DEF start
    <3>2. ReadChars(start, <<q>> \o mid) = ReadChars(ReadChars(start, <<q>>), mid)
      BY <2>1, <2>2, ReadOn
    <3>3. QED
      BY <2>2, <3>1, <3>2 DEF start
  <2>8. ReadChars(Reading(fields, <<>>, "start"), Field(chars)) = Reading(fields, chars, "quote")
    <3> DEFINE start == Reading(fields, <<>>, "start")
    <3>1. ReadChars(Reading(fields, chars, "quoted"), <<q>>) = Reading(fields, chars, "quote")
      BY <2>1, <2>4, ReadOne
    <3> HIDE DEF start
    <3> DEFINE s == <<q>> \o mid  t == <<q>>
    <3>2. ReadChars(start, Field(chars)) = ReadChars(ReadChars(start, s), t)
      <4>1. s \in Seq(Glyphs) /\ t \in Seq(Glyphs) /\ Field(chars) = s \o t
        BY <2>1, <2>5, <2>6
      <4> HIDE DEF s, t
      <4>2. QED
        BY <4>1, ReadOn
    <3>3. QED
      BY <2>7, <3>1, <3>2 DEF start
  <2>9. QED
    BY <2>5, <2>6, <2>8 DEF Reads, Reading
<1>2. CASE ~NeedsQuotes(chars)
  <2>1. Field(chars) = chars
    BY <1>2 DEF Field
  <2>2. ~Marked(chars)
    <3>1. chars = <<>> => ~Marked(chars)
      BY DEF Marked
    <3>2. QED
      BY <1>2, <3>1 DEF NeedsQuotes
  <2>3. QED
    BY <2>1, <2>2, ReadPlain
<1>3. QED
  BY <1>1, <1>2
-----------------------------------------------------------------------------
(* Reading a line. *)

\* Fields that are read one by one are read from their line.
LEMMA ReadSeparated ==
  ASSUME NEW n \in Nat, n # 0,
         NEW lines \in Seq(Seq(Glyphs)), NEW fields \in Seq(Seq(Glyphs)),
         Len(lines) = n, Len(fields) = n,
         \A i \in 1..n : \A before : Reads(lines[i], before, fields[i])
  PROVE  Read(Separated(lines)) = fields
<1> DEFINE start == Reading(<<>>, <<>>, "start")
           comma == <<",">>
           ss == [i \in DOMAIN lines |-> (IF i > 1 THEN comma ELSE <<>>) \o lines[i]]
<1>1. DOMAIN lines = 1..n /\ \A i \in 1..n : lines[i] \in Seq(Glyphs) /\ fields[i] \in Seq(Glyphs)
  BY LenProperties, ElementOfSeq
<1>2. "," \in Glyphs /\ comma \in Seq(Glyphs)
  BY OneOf DEF Glyphs
<1>3. ss \in Seq(Seq(Glyphs)) /\ Len(ss) = n /\ ss[1] = lines[1]
      /\ \A i \in 1..n : i > 1 => ss[i] = comma \o lines[i]
  <2>1. ASSUME NEW i \in 1..n
        PROVE  ss[i] \in Seq(Glyphs) /\ (i > 1 => ss[i] = comma \o lines[i])
               /\ (i = 1 => ss[i] = lines[i])
    <3>1. ss[i] = (IF i > 1 THEN comma ELSE <<>>) \o lines[i]
      BY <1>1
    <3>2. <<>> \in Seq(Glyphs)
      OBVIOUS
    <3> HIDE DEF ss, comma
    <3>3. CASE i = 1
      <4>1. ss[i] = <<>> \o lines[i]
        BY <3>1, <3>3
      <4>2. QED
        BY <1>1, <3>3, <4>1, ConcatEmptySeq
    <3>4. CASE i # 1
      <4>1. ss[i] = comma \o lines[i]
        <5>1. i > 1
          BY <3>4
        <5>2. QED
          BY <3>1, <5>1
      <4>2. QED
        BY <1>1, <1>2, <3>4, <4>1, ConcatProperties
    <3>5. QED
      BY <3>3, <3>4
  <2>2. ss \in [1..n -> Seq(Glyphs)]
    <3>1. ss = [i \in 1..n |-> ss[i]]
      BY <1>1
    <3> HIDE DEF ss
    <3>2. QED
      BY <2>1, <3>1
  <2>3. 1 \in 1..n
    OBVIOUS
  <2> HIDE DEF ss
  <2>4. QED
    BY <2>1, <2>2, <2>3, FunctionOf
<1>4. Separated(lines) = FlattenSeq(ss)
  BY DEF Separated
<1> HIDE DEF ss, start, comma
<1>5. PICK flat \in [0..Len(ss) -> Seq(Glyphs)] :
        /\ flat[0] = <<>>
        /\ \A k \in 1..Len(ss) : flat[k] = flat[k - 1] \o ss[k]
        /\ FlattenSeq(ss) = flat[Len(ss)]
  BY <1>3, FlattenPrefixes
<1> DEFINE Upto(k) == ReadChars(start, flat[k])
           S == {k \in 0..n : k = 0 \/ ( /\ Upto(k).fields = SubSeq(fields, 1, k - 1)
                                         /\ Upto(k).field = fields[k]
                                         /\ Upto(k).mode # "quoted")}
<1>6. 0 \in S
  OBVIOUS
<1>7. ASSUME NEW k \in 0..(n - 1), k \in S
      PROVE  k + 1 \in S
  <2>1. k + 1 \in 1..n /\ (k + 1) - 1 = k /\ k \in 0..n /\ k + 1 \in 0..n
    OBVIOUS
  <2>2. flat[k] \in Seq(Glyphs) /\ flat[k + 1] = flat[k] \o ss[k + 1]
    <3>1. flat[k + 1] = flat[(k + 1) - 1] \o ss[k + 1]
      BY <1>3, <1>5, <2>1
    <3>2. QED
      BY <1>3, <1>5, <2>1, <3>1
  <2>3. ss[k + 1] \in Seq(Glyphs) /\ lines[k + 1] \in Seq(Glyphs)
    BY <1>1, <1>3, <2>1, ElementOfSeq
  <2>4. Upto(k + 1) = ReadChars(Upto(k), ss[k + 1])
    BY <2>2, <2>3, ReadOn
  <2>5. Upto(k + 1) = ReadChars(Reading(SubSeq(fields, 1, k), <<>>, "start"), lines[k + 1])
    <3>1. CASE k = 0
      <4>1. Upto(0) = start /\ ss[1] = lines[1] /\ SubSeq(fields, 1, 0) = <<>>
        BY <1>3, <1>5, ReadNone, SubSeqEmpty
      <4>2. Upto(0 + 1) = ReadChars(start, lines[0 + 1])
        <5>1. Upto(k + 1) = ReadChars(start, ss[1])
          BY <2>4, <3>1, <4>1
        <5>2. QED
          BY <3>1, <4>1, <5>1
      <4>3. start = Reading(SubSeq(fields, 1, 0), <<>>, "start")
        BY <4>1 DEF start
      <4>4. QED
        BY <3>1, <4>2, <4>3
    <3>2. CASE k # 0
      <4>1. /\ Upto(k).fields = SubSeq(fields, 1, k - 1) /\ Upto(k).field = fields[k]
            /\ Upto(k).mode # "quoted"
        BY <1>7, <3>2
      <4>2. ss[k + 1] = comma \o lines[k + 1]
        <5>1. k + 1 > 1
          BY <3>2
        <5>2. QED
          BY <1>3, <2>1, <5>1
      <4>3. SubSeq(fields, 1, k) = Append(SubSeq(fields, 1, k - 1), fields[k])
        <5>1. k - 1 \in Nat /\ (k - 1) + 1 = k /\ k \in 1..Len(fields)
          BY <1>1, <3>2
        <5>2. SubSeq(fields, 1, (k - 1) + 1) = Append(SubSeq(fields, 1, k - 1), fields[(k - 1) + 1])
          BY <5>1, PrefixGrows
        <5>3. QED
          BY <5>1, <5>2, Zenon
      <4>4. ReadChar(Upto(k), ",") = Reading(SubSeq(fields, 1, k), <<>>, "start")
        <5> DEFINE e == Upto(k)
        <5> HIDE DEF e
        <5>1. e.mode # "quoted" => ReadChar(e, ",") = Reading(Append(e.fields, e.field), <<>>, "start")
          BY DEF ReadChar
        <5>2. QED
          BY <4>1, <4>3, <5>1 DEF e
      <4>5. ReadChars(Upto(k), ss[k + 1]) = ReadChars(ReadChars(Upto(k), comma), lines[k + 1])
        <5> DEFINE e == Upto(k)  rest == lines[k + 1]
        <5>1. rest \in Seq(Glyphs) /\ ss[k + 1] = comma \o rest
          BY <2>3, <4>2
        <5> HIDE DEF e, rest
        <5>2. ReadChars(e, comma \o rest) = ReadChars(ReadChars(e, comma), rest)
          BY <1>2, <5>1, ReadOn
        <5>3. ReadChars(e, ss[k + 1]) = ReadChars(ReadChars(e, comma), rest)
          BY <5>1, <5>2
        <5>4. QED
          BY <5>3 DEF e, rest
      <4>6. ReadChars(Upto(k), comma) = ReadChar(Upto(k), ",")
        BY <1>2, ReadOne DEF comma
      <4>7. QED
        BY <2>4, <4>4, <4>5, <4>6
    <3>3. QED
      BY <3>1, <3>2
  <2>6. Reads(lines[k + 1], SubSeq(fields, 1, k), fields[k + 1])
    BY <2>1
  <2>7. QED
    BY <2>1, <2>5, <2>6 DEF Reads
<1>8. n \in S
  <2>1. \A k \in 0..n : k \in S
    <3> HIDE DEF S
    <3>1. QED
      BY <1>6, <1>7, Induction
  <2>2. QED
    BY <2>1
<1>9. Upto(n).fields = SubSeq(fields, 1, n - 1) /\ Upto(n).field = fields[n]
  BY <1>8
<1>10. Append(SubSeq(fields, 1, n - 1), fields[n]) = SubSeq(fields, 1, n)
  BY PrefixGrows, n - 1 \in Nat, (n - 1) + 1 = n, n \in 1..n
<1>11. SubSeq(fields, 1, n) = fields
  BY SubSeqFull
<1>12. Read(Separated(lines)) = Append(Upto(n).fields, Upto(n).field)
  BY <1>3, <1>4, <1>5 DEF Read, start
<1>13. QED
  BY <1>9, <1>10, <1>11, <1>12
-----------------------------------------------------------------------------
Values == [type : GoTypes, text : Text]

\* The columns of the service, and those made up for a page that has more.
AnyColumn == [name : Words, type : STRING]
             \cup {[name |-> "_col" \o ToString(k), type |-> "string"] : k \in Nat}

\* The columns are those of the repaired page once it was read; until the
\* object is open, nothing was delivered.
ColumnsInv ==
  /\ columns \in Seq(AnyColumn)
  /\ client \in {"new", "ready"} => delivered = <<>> /\ pos = 1
  /\ client = "ready" => lastPage = NoMoreRows(answer.page)
  /\ client = "panicked" /\ columns # RepairedColumns(answer.page) => PageCrashes(answer.page)
  /\ client \in {"ready", "scanning", "ended"} => columns = RepairedColumns(answer.page)

\* In a described result the next line is the one behind those delivered.
PlaceInv ==
  Described =>
    /\ client = "scanning" => pos = Len(delivered) + 2
    /\ Len(delivered) < Len(answer.object)

IInv == /\ TypeOK /\ ColumnsInv /\ PlaceInv
        /\ MaskedNeverShown /\ NumbersFit /\ ScansInBounds /\ RowsAreTold

USE ResultsAssumption
-----------------------------------------------------------------------------
(* What a field becomes. *)

LEMMA ValueOf ==
  \A type, text : Value(type, text).type = type /\ Value(type, text).text = text
BY DEF Value

LEMMA Outcomes == Failure.type = "error" /\ Crash.type = "panic"
BY DEF Failure, Crash, Value

LEMMA ScanTimeIs ==
  ASSUME NEW text
  PROVE  \/ ScanTime(text) \in {Failure, Value("time", text)}
         \/ ScanTime(text) = Crash /\ Len(text) > 1 /\ text[Len(text)] = "none"
BY DEF ScanTime

LEMMA GoValueIs ==
  ASSUME NEW type, NEW text
  PROVE  \/ GoValue(type, text) = Failure
         \/ GoValue(type, text) = Crash /\ Len(text) > 1 /\ text[Len(text)] = "none"
         \/ \E t \in GoTypes :
              /\ GoValue(type, text) = Value(t, text)
              /\ t \in {"int8", "int16", "int32", "int64"} => ParsesAsInt(text, GoBits[t])
<1>1. \/ /\ type \in DOMAIN IntTypes /\ ParsesAsInt(text, GoBits[IntTypes[type]])
         /\ GoValue(type, text) = Value(IntTypes[type], text)
      \/ /\ type \in DOMAIN FloatTypes
         /\ GoValue(type, text) = Value(FloatTypes[type], text)
      \/ GoValue(type, text) \in {Failure, Value("string", text), Value("bool", text), ScanTime(text)}
  BY DEF GoValue
<1>2. ASSUME type \in DOMAIN IntTypes
      PROVE  IntTypes[type] \in {"int8", "int16", "int32", "int64"}
  BY <1>2 DEF IntTypes
<1>3. ASSUME type \in DOMAIN FloatTypes
      PROVE  FloatTypes[type] \in {"float32", "float64"}
  BY <1>3 DEF FloatTypes
<1>4. {"int8", "int16", "int32", "int64", "float32", "float64", "string", "bool", "time"}
        \subseteq GoTypes
  BY DEF GoTypes, GoBits
<1>5. ASSUME type \in DOMAIN FloatTypes, GoValue(type, text) = Value(FloatTypes[type], text)
      PROVE  \E t \in GoTypes : /\ GoValue(type, text) = Value(t, text)
                                 /\ t \notin {"int8", "int16", "int32", "int64"}
  BY <1>3, <1>4, <1>5
<1>6. ASSUME GoValue(type, text) \in {Failure, Value("string", text), Value("bool", text), ScanTime(text)}
      PROVE  \/ GoValue(type, text) = Failure
             \/ GoValue(type, text) = Crash /\ Len(text) > 1 /\ text[Len(text)] = "none"
             \/ \E t \in GoTypes : /\ GoValue(type, text) = Value(t, text)
                                   /\ t \notin {"int8", "int16", "int32", "int64"}
  BY <1>4, <1>6, ScanTimeIs
<1>7. QED
  BY <1>1, <1>2, <1>4, <1>5, <1>6

LEMMA MissingValueIs ==
  ASSUME NEW type, options \in Options
  PROVE  \/ MissingValue(type) = Failure
         \/ \E t \in GoTypes \ {"int8", "int16", "int32", "int64"}, x \in {Null, Empty} :
              MissingValue(type) = Value(t, x)
<1>1. \E t \in {"int", "float64", "bool", "time", "string"} : DefaultValue(type) = Value(t, Empty)
  BY DEF DefaultValue
<1>2. {"int", "float64", "bool", "time", "string", "nil"} \subseteq
        GoTypes \ {"int8", "int16", "int32", "int64"}
  BY DEF GoTypes, GoBits
<1>3. MissingValue(type) \in {Untouched, Value("string", Empty), DefaultValue(type), Failure}
  BY DEF MissingValue
<1>4. QED
  BY <1>1, <1>2, <1>3 DEF Untouched, Null

LEMMA MissingIsText == Null \in Text /\ Empty \in Text
BY DEF Null, Empty, Text

\* A converted field is a value, and says what the field says.
LEMMA ConvertIs ==
  ASSUME NEW c, NEW f \in Text, options \in Options, Convert(c, f) \notin {Failure, Crash}
  PROVE  /\ Convert(c, f) \in Values
         /\ Masked(c) => Convert(c, f) = MaskValue(c)
         /\ ~Masked(c) => \A w \in DOMAIN IntBits :
              Convert(c, f).type \in {"int8", "int16", "int32", "int64"} /\ Convert(c, f).text = <<w>>
                => IntBits[w] <= GoBits[Convert(c, f).type]
         /\ Tells(Convert(c, f), c, f)
<1>1. CASE Masked(c)
  <2>1. Convert(c, f) = MaskValue(c) /\ options.masked[c.name] \in Text
    BY <1>1 DEF Convert, Masked, Text
  <2>2. MaskValue(c) \in Values
    BY <2>1 DEF MaskValue, Value, Values, GoTypes
  <2>3. QED
    BY <1>1, <2>1, <2>2 DEF Tells
<1>2. CASE ~Masked(c) /\ IsMissing(f)
  <2>1. Convert(c, f) = MissingValue(c.type)
    BY <1>2 DEF Convert
  <2>2. PICK t \in GoTypes \ {"int8", "int16", "int32", "int64"}, x \in {Null, Empty} :
          Convert(c, f) = Value(t, x)
    BY <2>1, MissingValueIs
  <2>3. Convert(c, f) \in Values /\ Convert(c, f).type = t
    BY <2>2, MissingIsText DEF Value, Values
  <2>4. QED
    BY <1>2, <2>1, <2>2, <2>3 DEF Tells
<1>3. CASE ~Masked(c) /\ ~IsMissing(f)
  <2>1. Convert(c, f) = GoValue(c.type, f)
    BY <1>3 DEF Convert
  <2>2. PICK t \in GoTypes : /\ Convert(c, f) = Value(t, f)
                             /\ t \in {"int8", "int16", "int32", "int64"} =>
                                  ParsesAsInt(f, GoBits[t])
    BY <2>1, GoValueIs
  <2>3. Convert(c, f) \in Values /\ Convert(c, f).type = t /\ Convert(c, f).text = f
    BY <2>2 DEF Value, Values
  <2>4. ASSUME NEW w \in DOMAIN IntBits, t \in {"int8", "int16", "int32", "int64"}, f = <<w>>
        PROVE  IntBits[w] <= GoBits[t]
    BY <2>2, <2>4 DEF ParsesAsInt
  <2>5. QED
    BY <1>3, <2>3, <2>4 DEF Tells
<1>4. QED
  BY <1>1, <1>2, <1>3

LEMMA CrashIs ==
  ASSUME NEW c, NEW f, options \in Options, Convert(c, f) = Crash
  PROVE  Len(f) > 1 /\ f[Len(f)] = "none"
<1>1. ~Masked(c)
  BY ValueOf, Outcomes DEF Convert, MaskValue
<1>2. ~IsMissing(f)
  <2>1. SUFFICES ASSUME IsMissing(f) PROVE FALSE
    OBVIOUS
  <2>2. MissingValue(c.type) = Crash
    BY <1>1, <2>1 DEF Convert
  <2>3. "panic" \notin GoTypes
    BY DEF GoTypes, GoBits
  <2>4. QED
    BY <2>2, <2>3, MissingValueIs, ValueOf, Outcomes
<1>3. GoValue(c.type, f) = Crash
  BY <1>1, <1>2 DEF Convert
<1>4. "panic" \notin GoTypes
  BY DEF GoTypes, GoBits
<1>5. QED
  BY <1>3, <1>4, GoValueIs, ValueOf, Outcomes
-----------------------------------------------------------------------------
(* The repaired page. *)

LEMMA PaddedIs ==
  ASSUME NEW cols \in Seq(AnyColumn), NEW width \in Nat, Len(cols) < width
  PROVE  Padded(cols, width) \in Seq(AnyColumn) /\ Len(Padded(cols, width)) = width
<1> DEFINE more == [i \in 1..(width - Len(cols)) |->
                      [name |-> "_col" \o ToString(Len(cols) + i - 1), type |-> "string"]]
<1>1. ASSUME NEW i \in 1..(width - Len(cols))
      PROVE  more[i] \in AnyColumn
  <2>1. Len(cols) + i - 1 \in Nat
    OBVIOUS
  <2>2. QED
    BY <2>1 DEF AnyColumn
<1>2. more \in Seq(AnyColumn) /\ Len(more) = width - Len(cols)
  <2> HIDE DEF more
  <2>1. width - Len(cols) \in Nat
    OBVIOUS
  <2>2. more \in [1..(width - Len(cols)) -> AnyColumn]
    BY <1>1 DEF more
  <2>3. more \in Seq(AnyColumn)
    BY <2>1, <2>2, SeqDef
  <2>4. DOMAIN more = 1..(width - Len(cols))
    BY DEF more
  <2>5. QED
    BY <2>1, <2>3, <2>4
<1>3. Padded(cols, width) = cols \o more
  BY DEF Padded
<1>4. QED
  <2> HIDE DEF more
  <2>1. QED
    BY <1>2, <1>3

LEMMA RepairIs ==
  ASSUME NEW p, p.columns \in Seq([name : Words, type : STRING]), p.rows \in Seq(Seq(Text))
  PROVE  /\ RepairedColumns(p) \in Seq(AnyColumn)
         /\ Len(RepairedColumns(p)) >= Len(p.columns)
         /\ p.metadata = "list" /\ p.rows # <<>> => Len(RepairedColumns(p)) >= Len(p.rows[1])
<1>1. p.columns \in Seq(AnyColumn)
  <2>1. [name : Words, type : STRING] \subseteq AnyColumn
    BY DEF AnyColumn
  <2>2. QED
    BY <2>1, SeqMonotonic
<1>2. CASE p.metadata = "list" /\ p.rows # <<>> /\ Len(p.columns) < Len(p.rows[1])
  <2>1. Len(p.rows[1]) \in Nat
    BY <1>2
  <2>2. RepairedColumns(p) = Padded(p.columns, Len(p.rows[1]))
    BY <1>2 DEF RepairedColumns
  <2>3. QED
    BY <1>1, <1>2, <2>1, <2>2, PaddedIs
<1>3. CASE ~(p.metadata = "list" /\ p.rows # <<>> /\ Len(p.columns) < Len(p.rows[1]))
  <2>1. RepairedColumns(p) = p.columns
    BY <1>3 DEF RepairedColumns
  <2>2. p.rows # <<>> => Len(p.rows[1]) \in Nat
    OBVIOUS
  <2>3. QED
    BY <1>1, <1>3, <2>1, <2>2
<1>4. QED
  BY <1>2, <1>3

\* A described page needs no repair.
LEMMA DescribedIs ==
  ASSUME TypeOK, Described
  PROVE  /\ answer.object \in Seq(Seq(Text)) /\ Len(answer.object) > 0 /\ answer.stored
         /\ RepairedColumns(answer.page) = answer.page.columns
         /\ ~PageCrashes(answer.page)
         /\ NoMoreRows(answer.page) => Len(answer.object) = 1
         /\ \A k \in DOMAIN answer.object :
              /\ DOMAIN answer.object[k] = DOMAIN answer.page.columns
              /\ ~Blank(answer.object[k])
<1> DEFINE p == answer.page
<1>1. /\ answer.object \in Seq(Seq(Text)) /\ p.rows \in Seq(Seq(Text))
      /\ p.columns \in Seq([name : Words, type : STRING])
  BY DEF TypeOK
<1>2. /\ p.metadata = "list" /\ answer.stored /\ answer.object # <<>>
      /\ StartsWithHeading(p.rows, p.columns) /\ (Len(p.rows) > 1 <=> Len(answer.object) > 1)
      /\ \A k \in DOMAIN answer.object :
           Len(answer.object[k]) = Len(p.columns) /\ ~Blank(answer.object[k])
  BY DEF Described
<1>3. p.rows # <<>> /\ Len(p.rows[1]) = Len(p.columns) /\ p.columns # <<>>
  BY <1>2 DEF StartsWithHeading
<1> HIDE DEF p
<1>4. ~Narrow(p) /\ ~OnlyCounts(p)
  <2>1. ~Narrow(p)
    <3>1. SUFFICES ASSUME Narrow(p) PROVE FALSE
      OBVIOUS
    <3>2. Len(p.rows[1]) = 1 /\ Len(p.columns) > 1
      BY <3>1 DEF Narrow
    <3>3. Len(p.columns) = 1
      BY <1>3, <3>2
    <3>4. QED
      BY <3>2, <3>3
  <2>2. ~OnlyCounts(p)
    BY <1>3 DEF OnlyCounts
  <2>3. QED
    BY <2>1, <2>2
<1>5. RepairedColumns(p) = p.columns /\ RepairedRows(p) = p.rows
  BY <1>1, <1>3, <1>4 DEF RepairedColumns, RepairedRows
<1>6. ~PageCrashes(p)
  BY <1>2, <1>4 DEF PageCrashes
<1>7. Len(answer.object) > 0 /\ Len(answer.object) \in Nat /\ Len(p.rows) \in Nat
  BY <1>1, <1>2
<1>8. NoMoreRows(p) => Len(answer.object) = 1
  <2>1. NoMoreRows(p) <=> Len(p.rows) <= 1
    BY <1>2, <1>5 DEF NoMoreRows
  <2>2. Len(p.rows) > 1 <=> Len(answer.object) > 1
    BY <1>2
  <2>3. \A n \in Nat : n > 0 /\ ~(n > 1) => n = 1
    OBVIOUS
  <2>4. ASSUME Len(p.rows) <= 1
        PROVE  Len(answer.object) = 1
    <3>1. ~(Len(answer.object) > 1)
      BY <1>7, <2>2, <2>4
    <3>2. QED
      BY <1>7, <2>3, <3>1
  <2>5. QED
    BY <2>1, <2>4
<1>9. \A k \in DOMAIN answer.object : DOMAIN answer.object[k] = DOMAIN p.columns
  BY <1>1, <1>2
<1>10. QED
  BY <1>1, <1>2, <1>5, <1>6, <1>7, <1>8, <1>9 DEF p
-----------------------------------------------------------------------------
(* A delivered row. *)

Row(line) == [i \in DOMAIN columns |-> IF i \in DOMAIN line THEN FieldValue(line, i) ELSE Untouched]

\* What MaskedNeverShown and NumbersFit say of one value.
Keeps(v, c) ==
  /\ Masked(c) => v \in {MaskValue(c), Untouched}
  /\ ~Masked(c) =>
       \A w \in DOMAIN IntBits : v.type \in {"int8", "int16", "int32", "int64"} /\ v.text = <<w>> =>
         IntBits[w] <= GoBits[v.type]

LEMMA UntouchedIs == Untouched \in Values /\ \A c : Keeps(Untouched, c)
<1>1. Untouched.type = "nil" /\ Untouched \in Values
  BY MissingIsText DEF Untouched, Value, Values, GoTypes, Null
<1>2. QED
  BY <1>1 DEF Keeps

LEMMA RowIs ==
  ASSUME TypeOK, NEW line \in Seq(Text), \A i \in DOMAIN line : ~Bad(line, i),
         NEW i \in DOMAIN columns
  PROVE  /\ Row(line)[i] \in Values
         /\ Keeps(Row(line)[i], columns[i])
         /\ i \in DOMAIN line => Tells(Row(line)[i], columns[i], line[i])
<1>1. CASE i \in DOMAIN line
  <2>1. Row(line)[i] = Convert(columns[i], line[i])
    BY <1>1 DEF Row, FieldValue
  <2>2. Convert(columns[i], line[i]) \notin {Failure, Crash}
    BY <1>1 DEF Bad, FieldValue
  <2>3. line[i] \in Text /\ options \in Options
    BY <1>1, ElementOfSeq DEF TypeOK
  <2>4. QED
    BY <2>1, <2>2, <2>3, ConvertIs DEF Keeps
<1>2. CASE i \notin DOMAIN line
  <2>1. Row(line)[i] = Untouched
    BY <1>2 DEF Row
  <2>2. QED
    BY <1>2, <2>1, UntouchedIs
<1>3. QED
  BY <1>1, <1>2

\* What a step leaves alone, the delivered rows say as before.
LEMMA KeptRows ==
  ASSUME MaskedNeverShown, NumbersFit, UNCHANGED <<options, columns, delivered>>
  PROVE  MaskedNeverShown' /\ NumbersFit'
BY DEF MaskedNeverShown, NumbersFit, Masked, MaskValue

LEMMA NoRows ==
  ASSUME delivered = <<>>, UNCHANGED delivered
  PROVE  MaskedNeverShown' /\ NumbersFit'
BY DEF MaskedNeverShown, NumbersFit
-----------------------------------------------------------------------------
(* The invariant is inductive. *)

LEMMA SameAnswer ==
  ASSUME UNCHANGED answer
  PROVE  Described' <=> Described
BY DEF Described

\* A described result: the next line is the one at pos, and there is one
\* unless pos is behind the last.
LEMMA NextLineIs ==
  ASSUME TypeOK, Described
  PROVE  /\ \A n \in DOMAIN answer.object : NextLine(n) => n = pos
         /\ NoLine => pos > Len(answer.object)
<1>1. /\ Len(answer.object) \in Nat /\ DOMAIN answer.object = 1..Len(answer.object)
      /\ \A k \in DOMAIN answer.object : ~Blank(answer.object[k])
  BY DescribedIs
<1>2. pos \in Nat \ {0}
  BY DEF TypeOK
<1>3. ASSUME NEW n \in DOMAIN answer.object, NextLine(n), n # pos
      PROVE  FALSE
  <2>1. n \in pos..Len(answer.object) /\ \A m \in pos..(n - 1) : Blank(answer.object[m])
    BY <1>3 DEF NextLine
  <2>2. pos \in pos..(n - 1) /\ pos \in 1..Len(answer.object)
    BY <1>1, <1>2, <1>3, <2>1
  <2>3. QED
    BY <1>1, <2>1, <2>2
<1>4. ASSUME NoLine, ~(pos > Len(answer.object))
      PROVE  FALSE
  <2>1. pos \in pos..Len(answer.object) /\ pos \in 1..Len(answer.object)
    BY <1>1, <1>2, <1>4
  <2>2. QED
    BY <1>1, <1>4, <2>1 DEF NoLine
<1>5. QED
  BY <1>3, <1>4

LEMMA InitInv ==
  ASSUME Init
  PROVE  IInv
<1>1. TypeOK
  <2>1. DOMAIN columns = 1..Len(columns)
    BY DEF Init
  <2>2. delivered \in Seq([DOMAIN columns -> [type : GoTypes, text : Text]])
    BY DEF Init
  <2>3. answer \in Answers /\ options \in Options /\ lastPage \in BOOLEAN
    BY DEF Init
  <2>4. client = "new" /\ pos = 1 /\ verdict = "none"
    BY DEF Init
  <2>5. QED
    BY <2>1, <2>2, <2>3, <2>4 DEF TypeOK
<1>2. ColumnsInv
  BY DEF Init, ColumnsInv
<1>3. PlaceInv
  <2>1. ASSUME Described PROVE 0 < Len(answer.object)
    BY <1>1, <2>1, DescribedIs
  <2>2. Len(delivered) = 0 /\ client = "new"
    BY DEF Init
  <2>3. QED
    BY <2>1, <2>2 DEF PlaceInv
<1>4. MaskedNeverShown /\ NumbersFit
  BY DEF Init, MaskedNeverShown, NumbersFit
<1>5. ScansInBounds /\ RowsAreTold
  BY DEF Init, ScansInBounds, RowsAreTold
<1>6. QED
  BY <1>1, <1>2, <1>3, <1>4, <1>5 DEF IInv

LEMMA NewRowsKeeps ==
  ASSUME IInv, NewRows
  PROVE  IInv'
<1>1. /\ client = "new" /\ delivered = <<>> /\ pos = 1 /\ verdict = "none"
      /\ UNCHANGED <<answer, options, pos, delivered, verdict>>
      /\ answer \in Answers
  BY DEF IInv, NewRows, ColumnsInv, TypeOK
<1>2. \/ PageCrashes(answer.page) /\ client' = "panicked" /\ UNCHANGED columns
      \/ /\ ~PageCrashes(answer.page) /\ client' = "ready"
         /\ columns' = RepairedColumns(answer.page) /\ lastPage' = NoMoreRows(answer.page)
  BY DEF NewRows
<1>3. RepairedColumns(answer.page) \in Seq(AnyColumn)
  BY <1>1, RepairIs
<1>4. columns' \in Seq(AnyColumn)
  BY <1>2, <1>3 DEF IInv, ColumnsInv
<1>5. TypeOK'
  <2>1. lastPage' \in BOOLEAN
    <3>1. lastPage \in BOOLEAN
      BY DEF IInv, TypeOK
    <3>2. NoMoreRows(answer.page) \in BOOLEAN
      BY DEF NoMoreRows
    <3>3. QED
      BY <1>2, <3>1, <3>2 DEF NewRows
  <2>2. DOMAIN columns' = 1..Len(columns')
    BY <1>4
  <2>3. delivered' \in Seq([DOMAIN columns' -> [type : GoTypes, text : Text]])
    BY <1>1
  <2>4. QED
    BY <1>1, <1>2, <2>1, <2>2, <2>3 DEF IInv, TypeOK
<1>6. ColumnsInv'
  BY <1>1, <1>2, <1>4 DEF ColumnsInv
<1>7. PlaceInv'
  BY <1>1, <1>2, SameAnswer DEF IInv, PlaceInv
<1>8. MaskedNeverShown' /\ NumbersFit'
  BY <1>1, NoRows
<1>9. ScansInBounds'
  BY <1>1, <1>2 DEF ScansInBounds
<1>10. RowsAreTold'
  BY <1>1 DEF RowsAreTold
<1>11. QED
  BY <1>5, <1>6, <1>7, <1>8, <1>9, <1>10 DEF IInv

LEMMA OpenResultsKeeps ==
  ASSUME IInv, OpenResults
  PROVE  IInv'
<1>1. /\ client = "ready" /\ delivered = <<>> /\ pos = 1 /\ verdict = "none"
      /\ UNCHANGED <<answer, options, columns, lastPage, delivered>>
      /\ lastPage = NoMoreRows(answer.page)
  BY DEF IInv, OpenResults, ColumnsInv, TypeOK
<1>2. \/ /\ client' = "ended" /\ verdict' = "error" /\ UNCHANGED pos
      \/ /\ client' = "ended" /\ verdict' = "eof" /\ UNCHANGED pos
         /\ answer.stored /\ (NoLine \/ lastPage)
      \/ /\ client' = "scanning" /\ UNCHANGED verdict
         /\ \E n \in DOMAIN answer.object : NextLine(n) /\ pos' = n + 1
  BY DEF OpenResults, End
<1>3. TypeOK'
  <2>1. pos' \in Nat \ {0}
    <3>1. answer.object \in Seq(Seq(Text))
      BY DEF IInv, TypeOK
    <3>2. QED
      BY <1>1, <1>2, <3>1
  <2>2. QED
    BY <1>1, <1>2, <2>1 DEF IInv, TypeOK
<1>4. ColumnsInv'
  BY <1>1, <1>2 DEF IInv, ColumnsInv
<1>5. PlaceInv'
  <2>1. SUFFICES ASSUME Described, client' = "scanning"
                 PROVE  pos' = Len(delivered') + 2
    BY <1>1, SameAnswer DEF IInv, PlaceInv
  <2>2. pos' = pos + 1
    BY <1>2, <2>1, NextLineIs DEF IInv
  <2>3. QED
    BY <1>1, <2>2
<1>6. MaskedNeverShown' /\ NumbersFit'
  BY <1>1, NoRows
<1>7. ScansInBounds'
  BY <1>2 DEF ScansInBounds
<1>8. RowsAreTold'
  <2>1. SUFFICES ASSUME Described, verdict' = "eof"
                 PROVE  Len(delivered') = Len(answer'.object) - 1
    BY <1>1, SameAnswer DEF RowsAreTold
  <2>2. ~NoLine
    <3>1. Len(answer.object) > 0 /\ Len(answer.object) \in Nat
      BY <2>1, DescribedIs DEF IInv
    <3>2. QED
      BY <1>1, <2>1, <3>1, NextLineIs DEF IInv
  <2>3. NoMoreRows(answer.page)
    BY <1>1, <1>2, <2>1, <2>2
  <2>4. Len(answer.object) = 1
    BY <2>1, <2>3, DescribedIs DEF IInv
  <2>5. QED
    BY <1>1, <2>4
<1>9. QED
  BY <1>3, <1>4, <1>5, <1>6, <1>7, <1>8 DEF IInv

\* The lines of the object, and the next of them.
LEMMA LineIs ==
  ASSUME IInv, NEW n \in DOMAIN answer.object, NextLine(n)
  PROVE  /\ answer.object[n] \in Seq(Text) /\ n \in Nat \ {0} /\ n <= Len(answer.object)
         /\ Described => n = Len(delivered) + 2 \/ client # "scanning"
<1>1. answer.object \in Seq(Seq(Text))
  BY DEF IInv, TypeOK
<1>2. Described => n = pos
  BY NextLineIs DEF IInv
<1>3. QED
  BY <1>1, <1>2 DEF IInv, PlaceInv

LEMMA StopKeeps ==
  ASSUME IInv, client = "scanning", client' = "ended", verdict' = "error",
         UNCHANGED <<answer, options, columns, lastPage, pos, delivered>>
  PROVE  IInv'
<1>1. TypeOK' /\ ColumnsInv'
  BY DEF IInv, TypeOK, ColumnsInv
<1>2. PlaceInv'
  BY SameAnswer DEF IInv, PlaceInv
<1>3. MaskedNeverShown' /\ NumbersFit'
  BY KeptRows DEF IInv
<1>4. ScansInBounds'
  BY DEF ScansInBounds
<1>5. RowsAreTold'
  BY SameAnswer DEF IInv, RowsAreTold, Tells, Masked, MaskValue, MissingValue
<1>6. QED
  BY <1>1, <1>2, <1>3, <1>4, <1>5 DEF IInv

LEMMA PanicKeeps ==
  ASSUME IInv, client = "scanning", client' = "panicked",
         UNCHANGED <<answer, options, columns, lastPage, pos, delivered, verdict>>,
         NEW n \in DOMAIN answer.object, NextLine(n),
         NEW i \in DOMAIN answer.object[n], FieldValue(answer.object[n], i) = Crash
  PROVE  IInv'
<1> DEFINE line == answer.object[n]
<1>1. TypeOK' /\ ColumnsInv'
  BY DEF IInv, TypeOK, ColumnsInv
<1>2. PlaceInv'
  BY SameAnswer DEF IInv, PlaceInv
<1>3. MaskedNeverShown' /\ NumbersFit'
  BY KeptRows DEF IInv
<1>4. ScansInBounds'
  <2>1. SUFFICES ASSUME answer.page.metadata = "list"
                 PROVE  \/ /\ Len(line) > Len(answer.page.columns)
                           /\ answer.page.rows # <<>> => Len(line) > Len(answer.page.rows[1])
                        \/ Len(line[i]) > 1 /\ line[i][Len(line[i])] = "none"
    BY DEF ScansInBounds
  <2>2. CASE i \in DOMAIN columns
    <3>1. Convert(columns[i], line[i]) = Crash
      BY <2>2 DEF FieldValue
    <3>2. QED
      BY <3>1, CrashIs DEF IInv, TypeOK
  <2>3. CASE i \notin DOMAIN columns
    <3>1. /\ answer.page.columns \in Seq([name : Words, type : STRING])
          /\ answer.page.rows \in Seq(Seq(Text))
          /\ columns = RepairedColumns(answer.page)
      BY DEF IInv, TypeOK, ColumnsInv
    <3>2. /\ columns \in Seq(AnyColumn) /\ Len(columns) >= Len(answer.page.columns)
          /\ answer.page.rows # <<>> => Len(columns) >= Len(answer.page.rows[1])
      BY <2>1, <3>1, RepairIs
    <3>3. i > Len(columns) /\ Len(line) >= i /\ i \in Nat /\ Len(line) \in Nat
      BY <2>3, <3>2, LineIs
    <3>4. Len(answer.page.columns) \in Nat /\ (answer.page.rows # <<>> => Len(answer.page.rows[1]) \in Nat)
      BY <3>1
    <3>5. QED
      BY <3>2, <3>3, <3>4
  <2>4. QED
    BY <2>2, <2>3
<1>5. RowsAreTold'
  BY SameAnswer DEF IInv, RowsAreTold, Tells, Masked, MaskValue, MissingValue
<1>6. QED
  BY <1>1, <1>2, <1>3, <1>4, <1>5 DEF IInv

LEMMA DeliverKeeps ==
  ASSUME IInv, client = "scanning", UNCHANGED <<answer, options, columns, lastPage, client, verdict>>,
         NEW n \in DOMAIN answer.object, NextLine(n),
         \A i \in DOMAIN answer.object[n] : ~Bad(answer.object[n], i),
         delivered' = Append(delivered, Row(answer.object[n])), pos' = n + 1
  PROVE  IInv'
<1> DEFINE line == answer.object[n]
           S == [DOMAIN columns -> [type : GoTypes, text : Text]]
<1>1. /\ line \in Seq(Text) /\ n \in Nat \ {0} /\ n <= Len(answer.object)
      /\ Described => n = Len(delivered) + 2
  BY LineIs
<1>2. TypeOK
  BY DEF IInv
<1>3. \A i \in DOMAIN columns :
         /\ Row(line)[i] \in Values
         /\ Keeps(Row(line)[i], columns[i])
         /\ i \in DOMAIN line => Tells(Row(line)[i], columns[i], line[i])
  BY <1>1, <1>2, RowIs
<1>4. Row(line) \in S
  BY <1>3 DEF Row, Values
<1>5. delivered \in Seq(S)
  BY <1>2 DEF TypeOK
<1> HIDE DEF S
<1>6. /\ delivered' \in Seq(S) /\ Len(delivered') = Len(delivered) + 1
      /\ DOMAIN delivered' = 1..(Len(delivered) + 1)
      /\ DOMAIN delivered = 1..Len(delivered) /\ Len(delivered) \in Nat
      /\ \A k \in DOMAIN delivered : delivered'[k] = delivered[k]
      /\ delivered'[Len(delivered) + 1] = Row(line)
  BY <1>4, <1>5
<1>7. TypeOK'
  BY <1>1, <1>2, <1>6 DEF TypeOK, S
<1>8. ColumnsInv'
  BY DEF IInv, ColumnsInv
<1>9. PlaceInv'
  <2>1. Len(answer.object) \in Nat
    BY <1>2 DEF TypeOK
  <2>2. QED
    BY <1>1, <1>6, <2>1, SameAnswer DEF PlaceInv
<1>10. \A k \in DOMAIN delivered' : k \in DOMAIN delivered \/ k = Len(delivered) + 1
  BY <1>6
<1>11. \A k \in DOMAIN delivered' : \A i \in DOMAIN columns : Keeps(delivered'[k][i], columns[i])
  <2>1. \A k \in DOMAIN delivered : \A i \in DOMAIN columns : Keeps(delivered[k][i], columns[i])
    BY DEF IInv, MaskedNeverShown, NumbersFit, Keeps
  <2>2. QED
    BY <1>3, <1>6, <1>10, <2>1
<1>12. MaskedNeverShown' /\ NumbersFit'
  BY <1>11 DEF MaskedNeverShown, NumbersFit, Keeps, Masked, MaskValue
<1>13. ScansInBounds'
  BY DEF ScansInBounds
<1>14. RowsAreTold'
  <2>1. SUFFICES ASSUME Described
                 PROVE  \A k \in DOMAIN delivered' : \A i \in DOMAIN columns :
                          /\ k + 1 \in DOMAIN answer.object
                          /\ Tells(delivered'[k][i], columns[i], answer.object[k + 1][i])
    <3>1. verdict = "none"
      BY <1>2 DEF TypeOK
    <3>2. QED
      BY <3>1, SameAnswer DEF RowsAreTold, Tells, Masked, MaskValue, MissingValue
  <2>2. \A k \in DOMAIN delivered : \A i \in DOMAIN columns :
           /\ k + 1 \in DOMAIN answer.object
           /\ Tells(delivered[k][i], columns[i], answer.object[k + 1][i])
    BY <2>1 DEF IInv, RowsAreTold
  <2>3. DOMAIN columns = DOMAIN line
    BY <1>2, <2>1, DescribedIs DEF IInv, ColumnsInv
  <2>4. n = (Len(delivered) + 1) + 1
    BY <1>1, <1>6, <2>1
  <2>5. QED
    BY <1>3, <1>6, <1>10, <2>2, <2>3, <2>4
<1>15. QED
  BY <1>7, <1>8, <1>9, <1>12, <1>13, <1>14 DEF IInv

LEMMA NextRowKeeps ==
  ASSUME IInv, NextRow
  PROVE  IInv'
<1>1. PICK n \in DOMAIN answer.object :
        LET line == answer.object[n] IN
        /\ NextLine(n)
        /\ \/ End("error") /\ UNCHANGED <<pos, delivered>>
           \/ /\ \E i \in DOMAIN line :
                   /\ FieldValue(line, i) = Crash
                   /\ client' = "panicked" /\ UNCHANGED verdict
              /\ UNCHANGED <<pos, delivered>>
           \/ /\ \A i \in DOMAIN line : ~Bad(line, i)
              /\ delivered' = Append(delivered, Row(line))
              /\ pos' = n + 1
              /\ UNCHANGED <<client, verdict>>
  BY DEF NextRow, Row
<1>2. client = "scanning" /\ UNCHANGED <<answer, options, columns, lastPage>>
  BY DEF NextRow
<1>3. CASE End("error") /\ UNCHANGED <<pos, delivered>>
  BY <1>2, <1>3, StopKeeps DEF End
<1>4. CASE /\ \E i \in DOMAIN answer.object[n] :
                /\ FieldValue(answer.object[n], i) = Crash
                /\ client' = "panicked" /\ UNCHANGED verdict
           /\ UNCHANGED <<pos, delivered>>
  BY <1>1, <1>2, <1>4, PanicKeeps
<1>5. CASE /\ \A i \in DOMAIN answer.object[n] : ~Bad(answer.object[n], i)
           /\ delivered' = Append(delivered, Row(answer.object[n]))
           /\ pos' = n + 1
           /\ UNCHANGED <<client, verdict>>
  BY <1>1, <1>2, <1>5, DeliverKeeps
<1>6. QED
  BY <1>1, <1>3, <1>4, <1>5

LEMMA NextEofKeeps ==
  ASSUME IInv, NextEof
  PROVE  IInv'
<1>1. /\ client = "scanning" /\ NoLine /\ client' = "ended" /\ verdict' = "eof"
      /\ UNCHANGED <<answer, options, columns, lastPage, pos, delivered>>
  BY DEF NextEof, End
<1>2. TypeOK' /\ ColumnsInv'
  BY <1>1 DEF IInv, TypeOK, ColumnsInv
<1>3. PlaceInv'
  BY <1>1, SameAnswer DEF IInv, PlaceInv
<1>4. MaskedNeverShown' /\ NumbersFit'
  BY <1>1, KeptRows DEF IInv
<1>5. ScansInBounds'
  BY <1>1 DEF ScansInBounds
<1>6. RowsAreTold'
  <2>1. Described => Len(delivered) = Len(answer.object) - 1
    <3>1. SUFFICES ASSUME Described
                   PROVE  Len(delivered) = Len(answer.object) - 1
      OBVIOUS
    <3>2. Len(answer.object) \in Nat /\ Len(delivered) \in Nat
      BY DEF IInv, TypeOK
    <3>3. pos = Len(delivered) + 2 /\ Len(delivered) < Len(answer.object)
      BY <1>1, <3>1 DEF IInv, PlaceInv
    <3>4. pos > Len(answer.object)
      BY <1>1, <3>1, NextLineIs DEF IInv
    <3>5. QED
      BY <3>2, <3>3, <3>4
  <2>2. QED
    BY <1>1, <2>1, SameAnswer DEF IInv, RowsAreTold, Tells, Masked, MaskValue, MissingValue
<1>7. QED
  BY <1>2, <1>3, <1>4, <1>5, <1>6 DEF IInv

LEMMA StutterKeeps ==
  ASSUME IInv, UNCHANGED vars
  PROVE  IInv'
<1>1. TypeOK' /\ ColumnsInv'
  BY DEF vars, IInv, TypeOK, ColumnsInv
<1>2. PlaceInv'
  BY SameAnswer DEF vars, IInv, PlaceInv
<1>3. MaskedNeverShown' /\ NumbersFit'
  BY KeptRows DEF vars, IInv
<1>4. ScansInBounds'
  BY DEF vars, IInv, ScansInBounds
<1>5. RowsAreTold'
  BY SameAnswer DEF vars, IInv, RowsAreTold, Tells, Masked, MaskValue, MissingValue
<1>6. QED
  BY <1>1, <1>2, <1>3, <1>4, <1>5 DEF IInv

LEMMA Inductive == Spec => []IInv
<1>1. Init => IInv
  BY InitInv
<1>2. IInv /\ [Next]_vars => IInv'
  BY NewRowsKeeps, OpenResultsKeeps, NextRowKeeps, NextEofKeeps, StutterKeeps DEF Next
<1>3. QED
  BY <1>1, <1>2, PTL DEF Spec
-----------------------------------------------------------------------------
\* A scan keeps to its states, and a delivered row has one value of a Go type
\* for each column: TypeOK.
THEOREM TypeCorrect == Spec => []TypeOK
<1>1. IInv => TypeOK
  BY DEF IInv
<1>2. QED
  BY <1>1, Inductive, PTL

\* The rows of a described result come one after the other, none left out or
\* added, to the end unless an error is reported: RowsAreTold.
THEOREM RowsTold == Spec => []RowsAreTold
<1>1. IInv => RowsAreTold
  BY DEF IInv
<1>2. QED
  BY <1>1, Inductive, PTL

\* No value of a masked column is ever handed out, for any page, object and
\* Config: MaskedNeverShown.
THEOREM MasksHold == Spec => []MaskedNeverShown
<1>1. IInv => MaskedNeverShown
  BY DEF IInv
<1>2. QED
  BY <1>1, Inductive, PTL

\* An integer is handed out in a Go type that has room for it: NumbersFit.
THEOREM NumbersHold == Spec => []NumbersFit
<1>1. IInv => NumbersFit
  BY DEF IInv
<1>2. QED
  BY <1>1, Inductive, PTL

\* With a list of columns, however short, a scan panics only on a line wider
\* than columns and page, or on a time that ends in a blank: ScansInBounds.
THEOREM BoundsHold == Spec => []ScansInBounds
<1>1. IInv => ScansInBounds
  BY DEF IInv
<1>2. QED
  BY <1>1, Inductive, PTL
-----------------------------------------------------------------------------
(* What a value shows of its column. *)

KindOf(type) ==
  IF type \in DOMAIN IntTypes THEN "integer"
  ELSE IF type \in DOMAIN FloatTypes THEN "floating"
  ELSE IF type = "boolean" THEN "bool"
  ELSE IF type \in TimeTypes THEN "time" ELSE "string"

\* A value of no letters is one of those that have another form, and a value is
\* of the kind that the type of its column stands for.
Shows(v, c) ==
  /\ v.text = Empty => v.type \in {"nil", "time"} \cup DOMAIN Zeros
  /\ options.missing # "empty" /\ ~Masked(c) /\ v.type # "nil" => Kind(v.type) = KindOf(c.type)

ShownInv == \A k \in DOMAIN delivered : \A i \in DOMAIN columns : Shows(delivered[k][i], columns[i])

LEMMA KindsAre ==
  /\ \A t \in {"int8", "int16", "int32", "int64", "int"} : Kind(t) = "integer"
  /\ \A t \in {"float32", "float64"} : Kind(t) = "floating"
  /\ \A t \in {"bool", "time", "string"} : Kind(t) = t
BY DEF Kind

\* A type settles the kind of the values that are parsed for it.
LEMMA GoValueShows ==
  ASSUME NEW type, NEW text, GoValue(type, text) \notin {Failure, Crash}
  PROVE  Kind(GoValue(type, text).type) = KindOf(type)
<1>1. CASE type \in DOMAIN IntTypes
  <2>1. type \notin DOMAIN FloatTypes \cup TextTypes \cup TimeTypes \cup {"boolean"}
    BY <1>1 DEF IntTypes, FloatTypes, TextTypes, TimeTypes
  <2>2. GoValue(type, text) = Value(IntTypes[type], text)
    BY <2>1 DEF GoValue
  <2>3. IntTypes[type] \in {"int8", "int16", "int32", "int64"}
    BY <1>1 DEF IntTypes
  <2>4. QED
    BY <1>1, <2>2, <2>3, ValueOf, KindsAre DEF KindOf
<1>2. CASE type \in DOMAIN FloatTypes
  <2>1. type \notin DOMAIN IntTypes \cup TextTypes \cup TimeTypes \cup {"boolean"}
    BY <1>2 DEF IntTypes, FloatTypes, TextTypes, TimeTypes
  <2>2. GoValue(type, text) = Value(FloatTypes[type], text)
    BY <2>1 DEF GoValue
  <2>3. FloatTypes[type] \in {"float32", "float64"}
    BY <1>2 DEF FloatTypes
  <2>4. QED
    BY <1>2, <2>1, <2>2, <2>3, ValueOf, KindsAre DEF KindOf
<1>3. CASE type = "boolean"
  <2>1. type \notin DOMAIN IntTypes \cup DOMAIN FloatTypes \cup TextTypes \cup TimeTypes
    BY <1>3 DEF IntTypes, FloatTypes, TextTypes, TimeTypes
  <2>2. GoValue(type, text) = Value("bool", text)
    BY <2>1 DEF GoValue
  <2>3. QED
    BY <1>3, <2>1, <2>2, ValueOf, KindsAre DEF KindOf
<1>4. CASE type \notin DOMAIN IntTypes \cup DOMAIN FloatTypes \cup {"boolean"}
  <2>1. CASE type \in TextTypes
    <3>1. type \notin TimeTypes
      BY <2>1 DEF TextTypes, TimeTypes
    <3>2. GoValue(type, text) = Value("string", text)
      BY <1>4, <2>1 DEF GoValue
    <3>3. QED
      BY <1>4, <3>1, <3>2, ValueOf, KindsAre DEF KindOf
  <2>2. CASE type \notin TextTypes
    <3>1. type \in TimeTypes /\ GoValue(type, text) = ScanTime(text)
      BY <1>4, <2>2 DEF GoValue
    <3>2. GoValue(type, text) = Value("time", text)
      BY <3>1, ScanTimeIs
    <3>3. QED
      BY <1>4, <3>1, <3>2, ValueOf, KindsAre DEF KindOf
  <2>3. QED
    BY <2>1, <2>2
<1>5. QED
  BY <1>1, <1>2, <1>3, <1>4

\* And the kind of those that stand for missing ones.
LEMMA DefaultValueShows ==
  ASSUME NEW type
  PROVE  /\ DefaultValue(type).type \in {"int", "float64", "bool", "time", "string"}
         /\ Kind(DefaultValue(type).type) = KindOf(type)
<1>1. \/ type \in DOMAIN IntTypes /\ DefaultValue(type) = Value("int", Empty)
      \/ /\ type \notin DOMAIN IntTypes /\ type \in DOMAIN FloatTypes
         /\ DefaultValue(type) = Value("float64", Empty)
      \/ /\ type \notin DOMAIN IntTypes \cup DOMAIN FloatTypes /\ type = "boolean"
         /\ DefaultValue(type) = Value("bool", Empty)
      \/ /\ type \notin DOMAIN IntTypes \cup DOMAIN FloatTypes \cup {"boolean"} /\ type \in TimeTypes
         /\ DefaultValue(type) = Value("time", Empty)
      \/ /\ type \notin DOMAIN IntTypes \cup DOMAIN FloatTypes \cup {"boolean"} \cup TimeTypes
         /\ DefaultValue(type) = Value("string", Empty)
  BY DEF DefaultValue
<1>2. QED
  BY <1>1, ValueOf, KindsAre DEF KindOf

LEMMA ConvertShows ==
  ASSUME NEW c, NEW f, options \in Options, Convert(c, f) \notin {Failure, Crash}
  PROVE  Shows(Convert(c, f), c)
<1>1. DOMAIN Zeros = {"int", "float64", "bool", "string"}
  BY DEF Zeros
<1>2. CASE Masked(c)
  <2>1. Convert(c, f).type = "string"
    BY <1>2, ValueOf DEF Convert, MaskValue
  <2>2. QED
    BY <1>1, <1>2, <2>1 DEF Shows
<1>3. CASE ~Masked(c) /\ IsMissing(f)
  <2>1. Convert(c, f) \in {Untouched, Value("string", Empty), DefaultValue(c.type)}
        /\ (options.missing # "empty" => Convert(c, f) \in {Untouched, DefaultValue(c.type)})
    BY <1>3 DEF Convert, MissingValue
  <2>2. Untouched.type = "nil" /\ Value("string", Empty).type = "string"
    BY ValueOf DEF Untouched
  <2>3. QED
    BY <1>1, <2>1, <2>2, DefaultValueShows DEF Shows
<1>4. CASE ~Masked(c) /\ ~IsMissing(f)
  <2>1. Convert(c, f) = GoValue(c.type, f) /\ f # Empty
    BY <1>4 DEF Convert, IsMissing
  <2>2. GoValue(c.type, f).text = f
    BY <2>1, GoValueIs, ValueOf
  <2>3. QED
    BY <2>1, <2>2, GoValueShows DEF Shows
<1>5. QED
  BY <1>2, <1>3, <1>4

LEMMA NextRowShows ==
  ASSUME IInv, ShownInv, NextRow
  PROVE  ShownInv'
<1>1. UNCHANGED <<answer, options, columns>> /\ options \in Options
  BY DEF NextRow, IInv, TypeOK
<1>2. CASE UNCHANGED delivered
  BY <1>1, <1>2 DEF ShownInv, Shows, Masked
<1>3. ASSUME NEW n \in DOMAIN answer.object,
             \A i \in DOMAIN answer.object[n] : ~Bad(answer.object[n], i),
             delivered' = Append(delivered, Row(answer.object[n]))
      PROVE  ShownInv'
  <2> DEFINE row == Row(answer.object[n])
  <2>1. ASSUME NEW i \in DOMAIN columns
        PROVE  Shows(row[i], columns[i])
    <3>1. CASE i \in DOMAIN answer.object[n]
      <4>1. row[i] = Convert(columns[i], answer.object[n][i])
        BY <3>1 DEF Row, FieldValue
      <4>2. Convert(columns[i], answer.object[n][i]) \notin {Failure, Crash}
        BY <1>3, <3>1 DEF Bad, FieldValue
      <4>3. QED
        BY <1>1, <4>1, <4>2, ConvertShows
    <3>2. CASE i \notin DOMAIN answer.object[n]
      <4>1. row[i] = Untouched /\ Untouched.type = "nil"
        BY <3>2, ValueOf DEF Row, Untouched
      <4>2. QED
        BY <4>1 DEF Shows
    <3>3. QED
      BY <3>1, <3>2
  <2> HIDE DEF row
  <2>2. \A k \in DOMAIN delivered' :
           delivered'[k] = row \/ (k \in DOMAIN delivered /\ delivered'[k] = delivered[k])
    <3>1. delivered \in Seq([DOMAIN columns -> [type : GoTypes, text : Text]])
      BY DEF IInv, TypeOK
    <3>2. QED
      BY <1>3, <3>1 DEF row
  <2>3. ASSUME NEW k \in DOMAIN delivered', NEW i \in DOMAIN columns
        PROVE  Shows(delivered'[k][i], columns[i])
    BY <2>1, <2>2 DEF ShownInv
  <2>4. QED
    BY <1>1, <2>3 DEF ShownInv, Shows, Masked
<1>4. QED
  BY <1>2, <1>3 DEF NextRow, Row

LEMMA ShownInvariant == Spec => []ShownInv
<1>1. Init => ShownInv
  BY DEF Init, ShownInv
<1>2. IInv /\ ShownInv /\ [Next]_vars => ShownInv'
  <2>1. SUFFICES ASSUME IInv, ShownInv, [Next]_vars PROVE ShownInv'
    OBVIOUS
  <2>2. CASE NewRows
    <3>1. delivered = <<>> /\ delivered' = delivered
      BY <2>1, <2>2 DEF NewRows, IInv, ColumnsInv
    <3>2. QED
      BY <3>1 DEF ShownInv
  <2>3. CASE OpenResults
    BY <2>1, <2>3 DEF OpenResults, ShownInv, Shows, Masked
  <2>4. CASE NextRow
    BY <2>1, <2>4, NextRowShows
  <2>5. CASE NextEof
    BY <2>1, <2>5 DEF NextEof, ShownInv, Shows, Masked
  <2>6. CASE UNCHANGED vars
    BY <2>1, <2>6 DEF vars, ShownInv, Shows, Masked
  <2>7. QED
    BY <2>1, <2>2, <2>3, <2>4, <2>5, <2>6 DEF Next
<1>3. QED
  BY <1>1, <1>2, Inductive, PTL DEF Spec

\* The type that a program is told for a column settles the kind of the column's
\* values, row after row and in every column of that type: TypesAreTold.
THEOREM TypesHold == Spec => []TypesAreTold
<1>1. ShownInv => TypesAreTold
  <2>1. SUFFICES ASSUME ShownInv, options.missing # "empty",
                        NEW k \in DOMAIN delivered, NEW l \in DOMAIN delivered,
                        NEW i \in DOMAIN columns, NEW j \in DOMAIN columns,
                        ColumnTypes[i] = ColumnTypes[j], ~Masked(columns[i]), ~Masked(columns[j]),
                        delivered[k][i].type # "nil", delivered[l][j].type # "nil"
                 PROVE  Kind(delivered[k][i].type) = Kind(delivered[l][j].type)
    BY DEF TypesAreTold
  <2>2. columns[i].type = columns[j].type
    BY <2>1 DEF ColumnTypes
  <2>3. Shows(delivered[k][i], columns[i]) /\ Shows(delivered[l][j], columns[j])
    BY <2>1 DEF ShownInv
  <2>4. QED
    BY <2>1, <2>2, <2>3 DEF Shows
<1>2. QED
  BY <1>1, ShownInvariant, PTL
-----------------------------------------------------------------------------
(* The lines that are written. *)

LEMMA SpelledIs ==
  ASSUME NEW word \in Glyphs
  PROVE  Spelled(word) \in Seq(Glyphs)
<1>1. {"a", ",", "b"} \subseteq Glyphs
  BY DEF Glyphs
<1>2. <<"a", ",", "b">> \in Seq(Glyphs) /\ <<>> \in Seq(Glyphs) /\ <<word>> \in Seq(Glyphs)
  <2>1. "a" \in Glyphs /\ "," \in Glyphs /\ "b" \in Glyphs
    BY <1>1
  <2>2. <<"a", ",", "b">> \in Seq(Glyphs)
    BY <2>1, ThreeOf
  <2>3. <<>> \in Seq(Glyphs)
    OBVIOUS
  <2>4. <<word>> \in Seq(Glyphs)
    BY OneOf
  <2>5. QED
    BY <2>2, <2>3, <2>4
<1>3. QED
  BY <1>2 DEF Spelled

LEMMA CharsIs ==
  ASSUME NEW text \in Text
  PROVE  Chars(text) \in Seq(Glyphs)
<1> DEFINE n == Len(text)
           ss == [i \in DOMAIN text |-> (IF i > 1 THEN <<" ">> ELSE <<>>) \o Spelled(text[i])]
<1>1. n \in Nat /\ DOMAIN text = 1..n /\ \A i \in 1..n : text[i] \in Glyphs
  <2>1. text \in Seq(Words)
    BY DEF Text
  <2>2. Words \subseteq Glyphs
    BY DEF Glyphs
  <2>3. QED
    BY <2>1, <2>2, LenProperties, ElementOfSeq
<1>2. ss \in Seq(Seq(Glyphs)) /\ Len(ss) = n
  <2>1. ASSUME NEW i \in 1..n
        PROVE  (IF i > 1 THEN <<" ">> ELSE <<>>) \o Spelled(text[i]) \in Seq(Glyphs)
    <3>1. <<" ">> \in Seq(Glyphs) /\ <<>> \in Seq(Glyphs)
      BY OneOf DEF Glyphs
    <3>2. Spelled(text[i]) \in Seq(Glyphs)
      BY <1>1, SpelledIs
    <3>3. (IF i > 1 THEN <<" ">> ELSE <<>>) \in Seq(Glyphs)
      BY <3>1
    <3>4. QED
      BY <3>2, <3>3, ConcatProperties
  <2>2. ss \in [1..n -> Seq(Glyphs)]
    BY <1>1, <2>1
  <2> HIDE DEF ss
  <2>3. QED
    BY <1>1, <2>2, FunctionOf
<1>3. Chars(text) = FlattenSeq(ss)
  BY DEF Chars
<1> HIDE DEF ss
<1>4. PICK flat \in [0..Len(ss) -> Seq(Glyphs)] :
        /\ flat[0] = <<>>
        /\ \A k \in 1..Len(ss) : flat[k] = flat[k - 1] \o ss[k]
        /\ FlattenSeq(ss) = flat[Len(ss)]
  BY <1>2, FlattenPrefixes, Zenon
<1>5. Len(ss) \in 0..Len(ss)
  BY <1>2, LenProperties
<1>6. flat[Len(ss)] \in Seq(Glyphs)
  BY <1>4, <1>5
<1>7. QED
  BY <1>3, <1>4, <1>6, Zenon

LEMMA CellIs ==
  ASSUME NEW v \in Values, v.text = Empty => v.type \in {"nil", "time"} \cup DOMAIN Zeros
  PROVE  Cell(v) \in Seq(Glyphs)
<1>1. <<>> \in Seq(Glyphs) /\ <<"0">> \in Seq(Glyphs) /\ <<"false">> \in Seq(Glyphs)
      /\ <<"rfc3339">> \in Seq(Glyphs)
  <2>1. {"0", "false", "rfc3339"} \subseteq Glyphs
    BY DEF Glyphs
  <2>2. QED
    BY <2>1
<1>2. \A type \in DOMAIN Zeros : Zeros[type] \in Seq(Glyphs)
  <2>1. /\ DOMAIN Zeros = {"int", "float64", "bool", "string"}
        /\ Zeros["int"] = <<"0">> /\ Zeros["float64"] = <<"0">>
        /\ Zeros["bool"] = <<"false">> /\ Zeros["string"] = <<>>
    BY DEF Zeros
  <2>2. QED
    BY <1>1, <2>1
<1>3. Chars(v.text) \in Seq(Glyphs)
  BY CharsIs DEF Values
<1>4. QED
  BY <1>1, <1>2, <1>3 DEF Cell

\* A row is written as a line that is read as the row.
LEMMA ReadWritten ==
  ASSUME NEW cells \in Seq(Seq(Glyphs)), cells # <<>>
  PROVE  Read(Written(cells)) = cells
<1> DEFINE n == Len(cells)  lines == [i \in DOMAIN cells |-> Field(cells[i])]
<1>1. n \in Nat /\ n # 0 /\ DOMAIN cells = 1..n /\ \A i \in 1..n : cells[i] \in Seq(Glyphs)
  BY LenProperties, ElementOfSeq, EmptySeq
<1>2. /\ lines \in Seq(Seq(Glyphs)) /\ Len(lines) = n
      /\ \A i \in 1..n : \A before : Reads(lines[i], before, cells[i])
  <2>1. \A i \in 1..n : lines[i] = Field(cells[i])
    BY <1>1
  <2>2. ASSUME NEW i \in 1..n
        PROVE  Field(cells[i]) \in Seq(Glyphs) /\ \A before : Reads(Field(cells[i]), before, cells[i])
    BY <1>1, ReadField
  <2>3. lines \in [1..n -> Seq(Glyphs)]
    BY <1>1, <2>2
  <2> HIDE DEF lines
  <2>4. lines \in Seq(Seq(Glyphs)) /\ Len(lines) = n
    BY <1>1, <2>3, FunctionOf
  <2>5. ASSUME NEW i \in 1..n, NEW before
        PROVE  Reads(lines[i], before, cells[i])
    BY <2>1, <2>2
  <2>6. QED
    BY <2>4, <2>5
<1>3. Written(cells) = Separated(lines)
  BY DEF Written, Field
<1> HIDE DEF lines
<1>4. QED
  BY <1>1, <1>2, <1>3, ReadSeparated

\* So is the line of the names, unless a name is marked.
LEMMA ReadNames ==
  ASSUME NEW names \in Seq(Seq(Glyphs)), names # <<>>, \A i \in DOMAIN names : ~Marked(names[i])
  PROVE  Read(Separated(names)) = names
<1> DEFINE n == Len(names)
<1>1. n \in Nat /\ n # 0 /\ DOMAIN names = 1..n /\ \A i \in 1..n : names[i] \in Seq(Glyphs)
  BY LenProperties, ElementOfSeq, EmptySeq
<1>2. \A i \in 1..n : \A before : Reads(names[i], before, names[i])
  BY <1>1, ReadPlain
<1>3. QED
  BY <1>1, <1>2, ReadSeparated

\* The rows that are handed out, and the names of the columns, are read from their
\* CSV form as they are: CsvReadsBack.
THEOREM CsvHolds == Spec => []CsvReadsBack
<1>1. ASSUME IInv, ShownInv
      PROVE  CsvReadsBack
  <2> DEFINE n == Len(columns)  m == Len(delivered)
             names == [i \in DOMAIN columns |-> Spelled(Columns[i])]
  <2>1. /\ n \in Nat /\ DOMAIN columns = 1..n /\ (columns = <<>> <=> n = 0)
        /\ \A i \in 1..n : columns[i] \in AnyColumn
    <3>1. columns \in Seq(AnyColumn)
      BY <1>1 DEF IInv, ColumnsInv
    <3>2. QED
      BY <3>1, LenProperties, ElementOfSeq, EmptySeq
  <2>2. m \in Nat /\ DOMAIN delivered = 1..m /\ \A k \in 1..m : delivered[k] \in [1..n -> Values]
    <3>1. delivered \in Seq([1..n -> Values])
      BY <1>1, <2>1 DEF IInv, TypeOK, Values
    <3>2. QED
      BY <3>1, LenProperties, ElementOfSeq
  <2>3. /\ DOMAIN Columns = 1..n /\ (Columns = <<>> <=> columns = <<>>)
        /\ \A i \in 1..n : Columns[i] \in Glyphs
    <3>1. \A i \in 1..n : columns[i].name \in Glyphs
      <4>1. ASSUME NEW c \in AnyColumn
            PROVE  c.name \in Glyphs
        <5>1. CASE c \in [name : Words, type : STRING]
          BY <5>1 DEF Glyphs
        <5>2. CASE \E k \in Nat : c = [name |-> "_col" \o ToString(k), type |-> "string"]
          <6>1. PICK k \in Nat : c = [name |-> "_col" \o ToString(k), type |-> "string"]
            BY <5>2
          <6>2. c.name = "_col" \o ToString(k)
            BY <6>1
          <6>3. QED
            BY <6>2 DEF Glyphs
        <5>3. QED
          BY <5>1, <5>2 DEF AnyColumn
      <4>2. QED
        BY <2>1, <4>1
    <3>2. Columns = [i \in 1..n |-> columns[i].name]
      BY <2>1 DEF Columns
    <3>3. Columns \in [1..n -> Glyphs]
      BY <3>1, <3>2
    <3>4. Columns \in Seq(Glyphs) /\ Len(Columns) = n
      BY <2>1, <3>3, FunctionOf
    <3>5. QED
      BY <2>1, <3>3, <3>4, EmptySeq
  <2>4. names \in Seq(Seq(Glyphs)) /\ Len(names) = n /\ DOMAIN names = 1..n
    <3>1. \A i \in 1..n : Spelled(Columns[i]) \in Seq(Glyphs)
      BY <2>3, SpelledIs
    <3>2. names \in [1..n -> Seq(Glyphs)]
      BY <2>1, <3>1
    <3> HIDE DEF names
    <3>3. QED
      BY <2>1, <3>2, FunctionOf
  <2>5. columns # <<>> => ColsToCSV = << Separated(names) >>
    BY <2>1, <2>3 DEF ColsToCSV
  <2>6. Len(ColsRowsToCSV) = Len(delivered) + IF columns = <<>> THEN 0 ELSE 1
    <3> DEFINE Line(k) == Written(Cells(delivered[k]))
               Lines == {Line(k) : k \in 1..m} \cup {Separated(names)}
    <3>1. RowsToCSV \in Seq(Lines) /\ Len(RowsToCSV) = m
      <4>1. RowsToCSV = [k \in 1..m |-> Line(k)]
        BY <2>2 DEF RowsToCSV
      <4>2. RowsToCSV \in [1..m -> Lines]
        BY <4>1
      <4> HIDE DEF Lines
      <4>3. QED
        BY <2>2, <4>2, FunctionOf
    <3>2. ColsToCSV \in Seq(Lines) /\ Len(ColsToCSV) = IF columns = <<>> THEN 0 ELSE 1
      <4>1. CASE columns = <<>>
        <5>1. ColsToCSV = <<>>
          BY <2>3, <4>1 DEF ColsToCSV
        <5> HIDE DEF Lines
        <5>2. QED
          BY <4>1, <5>1
      <4>2. CASE columns # <<>>
        <5>1. Separated(names) \in Lines
          OBVIOUS
        <5> DEFINE line == Separated(names)
        <5> HIDE DEF Lines, line
        <5>2. << line >> \in Seq(Lines) /\ Len(<< line >>) = 1
          BY <5>1, OneOf DEF line
        <5>3. QED
          BY <2>5, <4>2, <5>2 DEF line
      <4>3. QED
        BY <4>1, <4>2
    <3> HIDE DEF Lines
    <3>3. Len(ColsRowsToCSV) = Len(ColsToCSV) + Len(RowsToCSV)
      BY <3>1, <3>2, ConcatProperties DEF ColsRowsToCSV
    <3>4. QED
      BY <2>2, <3>1, <3>2, <3>3
  <2>7. ASSUME NEW k \in DOMAIN delivered, Cells(delivered[k]) # <<>>
        PROVE  Read(RowsToCSV[k]) = Cells(delivered[k])
    <3> DEFINE row == delivered[k]
    <3>1. row \in [1..n -> Values]
      BY <2>2
    <3>2. \A i \in 1..n : Shows(row[i], columns[i])
      BY <1>1, <2>1 DEF ShownInv
    <3> HIDE DEF row
    <3>3. \A i \in 1..n : Cell(row[i]) \in Seq(Glyphs)
      BY <3>1, <3>2, CellIs DEF Shows
    <3>4. Cells(row) \in [1..n -> Seq(Glyphs)]
      BY <3>1, <3>3 DEF Cells
    <3>5. Cells(row) \in Seq(Seq(Glyphs))
      BY <2>1, <3>4, FunctionOf
    <3>6. RowsToCSV[k] = Written(Cells(row))
      BY DEF RowsToCSV, row
    <3>7. Cells(row) # <<>>
      BY <2>7 DEF row
    <3>8. Read(RowsToCSV[k]) = Cells(row)
      BY <3>5, <3>6, <3>7, ReadWritten
    <3>9. QED
      BY <3>8 DEF row
  <2>8. ASSUME columns # <<>>, \A i \in DOMAIN columns : ~Marked(Spelled(Columns[i]))
        PROVE  Read(ColsToCSV[1]) = names
    <3>1. \A i \in DOMAIN names : ~Marked(names[i])
      BY <2>8
    <3>2. ColsToCSV[1] = Separated(names)
      <4> HIDE DEF names
      <4>1. QED
        BY <2>5, <2>8
    <3>3. n # 0
      BY <2>1, <2>8
    <3> HIDE DEF names
    <3>4. names # <<>>
      BY <2>4, <3>3
    <3>5. QED
      BY <2>4, <3>1, <3>2, <3>4, ReadNames
  <2>9. QED
    BY <2>6, <2>7, <2>8 DEF CsvReadsBack
<1>2. QED
  BY <1>1, Inductive, ShownInvariant, PTL
=============================================================================
