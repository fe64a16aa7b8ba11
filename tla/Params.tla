-------------------------------- MODULE Params --------------------------------
(***************************************************************************)
(* The arguments of a query as text: interpolateParams, which writes them  *)
(* into the query (go/connection.go, escapes in go/utils.go), and          *)
(* buildExecutionParams, which hands them to the service next to it.       *)
(*                                                                         *)
(* A text is a sequence of tokens, one for each character that a decision  *)
(* is about: "?", quotes, backslashes, the bytes with an escape, digits.   *)
(* A number is one token, and so are the month, day and time of day, since *)
(* both ways print them alike: an instant is a year, a second of that year *)
(* (leap years left out) and a nanosecond.                                 *)
(***************************************************************************)
EXTENDS Integers, Sequences, SequencesExt, FiniteSets, TLC

CONSTANT MAXQueryStringLength

ASSUME LengthAssumption == MAXQueryStringLength \in Nat

\* driver.Value: its kind, its bytes or number, its instant if it is a time.
ZeroTime == [year |-> 1, sec |-> 0, ns |-> 0]
Arg(kind, text) == [kind |-> kind, text |-> text, time |-> ZeroTime]
Nil == Arg("nil", <<>>)
TimeArg(t) == [kind |-> "time", text |-> <<>>, time |-> t]

\* The kinds driver.DefaultParameterConverter lets through (CheckNamedValue),
\* which are those of the type switch in interpolateParams.
Convertible == {"nil", "int", "float", "bool", "time", "bytes", "string"}
-----------------------------------------------------------------------------
(* Times, written with microseconds unless these are zero. *)

SecondsPerYear == 365 * 24 * 60 * 60
NanosPerSecond == 1000 * 1000 * 1000
Instants  == [year : Int, sec : Nat, ns : Nat]
Arguments == [kind : STRING, text : Seq(STRING), time : Instants]

\* time.Add(500ns), carrying into the second and the year.
HalfMicroLater(t) ==
  LET ns  == t.ns + 500
      sec == t.sec + ns \div NanosPerSecond
  IN  [year |-> t.year + sec \div SecondsPerYear,
       sec  |-> sec % SecondsPerYear,
       ns   |-> ns % NanosPerSecond]

Digits == <<"0", "1", "2", "3", "4", "5", "6", "7", "8", "9">>
Clock(sec) == <<ToString(sec)>>
Quoted(text) == <<"'">> \o text \o <<"'">>
ZeroDate == <<"0000-00-00">>

\* digits10[n], digits01[n]: tables of 100 characters.
TwoDigits(n) == <<Digits[(n \div 10) + 1], Digits[(n % 10) + 1]>>
\* Mutant: the last two pairs change places.
MicroPairsSwapped(micro) ==
  TwoDigits(micro \div 10000) \o TwoDigits(micro % 100) \o TwoDigits((micro \div 100) % 100)
MicroPairs(micro) ==
  TwoDigits(micro \div 10000) \o TwoDigits((micro \div 100) % 100) \o TwoDigits(micro % 100)

InterpolatedTime(time) ==
  LET t     == HalfMicroLater(time)
      micro == t.ns \div 1000
  IN  IF time = ZeroTime THEN ZeroDate
      ELSE TwoDigits(t.year \div 100) \o TwoDigits(t.year % 100) \o Clock(t.sec)
           \o IF micro # 0 THEN <<".">> \o MicroPairs(micro) ELSE <<>>

\* time.Format: any year, padded to four digits, and six digits of a second.
ShortYears == 0..9999
Powers == <<100000, 10000, 1000, 100, 10, 1>>
YearText(year) ==
  IF year \in ShortYears THEN [i \in 1..4 |-> Digits[((year \div Powers[i + 2]) % 10) + 1]]
  ELSE <<ToString(year)>>
MicroText(micro) == [i \in 1..6 |-> Digits[((micro \div Powers[i]) % 10) + 1]]

FormattedTime(time) ==
  LET t     == HalfMicroLater(time)
      micro == t.ns \div 1000
  IN  IF time = ZeroTime THEN ZeroDate
      ELSE YearText(t.year) \o Clock(t.sec)
           \o IF micro # 0 THEN <<".">> \o MicroText(micro) ELSE <<>>
-----------------------------------------------------------------------------
(* Strings and bytes. *)

\* The letter behind the backslash, and the byte it stands for.
Lettered == {"nul", "nl", "cr", "sub", "\"", "\\"}
Letter(c) == CASE c = "nul" -> "0" [] c = "nl" -> "n" [] c = "cr" -> "r" [] c = "sub" -> "Z"
               [] OTHER -> c
Unescaped(d) == CASE d = "0" -> "nul" [] d = "n" -> "nl" [] d = "r" -> "cr" [] d = "Z" -> "sub"
                  [] OTHER -> d

\* Mutant: the quote is left as it is.
EscapeByteNoQuote(c) == IF c \in Lettered THEN <<"\\", Letter(c)>> ELSE <<c>>
EscapeByte(c) ==
  IF c = "'" THEN <<"'", "'">> ELSE IF c \in Lettered THEN <<"\\", Letter(c)>> ELSE <<c>>
EscapeBytes(v) == FlattenSeq([i \in DOMAIN v |-> EscapeByte(v[i])])

\* For applications that write the literal of a query's argument themselves.
FormatString(v) == Quoted(EscapeBytes(v))
FormatBytes(v)  == <<"_binary">> \o Quoted(EscapeBytes(v))

\* Reading such a literal: the value so far, and where in the text it is.
At(mode, value) == [mode |-> mode, value |-> value]
ReadToken(r, c) ==
  IF r.mode = "before" THEN At(IF c = "'" THEN "in" ELSE "before", r.value)
  ELSE IF r.mode = "escape" THEN At("in", Append(r.value, Unescaped(c)))
  ELSE IF r.mode = "in" /\ c = "'"  THEN At("quote", r.value)
  ELSE IF r.mode = "in" /\ c = "\\" THEN At("escape", r.value)
  ELSE IF r.mode = "in" \/ (r.mode = "quote" /\ c = "'") THEN At("in", Append(r.value, c))
  ELSE At("ended", r.value)
ReadFrom(start, text) ==
  LET read[i \in 0..Len(text)] == IF i = 0 THEN start ELSE ReadToken(read[i - 1], text[i])
  IN  read[Len(text)]
ReadLiteral(text) == ReadFrom(At("before", <<>>), text)

BoolText(a) == IF a.text = <<"true">> THEN <<"1">> ELSE <<"0">>
-----------------------------------------------------------------------------
(* The two ways. *)

Literal(a) ==
  CASE a.kind = "nil"                -> <<"NULL">>
    [] a.kind \in {"int", "float"}   -> a.text
    [] a.kind = "bool"               -> BoolText(a)
    [] a.kind = "time"               -> Quoted(InterpolatedTime(a.time))
    [] a.kind = "bytes"              -> FormatBytes(a.text)
    [] a.kind = "string"             -> FormatString(a.text)

Param(a) ==
  CASE a.kind = "nil"                -> <<"NULL">>
    [] a.kind \in {"int", "float"}   -> a.text
    [] a.kind = "bool"               -> BoolText(a)
    [] a.kind = "time"               -> Quoted(FormattedTime(a.time))
    [] a.kind \in {"bytes", "string"} -> a.text

Marks(query) == {i \in DOMAIN query : query[i] = "?"}
NumInput(query) == Cardinality(Marks(query))

\* The query with the texts in these places, in their order.
PutAt(places, query, texts) ==
  FlattenSeq([i \in DOMAIN query |->
                IF i \in places THEN texts[Cardinality(places \cap 1..i)] ELSE <<query[i]>>])

\* interpolateParams: every "?" is replaced, those in literals too.
Filled(query, texts) == PutAt(Marks(query), query, texts)

\* The service: a "?" in a literal or a quoted name is no placeholder.  A quote
\* that is written twice closes and opens.
OpenAfter(open, c) ==
  IF open = "none" /\ c \in {"'", "\""} THEN c ELSE IF open = c THEN "none" ELSE open
Placeholders(query) ==
  LET open[i \in 0..Len(query)] == IF i = 0 THEN "none" ELSE OpenAfter(open[i - 1], query[i])
  IN  {i \in Marks(query) : open[i - 1] = "none"}

\* It runs a request with one parameter for each placeholder, and nothing else.
Fits(request) == Len(request.params) = Cardinality(Placeholders(request.text))
Bound(request) == PutAt(Placeholders(request.text), request.text, request.params)

\* The digit tables end at 99: a year of five digits, or before year 0, is an
\* index out of range.
Panics(args) ==
  \E i \in DOMAIN args :
     /\ args[i].kind = "time" /\ args[i].time # ZeroTime
     /\ HalfMicroLater(args[i].time).year \notin ShortYears

Interpolated(query, args) == Filled(query, [i \in DOMAIN args |-> Literal(args[i])])
ExecutionParams(args) == [i \in DOMAIN args |-> Param(args[i])]

IsQueryValid(text) == Len(text) < MAXQueryStringLength /\ Len(text) > 4

\* interpolateParams is reached and meets a year it cannot print.
PanicsOn(query, args) == NumInput(query) = Len(args) /\ Panics(args)

\* What QueryContext and ExecContext check before they go on: the arguments
\* against the placeholders, and the length of the interpolated text.
Accepted(query, args) ==
  IF args = <<>> THEN IsQueryValid(query)
  ELSE /\ NumInput(query) = Len(args) /\ ~Panics(args)
       /\ \A i \in DOMAIN args : args[i].kind \in Convertible
       /\ IsQueryValid(Interpolated(query, args))
=============================================================================
