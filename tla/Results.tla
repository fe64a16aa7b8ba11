------------------------------- MODULE Results -------------------------------
(***************************************************************************)
(* From the answer of the service to Go values: the first result page and  *)
(* its repair (fetchNextPage), the columns, and the conversion of each     *)
(* record of the result object (Next, convertRecord, athenaTypeToGoType in *)
(* go/rows.go, scanTime in go/datetime.go).                                *)
(*                                                                         *)
(* The stream under Next, its goroutine and its locks, is ResultStream;    *)
(* here it is the object line by line, as encoding/csv reads it.           *)
(*                                                                         *)
(* A text is the sequence of its words, as split at blanks: <<"date">>,    *)
(* <<"date", "clock3", "UTC">>.  A number is a word that says how many     *)
(* bits it needs; "clock3" is a time of day with three decimals.           *)
(***************************************************************************)
EXTENDS Integers, Sequences, TLC

CONSTANTS
  Words,    \* what texts are made of
  Answers,  \* what the service may have for the query: the page and the object
  Options   \* the Config: what missing values become, and the masked columns

Text == Seq(Words)

ASSUME ResultsAssumption ==
  /\ "none" \in Words
  /\ \A a \in Answers :
       /\ a.page.columns \in Seq([name : Words, type : STRING])
       /\ a.page.rows \in Seq(Seq(Text))
       /\ a.object \in Seq(Seq(Text))
  /\ \A o \in Options :
       /\ o.missing \in {"nil", "empty", "default", "error"}
       /\ \A n \in DOMAIN o.masked : o.masked[n] \in Text

VARIABLES
  answer, options,
  columns,    \* ColumnInfo, as repaired
  lastPage,   \* reachedLastPage
  client,     \* where the consumer is: new, ready, scanning, ended, panicked
  pos,        \* the next line of the object
  delivered,  \* the rows handed out
  verdict     \* how the scan ended: none, eof, error

vars == <<answer, options, columns, lastPage, client, pos, delivered, verdict>>

\* A field of the object: nothing between the commas, or "", or a text; "none" is
\* the word of no letters.
Null  == <<>>
Empty == <<"none">>

\* driver.Value: its Go type and the text it was read from.
Value(type, text) == [type |-> type, text |-> text]
Untouched == Value("nil", <<>>)
Failure   == Value("error", <<>>)
Crash     == Value("panic", <<>>)
-----------------------------------------------------------------------------
(* scanTime. *)

Clocks  == {"clock0", "clock3", "clock6", "clock9"}
Layouts == {<<"date">>, <<"clock3">>, <<"date", "clock9">>, <<"date", "clock6">>,
            <<"date", "clock3">>}
Zones   == {"UTC", "Europe/Paris"}  \* what time.LoadLocation finds; "+01:00" is none

IntBits   == [int8 |-> 8, int16 |-> 16, int32 |-> 32, int64 |-> 64, int65 |-> 65]
FloatBits == [word \in DOMAIN IntBits |-> 32] @@ [fraction |-> 32, huge |-> 64, beyond |-> 65]

StartsWithDigit(word) == word \in DOMAIN FloatBits \cup Clocks \cup {"date"}

ScanTime(text) ==
  LET last   == text[Len(text)]
      zoned  == Len(text) > 1 /\ ~StartsWithDigit(last)
      stamp  == IF zoned THEN SubSeq(text, 1, Len(text) - 1) ELSE text
  IN  IF Len(text) > 1 /\ last = "none" THEN Crash  \* parts[len(parts)-1][0]
      ELSE IF stamp \in Layouts /\ (zoned => last \in Zones) THEN Value("time", text)
      ELSE Failure
-----------------------------------------------------------------------------
(* athenaTypeToGoType. *)

IntTypes   == [tinyint |-> "int8", smallint |-> "int16", integer |-> "int32", bigint |-> "int64"]
FloatTypes == [float |-> "float32", real |-> "float32", double |-> "float64"]
TimeTypes  == {"date", "time", "time with time zone", "timestamp", "timestamp with time zone"}
TextTypes  == {"json", "char", "varchar", "varbinary", "row", "string", "binary", "struct",
               "interval year to month", "interval day to second", "decimal", "ipaddress",
               "array", "map", "unknown"}

GoBits == [int8 |-> 8, int16 |-> 16, int32 |-> 32, int64 |-> 64, float32 |-> 32, float64 |-> 64]

\* strconv.ParseInt(val, 10, bits), ParseFloat(val, bits).
ParsesAsInt(text, bits)   == \E w \in DOMAIN IntBits : text = <<w>> /\ IntBits[w] <= bits
ParsesAsFloat(text, bits) == \E w \in DOMAIN FloatBits : text = <<w>> /\ FloatBits[w] <= bits

GoValue(type, text) ==
  IF type \in DOMAIN IntTypes /\ ParsesAsInt(text, GoBits[IntTypes[type]])
  THEN Value(IntTypes[type], text)
  ELSE IF type \in DOMAIN FloatTypes /\ ParsesAsFloat(text, GoBits[FloatTypes[type]])
  THEN Value(FloatTypes[type], text)
  ELSE IF type = "boolean" /\ text \in {<<"true">>, <<"false">>} THEN Value("bool", text)
  ELSE IF type \in TextTypes THEN Value("string", text)
  ELSE IF type \in TimeTypes THEN ScanTime(text)
  ELSE Failure

\* Mutant: the floating-point types are forgotten.
DefaultValueNoFloats(type) ==
  IF type \in DOMAIN IntTypes THEN Value("int", Empty)
  ELSE IF type = "boolean" THEN Value("bool", Empty)
  ELSE IF type \in TimeTypes THEN Value("time", Empty)
  ELSE Value("string", Empty)

\* getDefaultValueForColumnType: int and float64, whatever the column's width.
DefaultValue(type) ==
  IF type \in DOMAIN IntTypes THEN Value("int", Empty)
  ELSE IF type \in DOMAIN FloatTypes THEN Value("float64", Empty)
  ELSE IF type = "boolean" THEN Value("bool", Empty)
  ELSE IF type \in TimeTypes THEN Value("time", Empty)
  ELSE Value("string", Empty)

MissingValue(type) ==
  IF options.missing = "nil" THEN Untouched
  ELSE IF options.missing = "empty" THEN Value("string", Empty)
  ELSE IF options.missing = "default" THEN DefaultValue(type)
  ELSE Failure

Masked(c)    == c.name \in DOMAIN options.masked
MaskValue(c) == Value("string", options.masked[c.name])
IsMissing(f) == f \in {Null, Empty}

Convert(c, f) ==
  IF Masked(c) THEN MaskValue(c)
  ELSE IF IsMissing(f) THEN MissingValue(c.type)
  ELSE GoValue(c.type, f)
-----------------------------------------------------------------------------
(* fetchNextPage: the page and its repair.  A field of the page is the     *)
(* sequence of its items, as split at tabs; <<>> is a nil VarCharValue.    *)

\* Mutant: one column short.
PaddedShort(cols, width) ==
  cols \o [i \in 1..(width - Len(cols) - 1) |->
             [name |-> "_col" \o ToString(Len(cols) + i - 1), type |-> "string"]]
Padded(cols, width) ==
  cols \o [i \in 1..(width - Len(cols)) |->
             [name |-> "_col" \o ToString(Len(cols) + i - 1), type |-> "string"]]

Narrow(p) == /\ p.metadata = "list" /\ p.rows # <<>>
             /\ Len(p.rows[1]) = 1 /\ Len(p.columns) > 1

RepairedColumns(p) ==
  IF p.metadata = "list" /\ p.rows # <<>> /\ Len(p.columns) < Len(p.rows[1])
  THEN Padded(p.columns, Len(p.rows[1])) ELSE p.columns

SplitAtTabs(row, n) == IF Len(row[1]) = n THEN [i \in 1..n |-> <<row[1][i]>>] ELSE row

CountRow(p) == << << <<ToString(p.updateCount)>> >> >>

OnlyCounts(p) ==
  /\ p.rows = <<>> /\ p.metadata = "list" /\ Len(p.columns) = 1
  /\ p.updateCount > 0 /\ p.columns[1].name = "rows"

RepairedRows(p) ==
  IF Narrow(p) THEN [k \in DOMAIN p.rows |-> SplitAtTabs(p.rows[k], Len(p.columns))]
  ELSE IF OnlyCounts(p) THEN CountRow(p)
  ELSE p.rows

StartsWithHeading(rows, cols) ==
  /\ cols # <<>> /\ rows # <<>> /\ Len(rows[1]) = Len(cols)
  /\ \A i \in DOMAIN cols : rows[1][i] = <<cols[i].name>>

\* A nil ResultSetMetadata or VarCharValue is dereferenced.
PageCrashes(p) ==
  \/ p.metadata = "none"
  \/ Narrow(p) /\ \E k \in DOMAIN p.rows : p.rows[k] = <<>> \/ p.rows[k][1] = <<>>

\* Nothing but the heading: reachedLastPage.
NoMoreRows(p) ==
  LET rows == RepairedRows(p)
  IN  Len(rows) <= IF StartsWithHeading(rows, RepairedColumns(p)) THEN 1 ELSE 0
-----------------------------------------------------------------------------
Init ==
  /\ answer \in Answers /\ options \in Options
  /\ columns = <<>> /\ lastPage = FALSE /\ client = "new"
  /\ pos = 1 /\ delivered = <<>> /\ verdict = "none"

NewRows ==
  /\ client = "new"
  /\ IF PageCrashes(answer.page)
     THEN client' = "panicked" /\ UNCHANGED <<columns, lastPage>>
     ELSE /\ columns'  = RepairedColumns(answer.page)
          /\ lastPage' = NoMoreRows(answer.page)
          /\ client'   = "ready"
  /\ UNCHANGED <<answer, options, pos, delivered, verdict>>

End(how) == client' = "ended" /\ verdict' = how

\* encoding/csv skips blank lines, which is what a row of one Null is.
Blank(line) == line = <<Null>>
NextLine(n) ==
  /\ n \in pos..Len(answer.object) /\ ~Blank(answer.object[n])
  /\ \A m \in pos..(n - 1) : Blank(answer.object[m])
HeadingLine ==
  answer.object[CHOOSE n \in DOMAIN answer.object :
                  ~Blank(answer.object[n]) /\ \A m \in 1..(n - 1) : Blank(answer.object[m])]
NoLine == \A m \in pos..Len(answer.object) : Blank(answer.object[m])

\* Mutant: the heading is left for the consumer.
OpenAtFirstLine ==
  /\ client = "ready"
  /\ IF ~answer.stored \/ NoLine \/ lastPage
     THEN End(IF ~answer.stored THEN "error" ELSE "eof") /\ UNCHANGED pos
     ELSE client' = "scanning" /\ UNCHANGED <<pos, verdict>>
  /\ UNCHANGED <<answer, options, columns, lastPage, delivered>>

\* The first Next opens the object, if it is there, and burns off its heading.
OpenResults ==
  /\ client = "ready"
  /\ IF ~answer.stored THEN End("error") /\ UNCHANGED pos
     ELSE IF NoLine \/ lastPage THEN End("eof") /\ UNCHANGED pos
     ELSE /\ \E n \in DOMAIN answer.object : NextLine(n) /\ pos' = n + 1
          /\ client' = "scanning" /\ UNCHANGED verdict
  /\ UNCHANGED <<answer, options, columns, lastPage, delivered>>

\* What becomes of field i of a line.
FieldValue(line, i) == IF i \in DOMAIN columns THEN Convert(columns[i], line[i]) ELSE Crash
Bad(line, i) == FieldValue(line, i) \in {Failure, Crash}

\* Each record has as many fields as the first one, or it is an error; and
\* convertRecord stops at the first field it cannot convert.
NextRow ==
  /\ client = "scanning"
  /\ \E n \in DOMAIN answer.object :
       LET line == answer.object[n] IN
       /\ NextLine(n)
       /\ \/ /\ Len(line) # Len(HeadingLine)
             /\ End("error")
             /\ UNCHANGED <<pos, delivered>>
          \/ /\ Len(line) = Len(HeadingLine)
             /\ \E i \in DOMAIN line :
                  /\ Bad(line, i) /\ \A j \in 1..(i - 1) : ~Bad(line, j)
                  /\ IF FieldValue(line, i) = Crash
                     THEN client' = "panicked" /\ UNCHANGED verdict
                     ELSE End("error")
             /\ UNCHANGED <<pos, delivered>>
          \/ /\ Len(line) = Len(HeadingLine)
             /\ \A i \in DOMAIN line : ~Bad(line, i)
             /\ delivered' = Append(delivered,
                  [i \in DOMAIN columns |-> IF i \in DOMAIN line THEN FieldValue(line, i)
                                            ELSE Untouched])
             /\ pos' = n + 1
             /\ UNCHANGED <<client, verdict>>
  /\ UNCHANGED <<answer, options, columns, lastPage>>

NextEof ==
  /\ client = "scanning" /\ NoLine
  /\ End("eof")
  /\ UNCHANGED <<answer, options, columns, lastPage, pos, delivered>>

Next == NewRows \/ OpenResults \/ NextRow \/ NextEof

Spec == Init /\ [][Next]_vars
-----------------------------------------------------------------------------
GoTypes == DOMAIN GoBits \cup {"nil", "string", "bool", "int", "time"}

TypeOK ==
  /\ answer \in Answers /\ options \in Options
  /\ DOMAIN columns = 1..Len(columns) /\ lastPage \in BOOLEAN
  /\ client \in {"new", "ready", "scanning", "ended", "panicked"}
  /\ pos \in Nat \ {0}
  /\ delivered \in Seq([DOMAIN columns -> [type : GoTypes, text : Text]])
  /\ verdict \in {"none", "eof", "error"}
  /\ client = "ended" <=> verdict # "none"

\* An answer with its columns described: the page begins with their names, the
\* object too, each of its lines has all of them, and none is blank.
Described ==
  LET p == answer.page  cols == p.columns IN
  /\ p.metadata = "list" /\ answer.stored /\ answer.object # <<>>
  /\ StartsWithHeading(p.rows, cols) /\ (Len(p.rows) > 1 <=> Len(answer.object) > 1)
  /\ \A k \in DOMAIN answer.object : Len(answer.object[k]) = Len(cols) /\ ~Blank(answer.object[k])

\* A value tells what the field says, or what the Config says for it.
Tells(v, c, f) ==
  IF Masked(c) THEN v = MaskValue(c)
  ELSE IF IsMissing(f) THEN v = MissingValue(c.type)
  ELSE v.text = f

\* The consumer gets the rows of a described result one after the other, with
\* no row left out or added, and to the end unless it is told of an error.
RowsAreTold ==
  Described =>
    /\ \A k \in DOMAIN delivered : \A i \in DOMAIN columns :
         k + 1 \in DOMAIN answer.object /\ Tells(delivered[k][i], columns[i], answer.object[k + 1][i])
    /\ verdict = "eof" => Len(delivered) = Len(answer.object) - 1

\* A masked column never shows a value, missing or malformed ones included,
\* whatever the page and the object look like.
MaskedNeverShown ==
  \A k \in DOMAIN delivered : \A i \in DOMAIN columns :
    Masked(columns[i]) => delivered[k][i] \in {MaskValue(columns[i]), Untouched}

\* A number is delivered in a Go type that holds it, never cut to its width.
NumbersFit ==
  \A k \in DOMAIN delivered : \A i \in DOMAIN columns :
    LET v == delivered[k][i] IN
    ~Masked(columns[i]) =>
      \A w \in DOMAIN IntBits : v.type \in {"int8", "int16", "int32", "int64"} /\ v.text = <<w>> =>
        IntBits[w] <= GoBits[v.type]

\* The repair of the page makes room for what the object holds: with a list
\* of columns, however short, and no nil value in a page to be split, a scan
\* panics only on a line that has more fields than the columns and the page's
\* first row both, or on a time that ends in a blank.
ScansInBounds ==
  client = "panicked" /\ answer.page.metadata = "list" /\ ~PageCrashes(answer.page) =>
    \E k \in DOMAIN answer.object : \E i \in DOMAIN answer.object[k] :
      LET line == answer.object[k]  p == answer.page IN
      \/ /\ Len(line) > Len(p.columns)
         /\ p.rows # <<>> => Len(line) > Len(p.rows[1])
      \/ Len(line[i]) > 1 /\ line[i][Len(line[i])] = "none"
=============================================================================
