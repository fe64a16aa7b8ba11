------------------------------- MODULE Printing -------------------------------
(***************************************************************************)
(* What else a program is told of the rows that Results has delivered so   *)
(* far: the names and types of the columns (Columns and                    *)
(* ColumnTypeDatabaseTypeName in go/rows.go) and their CSV form            *)
(* (ColsToCSV, RowsToCSV and ColsRowsToCSV in go/utils.go).                *)
(*                                                                         *)
(* A text becomes its characters here, as far as CSV tells them apart: the *)
(* blanks between its words, commas, quotes, and the rest of each word.    *)
(***************************************************************************)
EXTENDS Results, SequencesExt

\* The words that hold more than letters.
Spelled(word) == IF word = "a,b" THEN <<"a", ",", "b">>
                 ELSE IF word = "none" THEN <<>> ELSE <<word>>
Chars(text) ==
  FlattenSeq([i \in DOMAIN text |-> (IF i > 1 THEN <<" ">> ELSE <<>>) \o Spelled(text[i])])

Columns == [i \in DOMAIN columns |-> columns[i].name]

\* ColumnTypeDatabaseTypeName, column by column.
ColumnTypes == [i \in DOMAIN columns |-> columns[i].type]

\* What a Go type holds, whatever its width.
Kind(type) == IF type \in {"int8", "int16", "int32", "int64", "int"} THEN "integer"
              ELSE IF type \in {"float32", "float64"} THEN "floating" ELSE type

\* What rows.Scan puts into a []byte.
Zeros == [int |-> <<"0">>, float64 |-> <<"0">>, bool |-> <<"false">>, string |-> <<>>]
Cell(v) == IF v.type = "nil" THEN <<>>
           ELSE IF v.type = "time" THEN <<"rfc3339">>
           ELSE IF v.text = Empty THEN Zeros[v.type] ELSE Chars(v.text)
-----------------------------------------------------------------------------
(* Writing. *)

Marked(chars) == \E i \in DOMAIN chars : chars[i] \in {",", "\""}
NeedsQuotes(chars) == chars # <<>> /\ (Head(chars) = " " \/ Marked(chars))

Doubled(chars) ==
  FlattenSeq([i \in DOMAIN chars |-> IF chars[i] = "\"" THEN <<"\"", "\"">> ELSE <<chars[i]>>])

Separated(fields) ==
  FlattenSeq([i \in DOMAIN fields |-> (IF i > 1 THEN <<",">> ELSE <<>>) \o fields[i]])

\* Mutant: the fields are joined as they are.
WrittenAsIs(cells) == Separated(cells)
Written(cells) ==
  Separated([i \in DOMAIN cells |->
    IF NeedsQuotes(cells[i]) THEN <<"\"">> \o Doubled(cells[i]) \o <<"\"">> ELSE cells[i]])

\* Names are not quoted.
ColsToCSV ==
  IF Columns = <<>> THEN <<>>
  ELSE << Separated([i \in DOMAIN Columns |-> Spelled(Columns[i])]) >>

Cells(row) == [i \in DOMAIN row |-> Cell(row[i])]
RowsToCSV == [k \in DOMAIN delivered |-> Written(Cells(delivered[k]))]

ColsRowsToCSV == ColsToCSV \o RowsToCSV
-----------------------------------------------------------------------------
(* Reading, as encoding/csv does: the fields so far, the one it is in, and  *)
(* where in that.                                                          *)

Reading(fields, field, mode) == [fields |-> fields, field |-> field, mode |-> mode]
ReadChar(r, c) ==
  IF c = "," /\ r.mode # "quoted" THEN Reading(Append(r.fields, r.field), <<>>, "start")
  ELSE IF c = "\"" /\ r.mode = "start"  THEN Reading(r.fields, r.field, "quoted")
  ELSE IF c = "\"" /\ r.mode = "quoted" THEN Reading(r.fields, r.field, "quote")
  ELSE Reading(r.fields, Append(r.field, c),
               IF r.mode = "quoted" \/ (r.mode = "quote" /\ c = "\"") THEN "quoted" ELSE "plain")
ReadChars(start, line) ==
  LET read[i \in 0..Len(line)] == IF i = 0 THEN start ELSE ReadChar(read[i - 1], line[i])
  IN  read[Len(line)]
Read(line) == LET end == ReadChars(Reading(<<>>, <<>>, "start"), line)
              IN  Append(end.fields, end.field)
-----------------------------------------------------------------------------
\* The CSV text of a result has a record for every row behind the one of the
\* names, and a program that reads it finds the values as rows.Scan gives them,
\* commas, quotes and leading blanks included, and the names (utils.go:75-125).
\* Names with a comma or a quote are not protected, and a row of one empty value
\* is a blank line.
CsvReadsBack ==
  /\ Len(ColsRowsToCSV) = Len(delivered) + IF columns = <<>> THEN 0 ELSE 1
  /\ \A k \in DOMAIN delivered :
       Cells(delivered[k]) # <<>> => Read(RowsToCSV[k]) = Cells(delivered[k])
  /\ columns # <<>> /\ (\A i \in DOMAIN columns : ~Marked(Spelled(Columns[i]))) =>
       Read(ColsToCSV[1]) = [i \in DOMAIN columns |-> Spelled(Columns[i])]

\* The type that a column is told to have settles what its values are: integers,
\* floating-point numbers, truth values, times or texts, in every row, in every
\* column of that type and with every way to stand for a missing value but the
\* empty string (rows.go:122-131, 454-564).
TypesAreTold ==
  options.missing # "empty" =>
    \A k, l \in DOMAIN delivered : \A i, j \in DOMAIN columns :
      LET v == delivered[k][i].type  w == delivered[l][j].type IN
      /\ ColumnTypes[i] = ColumnTypes[j] /\ ~Masked(columns[i]) /\ ~Masked(columns[j])
      /\ v # "nil" /\ w # "nil"
      => Kind(v) = Kind(w)
=============================================================================
