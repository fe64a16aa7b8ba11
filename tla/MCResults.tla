------------------------------ MODULE MCResults ------------------------------
(* A small instance of Results, with the printing of its rows, for TLC. *)
EXTENDS Printing

Col(name, type) == [name |-> name, type |-> type]

\* Every type, and a text of every shape.
Types == DOMAIN IntTypes \cup DOMAIN FloatTypes \cup {"time", "varchar", "boolean", "weird_type"}
Times == Layouts \cup {<<"date", "clock0">>, <<"date", "clock3", "UTC">>, <<"date", "clock3", "+01:00">>,
                       <<"clock3", "Europe/Paris">>, <<"date", "clock3", "none">>, <<"date", "int8">>}
Fields == {Null, Empty, <<"word">>, <<"true">>, <<"a,b", "\"">>, <<"none", "word">>} \cup {<<w>> : w \in DOMAIN FloatBits} \cup Times

MCWords == DOMAIN FloatBits \cup {f[1] : f \in Fields \ {Null}} \cup Zones
           \cup {"date", "clock0", "clock3", "clock6", "clock9", "+01:00", "none", "a", "b", "x", "y",
                 "z", "v", "rows", "xxx", "_col2", "a,b", "\""}

Names(cols) == [i \in DOMAIN cols |-> <<cols[i].name>>]
Page(metadata, cols, rows, count) ==
  [metadata |-> metadata, columns |-> cols, rows |-> rows, updateCount |-> count]
Answer(page, stored, object) == [page |-> page, stored |-> stored, object |-> object]

\* A SELECT: the page and the object begin with the heading.
Selected(cols, lines) ==
  Answer(Page("list", cols, <<Names(cols)>> \o [k \in DOMAIN lines |-> [i \in DOMAIN cols |-> <<"v">>]], 0),
         TRUE, <<Names(cols)>> \o lines)

OneColumn(type) == <<Col("a", type)>>
TwoColumns(type) == <<Col("a", type), Col("b", "integer")>>

\* Results as they should be: a field of every text in a column of every type.
Regular ==
  {Selected(TwoColumns(type), << <<f, <<"int8">>>>, <<<<"int8">>, f>> >>) : type \in Types, f \in Fields}
  \cup {Selected(OneColumn("varchar"), << <<f>>, <<<<"word">>>> >>) : f \in {Null, Empty, <<"a", "b">>}}
  \cup {Selected(TwoColumns("varchar"), lines) : lines \in {<<>>, << <<Null, Null>> >>}}
  \cup {Selected(<<Col("a,b", "varchar"), Col("b", "varchar")>>, << <<<<"word">>, <<"\"">>>> >>)}

\* And as the repair expects them: no columns, too few, rows not split.
Tabbed == << << <<"a", "b">> >>, << <<"x", "y">> >>, << <<"x">> >> >>
Headings == {<<"none", <<>>>>, <<"null", <<>>>>, <<"list", <<>>>>, <<"list", TwoColumns("varchar")>>}
Irregular ==
  {Answer(Page(h[1], h[2], rows, 0), TRUE, object) :
     h \in Headings,
     rows \in {<<>>, << <<<<"x">>, <<"y">>, <<"z">>>> >>, Tabbed, << <<<<>>>> >>},
     object \in {<<>>, << <<<<"x">>, <<"y">>, <<"z">>>>, <<<<"x">>, <<"y">>, <<"z">>>> >>,
                 << <<<<"x">>>>, <<<<"x">>, <<"y">>>> >>, << <<Null>>, <<<<"x">>>>, <<<<"y">>>> >>}}
  \cup {Answer(Page("list", <<Col(name, "bigint")>>, <<>>, count), stored, <<>>) :
          name \in {"rows", "a"}, count \in {0, 2}, stored \in BOOLEAN}

MCAnswers == Regular \cup Irregular
MCOptions == {[missing |-> m, masked |-> k] :
                m \in {"nil", "empty", "default", "error"},
                k \in {<<>>, "a" :> <<"xxx">>, "_col2" :> <<"xxx">>}}
=============================================================================
