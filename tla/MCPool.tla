-------------------------------- MODULE MCPool --------------------------------
(* A small instance of Pool for TLC. *)
EXTENDS Pool

CONSTANTS u1, u2, n1, n2, n3, n4

TwoUsers  == {u1, u2}
FourConns == {n1, n2, n3, n4}

\* Texts long enough for isQueryValid, and one that is not.
Select    == <<"S", "E", "L", "E", "C", "T", "?">>
Literals  == <<"S", "E", "L", "E", "C", "T", "'", "?", "'", "?">>
Short     == <<"S", "?">>

Five == Arg("int", <<"5">>)

\* Times that round into the next second and year, microseconds of every shape.
Stamps == [i \in 1..6 |-> [year |-> 2020, sec |-> 86399,
             ns |-> <<0, 499, 9999000, 99999600, 123456789, 999999499>>[i]]]
          \o <<[year |-> 1999, sec |-> SecondsPerYear - 1, ns |-> 999999500], ZeroTime>>
Late   == [year |-> 9999, sec |-> SecondsPerYear - 1, ns |-> 999999500]
Plain  == <<Nil, Five, Arg("bool", <<"true">>)>> \o [i \in DOMAIN Stamps |-> TimeArg(Stamps[i])]

\* Every byte with an escape; the last one makes the query too long.
Strings == {<<>>, <<"a", "'">>, <<"\\", "'">>, <<"nul", "nl", "cr", "sub", "\"">>,
            [i \in 1..50 |-> "nul"]}
Bytes   == <<"\\", "n", "'", "'">>

Use(kind, query, args) == [kind |-> kind, query |-> query, args |-> args]

\* One user passes all values and all mistakes, the other uses the statement.
DirectUses ==
  {Use("query", <<"S">> \o [i \in DOMAIN Plain |-> "?"], Plain),
   Use("exec", Select, <<Arg("bytes", Bytes)>>), Use("exec", Short, <<Five>>),
   Use("exec", Select, <<TimeArg(Late)>>), Use("query", Select, <<TimeArg(Late)>>),
   Use("query", Select, <<>>), Use("query", Literals, <<Five, Nil>>),
   Use("query", Select, <<Arg("chan", <<>>)>>), Use("preparedQuery", Select, <<Five>>)}
  \cup {Use("exec", Select, <<Arg("string", v)>>) : v \in Strings}
  \cup {Use("exec", Select \o <<")">>, <<Arg("bytes", Bytes)>>)}
  \cup {Use("query", Select, <<Arg("string", FormatString(<<"a", "'">>))>>),
        Use("query", Select, <<Arg("bytes", FormatBytes(Bytes))>>)}
StatementUses ==
  {Use(kind, Select, <<Five>>) : kind \in {"preparedQuery", "preparedExec"}}
  \cup {Use("preparedExec", Select, <<>>), Use("ping", <<>>, <<>>)}

UsesOf == u1 :> DirectUses @@ u2 :> StatementUses
=============================================================================
