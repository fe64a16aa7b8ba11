---------------------------- MODULE MCQueryExec ----------------------------
(* Small instances of QueryExec, with what it prints, for TLC. *)
EXTENDS Cost

CONSTANTS c1, c2

TwoCalls == {c1, c2}

Plain(text) == [command |-> "none", text |-> text]
Pseudo(command, text) == [command |-> command, text |-> text]

\* c1's execution may be asked for by its query ID.
ByIdRequests == {Plain("select"), Plain(c1), Pseudo("get_query_id", "select"),
                 Pseudo("get_query_id_status", c1), Pseudo("stop_query_id", c1)}

\* Every kind of request, refused ones included; a pseudo command whose text
\* is no query ID is run as a query.
AllRequests == ByIdRequests \cup
               {Plain("insert"), Plain("invalid"), Pseudo("stop_query_id", "select"),
                Pseudo("get_driver_version", "select"), Pseudo("unknown", "select")}

OnlySelects == {Plain("select")}

\* c1's statement is a utility one, with a limit of six seconds and a status
\* request every three; c2's is a DDL one, which has no limit.
Override    == [DML |-> 6, DDL |-> -1]
OneLimited  == [c \in TwoCalls |-> IntervalsIn(Timeout(IF c = c1 THEN "UTILITY" ELSE "DDL", Override), 3)]
NoneLimited == [c \in TwoCalls |-> -1]

\* One execution scans less than the least that is charged, the other more.
SmallAndLarge == [c \in TwoCalls |-> IF c = c1 THEN 20 ELSE 1]
=============================================================================
