------------------------------- MODULE MCReader -------------------------------
(* A small instance of Reader for TLC. *)
EXTENDS Reader

CONSTANTS one, two

Setting(bucket, region, admin, other) ==
  [rowonly |-> other, fastfail |-> "off", bucket |-> bucket, region |-> region, admin |-> admin]

MCShipped == Setting("s3://one", "us-east-1", "off", "off")

\* The shipped file, one that allows writes, one with a bucket that is none and
\* one without a region.
MCSettings ==
  {MCShipped, Setting("s3://two", "us-east-1", "on", "on"),
   Setting("one", "us-east-1", "on", "off"), Setting("s3://two", "unset", "on", "off")}

Command(bucket, admin, fastfail, queries) ==
  [version |-> FALSE, bucket |-> bucket, admin |-> admin, rowonly |-> "unset",
   fastfail |-> fastfail, readable |-> TRUE, queries |-> queries]

\* One query, a file of queries with a blank among them, a write, with and
\* without -b, -a and -f; a file that cannot be read; and -v.
MCCommands ==
  [p \in Procs |->
     IF p = one
     THEN {Command("unset", "unset", "unset", <<"select">>),
           Command("s3://two", "off", "off", <<"select", "", "drop">>),
           Command("one", "unset", "on", <<"drop", "values">>),
           [Command("unset", "on", "off", <<"select">>) EXCEPT !.readable = FALSE],
           [Command("unset", "unset", "unset", <<"select">>) EXCEPT !.version = TRUE]}
     ELSE {Command("unset", "on", "off", <<"insert">>)}]
=============================================================================
