--------------------------------- MODULE Cost ---------------------------------
(***************************************************************************)
(* The moneywise mode: what QueryContext prints about the cost of queries, *)
(* on its way through QueryExec (printCost and getCost in go/utils.go, the *)
(* prices in go/cost.go, its calls in go/connection.go).                   *)
(*                                                                         *)
(* Data are counted in MB and a price is that of so many MB.  The service  *)
(* knows for certain what an execution has scanned when it has succeeded;  *)
(* before, and when it ends otherwise, it reports something up to that, or *)
(* nothing yet.                                                            *)
(***************************************************************************)
EXTENDS QueryExec, Sequences

CONSTANTS
  Sizes,   \* the MB that may be reported
  Full     \* the MB each execution scans in all

NA == "NA"  \* the qid of a line about no execution

ASSUME CostAssumption == Sizes \subseteq Nat /\ Full \in [Calls -> Nat] /\ NA \notin Calls

VARIABLE printed  \* the lines each call has printed: an execution and a price

costVars == <<vars, printed>>

Unreported == -1

\* DataScannedInBytes, a field that may be missing.
Statistics(e) == IF exec[e] = "succeeded" THEN {Full[e]}
                 ELSE {Unreported} \cup {s \in Sizes : s <= Full[e]}

PriceOfMB == 1
Price10MB == 10 * PriceOfMB

\* Mutant: nothing is scanned for free.
GetCostAtLeast(mb) == IF mb < 10 THEN Price10MB ELSE mb * PriceOfMB

\* The price of 10 MB at least, if anything is scanned.
GetCost(mb) == IF mb = 0 THEN 0 ELSE IF mb < 10 THEN Price10MB ELSE mb * PriceOfMB

\* printCost.
Line(e, mb) == IF mb = Unreported THEN [about |-> NA, cost |-> 0]
               ELSE [about |-> e, cost |-> GetCost(mb)]
Prints(c, line) == printed' = [printed EXCEPT ![c] = Append(@, line)]
-----------------------------------------------------------------------------
CostInit == Init /\ printed = [c \in Calls |-> <<>>]

\* The status of an execution that has ended, but not of one that has failed.
PrintEnd(c) ==
  IF exec[c] \in {"succeeded", "cancelled"}
  THEN \E mb \in Statistics(c) : Prints(c, Line(c, mb))
  ELSE UNCHANGED printed

\* The context ended and the stop was taken: one more status request, which may
\* fail.  stop_query_id prints nothing.
PrintStopped(c) ==
  IF ByQueryId(c) THEN UNCHANGED printed
  ELSE \E mb \in Statistics(c) \cup {Unreported} : Prints(c, Line(c, mb))

\* Mutant: the statistics of the execution named, as if it were the call's own.
PrintCachedAgain(c) ==
  IF ByQueryId(c) THEN \E mb \in Statistics(Target(c)) : Prints(c, Line(Target(c), mb))
  ELSE UNCHANGED printed

\* cachedQuery: rows by a query ID cost nothing.
PrintCached(c) ==
  IF ByQueryId(c) THEN Prints(c, Line(Target(c), 0)) ELSE UNCHANGED printed

Silent(c) ==
  \/ Before(c) \/ Starting(c) \/ PollFails(c) \/ Tick(c) \/ StopOwn(c) \/ StopFails(c)
  \/ StopById(c) \/ AskStatus(c) \/ FetchPage(c) \/ Service(c) \/ ContextEnds(c)

CostNext == \E c \in Calls :
  \/ Poll(c) /\ PrintEnd(c)
  \/ StopAnswered(c) /\ PrintStopped(c)
  \/ Describe(c) /\ PrintCached(c)
  \/ Silent(c) /\ UNCHANGED printed

CostSpec == CostInit /\ [][CostNext]_costVars /\ Fairness
-----------------------------------------------------------------------------
\* Whoever waits for an execution, stops it or asks for its rows, and in
\* whatever order, its cost is printed at most once (connection.go:262-273,
\* 466-483, 504-509), and never more than what it costs in all.
CostToldOnce ==
  \A e, c, d \in Calls : \A i \in DOMAIN printed[c], j \in DOMAIN printed[d] :
    LET this == printed[c][i]  that == printed[d][j] IN
    this.about = e =>
      /\ this.cost <= GetCost(Full[e])
      /\ that.about = e /\ this.cost > 0 /\ that.cost > 0 => c = d /\ i = j

\* Rows come with one line about their execution: all of its cost for the call
\* that ran it, nothing for a call by query ID.
RowsArePaidFor ==
  \A c \in Calls : answer[c] = "rows" =>
    printed[c] = << [about |-> Target(c),
                     cost  |-> IF ByQueryId(c) THEN 0 ELSE GetCost(Full[c])] >>
=============================================================================
