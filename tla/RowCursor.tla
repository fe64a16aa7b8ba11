----------------------------- MODULE RowCursor -----------------------------
(***************************************************************************)
(* What a driver.Rows promises its consumer: a cursor over the rows of a   *)
(* result.  Rows come one at a time and in order, "end of rows" is said    *)
(* only after the last one, an error may end the scan at any point, and    *)
(* Close ends everything.  Where the rows come from is not told.           *)
(*                                                                         *)
(* The promise has a limit: a cursor that shares its result with others    *)
(* may be torn off it, and reads from then on what they happen to leave of *)
(* that result.  One that shares with nobody never is.                     *)
(***************************************************************************)
EXTENDS Naturals, Sequences

CONSTANTS Readers,  \* the cursors
          Rows,     \* the rows of each cursor's result, in order
          Scraps,   \* what may reach each cursor once it is torn off
          Sharing   \* the cursors that share their result with others

VARIABLES seen,     \* the rows the consumer of each cursor has received
          status,   \* "open", "eof", "error" or "closed"
          torn      \* the cursors that have been torn off

cursorVars == <<seen, status, torn>>

Init == /\ seen   = [r \in Readers |-> << >>]
        /\ status = [r \in Readers |-> "open"]
        /\ torn   = {}

Hand(r, row) == /\ status[r] = "open"
                /\ seen' = [seen EXCEPT ![r] = Append(@, row)]
                /\ UNCHANGED <<status, torn>>

Deliver(r) == /\ r \notin torn
              /\ Len(seen[r]) < Len(Rows[r])
              /\ Hand(r, Rows[r][Len(seen[r]) + 1])

DeliverScrap(r) == r \in torn /\ \E row \in Scraps[r] : Hand(r, row)

\* The three ways a scan ends.
Finish(r, how) == /\ status' = [status EXCEPT ![r] = how]
                  /\ UNCHANGED <<seen, torn>>

Exhaust(r) == /\ status[r] = "open"
              /\ r \in torn \/ Len(seen[r]) = Len(Rows[r])
              /\ Finish(r, "eof")

Fail(r) == status[r] = "open" /\ Finish(r, "error")

Shut(r) == status[r] # "closed" /\ Finish(r, "closed")

Tear(r) == /\ r \in Sharing
           /\ torn' = torn \cup {r}
           /\ UNCHANGED <<seen, status>>

Next == \E r \in Readers :
          \/ Deliver(r) \/ DeliverScrap(r)
          \/ Exhaust(r) \/ Fail(r) \/ Shut(r)
          \/ Tear(r)

Spec == Init /\ [][Next]_cursorVars
=============================================================================
