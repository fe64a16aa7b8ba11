--------------------------- MODULE QueryExecProofs ---------------------------
(***************************************************************************)
(* Proofs about QueryExec, for any calls, requests and limits, and about   *)
(* Cost, for any sizes: on every way through QueryContext at most one line *)
(* is printed, and it is the right one.                                    *)
(***************************************************************************)
EXTENDS Cost, TLAPS

LEMMA ElapsedType ==
  ASSUME TypeOK, NEW c \in Calls
  PROVE  /\ elapsed[c] \in Nat /\ Limit[c] \in Int
         /\ NextElapsed(c) = elapsed[c] \/ NextElapsed(c) = elapsed[c] + 1
         /\ Limit[c] >= 0 => NextElapsed(c) = elapsed[c] + 1
         /\ NextElapsed(c) \in Nat
<1>1. elapsed[c] \in Nat /\ Limit[c] \in Int
  BY ExecAssumption DEF TypeOK
<1> QED
  BY <1>1 DEF NextElapsed

LEMMA TargetType ==
  ASSUME TypeOK, NEW c \in Calls
  PROVE  Target(c) \in Calls
BY ExecAssumption DEF TypeOK, Target, ByQueryId

-----------------------------------------------------------------------------
(* Type correctness. *)

LEMMA InitTypes == Init => TypeOK
BY ExecAssumption DEF Init, TypeOK

LEMMA NextTypes == TypeOK /\ [Next]_vars => TypeOK'
<1> SUFFICES ASSUME TypeOK, [Next]_vars PROVE TypeOK'
  OBVIOUS
<1>0. \A d \in Calls :
        /\ elapsed[d] \in Nat /\ Limit[d] \in Int
        /\ NextElapsed(d) = elapsed[d] \/ NextElapsed(d) = elapsed[d] + 1
        /\ Limit[d] >= 0 => NextElapsed(d) = elapsed[d] + 1
        /\ NextElapsed(d) \in Nat
  BY ElapsedType
<1> USE DEF TypeOK, callVars, serviceVars, Active, Terminal
<1>1. ASSUME UNCHANGED vars PROVE TypeOK'
  BY <1>1 DEF vars
<1>2. ASSUME NEW c \in Calls, QueryContext(c) PROVE TypeOK'
  <2>1. CASE Local(c)
    BY <2>1 DEF Local, Return
  <2>2. CASE Admit(c)
    BY <2>2 DEF Admit, Goto
  <2>3. CASE GetWorkgroup(c)
    BY <2>3 DEF GetWorkgroup, ReturnError, Return, Goto
  <2>4. CASE CreateWorkgroup(c)
    BY <2>4 DEF CreateWorkgroup, ReturnError, Return, Goto
  <2>5. CASE StartQuery(c)
    BY <2>5 DEF StartQuery, Return, Goto
  <2>6. CASE StartAnswered(c)
    BY <2>6 DEF StartAnswered, Return, Goto
  <2>7. CASE StartDeclined(c)
    BY <2>7 DEF StartDeclined, Return
  <2>8. CASE StartLost(c)
    BY <2>8 DEF StartLost, ReturnError, Return
  <2>9. CASE Poll(c)
    <3>1. CASE exec[c] \in {"cancelled", "failed"} /\ Return(c, exec[c])
      BY <2>9, <3>1 DEF Poll, Return
    <3>2. ASSUME NEW where \in {"describing", "waiting"}, Goto(c, where) PROVE TypeOK'
      BY <2>9, <3>2 DEF Poll, Goto
    <3> QED
      BY <2>9, <3>1, <3>2 DEF Poll
  <2>10. CASE PollFails(c)
    BY <2>10 DEF PollFails, ReturnError, Return
  <2>11. CASE Tick(c)
    <3>1. NextElapsed(c) \in Nat
      BY <1>0
    <3> QED
      BY <2>11, <3>1 DEF Tick
  <2>12. CASE StopOwn(c)
    BY <2>12 DEF StopOwn, SendStop, Goto
  <2>13. CASE StopAnswered(c)
    BY <2>13 DEF StopAnswered, Return
  <2>14. CASE StopFails(c)
    BY <2>14 DEF StopFails, Return
  <2>15. CASE StopById(c)
    BY <2>15, TargetType DEF StopById, SendStop, Return, Goto
  <2>16. CASE AskStatus(c)
    BY <2>16 DEF AskStatus, ReturnError, Return
  <2>17. CASE Describe(c)
    BY <2>17 DEF Describe, ReturnError, Return, Goto
  <2>18. CASE FetchPage(c)
    BY <2>18 DEF FetchPage, ReturnError, Return
  <2> QED
    BY <1>2, <2>1, <2>2, <2>3, <2>4, <2>5, <2>6, <2>7, <2>8, <2>9, <2>10, <2>11,
       <2>12, <2>13, <2>14, <2>15, <2>16, <2>17, <2>18 DEF QueryContext, Before,
       Starting, Waiting, ById
<1>3. ASSUME NEW c \in Calls, Service(c) PROVE TypeOK'
  <2>1. CASE TakeStart(c)
    BY <2>1 DEF TakeStart
  <2>2. CASE TakeStop(c)
    BY <2>2 DEF TakeStop
  <2>3. CASE Progress(c)
    BY <2>3 DEF Progress
  <2>4. CASE Cancelled(c)
    BY <2>4 DEF Cancelled
  <2> QED
    BY <1>3, <2>1, <2>2, <2>3, <2>4 DEF Service
<1>4. ASSUME NEW c \in Calls, ContextEnds(c) PROVE TypeOK'
  BY <1>4 DEF ContextEnds
<1> QED
  BY <1>1, <1>2, <1>3, <1>4 DEF Next

\* Every variable keeps its type (TypeOK).
THEOREM ExecTypes == Spec => []TypeOK
BY InitTypes, NextTypes, PTL DEF Spec

-----------------------------------------------------------------------------
(* The clock.  A call that is still waiting is within its limit; the interval *)
(* that exceeds the limit is the last one.                                    *)

WithinLimit ==
  \A c \in Calls : Limit[c] >= 0 =>
    /\ elapsed[c] <= Limit[c] + 1
    /\ at[c] # "returned" => elapsed[c] <= Limit[c]

LEMMA InitLimit == Init => WithinLimit
BY ExecAssumption DEF Init, WithinLimit

\* The timer's own check: an interval that exceeds the limit ends the call.
LEMMA TickLimit ==
  ASSUME TypeOK, WithinLimit, NEW c \in Calls, Tick(c) PROVE WithinLimit'
<1> DEFINE n == NextElapsed(c)
<1>1. /\ elapsed[c] \in Nat /\ Limit[c] \in Int /\ n \in Nat
      /\ Limit[c] >= 0 => n = elapsed[c] + 1
  BY ElapsedType
<1>2. /\ at[c] = "waiting"
      /\ elapsed' = [elapsed EXCEPT ![c] = n]
      /\ at' = [at EXCEPT ![c] = IF TimedOut(c, n) THEN "returned" ELSE "polling"]
  BY DEF Tick
<1>3. elapsed \in [Calls -> Nat] /\ DOMAIN at = Calls
  BY DEF TypeOK
<1>4. elapsed'[c] = n /\ at'[c] = IF TimedOut(c, n) THEN "returned" ELSE "polling"
  BY <1>2, <1>3
<1> HIDE DEF n
<1>5. Limit[c] >= 0 => elapsed[c] <= Limit[c]
  BY <1>2 DEF WithinLimit
<1>6. ASSUME Limit[c] >= 0 PROVE n <= Limit[c] + 1
  BY <1>1, <1>5, <1>6
<1>7. ASSUME Limit[c] >= 0, at'[c] # "returned" PROVE n <= Limit[c]
  <2>1. ~TimedOut(c, n)
    BY <1>4, <1>7
  <2> QED
    BY <1>1, <1>7, <2>1 DEF TimedOut
<1>8. ASSUME NEW d \in Calls, d # c, Limit[d] >= 0
      PROVE  /\ elapsed'[d] <= Limit[d] + 1
             /\ at'[d] # "returned" => elapsed'[d] <= Limit[d]
  <2>1. elapsed'[d] = elapsed[d] /\ at'[d] = at[d]
    BY <1>2, <1>3, <1>8
  <2> QED
    BY <1>8, <2>1 DEF WithinLimit
<1> QED
  BY <1>4, <1>6, <1>7, <1>8 DEF WithinLimit

LEMMA NextLimit == TypeOK /\ WithinLimit /\ [Next]_vars => WithinLimit'
<1> SUFFICES ASSUME TypeOK, WithinLimit, [Next]_vars PROVE WithinLimit'
  OBVIOUS
<1>0. \A d \in Calls :
        /\ elapsed[d] \in Nat /\ Limit[d] \in Int
        /\ NextElapsed(d) = elapsed[d] \/ NextElapsed(d) = elapsed[d] + 1
        /\ Limit[d] >= 0 => NextElapsed(d) = elapsed[d] + 1
        /\ NextElapsed(d) \in Nat
  BY ElapsedType
<1>5. \A d \in Calls : Tick(d) => WithinLimit'
  BY TickLimit
<1> USE DEF TypeOK, WithinLimit, callVars, serviceVars
<1>1. ASSUME UNCHANGED vars PROVE WithinLimit'
  BY <1>1 DEF vars
<1>2. ASSUME NEW c \in Calls, QueryContext(c) PROVE WithinLimit'
  <2>1. CASE Local(c)
    BY <2>1 DEF Local, Return
  <2>2. CASE Admit(c)
    BY <2>2 DEF Admit, Goto
  <2>3. CASE GetWorkgroup(c)
    BY <2>3 DEF GetWorkgroup, ReturnError, Return, Goto
  <2>4. CASE CreateWorkgroup(c)
    BY <2>4 DEF CreateWorkgroup, ReturnError, Return, Goto
  <2>5. CASE StartQuery(c)
    BY <2>5 DEF StartQuery, Return, Goto
  <2>6. CASE StartAnswered(c)
    BY <2>6 DEF StartAnswered, Return, Goto
  <2>7. CASE StartDeclined(c)
    BY <2>7 DEF StartDeclined, Return
  <2>8. CASE StartLost(c)
    BY <2>8 DEF StartLost, ReturnError, Return
  <2>9. CASE Poll(c)
    BY <2>9 DEF Poll, Return, Goto
  <2>10. CASE PollFails(c)
    BY <2>10 DEF PollFails, ReturnError, Return
  <2>11. CASE Tick(c)
    BY <2>11, <1>5
  <2>12. CASE StopOwn(c)
    BY <2>12 DEF StopOwn, SendStop, Goto
  <2>13. CASE StopAnswered(c)
    BY <2>13 DEF StopAnswered, Return
  <2>14. CASE StopFails(c)
    BY <2>14 DEF StopFails, Return
  <2>15. CASE StopById(c)
    BY <2>15 DEF StopById, SendStop, Return, Goto
  <2>16. CASE AskStatus(c)
    BY <2>16 DEF AskStatus, ReturnError, Return
  <2>17. CASE Describe(c)
    BY <2>17 DEF Describe, ReturnError, Return, Goto
  <2>18. CASE FetchPage(c)
    BY <2>18 DEF FetchPage, ReturnError, Return
  <2> QED
    BY <1>2, <2>1, <2>2, <2>3, <2>4, <2>5, <2>6, <2>7, <2>8, <2>9, <2>10, <2>11,
       <2>12, <2>13, <2>14, <2>15, <2>16, <2>17, <2>18 DEF QueryContext, Before,
       Starting, Waiting, ById
<1>3. ASSUME NEW c \in Calls, Service(c) PROVE WithinLimit'
  <2>1. CASE TakeStart(c)
    BY <2>1 DEF TakeStart
  <2>2. CASE TakeStop(c)
    BY <2>2 DEF TakeStop
  <2>3. CASE Progress(c)
    BY <2>3 DEF Progress
  <2>4. CASE Cancelled(c)
    BY <2>4 DEF Cancelled
  <2> QED
    BY <1>3, <2>1, <2>2, <2>3, <2>4 DEF Service
<1>4. ASSUME NEW c \in Calls, ContextEnds(c) PROVE WithinLimit'
  BY <1>4 DEF ContextEnds
<1> QED
  BY <1>1, <1>2, <1>3, <1>4 DEF Next

\* A call with a limit never polls for more than an interval past it
\* (PollsBounded): the check follows every timer and precedes the next poll.
THEOREM ExecPollsBounded == Spec => []PollsBounded
<1>1. Spec => [](TypeOK /\ WithinLimit)
  BY ExecTypes, InitLimit, NextLimit, PTL DEF Spec
<1>2. TypeOK /\ WithinLimit => PollsBounded
  BY ExecAssumption DEF TypeOK, WithinLimit, PollsBounded
<1> QED
  BY <1>1, <1>2, PTL
-----------------------------------------------------------------------------
(* The ledger of executions: which calls have asked for one, which have one, *)
(* and what can still come of a request whose answer never arrived.          *)

Unasked == {"idle", "workgroup", "creating", "ready"}
Watching == {"polling", "waiting", "describing"}

Entry(c) ==
  /\ answer[c] = "none" <=> at[c] # "returned"
  /\ c \in asked => ~ByQueryId(c) /\ at[c] \notin Unasked
  /\ c \in asked /\ exec[c] = "none" =>
       at[c] = "starting" \/ answer[c] \in {"error", "context error"}
  /\ exec[c] # "none" => c \in asked
  /\ at[c] \in Watching => exec[c] # "none"
  /\ stop[c] # "no" => exec[c] # "none"

Ledger == \A c \in Calls : Entry(c)

LEMMA InitLedger == Init => Ledger
BY DEF Init, Ledger, Entry, Unasked, Watching

LEMMA EntryFrame ==
  ASSUME NEW d \in Calls, Entry(d), req' = req, at'[d] = at[d], answer'[d] = answer[d],
         d \in asked' <=> d \in asked, exec'[d] = exec[d], stop'[d] = stop[d]
  PROVE  Entry(d)'
BY DEF Entry, ByQueryId

\* A call that moves or answers keeps the ledger if its own entry stays right.
LEMMA MoveKeeps ==
  ASSUME TypeOK, Ledger, NEW c \in Calls, NEW where, NEW what,
         at' = [at EXCEPT ![c] = where], answer' = [answer EXCEPT ![c] = what],
         req' = req, asked' = asked, exec' = exec, stop' = stop,
         what = "none" <=> where # "returned",
         c \in asked => where \notin Unasked,
         c \in asked /\ exec[c] = "none" =>
           where = "starting" \/ what \in {"error", "context error"},
         where \in Watching => exec[c] # "none"
  PROVE  Ledger'
<1>1. DOMAIN at = Calls /\ DOMAIN answer = Calls
  BY DEF TypeOK
<1>2. at'[c] = where /\ answer'[c] = what
  BY <1>1
<1>3. Entry(c)
  BY DEF Ledger
<1>4. Entry(c)'
  BY <1>2, <1>3 DEF Entry, ByQueryId
<1>5. ASSUME NEW d \in Calls, d # c PROVE Entry(d)'
  <2>1. at'[d] = at[d] /\ answer'[d] = answer[d] /\ Entry(d)
    BY <1>1, <1>5 DEF Ledger
  <2> QED
    BY <2>1, EntryFrame
<1> QED
  BY <1>4, <1>5 DEF Ledger

LEMMA GotoKeeps ==
  ASSUME TypeOK, Ledger, NEW c \in Calls, NEW where, Goto(c, where),
         asked' = asked, exec' = exec, stop' = stop,
         at[c] # "returned", where # "returned",
         c \in asked => where \notin Unasked,
         c \in asked /\ exec[c] = "none" => where = "starting",
         where \in Watching => exec[c] # "none"
  PROVE  Ledger'
<1>1. answer[c] = "none"
  BY DEF Ledger, Entry
<1>2. answer' = [answer EXCEPT ![c] = "none"]
  BY <1>1 DEF Goto, TypeOK
<1> QED
  BY <1>2, MoveKeeps DEF Goto

LEMMA ReturnKeeps ==
  ASSUME TypeOK, Ledger, NEW c \in Calls, NEW what, Return(c, what),
         asked' = asked, exec' = exec, stop' = stop, what # "none",
         c \in asked /\ exec[c] = "none" => what \in {"error", "context error"}
  PROVE  Ledger'
BY MoveKeeps DEF Return, Unasked, Watching

OthersKept(c) ==
  /\ req' = req
  /\ \A d \in Calls \ {c} :
       /\ at'[d] = at[d] /\ answer'[d] = answer[d]
       /\ exec'[d] = exec[d] /\ stop'[d] = stop[d]
       /\ d \in asked' <=> d \in asked

LEMMA OneEntry ==
  ASSUME Ledger, NEW c \in Calls, OthersKept(c), Entry(c)' PROVE Ledger'
BY EntryFrame DEF Ledger, OthersKept

LEMMA StopKeeps ==
  ASSUME TypeOK, Ledger, NEW c \in Calls, NEW e \in Calls,
         at[c] \in {"ready", "waiting"}, Goto(c, "stopping"),
         exec[e] # "none", SendStop(e), asked' = asked, exec' = exec
  PROVE  Ledger'
<1>1. ASSUME NEW d \in Calls PROVE Entry(d)'
  <2>1. Entry(d) /\ Entry(c)
    BY DEF Ledger
  <2>2. stop'[d] = stop[d] \/ d = e
    BY DEF SendStop, TypeOK
  <2>3. answer' = answer /\ req' = req /\ at' = [at EXCEPT ![c] = "stopping"]
    BY DEF Goto
  <2> QED
    BY <2>1, <2>2, <2>3 DEF TypeOK, Entry, ByQueryId, Unasked, Watching
<1> QED
  BY <1>1 DEF Ledger

LEMMA NextLedger == TypeOK /\ Ledger /\ [Next]_vars => Ledger'
<1> SUFFICES ASSUME TypeOK, Ledger, [Next]_vars PROVE Ledger'
  OBVIOUS
<1>1. ASSUME UNCHANGED vars PROVE Ledger'
  BY <1>1, EntryFrame DEF vars, callVars, Ledger, serviceVars
<1>2. ASSUME NEW c \in Calls, QueryContext(c) PROVE Ledger'
  <2>0. Entry(c)
    BY DEF Ledger
  <2>1. CASE Local(c)
    BY <2>1, <2>0, ReturnKeeps DEF Local, Entry, Unasked, Watching, callVars,
       serviceVars
  <2>2. CASE Admit(c)
    BY <2>2, <2>0, GotoKeeps DEF Admit, Entry, Unasked, Watching, callVars, serviceVars
  <2>3. CASE GetWorkgroup(c)
    BY <2>3, <2>0, GotoKeeps, ReturnKeeps DEF GetWorkgroup, ReturnError, Entry, Unasked,
       Watching, callVars, serviceVars
  <2>4. CASE CreateWorkgroup(c)
    BY <2>4, <2>0, GotoKeeps, ReturnKeeps DEF CreateWorkgroup, ReturnError, Entry,
       Unasked, Watching, callVars, serviceVars
  <2>5. CASE StartQuery(c)
    <3>1. CASE asked' = asked \cup {c} /\ Goto(c, "starting")
      <4>1. OthersKept(c)
        BY <2>5, <3>1 DEF OthersKept, StartQuery, Goto, serviceVars, TypeOK
      <4>2. Entry(c)'
        BY <2>5, <2>0, <3>1 DEF StartQuery, Goto, serviceVars, TypeOK, Entry, ByQueryId,
           Unasked, Watching
      <4> QED
        BY <4>1, <4>2, OneEntry
    <3> QED
      BY <2>5, <2>0, <3>1, ReturnKeeps DEF StartQuery, Entry, Unasked, serviceVars
  <2>6. CASE StartAnswered(c)
    BY <2>6, <2>0, GotoKeeps, ReturnKeeps DEF StartAnswered, Entry, Unasked, Watching,
       callVars, serviceVars
  <2>7. CASE StartDeclined(c)
    <3>1. OthersKept(c)
      BY <2>7 DEF OthersKept, StartDeclined, Return, callVars, serviceVars, TypeOK
    <3>2. Entry(c)'
      BY <2>7, <2>0 DEF StartDeclined, Return, callVars, serviceVars, TypeOK, Entry,
         ByQueryId, Unasked, Watching
    <3> QED
      BY <3>1, <3>2, OneEntry
  <2>8. CASE StartLost(c)
    BY <2>8, <2>0, ReturnKeeps DEF StartLost, ReturnError, Entry, Unasked, Watching,
       callVars, serviceVars
  <2>9. CASE Poll(c)
    BY <2>9, <2>0, GotoKeeps, ReturnKeeps DEF Poll, Entry, Unasked, Watching, callVars,
       serviceVars
  <2>10. CASE PollFails(c)
    BY <2>10, <2>0, ReturnKeeps DEF PollFails, ReturnError, Entry, Unasked, Watching,
       callVars, serviceVars
  <2>11. CASE Tick(c)
    <3>1. UNCHANGED <<req, asked, exec, stop>> /\ exec[c] # "none"
      BY <2>11, <2>0 DEF Tick, serviceVars, Entry, Watching
    <3>2. CASE TimedOut(c, NextElapsed(c))
      BY <2>11, <3>1, <3>2, MoveKeeps DEF Tick, Unasked, Watching
    <3>3. CASE ~TimedOut(c, NextElapsed(c))
      <4>1. answer[c] = "none" /\ answer' = [answer EXCEPT ![c] = "none"]
        BY <2>11, <2>0, <3>3 DEF Tick, Entry, TypeOK
      <4> QED
        BY <2>11, <3>1, <3>3, <4>1, MoveKeeps DEF Tick, Unasked, Watching
    <3> QED
      BY <3>2, <3>3
  <2>12. CASE StopOwn(c)
    BY <2>12, <2>0, StopKeeps DEF StopOwn, Entry, Watching, serviceVars
  <2>13. CASE StopAnswered(c)
    BY <2>13, <2>0, ReturnKeeps DEF StopAnswered, Entry, Unasked, Watching, callVars,
       serviceVars
  <2>14. CASE StopFails(c)
    BY <2>14, <2>0, ReturnKeeps DEF StopFails, Entry, Unasked, Watching, callVars,
       serviceVars
  <2>15. CASE StopById(c)
    <3>1. Target(c) \in Calls
      BY TargetType
    <3> QED
      BY <2>15, <2>0, <3>1, StopKeeps, ReturnKeeps DEF StopById, Entry, Unasked,
         serviceVars
  <2>16. CASE AskStatus(c)
    BY <2>16, <2>0, ReturnKeeps DEF AskStatus, ReturnError, Entry, Unasked, Watching,
       callVars, serviceVars
  <2>17. CASE Describe(c)
    BY <2>17, <2>0, GotoKeeps, ReturnKeeps DEF Describe, ReturnError, Entry, Unasked,
       Watching, callVars, serviceVars
  <2>18. CASE FetchPage(c)
    BY <2>18, <2>0, ReturnKeeps DEF FetchPage, ReturnError, Entry, Unasked, Watching,
       callVars, serviceVars
  <2> QED
    BY <1>2, <2>1, <2>2, <2>3, <2>4, <2>5, <2>6, <2>7, <2>8, <2>9, <2>10, <2>11,
       <2>12, <2>13, <2>14, <2>15, <2>16, <2>17, <2>18 DEF QueryContext, Before,
       Starting, Waiting, ById
<1>3. ASSUME NEW c \in Calls, Service(c) PROVE Ledger'
  <2>0. Entry(c)
    BY DEF Ledger
  <2>1. CASE TakeStart(c)
    <3>1. OthersKept(c)
      BY <2>1 DEF OthersKept, TakeStart, callVars, serviceVars, TypeOK
    <3>2. Entry(c)'
      BY <2>1, <2>0 DEF TakeStart, callVars, serviceVars, TypeOK, Entry, ByQueryId,
         Unasked, Watching
    <3> QED
      BY <3>1, <3>2, OneEntry
  <2>2. CASE TakeStop(c)
    <3>1. OthersKept(c)
      BY <2>2 DEF OthersKept, TakeStop, callVars, serviceVars, TypeOK
    <3>2. Entry(c)'
      BY <2>2, <2>0 DEF TakeStop, callVars, serviceVars, TypeOK, Entry, ByQueryId,
         Unasked, Watching
    <3> QED
      BY <3>1, <3>2, OneEntry
  <2>3. CASE Progress(c)
    <3>1. OthersKept(c)
      BY <2>3 DEF OthersKept, Progress, callVars, serviceVars, TypeOK
    <3>2. Entry(c)'
      BY <2>3, <2>0 DEF Progress, callVars, serviceVars, TypeOK, Entry, ByQueryId,
         Unasked, Watching, Active
    <3> QED
      BY <3>1, <3>2, OneEntry
  <2>4. CASE Cancelled(c)
    <3>1. OthersKept(c)
      BY <2>4 DEF OthersKept, Cancelled, callVars, serviceVars, TypeOK
    <3>2. Entry(c)'
      BY <2>4, <2>0 DEF Cancelled, callVars, serviceVars, TypeOK, Entry, ByQueryId,
         Unasked, Watching, Active
    <3> QED
      BY <3>1, <3>2, OneEntry
  <2> QED
    BY <1>3, <2>1, <2>2, <2>3, <2>4 DEF Service
<1>4. ASSUME NEW c \in Calls, ContextEnds(c) PROVE Ledger'
  BY <1>4, EntryFrame DEF ContextEnds, Ledger, callVars, serviceVars
<1> QED
  BY <1>1, <1>2, <1>3, <1>4 DEF Next

-----------------------------------------------------------------------------
(* The contract. *)

Doomed == {e \in Calls : stop[e] = "taken"}

LEMMA InitPromise == Init => Promise!Init
<1> SUFFICES ASSUME Init PROVE Promise!Init
  OBVIOUS
<1>1. \A c \in Calls : Target(c) \in Calls
  BY InitTypes, TargetType
<1>2. \A c \in Calls : StateOf(c) = "none" /\ stop[c] # "taken"
  BY DEF Init, StateOf, Active
<1>3. answer = [c \in Calls |-> "none"]
  BY DEF Init
<1> QED
  BY <1>1, <1>2, <1>3 DEF Promise!Init

LEMMA PromiseStutter ==
  ASSUME req' = req, answer' = answer, exec' = exec, Doomed' = Doomed
  PROVE  UNCHANGED Promise!promiseVars
BY DEF Promise!promiseVars, StateOf, Target, ByQueryId, Doomed

LEMMA GotoStutters ==
  ASSUME NEW c, NEW where, Goto(c, where), exec' = exec, stop' = stop
  PROVE  UNCHANGED Promise!promiseVars
BY PromiseStutter DEF Goto, Doomed

LEMMA TrueHere ==
  ASSUME TypeOK, NEW c \in Calls, NEW what,
         what = "rows" => exec[Target(c)] = "succeeded",
         what \in {"failed", "cancelled"} => exec[Target(c)] = what,
         what = "ok" => stop[Target(c)] = "taken",
         what \in {"timeout", "query id"} => exec[c] # "none",
         what \in {"refused", "workgroup exists", "request id"} => exec[c] = "none"
  PROVE  Promise!True(c, what)
<1>1. Target(c) \in Calls
  BY TargetType
<1> QED
  BY <1>1 DEF Promise!True, StateOf, Active

LEMMA AnswerReplies ==
  ASSUME TypeOK, NEW c \in Calls, NEW what \in Promise!Answers,
         req' = req, answer' = [answer EXCEPT ![c] = what],
         answer[c] = "none", exec' = exec, stop' = stop,
         what = "rows" => exec[Target(c)] = "succeeded",
         what \in {"failed", "cancelled"} => exec[Target(c)] = what,
         what = "ok" => stop[Target(c)] = "taken",
         what \in {"timeout", "query id"} => exec[c] # "none",
         what \in {"refused", "workgroup exists", "request id"} => exec[c] = "none"
  PROVE  Promise!Next
<1>1. Promise!True(c, what)
  BY TrueHere
<1>2. Promise!Reply(c, what)
  BY <1>1 DEF Promise!Reply, StateOf, Target, ByQueryId
<1> QED
  BY <1>2 DEF Promise!Next

LEMMA ReturnReplies ==
  ASSUME TypeOK, NEW c \in Calls, NEW what \in Promise!Answers, Return(c, what),
         answer[c] = "none", exec' = exec, stop' = stop,
         what = "rows" => exec[Target(c)] = "succeeded",
         what \in {"failed", "cancelled"} => exec[Target(c)] = what,
         what = "ok" => stop[Target(c)] = "taken",
         what \in {"timeout", "query id"} => exec[c] # "none",
         what \in {"refused", "workgroup exists", "request id"} => exec[c] = "none"
  PROVE  Promise!Next
BY AnswerReplies DEF Return

\* Asking for a stop dooms nothing until the service agrees.
LEMMA SendStopStutters ==
  ASSUME TypeOK, NEW c, NEW e \in Calls, SendStop(e), Goto(c, "stopping"), exec' = exec
  PROVE  UNCHANGED Promise!promiseVars
<1>1. Doomed' = Doomed
  BY DEF TypeOK, SendStop, Doomed
<1> QED
  BY <1>1, PromiseStutter DEF Goto

\* What an execution's change looks like from outside.
LEMMA StateStep ==
  ASSUME TypeOK, NEW c \in Calls, NEW s, exec' = [exec EXCEPT ![c] = s]
  PROVE  [e \in Calls |-> StateOf(e)'] =
           [[e \in Calls |-> StateOf(e)] EXCEPT ![c] = IF s \in Active THEN "active" ELSE s]
BY DEF TypeOK, StateOf

LEMMA SettleStep ==
  ASSUME TypeOK, NEW c \in Calls, exec[c] \in Active, NEW how \in Promise!Ends,
         exec' = [exec EXCEPT ![c] = how], how = "cancelled" => stop[c] = "taken",
         req' = req, answer' = answer, stop' = stop
  PROVE  Promise!Next
<1>1. Promise!Settle(c, how)
  BY StateStep DEF Promise!Settle, Promise!Ends, StateOf, Active, Target, ByQueryId
<1> QED
  BY <1>1 DEF Promise!Next

LEMMA NextPromise ==
  TypeOK /\ Ledger /\ [Next]_vars => [Promise!Next]_(Promise!promiseVars)
<1> SUFFICES ASSUME TypeOK, Ledger, [Next]_vars
             PROVE  Promise!Next \/ UNCHANGED Promise!promiseVars
  OBVIOUS
<1>1. ASSUME UNCHANGED vars PROVE UNCHANGED Promise!promiseVars
  BY <1>1, PromiseStutter DEF vars, callVars, serviceVars, Doomed
<1>2. ASSUME NEW c \in Calls, QueryContext(c)
     PROVE  Promise!Next \/ UNCHANGED Promise!promiseVars
  <2>0. /\ at[c] # "returned" => answer[c] = "none"
        /\ at[c] \in {"idle", "workgroup", "creating", "ready"} => exec[c] = "none"
        /\ exec[c] # "none" => Target(c) = c
        /\ at[c] \in Watching => exec[c] # "none"
    BY DEF Ledger, Entry, Target, Unasked
  <2>1. CASE Local(c)
    BY <2>1, <2>0, ReturnReplies DEF Local, Promise!Answers, Promise!Mishaps,
       Watching, serviceVars
  <2>2. CASE Admit(c)
    BY <2>2, <2>0, GotoStutters DEF Admit, Watching, serviceVars
  <2>3. CASE GetWorkgroup(c)
    BY <2>3, <2>0, GotoStutters, ReturnReplies DEF GetWorkgroup, ReturnError,
       Promise!Answers, Promise!Mishaps, Watching, serviceVars
  <2>4. CASE CreateWorkgroup(c)
    BY <2>4, <2>0, GotoStutters, ReturnReplies DEF CreateWorkgroup, ReturnError,
       Promise!Answers, Promise!Mishaps, Watching, serviceVars
  <2>5. CASE StartQuery(c)
    BY <2>5, <2>0, GotoStutters, ReturnReplies DEF StartQuery, Promise!Answers,
       Promise!Mishaps, Watching, serviceVars
  <2>6. CASE StartAnswered(c)
    BY <2>6, <2>0, GotoStutters, ReturnReplies DEF StartAnswered, Promise!Answers,
       Promise!Mishaps, Watching, serviceVars
  <2>7. CASE StartDeclined(c)
    BY <2>7, <2>0, ReturnReplies DEF StartDeclined, Promise!Answers, Promise!Mishaps,
       Watching, serviceVars
  <2>8. CASE StartLost(c)
    BY <2>8, <2>0, ReturnReplies DEF StartLost, ReturnError, Promise!Answers,
       Promise!Mishaps, Watching, serviceVars
  <2>9. CASE Poll(c)
    BY <2>9, <2>0, GotoStutters, ReturnReplies DEF Poll, Promise!Answers,
       Promise!Mishaps, Watching, serviceVars
  <2>10. CASE PollFails(c)
    BY <2>10, <2>0, ReturnReplies DEF PollFails, ReturnError, Promise!Answers,
       Promise!Mishaps, Watching, serviceVars
  <2>11. CASE Tick(c)
    <3>1. CASE TimedOut(c, NextElapsed(c))
      BY <2>11, <2>0, <3>1, AnswerReplies DEF Tick, Promise!Answers, Watching,
         serviceVars
    <3>2. CASE ~TimedOut(c, NextElapsed(c))
      BY <2>11, <3>2, PromiseStutter DEF Tick, serviceVars, Doomed
    <3> QED
      BY <3>1, <3>2
  <2>12. CASE StopOwn(c)
    BY <2>12, SendStopStutters DEF StopOwn, serviceVars
  <2>13. CASE StopAnswered(c)
    BY <2>13, <2>0, ReturnReplies DEF StopAnswered, Promise!Answers, Promise!Mishaps,
       Watching, serviceVars
  <2>14. CASE StopFails(c)
    BY <2>14, <2>0, ReturnReplies DEF StopFails, Promise!Answers, Promise!Mishaps,
       Watching, serviceVars
  <2>15. CASE StopById(c)
    <3>1. Target(c) \in Calls
      BY TargetType
    <3> QED
      BY <2>15, <2>0, <3>1, SendStopStutters, ReturnReplies DEF StopById,
         Promise!Answers, Promise!Mishaps, serviceVars
  <2>16. CASE AskStatus(c)
    BY <2>16, <2>0, ReturnReplies DEF AskStatus, ReturnError, Promise!Answers,
       Promise!Mishaps, Watching, serviceVars
  <2>17. CASE Describe(c)
    BY <2>17, <2>0, GotoStutters, ReturnReplies DEF Describe, ReturnError,
       Promise!Answers, Promise!Mishaps, Watching, serviceVars
  <2>18. CASE FetchPage(c)
    BY <2>18, <2>0, ReturnReplies DEF FetchPage, ReturnError, Promise!Answers,
       Promise!Mishaps, Watching, serviceVars
  <2> QED
    BY <1>2, <2>1, <2>2, <2>3, <2>4, <2>5, <2>6, <2>7, <2>8, <2>9, <2>10, <2>11,
       <2>12, <2>13, <2>14, <2>15, <2>16, <2>17, <2>18 DEF QueryContext, Before,
       Starting, Waiting, ById
<1>3. ASSUME NEW c \in Calls, Service(c)
     PROVE  Promise!Next \/ UNCHANGED Promise!promiseVars
  <2>0. Entry(c)
    BY DEF Ledger
  <2>1. CASE TakeStart(c)
    <3>1. answer[c] \in {"none", "error", "context error"} /\ Target(c) = c
      BY <2>1, <2>0 DEF TakeStart, Entry, Target
    <3>2. Promise!Launch(c)
      BY <2>1, <3>1, StateStep DEF TakeStart, callVars, Promise!Launch,
         Promise!Mishaps, StateOf, Active, Target, ByQueryId
    <3> QED
      BY <3>2 DEF Promise!Next
  <2>2. CASE TakeStop(c)
    <3>1. Doomed' = Doomed \cup {c}
      BY <2>2 DEF TakeStop, TypeOK, Doomed
    <3>2. StateOf(c) # "none"
      BY <2>2, <2>0 DEF TakeStop, Entry, StateOf
    <3>3. Promise!Doom(c)
      BY <2>2, <3>1, <3>2 DEF TakeStop, Doomed, callVars, serviceVars, Promise!Doom,
         StateOf, Target, ByQueryId
    <3> QED
      BY <3>3 DEF Promise!Next
  <2>3. CASE Progress(c)
    <3>1. CASE exec[c] = "queued" /\ exec' = [exec EXCEPT ![c] = "running"]
      <4>1. \A e \in Calls : StateOf(e)' = StateOf(e)
        BY <3>1 DEF TypeOK, StateOf, Active
      <4> QED
        BY <2>3, <4>1 DEF Progress, callVars, Promise!promiseVars, Target, ByQueryId
    <3>2. ASSUME NEW how \in {"failed", "succeeded"}, exec[c] \in Active,
                 exec' = [exec EXCEPT ![c] = how]
          PROVE  Promise!Next
      BY <2>3, <3>2, SettleStep DEF Progress, callVars, Promise!Ends
    <3> QED
      BY <2>3, <3>1, <3>2 DEF Progress, Active
  <2>4. CASE Cancelled(c)
    BY <2>4, SettleStep DEF Cancelled, callVars, Promise!Ends
  <2> QED
    BY <1>3, <2>1, <2>2, <2>3, <2>4 DEF Service
<1>4. ASSUME NEW c \in Calls, ContextEnds(c)
     PROVE  Promise!Next \/ UNCHANGED Promise!promiseVars
  BY <1>4, PromiseStutter DEF ContextEnds, callVars, serviceVars, Doomed
<1> QED
  BY <1>1, <1>2, <1>3, <1>4 DEF Next

\* Every behaviour of QueryExec is one of the contract (ImplementsPromise): an
\* answer is final and true of the execution it is about, an execution starts
\* once and only for a call that has no answer or a mishap for one, and it is
\* cancelled only after the service agreed to stop it.
THEOREM ExecImplementsPromise == Spec => ImplementsPromise
<1>1. Spec => [](TypeOK /\ Ledger)
  BY ExecTypes, InitLedger, NextLedger, PTL DEF Spec
<1>2. Spec => Promise!Init
  BY InitPromise DEF Spec
<1>3. Spec => [][Promise!Next]_(Promise!promiseVars)
  BY <1>1, NextPromise, PTL DEF Spec
<1> QED
  BY <1>2, <1>3 DEF ImplementsPromise, Promise!Spec
-----------------------------------------------------------------------------
(* The lines about the cost. *)

\* The line that comes with rows.
Paid(c) == [about |-> Target(c), cost |-> IF ByQueryId(c) THEN 0 ELSE GetCost(Full[c])]

\* The lines a call may print.
Lines(c) == IF ByQueryId(c) THEN {Paid(c)}
            ELSE {[about |-> NA, cost |-> 0]} \cup [about : {c}, cost : 0 .. GetCost(Full[c])]

\* A call prints at most one line, on its way to the rows or as it returns; only
\* a query of its own is waited for.
Receipt(c) ==
  /\ printed[c] = <<>> \/ \E l \in Lines(c) : printed[c] = <<l>>
  /\ printed[c] # <<>> => at[c] \in {"describing", "fetching", "returned"}
  /\ at[c] \in {"starting", "polling", "waiting", "describing"} => ~ByQueryId(c)
  /\ at[c] \in {"describing", "fetching"} \/ answer[c] = "rows" => printed[c] = <<Paid(c)>>
  /\ answer[c] = "rows" => at[c] = "returned"

Receipts == TypeOK /\ DOMAIN printed = Calls /\ \A c \in Calls : Receipt(c)

-----------------------------------------------------------------------------
(* Prices. *)

LEMMA CostGrows ==
  ASSUME NEW m \in Nat, NEW n \in Nat, m <= n
  PROVE  GetCost(m) \in Nat /\ GetCost(m) <= GetCost(n) /\ GetCost(0) = 0
BY DEF GetCost, Price10MB, PriceOfMB

\* Whatever the service reports of a call's own execution gives one of its lines.
LEMMA OwnLine ==
  ASSUME NEW c \in Calls, ~ByQueryId(c), NEW mb \in Statistics(c) \cup {Unreported}
  PROVE  Line(c, mb) \in Lines(c)
<1>1. Full[c] \in Nat /\ Sizes \subseteq Nat
  BY CostAssumption
<1>2. CASE mb = Unreported
  BY <1>2 DEF Line, Lines
<1>3. CASE mb # Unreported
  <2>1. mb \in Nat /\ mb <= Full[c]
    <3>1. mb = Full[c] \/ mb \in {s \in Sizes : s <= Full[c]}
      BY <1>3 DEF Statistics
    <3>2. CASE mb = Full[c]
      BY <1>1, <3>2
    <3>3. CASE mb \in {s \in Sizes : s <= Full[c]}
      BY <1>1, <3>3
    <3>4. QED
      BY <3>1, <3>2, <3>3
  <2>2. GetCost(mb) \in Nat /\ GetCost(Full[c]) \in Nat /\ GetCost(mb) <= GetCost(Full[c])
    BY <1>1, <2>1, CostGrows
  <2>3. GetCost(mb) \in 0 .. GetCost(Full[c])
    BY <2>2
  <2>4. Line(c, mb) = [about |-> c, cost |-> GetCost(mb)]
    BY <1>3 DEF Line
  <2>5. QED
    BY <2>3, <2>4 DEF Lines
<1>4. QED
  BY <1>2, <1>3

\* What an execution that has succeeded scanned is known.
LEMMA FullLine ==
  ASSUME NEW c \in Calls, ~ByQueryId(c), NEW mb \in Statistics(c), exec[c] = "succeeded"
  PROVE  Line(c, mb) = Paid(c)
<1>1. mb = Full[c] /\ Full[c] \in Nat
  BY CostAssumption DEF Statistics
<1>2. mb # Unreported
  BY <1>1 DEF Unreported
<1>3. QED
  BY <1>1, <1>2 DEF Line, Paid, Target

-----------------------------------------------------------------------------
(* A step of a call leaves the others alone. *)

Moves(c) ==
  /\ req' = req
  /\ \A d \in Calls \ {c} : at'[d] = at[d] /\ answer'[d] = answer[d]

LEMMA ReceiptFrame ==
  ASSUME NEW d \in Calls, Receipt(d), req' = req,
         printed'[d] = printed[d], at'[d] = at[d], answer'[d] = answer[d]
  PROVE  Receipt(d)'
BY DEF Receipt, Lines, Paid, Target, ByQueryId

LEMMA GotoMoves ==
  ASSUME TypeOK, NEW c \in Calls, NEW where, Goto(c, where)
  PROVE  Moves(c) /\ at'[c] = where /\ answer'[c] = answer[c]
BY DEF TypeOK, Goto, Moves

LEMMA ReturnMoves ==
  ASSUME TypeOK, NEW c \in Calls, NEW what, Return(c, what)
  PROVE  Moves(c) /\ at'[c] = "returned" /\ answer'[c] = what
BY DEF TypeOK, Return, Moves

LEMMA ReturnErrorMoves ==
  ASSUME TypeOK, NEW c \in Calls, ReturnError(c)
  PROVE  Moves(c) /\ at'[c] = "returned" /\ answer'[c] # "rows"
<1>1. PICK what \in {"context error", "error"} : Return(c, what)
  BY DEF ReturnError
<1>2. Moves(c) /\ at'[c] = "returned" /\ answer'[c] = what
  BY <1>1, ReturnMoves
<1>3. QED
  BY <1>1, <1>2

LEMMA TickMoves ==
  ASSUME TypeOK, NEW c \in Calls, Tick(c)
  PROVE  /\ Moves(c)
         /\ \/ at'[c] = "returned" /\ answer'[c] = "timeout"
            \/ at'[c] = "polling" /\ answer'[c] = answer[c]
BY DEF TypeOK, Tick, Moves

\* A call goes on without printing: towards its end, or between places where
\* nothing is printed yet.
Ends(c) ==
  /\ at'[c] = "returned"
  /\ answer'[c] = "rows" => at[c] = "fetching"

GoesOn(c) ==
  /\ at[c] \notin {"describing", "fetching", "returned"}
  /\ at'[c] \notin {"describing", "fetching", "returned"}
  /\ at'[c] \in {"starting", "polling", "waiting"} => ~ByQueryId(c)
  /\ answer'[c] = answer[c]

LEMMA QuietKeeps ==
  ASSUME NEW c \in Calls, Receipt(c), req' = req, printed' = printed, Ends(c) \/ GoesOn(c)
  PROVE  Receipt(c)'
<1>1. CASE Ends(c)
  BY <1>1 DEF Ends, Receipt, Lines, Paid, Target, ByQueryId
<1>2. CASE GoesOn(c)
  BY <1>2 DEF GoesOn, Receipt, Lines, Paid, Target, ByQueryId
<1>3. QED
  BY <1>1, <1>2

\* A call that has printed nothing prints its line.
LEMMA PrintKeeps ==
  ASSUME NEW c \in Calls, Receipt(c), req' = req, DOMAIN printed = Calls,
         at[c] \notin {"describing", "fetching", "returned"},
         NEW l \in Lines(c), Prints(c, l), answer'[c] # "rows",
         at'[c] \in {"describing", "fetching", "returned"},
         at'[c] = "describing" => ~ByQueryId(c),
         at'[c] \in {"describing", "fetching"} => l = Paid(c)
  PROVE  Receipt(c)'
<1>1. printed[c] = <<>>
  BY DEF Receipt
<1>2. printed'[c] = <<l>>
  BY <1>1 DEF Prints
<1>3. Lines(c)' = Lines(c) /\ Paid(c)' = Paid(c) /\ ByQueryId(c)' = ByQueryId(c)
  BY DEF Lines, Paid, Target, ByQueryId
<1>4. QED
  BY <1>2, <1>3 DEF Receipt

-----------------------------------------------------------------------------
(* The induction. *)

LEMMA InitReceipts == CostInit => Receipts
<1> SUFFICES ASSUME CostInit PROVE Receipts
  OBVIOUS
<1>1. TypeOK
  BY InitTypes DEF CostInit
<1>2. ASSUME NEW c \in Calls PROVE Receipt(c)
  BY DEF CostInit, Init, Receipt
<1>3. QED
  BY <1>1, <1>2 DEF Receipts, CostInit

\* What the call itself does keeps its receipt.
LEMMA SilentKeeps ==
  ASSUME TypeOK, NEW c \in Calls, Receipt(c), UNCHANGED printed,
         \/ Before(c) \/ Starting(c) \/ PollFails(c) \/ Tick(c) \/ StopOwn(c) \/ StopFails(c)
         \/ StopById(c) \/ AskStatus(c) \/ FetchPage(c)
  PROVE  Moves(c) /\ Receipt(c)'
<1> DEFINE Shape == Moves(c) /\ (Ends(c) \/ GoesOn(c))
<1>1. ASSUME NEW what, Return(c, what), what = "rows" => at[c] = "fetching" PROVE Shape
  BY <1>1, ReturnMoves DEF Ends
<1>2. ASSUME ReturnError(c) PROVE Shape
  BY <1>2, ReturnErrorMoves DEF Ends
<1>3. ASSUME NEW where, Goto(c, where),
             {at[c], where} \cap {"describing", "fetching", "returned"} = {},
             where \in {"starting", "polling", "waiting"} => ~ByQueryId(c)
      PROVE  Shape
  BY <1>3, GotoMoves DEF GoesOn
<1>4. at[c] \in {"starting", "polling", "waiting"} => ~ByQueryId(c)
  BY DEF Receipt
<1> HIDE DEF Shape
<1>5. ASSUME Local(c) PROVE Shape
  BY <1>5, <1>1 DEF Local
<1>6. ASSUME Admit(c) PROVE Shape
  BY <1>6, <1>3 DEF Admit
<1>7. ASSUME GetWorkgroup(c) PROVE Shape
  BY <1>7, <1>1, <1>2, <1>3 DEF GetWorkgroup
<1>8. ASSUME CreateWorkgroup(c) PROVE Shape
  BY <1>8, <1>1, <1>2, <1>3 DEF CreateWorkgroup
<1>9. ASSUME StartQuery(c) PROVE Shape
  BY <1>9, <1>1, <1>3 DEF StartQuery
<1>10. ASSUME StartAnswered(c) PROVE Shape
  BY <1>10, <1>1, <1>3, <1>4 DEF StartAnswered
<1>11. ASSUME StartDeclined(c) PROVE Shape
  BY <1>11, <1>1 DEF StartDeclined
<1>12. ASSUME StartLost(c) PROVE Shape
  BY <1>12, <1>2 DEF StartLost
<1>13. ASSUME PollFails(c) PROVE Shape
  BY <1>13, <1>2 DEF PollFails
<1>14. ASSUME Tick(c) PROVE Shape
  <2>1. at[c] = "waiting"
    BY <1>14 DEF Tick
  <2>2. QED
    BY <1>4, <1>14, <2>1, TickMoves DEF Shape, Ends, GoesOn
<1>15. ASSUME StopOwn(c) PROVE Shape
  BY <1>15, <1>3 DEF StopOwn
<1>16. ASSUME StopFails(c) PROVE Shape
  BY <1>16, <1>1 DEF StopFails
<1>17. ASSUME StopById(c) PROVE Shape
  BY <1>17, <1>1, <1>3 DEF StopById
<1>18. ASSUME AskStatus(c) PROVE Shape
  BY <1>18, <1>1, <1>2 DEF AskStatus
<1>19. ASSUME FetchPage(c) PROVE Shape
  BY <1>19, <1>1, <1>2 DEF FetchPage
<1>20. Shape
  BY <1>5, <1>6, <1>7, <1>8, <1>9, <1>10, <1>11, <1>12, <1>13, <1>14, <1>15, <1>16,
     <1>17, <1>18, <1>19 DEF Before, Starting
<1>21. QED
  BY <1>20, QuietKeeps DEF Shape, Moves

LEMMA PollKeeps ==
  ASSUME TypeOK, DOMAIN printed = Calls, NEW c \in Calls, Receipt(c), Poll(c), PrintEnd(c)
  PROVE  Moves(c) /\ Receipt(c)'
<1>1. at[c] = "polling" /\ ~ByQueryId(c)
  BY DEF Poll, Receipt
<1>2. CASE exec[c] \in {"failed"} \cup Active
  <2>1. UNCHANGED printed
    BY <1>2 DEF PrintEnd, Active
  <2>2. Return(c, "failed") \/ Goto(c, "waiting")
    BY <1>2 DEF Poll, Active
  <2>3. Moves(c) /\ (Ends(c) \/ GoesOn(c))
    BY <1>1, <2>2, ReturnMoves, GotoMoves DEF Ends, GoesOn
  <2>4. QED
    BY <2>1, <2>3, QuietKeeps DEF Moves
<1>3. CASE exec[c] \in {"succeeded", "cancelled"}
  <2>1. PICK mb \in Statistics(c) : Prints(c, Line(c, mb))
    BY <1>3 DEF PrintEnd
  <2>2. Line(c, mb) \in Lines(c)
    BY <1>1, OwnLine
  <2>3. exec[c] = "succeeded" => Line(c, mb) = Paid(c)
    BY <1>1, FullLine
  <2>4. \/ exec[c] = "cancelled" /\ Return(c, "cancelled")
        \/ exec[c] = "succeeded" /\ Goto(c, "describing")
    BY <1>3 DEF Poll, Active
  <2>5. /\ Moves(c) /\ answer'[c] # "rows"
        /\ \/ at'[c] = "returned"
           \/ at'[c] = "describing" /\ exec[c] = "succeeded"
    <3>1. answer[c] # "rows"
      BY <1>1 DEF Receipt
    <3>2. QED
      BY <2>4, <3>1, ReturnMoves, GotoMoves
  <2>6. QED
    BY <1>1, <2>1, <2>2, <2>3, <2>5, PrintKeeps DEF Moves
<1>4. QED
  BY <1>2, <1>3 DEF Poll

LEMMA StopAnsweredKeeps ==
  ASSUME TypeOK, DOMAIN printed = Calls, NEW c \in Calls, Receipt(c),
         StopAnswered(c), PrintStopped(c)
  PROVE  Moves(c) /\ Receipt(c)'
<1>1. /\ at[c] = "stopping" /\ Moves(c)
      /\ at'[c] = "returned" /\ answer'[c] \in {"ok", "context error"}
  BY ReturnMoves DEF StopAnswered
<1>2. CASE ByQueryId(c)
  BY <1>1, <1>2, QuietKeeps DEF PrintStopped, Ends, Moves
<1>3. CASE ~ByQueryId(c)
  <2>1. PICK mb \in Statistics(c) \cup {Unreported} : Prints(c, Line(c, mb))
    BY <1>3 DEF PrintStopped
  <2>2. Line(c, mb) \in Lines(c)
    BY <1>3, OwnLine
  <2>3. QED
    BY <1>1, <2>1, <2>2, PrintKeeps DEF Moves
<1>4. QED
  BY <1>2, <1>3

LEMMA DescribeKeeps ==
  ASSUME TypeOK, DOMAIN printed = Calls, NEW c \in Calls, Receipt(c),
         Describe(c), PrintCached(c)
  PROVE  Moves(c) /\ Receipt(c)'
<1>1. \/ at[c] = "ready" /\ ByQueryId(c)
      \/ at[c] = "describing" /\ ~ByQueryId(c)
  BY DEF Describe, Receipt
<1>2. /\ Moves(c)
      /\ \/ at'[c] = "fetching" /\ answer'[c] = answer[c]
         \/ at'[c] = "returned" /\ answer'[c] # "rows"
  BY GotoMoves, ReturnErrorMoves DEF Describe
<1>3. answer[c] # "rows"
  BY <1>1 DEF Receipt
<1>4. CASE ByQueryId(c)
  <2>1. Line(Target(c), 0) = Paid(c)
    BY <1>4, CostGrows DEF Line, Paid, Unreported
  <2>2. Prints(c, Paid(c)) /\ Paid(c) \in Lines(c)
    BY <1>4, <2>1 DEF PrintCached, Lines
  <2>3. QED
    BY <1>1, <1>2, <1>3, <1>4, <2>2, PrintKeeps DEF Moves
<1>5. CASE ~ByQueryId(c)
  <2>1. UNCHANGED printed
    BY <1>5 DEF PrintCached
  <2>2. at[c] = "describing" /\ printed[c] = <<Paid(c)>>
    BY <1>1, <1>5 DEF Receipt
  <2>3. QED
    BY <1>2, <1>3, <1>5, <2>1, <2>2 DEF Receipt, Lines, Paid, Target, ByQueryId, Moves
<1>6. QED
  BY <1>4, <1>5

\* What the service does, and the end of a context, concerns no receipt.
LEMMA WorldKeeps ==
  ASSUME NEW c \in Calls, Service(c) \/ ContextEnds(c)
  PROVE  UNCHANGED <<req, at, answer>>
BY DEF Service, TakeStart, TakeStop, Progress, Cancelled, ContextEnds, callVars

LEMMA CostStepIsStep == [CostNext]_costVars => [Next]_vars
<1> SUFFICES ASSUME [CostNext]_costVars PROVE [Next]_vars
  OBVIOUS
<1>1. CASE UNCHANGED costVars
  BY <1>1 DEF costVars
<1>2. ASSUME NEW c \in Calls,
             \/ Poll(c) \/ StopAnswered(c) \/ Describe(c) \/ Silent(c)
      PROVE  QueryContext(c) \/ Service(c) \/ ContextEnds(c)
  BY <1>2 DEF Silent, QueryContext, Waiting, ById
<1>3. QED
  BY <1>1, <1>2 DEF CostNext, Next

\* Printing changes nothing of a call: what holds of Spec holds of CostSpec.
LEMMA CostBehaves == CostSpec => Spec
<1>1. CostInit => Init
  BY DEF CostInit
<1>2. QED
  BY <1>1, CostStepIsStep, PTL DEF CostSpec, Spec

LEMMA NextReceipts == Receipts /\ [CostNext]_costVars => Receipts'
<1> SUFFICES ASSUME Receipts, [CostNext]_costVars PROVE Receipts'
  OBVIOUS
<1>1. TypeOK /\ DOMAIN printed = Calls /\ \A d \in Calls : Receipt(d)
  BY DEF Receipts
<1>2. TypeOK'
  BY <1>1, CostStepIsStep, NextTypes
<1>3. DOMAIN printed' = Calls
  BY <1>1 DEF CostNext, costVars, PrintEnd, PrintStopped, PrintCached, Prints
<1>4. CASE UNCHANGED costVars
  BY <1>1, <1>2, <1>3, <1>4, ReceiptFrame DEF costVars, vars, callVars, Receipts
<1>5. ASSUME NEW c \in Calls, UNCHANGED <<req, at, answer, printed>> PROVE Receipts'
  BY <1>1, <1>2, <1>3, <1>5, ReceiptFrame DEF Receipts
<1>6. ASSUME NEW c \in Calls, Moves(c), Receipt(c)',
             \A d \in Calls \ {c} : printed'[d] = printed[d]
      PROVE  Receipts'
  BY <1>1, <1>2, <1>3, <1>6, ReceiptFrame DEF Receipts, Moves
<1>7. ASSUME NEW c \in Calls, Poll(c), PrintEnd(c) PROVE Receipts'
  <2>1. \A d \in Calls \ {c} : printed'[d] = printed[d]
    BY <1>1, <1>7 DEF PrintEnd, Prints
  <2>2. QED
    BY <1>1, <1>6, <1>7, <2>1, PollKeeps
<1>8. ASSUME NEW c \in Calls, StopAnswered(c), PrintStopped(c) PROVE Receipts'
  <2>1. \A d \in Calls \ {c} : printed'[d] = printed[d]
    BY <1>1, <1>8 DEF PrintStopped, Prints
  <2>2. QED
    BY <1>1, <1>6, <1>8, <2>1, StopAnsweredKeeps
<1>9. ASSUME NEW c \in Calls, Describe(c), PrintCached(c) PROVE Receipts'
  <2>1. \A d \in Calls \ {c} : printed'[d] = printed[d]
    BY <1>1, <1>9 DEF PrintCached, Prints
  <2>2. QED
    BY <1>1, <1>6, <1>9, <2>1, DescribeKeeps
<1>10. ASSUME NEW c \in Calls, Silent(c), UNCHANGED printed PROVE Receipts'
  <2>1. CASE Service(c) \/ ContextEnds(c)
    BY <1>5, <1>10, <2>1, WorldKeeps
  <2>2. CASE ~(Service(c) \/ ContextEnds(c))
    BY <1>1, <1>6, <1>10, <2>2, SilentKeeps DEF Silent
  <2>3. QED
    BY <2>1, <2>2
<1>11. QED
  BY <1>4, <1>7, <1>8, <1>9, <1>10 DEF CostNext

LEMMA CostReceipts == CostSpec => []Receipts
BY InitReceipts, NextReceipts, PTL DEF CostSpec

-----------------------------------------------------------------------------
(* The theorems. *)

\* Rows come with one line about their execution, at its price for the call
\* that ran it and for nothing by query ID (RowsArePaidFor).
THEOREM RowsPaid == CostSpec => []RowsArePaidFor
<1>1. Receipts => RowsArePaidFor
  BY DEF Receipts, Receipt, RowsArePaidFor, Paid
<1>2. QED
  BY <1>1, CostReceipts, PTL

\* A line with a price is about the call's own execution, and is within what
\* that costs.
LEMMA PricedLine ==
  ASSUME NEW c \in Calls, Receipt(c), NEW i \in DOMAIN printed[c], NEW e \in Calls,
         printed[c][i].about = e
  PROVE  /\ i = 1
         /\ printed[c][i].cost <= GetCost(Full[e])
         /\ printed[c][i].cost > 0 => c = e
<1>1. printed[c] # <<>>
  OBVIOUS
<1>2. PICK l \in Lines(c) : printed[c] = <<l>>
  BY <1>1 DEF Receipt
<1>3. i = 1 /\ printed[c][i] = l
  BY <1>2
<1>4. Full[e] \in Nat /\ NA # e
  BY CostAssumption
<1>5. GetCost(Full[e]) \in Nat
  BY <1>4, CostGrows
<1>6. CASE ByQueryId(c)
  BY <1>3, <1>5, <1>6 DEF Lines, Paid
<1>7. CASE ~ByQueryId(c)
  BY <1>3, <1>4, <1>5, <1>7 DEF Lines
<1>8. QED
  BY <1>3, <1>6, <1>7

\* The cost of an execution is printed once at most, by whichever call, and
\* never for more than all of it (CostToldOnce).
THEOREM ToldOnce == CostSpec => []CostToldOnce
<1>1. Receipts => CostToldOnce
  BY PricedLine DEF Receipts, CostToldOnce
<1>2. QED
  BY <1>1, CostReceipts, PTL
=============================================================================
