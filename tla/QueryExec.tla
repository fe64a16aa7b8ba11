----------------------------- MODULE QueryExec -----------------------------
(***************************************************************************)
(* Connection.QueryContext (go/connection.go): from the query text to the  *)
(* Rows, through the Athena service.                                       *)
(*                                                                         *)
(* Each call runs on a connection of its own and shares nothing with the   *)
(* others but the service: the executions (one call may ask for the state, *)
(* the rows or the end of another call's execution by its query ID) and    *)
(* the workgroup.  A request to the service is sent, may be taken by the   *)
(* service at once, late or never, and is answered or fails for the caller *)
(* at any time; a request whose answer failed may still be taken.          *)
(*                                                                         *)
(* An execution is named after the call that asked for it.                 *)
(***************************************************************************)
EXTENDS Integers

CONSTANTS
  Calls,     \* the calls of QueryContext, and the executions they start
  Requests,  \* the requests calls may make: pseudo command and query text
  Limit,     \* poll intervals each call's statement may take; negative: any
  ReadOnly,  \* Config.IsReadOnly
  NamedWG,   \* the configuration names a workgroup other than "primary"
  CreateWG   \* Config.IsWGRemoteCreationAllowed

Commands == {"none", "get_query_id", "get_query_id_status", "stop_query_id",
             "get_driver_version", "unknown"}

\* A query text is a reading statement, a writing one, one that isQueryValid
\* or the parameters reject, or a query ID.
Texts == {"select", "insert", "invalid"} \cup Calls

ASSUME ExecAssumption ==
  /\ Requests \subseteq [command : Commands, text : Texts]
  /\ Limit \in [Calls -> Int]
  /\ ReadOnly \in BOOLEAN /\ NamedWG \in BOOLEAN /\ CreateWG \in BOOLEAN
  /\ {"select", "insert", "invalid"} \cap Calls = {}

VARIABLES
  req,      \* the request of each call
  at,       \* where the call is in QueryContext
  answer,   \* what it returned
  ctxDone,  \* its context is cancelled or past its deadline
  elapsed,  \* poll intervals since StartQueryExecution
  asked,    \* calls whose StartQueryExecution request was sent
  stop,     \* StopQueryExecution of an execution: not asked, sent, taken
  exec,     \* the state of each execution at the service
  wg        \* the configured workgroup at the service

callVars    == <<req, at, answer, elapsed>>
serviceVars == <<exec, wg>>
vars == <<callVars, ctxDone, asked, stop, serviceVars>>

Active   == {"queued", "running"}
Terminal == {"succeeded", "failed", "cancelled"}

\* IsQID: the text of the request is a query ID.
ByQueryId(c) == req[c].text \in Calls

\* The execution the call is about: the one named, or the one it starts.
Target(c) == IF ByQueryId(c) THEN req[c].text ELSE c

Init ==
  /\ req     \in [Calls -> Requests]
  /\ at      = [c \in Calls |-> "idle"]
  /\ answer  = [c \in Calls |-> "none"]
  /\ ctxDone = [c \in Calls |-> FALSE]
  /\ elapsed = [c \in Calls |-> 0]
  /\ asked   = {}
  /\ stop    = [c \in Calls |-> "no"]
  /\ exec    = [c \in Calls |-> "none"]
  /\ wg      \in IF NamedWG THEN {"absent", "enabled", "disabled"} ELSE {"enabled"}

Goto(c, where) ==
  /\ at' = [at EXCEPT ![c] = where]
  /\ UNCHANGED <<req, answer, elapsed>>

Return(c, what) ==
  /\ at'     = [at EXCEPT ![c] = "returned"]
  /\ answer' = [answer EXCEPT ![c] = what]
  /\ UNCHANGED <<req, elapsed>>

\* What an SDK call that fails reports: the context's error or another one.
ReturnError(c) ==
  \/ ctxDone[c] /\ Return(c, "context error")
  \/ Return(c, "error")

-----------------------------------------------------------------------------
(* Before the service is asked to run anything. *)

\* Pseudo commands and checks that answer without the service.
Local(c) ==
  /\ at[c] = "idle"
  /\ \/ req[c].command = "get_driver_version" /\ Return(c, "page")
     \/ req[c].command = "unknown" /\ Return(c, "refused")
     \/ /\ req[c].command \notin {"get_driver_version", "unknown"}
        /\ (ReadOnly /\ req[c].text = "insert") \/ req[c].text = "invalid"
        /\ Return(c, "refused")
  /\ UNCHANGED <<ctxDone, asked, stop, serviceVars>>

Admit(c) ==
  /\ at[c] = "idle"
  /\ req[c].command \notin {"get_driver_version", "unknown"}
  /\ ~(ReadOnly /\ req[c].text = "insert")
  /\ req[c].text # "invalid"
  /\ Goto(c, IF NamedWG THEN "workgroup" ELSE "ready")
  /\ UNCHANGED <<ctxDone, asked, stop, serviceVars>>

\* getWG: what the service has under the workgroup's name.
GetWG(c, found) == ~ctxDone[c] /\ wg = found

\* An absent workgroup is to be created, or refused like a disabled one.
GetWorkgroup(c) ==
  /\ at[c] = "workgroup"
  /\ \/ GetWG(c, "enabled") /\ Goto(c, "ready")
     \/ GetWG(c, "absent") /\ CreateWG /\ Goto(c, "creating")
     \/ GetWG(c, "disabled") /\ Return(c, "refused")
     \/ GetWG(c, "absent") /\ ~CreateWG /\ Return(c, "refused")
     \/ ReturnError(c)
  /\ UNCHANGED <<ctxDone, asked, stop, serviceVars>>

\* CreateWGRemotely: the service refuses a name that is taken by now, and the
\* answer of a creation that succeeds can be lost.
CreateWorkgroup(c) ==
  /\ at[c] = "creating"
  /\ \/ wg = "absent" /\ ~ctxDone[c] /\ wg' = "enabled" /\ (Goto(c, "ready") \/ ReturnError(c))
     \/ wg # "absent" /\ ~ctxDone[c] /\ Return(c, "workgroup exists") /\ UNCHANGED wg
     \/ ReturnError(c) /\ UNCHANGED wg
  /\ UNCHANGED <<ctxDone, asked, stop, exec>>
-----------------------------------------------------------------------------
(* A query of the call's own: StartQueryExecution. *)

StartQuery(c) ==
  /\ at[c] = "ready"
  /\ ~ByQueryId(c)
  /\ \/ ~ctxDone[c] /\ asked' = asked \cup {c} /\ Goto(c, "starting")
     \/ ctxDone[c] /\ Return(c, "context error") /\ UNCHANGED asked
  /\ UNCHANGED <<ctxDone, stop, serviceVars>>

StartAnswered(c) ==
  /\ at[c] = "starting"
  /\ exec[c] # "none"
  /\ IF req[c].command = "get_query_id" THEN Return(c, "query id") ELSE Goto(c, "polling")
  /\ UNCHANGED <<ctxDone, asked, stop, serviceVars>>

\* The service declines; for get_query_id the request ID of the refusal is
\* put in the page as if it were a query ID.
StartDeclined(c) ==
  /\ at[c] = "starting"
  /\ exec[c] = "none"
  /\ asked' = asked \ {c}
  /\ Return(c, IF req[c].command = "get_query_id" THEN "request id" ELSE "error")
  /\ UNCHANGED <<ctxDone, stop, serviceVars>>

\* The answer does not arrive; the request may be taken all the same.
StartLost(c) ==
  /\ at[c] = "starting"
  /\ ReturnError(c)
  /\ UNCHANGED <<ctxDone, asked, stop, serviceVars>>

-----------------------------------------------------------------------------
(* WAITING_FOR_RESULT. *)

\* Mutants: the status request outlives the context; a failed execution is
\* taken for one that still runs; cancelled and failed are swapped.
PollDeaf(c) ==
  /\ at[c] = "polling"
  /\ \/ exec[c] \in {"cancelled", "failed"} /\ Return(c, exec[c])
     \/ exec[c] = "succeeded" /\ Goto(c, "describing")
     \/ exec[c] \in Active /\ Goto(c, "waiting")
  /\ UNCHANGED <<ctxDone, asked, stop, serviceVars>>

PollBlindToFailure(c) ==
  /\ at[c] = "polling"
  /\ ~ctxDone[c]
  /\ \/ exec[c] = "cancelled" /\ Return(c, exec[c])
     \/ exec[c] = "succeeded" /\ Goto(c, "describing")
     \/ exec[c] \in Active \cup {"failed"} /\ Goto(c, "waiting")
  /\ UNCHANGED <<ctxDone, asked, stop, serviceVars>>

PollSwapped(c) ==
  /\ at[c] = "polling"
  /\ ~ctxDone[c]
  /\ \/ exec[c] = "cancelled" /\ Return(c, "failed")
     \/ exec[c] = "failed" /\ Return(c, "cancelled")
     \/ exec[c] = "succeeded" /\ Goto(c, "describing")
     \/ exec[c] \in Active /\ Goto(c, "waiting")
  /\ UNCHANGED <<ctxDone, asked, stop, serviceVars>>

\* GetQueryExecution and the switch on the state it reports.
Poll(c) ==
  /\ at[c] = "polling"
  /\ ~ctxDone[c]
  /\ \/ exec[c] \in {"cancelled", "failed"} /\ Return(c, exec[c])
     \/ exec[c] = "succeeded" /\ Goto(c, "describing")
     \/ exec[c] \in Active /\ Goto(c, "waiting")
  /\ UNCHANGED <<ctxDone, asked, stop, serviceVars>>

PollFails(c) ==
  /\ at[c] = "polling"
  /\ ReturnError(c)
  /\ UNCHANGED <<ctxDone, asked, stop, serviceVars>>

\* isQueryTimeOut: the seconds a statement of a type may take, 0 in the override
\* standing for the driver's own limit, and their number of poll intervals, the
\* one that is always begun apart.
DefaultTimeout == [DDL |-> 600 * 60, DML |-> 30 * 60]
Timeout(type, override) ==
  LET group == IF type \in {"DML", "UTILITY"} THEN "DML" ELSE "DDL"
  IN  IF override[group] # 0 THEN override[group] ELSE DefaultTimeout[group]
IntervalsIn(seconds, interval) == IF seconds < 0 THEN -1 ELSE (seconds - 1) \div interval

\* Mutants: the clock runs backwards; it is restarted by every poll; the limit
\* is checked a turn too late.
ElapsedBackwards(c) == elapsed[c] - 1
ElapsedSincePoll(c) == IF Limit[c] < 0 THEN elapsed[c] ELSE 1
TimedOutLate(c, n)  == Limit[c] >= 0 /\ n > Limit[c] + 1

\* Nobody reads the clock of a call without a limit.
NextElapsed(c) == IF Limit[c] < 0 THEN elapsed[c] ELSE elapsed[c] + 1

\* isQueryTimeOut.
TimedOut(c, n) == Limit[c] >= 0 /\ n > Limit[c]

\* The timer of the select fires.  The execution is not stopped on a timeout.
Tick(c) ==
  /\ at[c] = "waiting"
  /\ elapsed' = [elapsed EXCEPT ![c] = NextElapsed(c)]
  /\ IF TimedOut(c, NextElapsed(c))
       THEN at' = [at EXCEPT ![c] = "returned"] /\ answer' = [answer EXCEPT ![c] = "timeout"]
       ELSE at' = [at EXCEPT ![c] = "polling"] /\ UNCHANGED answer
  /\ UNCHANGED <<req, ctxDone, asked, stop, serviceVars>>

SendStop(e) == stop' = [stop EXCEPT ![e] = IF @ = "no" THEN "sent" ELSE @]

\* ctx.Done() is chosen by the select; the request to stop does not use ctx.
StopOwn(c) ==
  /\ at[c] = "waiting"
  /\ ctxDone[c]
  /\ SendStop(c)
  /\ Goto(c, "stopping")
  /\ UNCHANGED <<ctxDone, asked, serviceVars>>

-----------------------------------------------------------------------------
(* Requests by query ID, and the pages of the result. *)

StopById(c) ==
  /\ at[c] = "ready"
  /\ ByQueryId(c) /\ req[c].command = "stop_query_id"
  /\ \/ exec[Target(c)] # "none" /\ SendStop(Target(c)) /\ Goto(c, "stopping")
     \/ exec[Target(c)] = "none" /\ Return(c, "error") /\ UNCHANGED stop
  /\ UNCHANGED <<ctxDone, asked, serviceVars>>

\* Mutant: the answer is not waited for.
StopAnsweredEarly(c) ==
  /\ at[c] = "stopping"
  /\ Return(c, IF ByQueryId(c) THEN "ok" ELSE "context error")
  /\ UNCHANGED <<ctxDone, asked, stop, serviceVars>>

StopAnswered(c) ==
  /\ at[c] = "stopping"
  /\ stop[Target(c)] = "taken"
  /\ Return(c, IF ByQueryId(c) THEN "ok" ELSE "context error")
  /\ UNCHANGED <<ctxDone, asked, stop, serviceVars>>

StopFails(c) ==
  /\ at[c] = "stopping"
  /\ Return(c, "error")
  /\ UNCHANGED <<ctxDone, asked, stop, serviceVars>>

AskStatus(c) ==
  /\ at[c] = "ready"
  /\ ByQueryId(c) /\ req[c].command = "get_query_id_status"
  /\ \/ ~ctxDone[c] /\ exec[Target(c)] # "none" /\ Return(c, "page")
     \/ ReturnError(c)
  /\ UNCHANGED <<ctxDone, asked, stop, serviceVars>>

\* NewRows, fetchQueryExecution: for a query ID given, or for the call's own
\* execution when it has succeeded.
Describe(c) ==
  /\ \/ at[c] = "ready" /\ ByQueryId(c) /\ req[c].command \in {"none", "get_query_id"}
     \/ at[c] = "describing"
  /\ \/ ~ctxDone[c] /\ exec[Target(c)] # "none" /\ Goto(c, "fetching")
     \/ ReturnError(c)
  /\ UNCHANGED <<ctxDone, asked, stop, serviceVars>>

\* NewRows, fetchNextPage: the service has results of succeeded executions only.
FetchPage(c) ==
  /\ at[c] = "fetching"
  /\ \/ ~ctxDone[c] /\ exec[Target(c)] = "succeeded" /\ Return(c, "rows")
     \/ ReturnError(c)
  /\ UNCHANGED <<ctxDone, asked, stop, serviceVars>>

-----------------------------------------------------------------------------
(* The service and the users. *)

TakeStart(e) ==
  /\ e \in asked
  /\ exec[e] = "none"
  /\ exec' = [exec EXCEPT ![e] = "queued"]
  /\ UNCHANGED <<callVars, ctxDone, asked, stop, wg>>

TakeStop(e) ==
  /\ stop[e] = "sent"
  /\ stop' = [stop EXCEPT ![e] = "taken"]
  /\ UNCHANGED <<callVars, ctxDone, asked, serviceVars>>

Progress(e) ==
  /\ \/ exec[e] = "queued" /\ exec' = [exec EXCEPT ![e] = "running"]
     \/ exec[e] \in Active /\ exec' = [exec EXCEPT ![e] = "failed"]
     \/ exec[e] = "running" /\ exec' = [exec EXCEPT ![e] = "succeeded"]
  /\ UNCHANGED <<callVars, ctxDone, asked, stop, wg>>

\* An execution whose stop was taken is cancelled, unless it ends first.
Cancelled(e) ==
  /\ stop[e] = "taken"
  /\ exec[e] \in Active
  /\ exec' = [exec EXCEPT ![e] = "cancelled"]
  /\ UNCHANGED <<callVars, ctxDone, asked, stop, wg>>

ContextEnds(c) ==
  /\ at[c] # "returned"
  /\ ~ctxDone[c]
  /\ ctxDone' = [ctxDone EXCEPT ![c] = TRUE]
  /\ UNCHANGED <<callVars, asked, stop, serviceVars>>

-----------------------------------------------------------------------------
Before(c)  == Local(c) \/ Admit(c) \/ GetWorkgroup(c) \/ CreateWorkgroup(c)
Starting(c) == StartQuery(c) \/ StartAnswered(c) \/ StartDeclined(c) \/ StartLost(c)
Waiting(c) == Poll(c) \/ PollFails(c) \/ Tick(c) \/ StopOwn(c) \/ StopAnswered(c) \/ StopFails(c)
ById(c)    == StopById(c) \/ AskStatus(c) \/ Describe(c) \/ FetchPage(c)

QueryContext(c) == Before(c) \/ Starting(c) \/ Waiting(c) \/ ById(c)
Service(e)      == TakeStart(e) \/ TakeStop(e) \/ Progress(e) \/ Cancelled(e)

Next == \E c \in Calls : QueryContext(c) \/ Service(c) \/ ContextEnds(c)

\* A call that has begun goes on: its timer fires, and every request it makes
\* is answered or fails.  The service cancels what it has agreed to cancel.
\* Nobody promises that an execution ends by itself.
Fairness ==
  \A c \in Calls :
    /\ WF_vars(at[c] # "idle" /\ QueryContext(c))
    /\ WF_vars(Cancelled(c))

Spec == Init /\ [][Next]_vars /\ Fairness
-----------------------------------------------------------------------------
TypeOK ==
  /\ req     \in [Calls -> Requests]
  /\ at      \in [Calls -> {"idle", "workgroup", "creating", "ready", "starting", "polling",
                            "waiting", "stopping", "describing", "fetching", "returned"}]
  /\ answer  \in [Calls -> {"none", "rows", "failed", "cancelled", "timeout", "ok", "page",
                            "query id", "request id", "refused", "workgroup exists",
                            "error", "context error"}]
  /\ ctxDone \in [Calls -> BOOLEAN]
  /\ elapsed \in [Calls -> Nat]
  /\ asked   \subseteq Calls
  /\ stop    \in [Calls -> {"no", "sent", "taken"}]
  /\ exec    \in [Calls -> {"none"} \cup Active \cup Terminal]
  /\ wg      \in {"absent", "enabled", "disabled"}

\* A call with a limit polls for one interval more than the limit at most,
\* whatever the service answers (connection.go, isQueryTimeOut after the timer).
PollsBounded == \A c \in Calls : Limit[c] >= 0 => elapsed[c] <= Limit[c] + 1

\* The abstract contract.
StateOf(e) == IF exec[e] \in Active THEN "active" ELSE exec[e]

Promise == INSTANCE QueryPromise
             WITH state  <- [e \in Calls |-> StateOf(e)],
                  doomed <- {e \in Calls : stop[e] = "taken"},
                  about  <- [c \in Calls |-> Target(c)]

\* Through lost answers, races with other calls and cancellations, every answer
\* is true and a call runs at most one execution.
ImplementsPromise == Promise!Spec

Returned(c) == at[c] = "returned"

\* QueryContext returns once its context is done, whatever it was waiting for
\* and whatever the select prefers (connection.go, comment of QueryContext).
HonorsContext == \A c \in Calls : ctxDone[c] /\ at[c] # "idle" ~> Returned(c)

\* The end of an execution is noticed by the call that waits for it.
EndIsNoticed == \A c \in Calls : exec[c] \in Terminal ~> Returned(c)

\* A call with a limit returns even if its execution never ends.
LimitIsKept == \A c \in Calls : Limit[c] >= 0 /\ at[c] # "idle" ~> Returned(c)

\* The execution of a stop_query_id that answers "OK" ends.
StopIsEffective == \A c \in Calls : answer[c] = "ok" ~> exec[Target(c)] \in Terminal

\* A claim of the documentation that the code does not live up to.

\* README: "the query is cancelled if it is not complete" when its context ends.
CancelStopsQuery ==
  \A c \in Calls : answer[c] = "context error" /\ exec[c] \in Active => stop[c] # "no"
=============================================================================
