--------------------------------- MODULE Pool ---------------------------------
(***************************************************************************)
(* The driver under database/sql: Connection (go/connection.go) and        *)
(* Statement (go/statement.go), used by several goroutines through one     *)
(* sql.DB with a pool of connections, and one prepared sql.Stmt.           *)
(*                                                                         *)
(* database/sql is not in the repository.  It is modelled as far as it     *)
(* calls the driver: it hands a connection to one use at a time, prepares  *)
(* the statement again on a connection that has none, and repeats a use    *)
(* that answers driver.ErrBadConn, three times in all and the last time on *)
(* a new connection.                                                       *)
(*                                                                         *)
(* QueryContext's own steps are module QueryExec; here it accepts the      *)
(* request or not, starts one execution, and returns at its end or, before *)
(* that, when its context ends.                                            *)
(***************************************************************************)
EXTENDS Params

CONSTANTS
  Users,     \* goroutines that use the sql.DB
  Conns,     \* names of open connections; one per connection open at a time
  None,      \* no connection
  Limits,    \* the values of SetMaxOpenConns considered, 0: no limit
  MaxIdle,   \* SetMaxIdleConns
  Prepared,  \* the text of the prepared statement
  Uses       \* what each user may do: a kind, a text and arguments

PlainKinds    == {"query", "exec", "ping"}
PreparedKinds == {"preparedQuery", "preparedExec"}
Kinds == PlainKinds \cup PreparedKinds

ASSUME PoolAssumption ==
  /\ None \notin Conns /\ IsFiniteSet(Conns)
  /\ Limits \subseteq Nat /\ MaxIdle \in Nat
  /\ \A u \in Users : \A w \in Uses[u] :
       /\ w.kind \in Kinds /\ w.query \in Seq(STRING) /\ w.args \in Seq(Arguments)
       /\ w.kind \in PreparedKinds => w.query = Prepared

VARIABLES
  maxOpen,  \* SetMaxOpenConns
  conn,     \* each connection: none, connecting, opening, idle, busy
  entry,    \* the driver.Stmt on it: none, fresh, or used, that is closed
  at,       \* where a user is in database/sql and the driver
  on,       \* the connection it holds
  try,      \* 1, 2 or 3 while a use is going on
  use,      \* its kind, text and arguments
  ctxDone,  \* its context has ended
  sent,     \* what StartQueryExecution was asked: text and parameters
  started,  \* executions the use has started so far
  answer    \* what the last use returned

poolVars == <<maxOpen, conn, entry>>
useVars  == <<try, use, ctxDone, sent, started, answer>>
vars == <<poolVars, at, on, useVars>>

NoUse == [kind |-> "none", query |-> <<>>, args |-> <<>>]
Nothing == [text |-> <<>>, params |-> <<>>]

Init ==
  /\ maxOpen \in Limits
  /\ LET c == CHOOSE d \in Conns : TRUE IN  \* db.Prepare has put back its connection
       /\ conn  = [d \in Conns |-> IF d = c THEN "idle" ELSE "none"]
       /\ entry = [d \in Conns |-> IF d = c THEN "fresh" ELSE "none"]
  /\ at      = [u \in Users |-> "idle"]
  /\ on      = [u \in Users |-> None]
  /\ try     = [u \in Users |-> 0]
  /\ use     = [u \in Users |-> NoUse]
  /\ ctxDone = [u \in Users |-> FALSE]
  /\ sent    = [u \in Users |-> Nothing]
  /\ started = [u \in Users |-> 0]
  /\ answer  = [u \in Users |-> "none"]

Waiting == {u \in Users : at[u] = "wait"}
Idle    == {c \in Conns : conn[c] = "idle"}
NumOpen == Cardinality({c \in Conns : conn[c] # "none"})
Full    == maxOpen > 0 /\ NumOpen >= maxOpen
IdleRoom == Cardinality(Idle) < MaxIdle /\ (maxOpen > 0 => Cardinality(Idle) < maxOpen)

\* The name of the next connection: which one makes no difference.
NewName == CHOOSE c \in Conns : conn[c] = "none"

IsPrepared(u) == use[u].kind \in PreparedKinds
AlwaysNew(u)  == try[u] = 3
-----------------------------------------------------------------------------
(* How a use ends, and what becomes of its connection. *)

Report(u, what) ==
  /\ answer'  = [answer EXCEPT ![u] = what]
  /\ try'     = [try EXCEPT ![u] = 0]
  /\ ctxDone' = [ctxDone EXCEPT ![u] = FALSE]
  /\ sent'    = [sent EXCEPT ![u] = Nothing]
  /\ use'     = [use EXCEPT ![u] = [NoUse EXCEPT !.kind = use[u].kind]]
  /\ UNCHANGED started

\* putConn: the connection goes to a use that waits, to the idle ones, or away;
\* e is what the use leaves of the statement on it.
Put(u, e) ==
  LET c == on[u] IN
  /\ \/ \E w \in Waiting :
          /\ at'    = [at EXCEPT ![u] = "idle", ![w] = "call"]
          /\ on'    = [on EXCEPT ![u] = None, ![w] = c]
          /\ entry' = [entry EXCEPT ![c] = e]
          /\ UNCHANGED conn
     \/ /\ Waiting = {}
        /\ at'    = [at EXCEPT ![u] = "idle"]
        /\ on'    = [on EXCEPT ![u] = None]
        /\ conn'  = [conn EXCEPT ![c] = IF IdleRoom THEN "idle" ELSE "none"]
        /\ entry' = [entry EXCEPT ![c] = IF IdleRoom THEN e ELSE "none"]
  /\ UNCHANGED maxOpen

\* A connection that is closed or could not be opened makes room, which
\* maybeOpenNewConnections gives to a use that waits.
Freed == IF Waiting # {} THEN "opening" ELSE "none"

\* Connection.Close, after the pool was told that the connection is bad.
Discard(u, where) ==
  LET c == on[u] IN
  /\ conn'  = [conn EXCEPT ![c] = Freed]
  /\ entry' = [entry EXCEPT ![c] = "none"]
  /\ at'    = [at EXCEPT ![u] = where]
  /\ on'    = [on EXCEPT ![u] = None]
  /\ UNCHANGED maxOpen
-----------------------------------------------------------------------------
(* A use gets a connection. *)

BeginUse(u) ==
  /\ at[u] = "idle"
  /\ \E new \in Uses[u] : use' = [use EXCEPT ![u] = new]
  /\ at'      = [at EXCEPT ![u] = "acquire"]
  /\ try'     = [try EXCEPT ![u] = 1]
  /\ started' = [started EXCEPT ![u] = 0]
  /\ answer'  = [answer EXCEPT ![u] = "none"]
  /\ UNCHANGED <<poolVars, on, ctxDone, sent>>

TakeIdle(u) ==
  /\ at[u] = "acquire" /\ ~ctxDone[u] /\ ~AlwaysNew(u)
  /\ \E c \in Idle :
       /\ conn' = [conn EXCEPT ![c] = "busy"]
       /\ on'   = [on EXCEPT ![u] = c]
  /\ at' = [at EXCEPT ![u] = "call"]
  /\ UNCHANGED <<maxOpen, entry, useVars>>

NeedsNew(u) ==
  /\ at[u] = "acquire" /\ ~ctxDone[u]
  /\ AlwaysNew(u) \/ Idle = {}

Wait(u) ==
  /\ NeedsNew(u) /\ Full
  /\ at' = [at EXCEPT ![u] = "wait"]
  /\ UNCHANGED <<poolVars, on, useVars>>

Open(u) ==
  /\ NeedsNew(u) /\ ~Full
  /\ \E c \in Conns : conn[c] = "none"
  /\ conn' = [conn EXCEPT ![NewName] = "connecting"]
  /\ on'   = [on EXCEPT ![u] = NewName]
  /\ at' = [at EXCEPT ![u] = "connect"]
  /\ UNCHANGED <<maxOpen, entry, useVars>>

\* SQLConnector.Connect (module Connector) returns a Connection or an error.
Connected(u) ==
  /\ at[u] = "connect"
  /\ conn' = [conn EXCEPT ![on[u]] = "busy"]
  /\ at'   = [at EXCEPT ![u] = "call"]
  /\ UNCHANGED <<maxOpen, entry, on, useVars>>

ConnectFails(u) ==
  /\ at[u] = "connect"
  /\ Discard(u, "idle")
  /\ Report(u, "error")

\* The context ends while the use looks for a connection or waits for one.
GiveUp(u) ==
  /\ at[u] \in {"acquire", "wait"} /\ ctxDone[u]
  /\ at' = [at EXCEPT ![u] = "idle"]
  /\ Report(u, "ContextError")
  /\ UNCHANGED <<poolVars, on>>

\* connectionOpener, on behalf of the uses that wait.
OpenerConnects(c) ==
  /\ conn[c] = "opening"
  /\ \/ \E w \in Waiting :
          /\ conn' = [conn EXCEPT ![c] = "busy"]
          /\ at'   = [at EXCEPT ![w] = "call"]
          /\ on'   = [on EXCEPT ![w] = c]
     \/ /\ Waiting = {}
        /\ conn' = [conn EXCEPT ![c] = IF IdleRoom THEN "idle" ELSE "none"]
        /\ UNCHANGED <<at, on>>
  /\ UNCHANGED <<maxOpen, entry, useVars>>

OpenerFails(c) ==
  /\ conn[c] = "opening"
  /\ \/ \E w \in Waiting :
          /\ at'   = [at EXCEPT ![w] = "idle"]
          /\ conn' = [conn EXCEPT ![c] = IF Waiting = {w} THEN "none" ELSE "opening"]
          /\ Report(w, "error")
     \/ /\ Waiting = {}
        /\ conn' = [conn EXCEPT ![c] = "none"]
        /\ UNCHANGED <<at, useVars>>
  /\ UNCHANGED <<maxOpen, entry, on>>
-----------------------------------------------------------------------------
(* The driver's turn: from the connection to the request to the service. *)

\* database/sql lets the driver check what it passes to it: the kinds of the
\* arguments, and for a prepared statement their number.
Passed(u) ==
  /\ \A i \in DOMAIN use[u].args : use[u].args[i].kind \in Convertible
  /\ IsPrepared(u) => Len(use[u].args) = NumInput(use[u].query)

\* Mutant: Prepare hands out a statement that counts as closed.
PreparedClosed(c) == IF entry[c] = "none" THEN "used" ELSE entry[c]

\* A statement that database/sql prepares on the connection, or finds there.
PreparedOn(c) == IF entry[c] = "none" THEN "fresh" ELSE entry[c]

\* The statement after a use that reached Statement.Query or Statement.Exec.
AfterUse(u) == IF IsPrepared(u) THEN "used" ELSE entry[on[u]]

\* The use reaches QueryContext, ExecContext or Ping.
Reached(u) ==
  /\ at[u] = "call" /\ Passed(u)
  /\ IsPrepared(u) => ~ctxDone[u] /\ PreparedOn(on[u]) = "fresh"

NotPassed(u) ==
  /\ at[u] = "call" /\ ~Passed(u)
  /\ Report(u, "error")
  /\ Put(u, IF IsPrepared(u) THEN PreparedOn(on[u]) ELSE entry[on[u]])

\* database/sql looks at the context itself, for a driver whose statements
\* take none.
EndsBeforeStatement(u) ==
  /\ at[u] = "call" /\ IsPrepared(u) /\ ctxDone[u]
  /\ Passed(u)
  /\ Report(u, "ContextError")
  /\ Put(u, entry[on[u]])

\* Statement.Query and Exec of a statement that was used before.
AnswerBadConn(u) ==
  /\ at[u] = "call" /\ IsPrepared(u) /\ ~ctxDone[u] /\ Passed(u)
  /\ PreparedOn(on[u]) = "used"
  /\ \/ /\ try[u] < 3
        /\ Discard(u, "acquire")
        /\ try' = [try EXCEPT ![u] = @ + 1]
        /\ UNCHANGED <<use, ctxDone, sent, started, answer>>
     \/ /\ try[u] = 3
        /\ Discard(u, "idle")
        /\ Report(u, "ErrBadConn")

Ping == <<"S", "E", "L", "E", "C", "T", "1">>

\* The text and the parameters of the request to the service: ExecContext
\* interpolates first, QueryContext sends the text it was given.
Request(w) ==
  CASE w.kind = "ping" -> [text |-> Ping, params |-> <<>>]
    [] w.kind \in {"exec", "preparedExec"} ->
         [text |-> Interpolated(w.query, w.args), params |-> <<>>]
    [] w.kind \in {"query", "preparedQuery"} ->
         [text |-> w.query, params |-> ExecutionParams(w.args)]

AllUses    == UNION {Uses[u] : u \in Users}
Texts      == UNION {{w.args[i].text : i \in DOMAIN w.args} : w \in AllUses}
Crashing   == {w \in AllUses : PanicsOn(w.query, w.args)}
Acceptable == {w \in AllUses : w.kind = "ping" \/ Accepted(w.query, w.args)}
Crashes(u) == use[u] \in Crashing
Accepts(u) == use[u] \in Acceptable

\* interpolateParams panics in the user's goroutine: only DB.Exec gives its
\* connection back.
Panic(u) ==
  /\ Reached(u) /\ Crashes(u)
  /\ \/ /\ use[u].kind # "exec"
        /\ at' = [at EXCEPT ![u] = "panicked"]
        /\ UNCHANGED <<poolVars, on, useVars>>
     \/ /\ use[u].kind = "exec"
        /\ Report(u, "panic")
        /\ Put(u, entry[on[u]])

\* Mutant: a failed statement answers ErrBadConn as Ping does, and is repeated.
FailsAsBadConn(u, what) ==
  IF IsPrepared(u) /\ try[u] < 3
  THEN /\ Discard(u, "acquire")
       /\ try' = [try EXCEPT ![u] = @ + 1] /\ sent' = [sent EXCEPT ![u] = Nothing]
       /\ UNCHANGED <<use, ctxDone, started, answer>>
  ELSE Report(u, what) /\ IF use[u].kind = "ping" THEN Discard(u, "idle") ELSE Put(u, AfterUse(u))

\* What a use whose driver call failed returns; Ping answers ErrBadConn
\* whatever the error.
Fails(u, what) ==
  IF use[u].kind = "ping" THEN Report(u, "ErrBadConn") /\ Discard(u, "idle")
  ELSE Report(u, what) /\ Put(u, AfterUse(u))

Refuse(u) ==
  /\ Reached(u) /\ ~Crashes(u) /\ ~Accepts(u)
  /\ Fails(u, "error")

\* StartQueryExecution is taken by the service.
Start(u) ==
  /\ Reached(u) /\ Accepts(u)
  /\ at'      = [at EXCEPT ![u] = "running"]
  /\ sent'    = [sent EXCEPT ![u] = Request(use[u])]
  /\ started' = [started EXCEPT ![u] = @ + 1]
  /\ UNCHANGED <<poolVars, on, try, use, ctxDone, answer>>

StartFails(u) ==
  /\ Reached(u) /\ Accepts(u)
  /\ Fails(u, IF ctxDone[u] THEN "ContextError" ELSE "error")
-----------------------------------------------------------------------------
(* The execution is under way. *)

\* Query returns rows, which hold the connection; Exec and Ping are done.
Finish(u) ==
  /\ at[u] = "running" /\ Fits(sent[u])
  /\ IF use[u].kind \in {"query", "preparedQuery"}
     THEN /\ at'    = [at EXCEPT ![u] = "rows"]
          /\ entry' = [entry EXCEPT ![on[u]] = AfterUse(u)]
          /\ UNCHANGED <<maxOpen, conn, on, useVars>>
     ELSE Report(u, "ok") /\ Put(u, AfterUse(u))

Failed(u) ==
  /\ at[u] = "running"
  /\ Fails(u, "error")

\* Mutant: the context is watched for the wrong uses.
HonorContextOfStatement(u) ==
  /\ at[u] = "running" /\ ctxDone[u] /\ IsPrepared(u)
  /\ Fails(u, "ContextError")

\* QueryContext returns when its context ends; the statements run with
\* context.Background() and do not notice.
HonorContext(u) ==
  /\ at[u] = "running" /\ ctxDone[u] /\ ~IsPrepared(u)
  /\ Fails(u, "ContextError")

\* The user closes the rows, or database/sql does when the context ends.
CloseRows(u) ==
  /\ at[u] = "rows"
  /\ Report(u, "ok")
  /\ Put(u, entry[on[u]])

UserCancels(u) ==
  /\ at[u] \notin {"idle", "panicked"} /\ ~ctxDone[u]
  /\ ctxDone' = [ctxDone EXCEPT ![u] = TRUE]
  /\ UNCHANGED <<poolVars, at, on, try, use, sent, started, answer>>
-----------------------------------------------------------------------------
Acquire(u) == TakeIdle(u) \/ Wait(u) \/ Open(u) \/ Connected(u) \/ ConnectFails(u) \/ GiveUp(u)
Opener(c)  == OpenerConnects(c) \/ OpenerFails(c)
Call(u) == \/ NotPassed(u) \/ EndsBeforeStatement(u) \/ AnswerBadConn(u)
           \/ Panic(u) \/ Refuse(u) \/ Start(u) \/ StartFails(u)
Run(u)  == Finish(u) \/ Failed(u) \/ HonorContext(u) \/ CloseRows(u)

Next == \/ \E u \in Users : BeginUse(u) \/ Acquire(u) \/ Call(u) \/ Run(u) \/ UserCancels(u)
        \/ \E c \in Conns : Opener(c)

\* The pool and the driver go on.  The service may leave an execution alone,
\* and a user its rows: only an end of the context closes those for sure.
Fairness ==
  /\ \A u \in Users : WF_vars(Acquire(u)) /\ WF_vars(Call(u)) /\ WF_vars(HonorContext(u))
                      /\ WF_vars(ctxDone[u] /\ CloseRows(u))
  /\ \A c \in Conns : WF_vars(Opener(c))

Spec == Init /\ [][Next]_vars /\ Fairness
-----------------------------------------------------------------------------
TypeOK ==
  /\ maxOpen \in Limits
  /\ conn    \in [Conns -> {"none", "connecting", "opening", "idle", "busy"}]
  /\ entry   \in [Conns -> {"none", "fresh", "used"}]
  /\ at      \in [Users -> {"idle", "acquire", "connect", "wait", "call", "running", "rows",
                            "panicked"}]
  /\ on      \in [Users -> Conns \cup {None}]
  /\ try     \in [Users -> 0..3]
  /\ DOMAIN use = Users /\ DOMAIN sent = Users
  /\ \A u \in Users : use[u] \in Uses[u] \cup {[NoUse EXCEPT !.kind = k] : k \in Kinds \cup {"none"}}
  /\ ctxDone \in [Users -> BOOLEAN]
  /\ \A u \in Users : sent[u] = Nothing \/ at[u] \in {"running", "rows"}
  /\ started \in [Users -> Nat]
  /\ answer  \in [Users -> {"none", "ok", "error", "ContextError", "ErrBadConn", "panic"}]

\* However often database/sql repeats a use, the driver starts at most one
\* execution for it, and a statement that answers ErrBadConn has started none:
\* a retry never runs a query, or an INSERT, twice (Statement.Query and Exec
\* refuse before they run anything, and mark the statement after every run).
OneRunPerUse ==
  \A u \in Users :
    /\ started[u] <= 1
    /\ answer[u] = "ErrBadConn" /\ use[u].kind \in PreparedKinds => started[u] = 0

\* Every use of a prepared statement closes it, so that the next one on the
\* same connection is refused with ErrBadConn: in a pool without a limit the
\* retries of database/sql always hide that from the user.
RetriesSuffice ==
  \A u \in Users : maxOpen = 0 /\ answer[u] = "ErrBadConn" => use[u].kind = "ping"

\* A direct use returns when its context ends, whatever the service, the other
\* users and the pool do (connection.go: QueryContext "must honor the context
\* timeout and return when the context is canceled").  Prepared uses do not
\* once they run: Statement.Query has no context to pass on.
DirectUsesHonorContext ==
  \A u \in Users : ctxDone[u] /\ ~IsPrepared(u) ~> at[u] \in {"idle", "panicked"}

\* A use asks the same question whichever way its arguments travel: put by the
\* service in the places it takes for placeholders, the parameters
\* buildExecutionParams sends give the text interpolateParams would have
\* (connection.go: "Matches interpolateParams() behavior").  Not so if a "?"
\* stands in a literal or a quoted name: the driver wants an argument for it,
\* interpolateParams puts it there, and the service refuses one too many.
\* Strings and bytes are left out, which are sent as they are ("Different from
\* interpolateParams() behavior").
SameQuestion ==
  \A u \in Users :
    LET query == use[u].query  args == use[u].args IN
    sent[u].params # <<>> /\ (\A i \in DOMAIN args : args[i].kind \notin {"string", "bytes"}) =>
       IF Placeholders(query) = Marks(query)
       THEN Fits(sent[u]) /\ Bound(sent[u]) = Interpolated(query, args)
       ELSE ~Fits(sent[u])

\* A string that ExecContext puts into the query arrives as it was: read by
\* the rules its escapes are written for, the literal has its value and ends
\* at the quote that closes it, whatever stands around its place but another
\* literal.  And so does the literal of a text that FormatString or FormatBytes
\* wrote into the argument of a QueryContext.
LiteralsReadBack ==
  \A u \in Users :
    sent[u] # Nothing /\ Len(use[u].args) = 1 /\ NumInput(use[u].query) = 1 =>
      LET a == use[u].args[1]  query == use[u].query IN
      a.kind \in {"string", "bytes"} =>
        /\ use[u].kind \in {"exec", "preparedExec"} /\ (\A i \in DOMAIN query : query[i] # "'") =>
             LET literal == ReadLiteral(sent[u].text) IN
             literal.value = a.text /\ literal.mode = IF Last(query) = "?" THEN "quote" ELSE "ended"
        /\ use[u].kind \in {"query", "preparedQuery"} =>
             \A v \in Texts : a.text \in {FormatString(v), FormatBytes(v)} =>
               ReadLiteral(sent[u].params[1]) = At("quote", v)
=============================================================================
