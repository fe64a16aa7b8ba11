# athenadriver in TLA+

A verification project for athenadriver, the `database/sql` driver for AWS
Athena: TLA+ modules translated from the Go source, TLC runs that check them on
small instances, and proofs checked by TLAPS.

## The system

An application talks to `database/sql`; `database/sql` calls the driver; the
driver talks to Athena (executions, pages) and to S3 (result objects).

| component | state it keeps | operations | hard behaviour |
|---|---|---|---|
| `Rows` (`go/rows.go`) | active reader, `readCount`, `reachedLastPage`, the lock `rmu`, the context's cancel function, scratch file | `NewRows`, `NewNonOpsRows`, `Next`, `openResults`, the download goroutine, `Close` | a goroutine replaces the reader under a consumer; Close races both; files are shared through their name |
| `Connection.QueryContext` (`go/connection.go`) | locals of one call: query ID, clock | pseudo commands, checks, workgroup, start, poll loop, cancellation, timeout | lost answers, a `select` with two ready cases, other calls that stop the execution, executions that never end |
| workgroups (`go/wg.go`, `wgtag.go`, `wgconfig.go`) | remote workgroup, tags | `getWG`, `CreateWGRemotely` | look-up and creation are two requests |
| cost printing (`printCost` and `getCost` in `go/utils.go`, `go/cost.go`) | none; a line on standard output | called at four places of `QueryContext` | which call pays, what is known when a query is stopped |
| `Statement`, `Ping`, `Prepare`, `Close` (`go/statement.go`, `go/connection.go`) | `closed`, `numInput` | `Exec`, `Query`, `Close` | `driver.ErrBadConn` makes `database/sql` repeat the call on another connection |
| parameters (`interpolateParams`, `buildExecutionParams`) | none | pure functions | two ways for one argument; rounding of times, escapes, length |
| page and values (`fetchNextPage`, `convertRecord`, `athenaTypeToGoType`, `go/datetime.go`) | `ResultOutput`, `ColumnInfo`, `pageCount` | repair of columns and rows, heading detection, conversion of every field | pages whose rows and metadata disagree; widths, missing values, masks |
| `Config`, service limits (`go/config.go`, `go/servicelimitoverride.go`) | a URL and `url.Values` | setters, getters, `Stringify`, `sql.Open` | a setting must survive the setter's encoding, the DSN and the getter's decoding; fallbacks, silently ignored errors, boundaries |
| `SQLConnector` (`go/connector.go`) | the shared `Config`; one AWS configuration per connection | `Connect`, `createBaseConfig`, `configFromEnv`, `loadDefaultChainConfig` | environment and shared files that change or are broken; a retry that must keep what it may |
| `athenareader` (`athenareader/main.go`, `lib/configfx`, `lib/queryfx`) | the config file in the home directory | look for it, copy or download it, apply the options, loop over the queries | several processes and one file; a write given up half way; fail fast or go on |

How they interact: `SQLConnector.Connect` builds a `Connection`; its
`QueryContext` makes requests to Athena and ends in `NewRows`, which fetches the
execution and the first page; `database/sql` then calls `Next` and `Close` of
the `Rows`, never both at a time, and calls `Close` itself after any error of
`Next` and when the context ends. Different connections share nothing in memory but the
configuration and the tracer;
they meet at the service (query IDs, workgroup), in the scratch directory, and in
the pool of `database/sql`, which lends each connection to one use at a time and
repeats a use that answers `driver.ErrBadConn`. `athenareader` is an application
of all this, and processes of it meet at its config file.

## Modules

| module | what it is |
|---|---|
| `ResultStream` | every `Rows` of a machine: consumers, download goroutines, scratch directory |
| `RowCursor` | abstract: what a `driver.Rows` promises, a cursor over the rows of a result, and what is left of that when the result is shared |
| `ResultStreamProofs` | proofs about `ResultStream` |
| `QueryExec` | concurrent `QueryContext` calls and the Athena service |
| `QueryPromise` | abstract: what answers say about executions, and when one may run |
| `Cost` | `QueryExec` with the lines it prints about costs |
| `QueryExecProofs` | proofs about `QueryExec` and `Cost` |
| `Params` | operators: arguments as text in the query, and as parameters beside it |
| `Pool` | users of one `sql.DB`, its connections and a prepared statement; uses `Params` |
| `PoolProofs` | proofs about `Pool` and `Params` |
| `Results` | from the page and the object to rows of Go values |
| `Printing` | `Results` with the column names, types and CSV text a program gets |
| `ResultsProofs` | proofs about `Results` and `Printing` |
| `TextProofs` | induction over numbers, and what it gives for sequences: lemmas for the two modules before |
| `Reader` | processes of `athenareader`, their config file and their queries |
| `ReaderProofs` | proofs about `Reader` |
| `Settings` | a `Config` filled by an application, its DSN, and the `Config` parsed from it |
| `SettingsProofs` | proofs about `Settings` |
| `Connector` | concurrent `Connect` calls, the environment and the shared files |
| `ConnectorProofs` | proofs about `Connector` |
| `MCResultStream`, `MCQueryExec`, `MCPool`, `MCResults`, `MCReader`, `MCSettings`, `MCConnector` | the small instances TLC checks |

### ResultStream

Each *reader* is a `Rows` value with its consumer. The variables are the fields
of the struct (`lastPage`, `readCount`, `opened` for the `sync.Once`, `source`
and `pos` for `results`/`resultsFile`, `ctxDone` for the context of
`openResults`), the place of the goroutine (`dl`) with its locals (`todo`,
`scratch`, `buffered`), the open `handles`, and the scratch directory (`dir`,
from query ID to inode, and `content` of inodes). `delivered`, `verdict` and
`late` are history.

The action boundaries are those of the lock `rmu`. `openResults` runs under it
up to its return, and the goroutine cannot install anything meanwhile: one
action (`OpenSucceeds`, `OpenFails`, `HeadingFails`, `OpenPanics`). A call of
`Next` then takes the read lock for the read (`NextDelivers`, `NextRejects`,
`NextFails`): the gap between the two is the control state `inNext`. The
goroutine has an action per file operation and per part of the download, which
the S3 manager writes in any order; it installs the file in `Swap`, or finds the
context done in `AbandonSwap`. `Close` is two actions because it sets
`reachedLastPage` and cancels before it takes the lock.

Contents of files are sets of positions of records, so that a truncated file and
a file with holes can be told from a complete one. Reading a hole gives
`Garbage`, reading after the largest position gives the end of the file. The
buffering of `encoding/csv` (4 KiB read ahead) is left out. Quoting, and values,
are left out: a record is its position.

Facts about `database/sql` the model uses: its `closemu` serialises `Next` and
`Close` of one `Rows`; a consumer that got an error or io.EOF does not call
`Next` again; a deferred `Close` runs when `Next` panics.

`RowCursor` says what a consumer can rely on. Its rows are those of the object after the
first record (`Scanned`), which are the rows of the result when that has a heading line.
A reader that shares its query ID is `Torn` off from its own switch on: it then reads what
others leave of the file, gets `Fragments` of its own result, and its end says nothing.
Until then, and for a reader alone with its query ID for ever, the promise is the plain
one: each row, in order, the end only after the last.

`Init` is a `Rows` as `NewRows` leaves it: `reachedLastPage` is set when the
first page has no data rows. `Pseudo` readers are built by `NewNonOpsRows`.
`GetScratchDir` never returns the empty string, so the goroutine's first early
return is never taken.

### QueryExec

Each *call* is one `QueryContext` on its own connection, with a request: a
pseudo command (or none) and a text that is a reading or a writing statement,
one that validation rejects, or the query ID of another call's execution.
`at` is the place in the function, `answer` what it returned. A request to the
service that starts or stops something is two or three steps: it is sent
(`asked`, `stop`), taken by the service at any later time (`TakeStart`,
`TakeStop`), and answered; the answer may be an error although the request was
or will be taken (`StartLost`, `StopFails`). A request that only reads (status, pages) is
one step, and fails when the context is done.

`elapsed` counts the poll intervals since the start, in place of the wall clock: the code
looks at it only after a timer (`isQueryTimeOut`). `Limit` is the number of
intervals the statement's limit allows, negative for none; the instance computes
it from the statement's type and the overrides (`Timeout`, `IntervalsIn`). Calls without a limit
do not count, which keeps the state space finite without a bound. `ctxDone` ends
once, at any time.

The service moves an execution from queued to running to an end on its own,
cancels one whose stop it took, and is never required to finish one.

Logging and metrics change nothing and are left out; what is printed about costs
is added by `Cost`. A refused
parameter list and an invalid query are one kind of text (`invalid`): both are returned before
any request.

### Cost

`Cost` joins each step of `QueryExec` that prints with its line: a status request
that finds the end (`PrintEnd`), the answer to a stop (`PrintStopped`, one more
status request on a context that cannot end), rows by query ID (`PrintCached`).
`printed` is the list of lines of each call. Data are counted in MB. What the
service has to say (`Statistics`) is everything once the execution has succeeded,
and before that any part of it or nothing.

### Pool and Params

A *user* is a goroutine with a use going on: a query, an exec, a ping, or one of
the two with the prepared statement. `conn` and `entry` are the pool's connections
and the `driver.Stmt` on each; a name stands for a connection while it is open.
`database/sql` is external: which free connection a use gets, whom a freed one is
handed to, when the opener succeeds, is arbitrary; that a use is repeated three times,
the last on a new connection, comes from its documentation and the driver's use of
`ErrBadConn`. An action of the driver is a whole call up to its request
(`Reached` with `Refuse`, `Start`, `StartFails`, `Panic`, `AnswerBadConn`), and the
end of the execution is another (`Finish`, `Failed`, `HonorContext`). `AfterUse`
is `s.closed = true`. Inside the driver the call is one step: its own are in
`QueryExec`.

`Params` writes texts as sequences of tokens, one for each character some decision
is about. A time is a year, a second of it and a nanosecond, so that the rounding
carries up to the year. `ReadLiteral` reads a literal by the rules the escapes
are written for, not by Athena's SQL. Two readers of a text with `?` are kept apart:
`Filled` is what `interpolateParams` makes of it, which counts every `?` (`Marks`), and
`Bound` what the service makes of a text and its `ExecutionParameters`, which takes
only those outside literals and quoted names (`Placeholders`) and runs nothing that
has not as many parameters (`Fits`, a guard of `Finish`); it is external, and
comments in a query are left out. `PoolAssumption` gives the texts of queries and
arguments their type, sequences of strings, and nothing about what is in them.

### Results and Printing

`answer` is what the service has: the page, whether its metadata is a list, absent
or nil, and the object. `NewRows` repairs the page into `columns` and `lastPage`;
`OpenResults` is the first `Next`; `NextRow` converts a whole record or fails at
its first bad field; `NextEof` ends the scan. `panicked` is where the Go code
indexes or dereferences what is not there.

A text is the sequence of its words, because the decisions of `scanTime` are about
words, and numbers are words that say how many bits they need: `ParsesAsInt` and
`ParsesAsFloat` are `strconv` with a width. `encoding/csv` skips blank lines and
wants as many fields as the first record; both are in the model.
`Printing` adds the characters that CSV tells apart. `Read` is the automaton of
`encoding/csv` for one line.

### Reader

A *process* runs the tool several times. `at` is the place in `module.go` and
`main.go`; the config file is three blocks written in order, so that a prefix of
it is a file that was cut. `Create` truncates, `Write` writes the process's next
block, and `WriteStops`, `WriteFails` and `Kill` end it early. Two processes may
write at the same time. What is not in a file reads as its zero value
(`Populated`). The loop has an action per outcome of a query; one execution, and
its rows, are a step each. `UserInstalls` is the user's own edit. `damaged` is
history: the last write was given up.

### Settings

`conf` is the application's `Config`: `host`, `path` and `user` of the URL,
`query` for the encoded query inside it and `values` for the `url.Values` beside
it. Every setter writes `values`; only `Stringify` copies them into `query`.
`Init` is a Config of any of the three constructors; there is an action per
setter (setters of one kind, like the ten of texts, are one action over keys),
and `Stringify`. `Parsed` is `NewConfig`, as `sql.Open` calls it; `Observed`
is the record of what every getter answers, the fallbacks and ignored
errors included, and the value a missing cell becomes.

Texts are opaque because `net/url` escapes them and gives them back. Numbers are
stored as numbers; a text under the key of a number is one that `strconv.Atoi`
refuses. Tags are sequences of pairs, for the texts that `SetWorkGroup` and
`SetSessionTag` append to. A getter's environment is the CONSTANT `Fallback`.
An override of the limits is built by its own setters, which refuse some numbers
(`SetTimeout`). `asked` and `granted` remember the last workgroup and limits: history.

### Connector

`Connect` takes one of four ways (`way`): the SDK's own loading, a role, static
keys, or the default chain; a role needs a base configuration, from keys or the
chain, before its own. Each read of the environment or of the files that decides
between ways is an action (`Connect`, `AskRole` and `AskKeys` read one variable
each), so `Setenv` and `EditFile` may come between any two; only what is read
together for one value, the three parts of static keys or all that one call of the
SDK's loader looks at, is read at once. The
record `conn[c]` has the place in the code (`pc`), the way, the role kept in a
local, what will sign (`basis`) and the error. Profiles are absent, good
or broken in each of the two files. LoadDefaultConfig of the SDK is modelled from
the comments and tests here as `LoadFails` and `ChainIdentity`, and marked
external: a broken selected profile fails it, so does one selected by
name that no file has; keys of the environment come before a web identity,
a profile and the machine's role. `quiet` is history: the
connections since whose `Connect` nothing has changed; properties that
compare an outcome with the files as they are hold of those.

## What the runs check

| run | instance | shows |
|---|---|---|
| `ResultStream` | readers of five queries: two rows under a heading line, an empty object, a heading line alone, a pseudo command, and two readers of two rows without a heading line | `InOrder`, `EofMeansAll`; the stream implements `RowCursor` |
| `ResultStreamShared` | two readers of one query ID, one scratch file | `NoHandleLeak`, `ScratchOutlivesOnlyLate`, and `ReleasedForGood` under fairness |
| `QueryExec` | two calls, a utility statement with a limit and a DDL statement without, all kinds of request, all workgroup states | `PollsBounded`, `CostToldOnce`, `RowsArePaidFor`, the calls implement `QueryPromise`; under fairness `HonorsContext`, `EndIsNoticed`, `LimitIsKept`, `StopIsEffective` |
| `Pool` | two users, one of a prepared statement and pings, one of queries and execs with arguments of every kind, good and bad; a pool limited to one connection, or not | `OneRunPerUse`, `RetriesSuffice`, `SameQuestion`, `LiteralsReadBack`; under fairness `DirectUsesHonorContext` |
| `Results` | a field of every shape in a column of every type, first and second in its row; pages without columns, with too few, with rows to split; every policy for missing values, masks | `RowsAreTold`, `ScansInBounds`, `CsvReadsBack`, `TypesAreTold` |
| `Reader` | two processes, two runs in all, every place for the config file, four files, six command lines | `HomeExplained`, `WritesNeedAdmin`, `AnswersInOrder`, `SilentEnds`; under fairness `RunsEnd` |
| `Settings` | a key of every kind, Configs of every constructor, a DSN written by hand with unreadable values | `DsnKeepsSettings`, `GrantedLimitsApply`, `LastWorkgroupIsRead`, `SessionTagIsAdded` |
| `Connector` | one Connect at a time, every Config, a changing environment and files | `ExplicitNeverBlocked`, `ConfigFileNeverBlocks`, `CredentialsFileCounts`, `RoleIsAssumed` |

`ResultStream`, `QueryExec`, `Settings` and `Connector` also check the module's
`TypeOK`; that of `Pool`, `Results` and `Reader` is proved instead.

Four runs refute what the documentation says; each has one property,
and TLC's shortest counterexample tells the story.

| run | claim | what happens |
|---|---|---|
| `ResultStreamSharedRows` | querying by query ID returns the query's rows | a second reader of the ID truncates the scratch file the first one reads: its scan ends early, with io.EOF and no error |
| `ResultStreamDDLRows` | only results of queries that are not DDL have a heading row | the first row of a result without one is lost |
| `ResultStreamPseudo` | `get_query_id` returns one row | `Next` dereferences the nil `QueryExecution` |
| `QueryExecCancel` | a query whose context ends is cancelled | when the context ends during a request, the call returns and the execution goes on |

Smaller disagreements that the models show but no run is spent on:

* README.md:362 creates a missing workgroup; of two calls that find it missing, one
  is refused because the other has created it by then (`CreateWorkgroup` of
  `QueryExec`, with the answer "workgroup exists").
* config.go:241 and 350 call `SetWorkGroup` and `GetWorkgroup` setter and getter of
  one thing; the configuration is dropped on the way, and tags of a workgroup set
  earlier stay in front of the new ones. `LastWorkgroupIsRead` is what remains true.
* README.md:279 promises the SDK's default methodology where no credentials are
  supplied; with `AWS_ROLE_ARN` in the environment the driver assumes that role on
  top of what the SDK found (`Connect` of `Connector`).
* README.md:47 prints the cost of each query; nothing is printed for one that
  failed, timed out, or whose context ended during a request (`Silent` of `Cost`).
* connection.go lets `interpolateParams` check the length of the interpolated text,
  and sends the text with its placeholders (`Accepted` and `Request`).
* A `?` inside a literal counts as a placeholder for the driver (`Marks`) and not for
  the service (`Placeholders`): `DB.Exec` writes an argument into the literal,
  `DB.Query` asks for one argument more than the service takes, so that such a query
  cannot be run with arguments at all. `SameQuestion` says so of any such query;
  README.md:482 tells of no exception.
* A time that rounds into the year 10000 panics in `interpolateParams`, and unless
  it came through `DB.Exec` its connection is never put back (`Panic` of `Pool`).
* In a pool with a limit `driver.ErrBadConn` of a closed statement can reach its
  user, since the third try is not on a new connection then (`AnswerBadConn`).
* rows.go:293 circumvents row data without `ColumnInfo`; a nil `ColumnInfo` is not
  repaired, and the scan panics at its first field (`FieldValue` of `Results`).
* Rows that `fetchNextPage` splits or makes up never reach a consumer, since `Next`
  reads the object only; `convertRow` (rows.go:395) is dead code.
* The zone of a time is looked up by name, so "+01:00" is refused (`Zones`); an empty
  string cannot be told from a missing value (`IsMissing`); `ColsToCSV` does not
  quote names.
* athenareader/README.md:19 prefers options of the command line; a config file
  without a bucket ends the run before `-b` is looked at (`Load` of `Reader`), with
  status 0 and without a word, since `main` ignores the error of `fx.New`. So does
  one without a region, although `NewNoOpsConfig` has a default for it
  (`Usable`). An unacceptable `-b` is ignored as silently.
* `athenareader` creates its config file before it asks for the download: a failure
  leaves an empty one, which later runs read instead of any other (`Create`,
  `WriteStops`).
* A table printed by `athenareader` may be cut by an error of the scan; nothing
  tells (`PrintRows`).
* `pc:get_query_id` of a refused statement answers with the request ID of the
  refusal (`StartDeclined` of `QueryExec`), where README.md:887 promises the query ID
  "no matter request fails or succeeds".
* `Config.String` (config.go:143) prints the query of the last `Stringify`, so
  none at all for a new Config (`StringOf` and `Stringified` of `Settings`).
* README.md:768 prefers the empty string for missing values; rows.go:460 looks at
  missingAsNil first (`MissingValueOf`).
* errors.go:45 wants limits "greater than" the poll interval; a limit equal to it
  and every negative one are accepted (`Acceptable`).
* README.md:960 says metrics are enabled by default; `IsMetricsEnabled` is true
  only when `SetMetrics(true)` was called (`FlagOf`, `DefaultConfig`).
* connector.go:73 lists a profile set in the Config first; it is looked at only
  when `AWS_SDK_LOAD_CONFIG` is set (`Connect`).

### Bounds

The CONSTANTS are the only bounds of `ResultStreamShared`, `QueryExec`, `Pool`,
`Results` and `Reader`; the other passing runs also have a state constraint, defined in their MC
module.

* Two readers of a query: a reader interacts only with
  those of the same query ID and only through the file, and two are enough for
  truncation, unlinking, and a file re-created after both. In run `ResultStream` one
  reader runs at a time, or two of different queries or of the same
  (`PairOrAlone`); the second of the two then only disturbs the first (`Disturbs`): its
  own scan does not end before its Close, and it is not switched. In
  `ResultStreamShared` both do everything.
* Results of up to two rows (three lines): the switch can come before, between and after the
  rows, and a part can be missing at the front, in the middle and at the end.
* Two calls: one that owns an execution and one that asks about it or stops it,
  or two that create a workgroup at once.
* One poll interval as the limit (six seconds, a status request every three): the
  first timer is within it and the second exceeds it. One execution scans less
  than the 10 MB that are charged at least, the other more.
* `Pool`: four connections are as many as two users can have open with one idle
  and one left behind; a limit of one makes them wait. Values sit at the carries
  of a time, at every escape, and at the maximal length (`MAXQueryStringLength` is
  100 here, the texts are shorter accordingly).
* `Results`: two columns and two lines, so that a field is first or last and a
  bad line follows a good one; irregular pages up to three columns wide.
* `Reader`: two runs in all (`MaxRuns`): both at once, or one that reads what
  the other left. Three blocks: a cut before the bucket, before the admin switch,
  and a hole between them. A cut between bucket and region ends a run like one
  before the bucket, so the two are one block.
* `Settings`: two keys at a time away from their first value (`FewDepartures`),
  one of them, or both limits, not yet in the URL (`FewStale`).
  A setter reads at most its own key, and a getter three at most; the
  proofs, which have no such bound, say the same for all keys together. Two
  tags under a key are a repeated one, and one beside another (`SecondKey` keeps the
  latter to Configs with nothing else set).
* `Connector`: one connection, because Connects share only what the world may
  change anyway; two profiles, two entries in the shared files (`FewEntries`), which
  allows a profile to be broken in one file and good in the other; two variables
  set at a time (`FewVariables`):
  a web identity needs two, and so does a pair of keys. Tokens are left out
  of the instance.

`CHECK_DEADLOCK FALSE` where the system may stop: all readers are closed, all
calls have returned, a scan has ended, the runs are used up, or an application sets
nothing more. `Connector` and `Pool` never stop.

### Fairness

`ResultStream`: weak fairness of each goroutine, because the Go scheduler runs what can run
and a download ends or fails, and of the second half of a Close that
has begun (the lock is held for bounded work only). The consumer owes nothing.

`QueryExec`: weak fairness of a call that has begun, because its timer fires and
every SDK call returns; of the service, only that an execution whose stop it
took ends. An execution need not end otherwise, a context need not
either, and the `select` may choose the timer for ever: `HonorsContext` holds
because the next status request fails.

`Pool`: the pool's and the driver's own steps are fair, the end of an execution is
not: `DirectUsesHonorContext` holds because a call whose context ends returns, and
`database/sql` closes the rows then. `Reader`: a process goes on; that each
execution ends is assumed.

## What is proved

TLAPS proves the following for every value of the constants that satisfies the
assumptions `StreamAssumption`, `ExecAssumption`, `CostAssumption`, `PoolAssumption`,
`ResultsAssumption`, `ReaderAssumption`, `SettingsAssumption` and
`ConnectorAssumption`, which only give types and keep distinct values apart: any
set of readers, queries, result sizes, calls, requests, limits, users, uses,
answers, options, processes, commands, texts, tags, profiles, keys, finite or not
(but for the connections of the pool).

| theorem | statement |
|---|---|
| `StreamTypes` | `Spec => []TypeOK` |
| `StreamHandles` | `Spec => []NoHandleLeak` |
| `StreamScratch` | `Spec => []ScratchOutlivesOnlyLate` |
| `StreamInOrder` | `Spec => []InOrder` |
| `StreamEof` | `Spec => []EofMeansAll` |
| `StreamImplementsCursor` | `Spec => ImplementsCursor` |
| `ExecTypes` | `Spec => []TypeOK` |
| `ExecPollsBounded` | `Spec => []PollsBounded` |
| `ExecImplementsPromise` | `Spec => ImplementsPromise` |
| `RowsPaid`, `ToldOnce` | `CostSpec => []RowsArePaidFor`, `CostSpec => []CostToldOnce` |
| `TypeCorrect` (`PoolProofs`) | `Spec => []TypeOK` |
| `RunsOnce` | `Spec => []OneRunPerUse` |
| `RetriesHide` | `Spec => []RetriesSuffice` |
| `QuestionsAgree` | `Spec => []SameQuestion` |
| `LiteralsKeepValue` | `Spec => []LiteralsReadBack` |
| `TypeCorrect` (`ResultsProofs`) | `Spec => []TypeOK` |
| `RowsTold` | `Spec => []RowsAreTold` |
| `MasksHold`, `NumbersHold` | `Spec => []MaskedNeverShown`, `Spec => []NumbersFit` |
| `BoundsHold` | `Spec => []ScansInBounds` |
| `TypesHold` | `Spec => []TypesAreTold` |
| `CsvHolds` | `Spec => []CsvReadsBack` |
| `TypeCorrect` (`ReaderProofs`) | `Spec => []TypeOK` |
| `HomeIsExplained` | `Spec => []HomeExplained` |
| `AdminNeeded` | `Spec => []WritesNeedAdmin` |
| `InOrder` (`ReaderProofs`) | `Spec => []AnswersInOrder` |
| `SilenceExplained` | `Spec => SilentEnds` |
| `SettingsTypes` | `Spec => []TypeOK` |
| `DsnFaithful` | `Spec => []DsnKeepsSettings` |
| `LimitsApply` | `Spec => []GrantedLimitsApply` |
| `LastWorkgroup` | `Spec => []LastWorkgroupIsRead` |
| `SessionTagsUpdate` | `Spec => SessionTagIsAdded` |
| `ConnectorTypes` | `Spec => []TypeOK` |
| `ExplicitKeysConnect` | `Spec => []ExplicitNeverBlocked` |
| `ChainSurvivesConfigFile` | `Spec => []ConfigFileNeverBlocks` |
| `ChainServesCredentialsFile` | `Spec => []CredentialsFileCounts` |
| `ConfiguredRole` | `Spec => RoleIsAssumed` |

The inductive invariants and why they are needed:

* *Types*: `TypeOK` is not inductive alone for `ResultStream`; a position in a
  file is a number only when the file belongs to some reader (`FilesBelong`).
* *Handles* (`HandlesOwned`): each kind of handle is tied to who is responsible
  for it, the active source or a goroutine in a certain place; `NoHandleLeak` is
  what is left when both are gone.
* *Scratch* (`ScratchOwned`): a name in the directory has a reader that is not
  closed and will unlink it, or one that is late.
* *Rows* (`ScanInv`): for a reader that is `Undisturbed`, alone with its query ID or
  not switched to the scratch file it shares, `readCount` is the number of rows
  delivered plus one and the position is one past it (`InStep`). What others do to a
  shared file cannot break that, because the file is not what is read before the
  switch and the switch is for good (`Switching`). For a reader alone with its query
  ID the file behind the `buffered` handle is complete (`OwnFile`), which makes the
  skip loop land on the right record.
* *Refinement* (`StepCursor`): a scan that ends, a row, a panic and the first half of
  Close are steps of the cursor, and everything else is none (`ScanIsACursorStep`), but
  for one: the switch to a file that others write too tears the reader off
  (`SwapIsACursorStep`). Nothing else does, and nothing undoes it
  (`KeepsUndisturbed`, `SwitchExposes`). A file belongs to one query ID
  (`FilesBelong`), which is why a reader that is torn off still gets nothing but
  records of its own result and holes (`RecordIsFragment`).
* *Polling* (`WithinLimit`): a call that has not returned is within its limit;
  only the interval that ends the call exceeds it.
* *Contract* (`Ledger`): a call has an answer exactly when it has returned; an
  execution exists only for a call that asked for one and asks for no query ID;
  a request that was sent and not taken belongs to a call that waits for it or
  that gave up with an error; a call that polls has an execution; only an
  execution that exists is asked to stop. Each step of the call or of the
  service is then one step of the contract or none.

* *Costs* (`Receipt`): a call has printed at most one line, on its way to the rows or
  as it returned; only a call without a query ID waits for an execution; and between
  the end of its execution and its rows the line is the full price. `CostBehaves`
  says that every behaviour of `CostSpec` is one of `Spec`, so that whatever is
  proved about `QueryExec` holds of it.
* *Pool*: a connection has one holder (`HeldInv`, `ApartInv`) and a connection that
  is not open has no statement (`EntryInv`); a use that has not had its turn has
  started nothing (`TurnInv`), which with the refusal of closed statements gives
  `OneRunPerUse`; without a limit nobody waits, so that the last try is on a new
  connection whose statement is fresh (`NewInv`).
* *What Pool sends* (`SentInv`): the request of a use, once there is one, is that of
  `Request` for a use whose arguments were accepted. Both properties about it are
  then facts about `Params`. What the driver fills is what the service fills when both
  count the same placeholders; otherwise the service takes the request only with
  as many parameters as there are `?` outside literals, which is then another number
  than that of the arguments (`PlacesCounted`). Two decimals at a time, the tables of a hundred print
  what `time.Format` prints (`PairFollows`, `YearsAgree`, `MicrosAgree`), as long as
  the rounded year has four digits, and a year that has not was refused
  by `Accepted`. Reading a literal is followed byte by byte (`ReadBytes`), and a
  query around it token by token (`ReadFilled`).
* *Results*: what each line becomes is a function of it and of `columns`
  (`ColumnsInv`), and in a described result the next line is the one behind those
  delivered (`PlaceInv`). Each delivered value is of the kind that its column's type
  stands for, and has a CSV form when it has no letters (`ShownInv`).
* *CSV*: a field is read as the text it was written for, quoted (`ReadDoubled`) or
  not (`ReadPlain`), behind any fields and with a state that a comma ends
  (`Reads`), so that a line is read field by field (`ReadSeparated`).
* *Reader*: a conjunction over the processes (`OfRun`): the stage of the run, whether
  admin was asked for, what is printed for the queries before the next; and
  `HomeExplained`, the only fact about the file they share.
* *Settings*: the region is never empty, so that `sql.Open` accepts every DSN
  (`RegionSet`), and the limits granted last are what is stored
  (`LimitsStored`). `DsnKeepsSettings` then follows from one lemma: what getters
  answer depends on the values and on the bucket up to its leading slash
  (`ObservedThrough`). Appending a pair to a list and reading the last of
  each key is an update (`AppendUpdates`). The tags of the workgroup set last are
  the end of the stored list (`WorkgroupStored`), because a setter only appends.
* *Connector*: a conjunction over the connections, since none looks at another:
  the place agrees with the way (`WayInv`), an access ID in the Config keeps a
  Connect out of the chain (`ExplicitInv`), a role of the Config is kept until it
  is assumed (`RoleInv`), and of a quiet Connect, what its
  place says of the environment and the files (`QuietInv`). `MovesKeep` reduces
  each action to the invariant of the one connection it moves.

Texts are sequences of any length. What is written piece by piece (`FlattenSeq`) is a
recursive function, and so is the automaton that reads it (`ReadFrom`, `ReadChars`);
both are followed by induction over prefixes. The library's induction theorems take
the property as an operator, which the provers cannot instantiate: `TextProofs` has
them for sets of numbers instead (`LeastNumber` from the well-foundedness of `<`,
`Induction` from that), and what a recursive function is equal to
(`FlattenPrefixes`, `ReadRuns`).

Only model-checked: liveness (`ReleasedForGood`, `HonorsContext`,
`EndIsNoticed`, `LimitIsKept`, `StopIsEffective`, `DirectUsesHonorContext`,
`RunsEnd`), which this prover does not reach. Every other property of a passing
run is a theorem.

## What is not modelled

* Logging, metrics and the tracer's scope: every `Connect` replaces the tracer of the
  connector all connections share (connector.go:80), and `database/sql`'s own opener
  does so with a context that has none. It decides where counters go and nothing else.
* `OpenConnector`'s field (driver.go:64): one assignment and one read; whether two
  `sql.Open` at a time can mix them up is a question about the compiler.
* Text utilities: `GetTidySQL`, `GetTableNamesInQuery`, the classification of
  statements beyond the first word, tables and their styles. They are regular
  expressions and layout. The pattern for comments in `GetTableNamesInQuery` is greedy
  and drops tables between two comments on a line; the driver does not call it.
* The split of a query file into queries, at blank lines even inside a statement.
* Two single lines: the panic of `QueryContext` on a failed execution without a
  `StateChangeReason` (connection.go:471), and `ResultOutput = nil` in `Rows.Close`
  (rows.go:378), after which `Columns` of the closed result has nothing to name.
* DSNs written by hand whose workgroup tag or session tag list is not in the form the
  setters write: a tag without its backquote is an index out of range in
  `GetWorkgroup` (config.go:364). `Stored` of `Settings` has lists of pairs only.
* A user who edits the config file of `athenareader` while a run writes it
  (`UserInstalls`).
* Regions and transport settings of the connector, and the caching of a role's
  credentials, which belongs to the SDK.
* The mock service, versions, price list, examples, and the text formats of dates and
  numbers.
* Further pages of a result: the driver asks for the first page only.

Next would come the contract of `Pool` on top of `QueryPromise`.
