-------------------------------- MODULE Reader --------------------------------
(***************************************************************************)
(* The command line tool athenareader: several runs, one after the other   *)
(* or at the same time, of a user with one home directory.  Each finds its *)
(* config file, or puts one there (lib/configfx), takes the options of its *)
(* command line, opens the database (lib/queryfx) and prints the answers   *)
(* of its queries one by one (athenareader/main.go, go/utils.go).          *)
(*                                                                         *)
(* The config file is written in blocks, in the order of its lines: the    *)
(* output section, the bucket and the region, and the admin switch at its  *)
(* end.  What is behind the last block written reads as absent; a block    *)
(* missing before it is a hole, which no YAML has.  Queries are known by   *)
(* their first word; the driver under db.Query is QueryExec.               *)
(***************************************************************************)
EXTENDS Integers, Sequences, FiniteSets

CONSTANTS
  Procs,      \* processes that run the tool
  Commands,   \* the command lines each is given
  Settings,   \* the config files there are: what each block of them says
  NoFile,     \* no config file
  Shipped,    \* the one that comes with the source, copied or downloaded
  MaxRuns     \* how many runs there are, in all

Switch  == {"unset", "on", "off"}
Buckets == {"unset", "s3://one", "s3://two", "one"}
Regions == {"unset", "us-east-1"}
Blank   == ""

ASSUME ReaderAssumption ==
  /\ NoFile \notin Settings /\ Shipped \in Settings /\ MaxRuns \in Nat
  /\ \A f \in Settings : f.bucket \in Buckets /\ f.region \in Regions /\ f.admin \in {"on", "off"}
                         /\ f.rowonly \in {"on", "off"} /\ f.fastfail \in {"on", "off"}
  /\ \A p \in Procs : \A c \in Commands[p] :
       /\ c.bucket \in Buckets /\ {c.admin, c.rowonly, c.fastfail} \subseteq Switch
       /\ c.queries \in Seq(STRING)

VARIABLES
  home,     \* ~/athenareader.config: whether there is one, of whom, which blocks
  damaged,  \* the last write to it was given up half way
  cwd,      \* ./athenareader.config
  gopath,   \* none, empty, or with a copy of the source
  runs,     \* runs so far
  at,       \* where a run is
  cmd,      \* its command line
  source,   \* the config file it reads: home, cwd, gopath
  pending,  \* the next block it writes
  read,     \* the settings it found there
  options,  \* and those it works with
  next,     \* its next query
  sent,     \* the queries that reached the service
  output,   \* what it printed for its queries
  how       \* how it ended

fileVars == <<home, damaged>>
placeVars == <<cwd, gopath>>
runVars  == <<cmd, source, pending, read, options, next, sent, output, how>>
vars == <<fileVars, placeVars, runs, at, runVars>>

Blocks == 1..3
Nowhere == [exists |-> FALSE, of |-> NoFile, blocks |-> {}]

NoSettings == [rowonly |-> "off", fastfail |-> "off", bucket |-> "unset", region |-> "unset",
               admin |-> "off"]
NoCommand == [version |-> FALSE, bucket |-> "unset", admin |-> "unset", rowonly |-> "unset",
              fastfail |-> "unset", readable |-> TRUE, queries |-> <<>>]

Init ==
  /\ home \in {Nowhere} \cup {[exists |-> TRUE, of |-> f, blocks |-> Blocks] : f \in Settings}
  /\ damaged = FALSE
  /\ cwd \in Settings \cup {NoFile} /\ gopath \in {"none", "empty", "copy"}
  /\ runs    = 0
  /\ at      = [p \in Procs |-> "idle"]
  /\ cmd     = [p \in Procs |-> NoCommand]
  /\ source  = [p \in Procs |-> "home"]
  /\ pending = [p \in Procs |-> 1]
  /\ read    = [p \in Procs |-> NoSettings]
  /\ options = [p \in Procs |-> NoSettings]
  /\ next    = [p \in Procs |-> 1]
  /\ sent    = [p \in Procs |-> {}]
  /\ output  = [p \in Procs |-> <<>>]
  /\ how     = [p \in Procs |-> "none"]

Goto(p, where) == at' = [at EXCEPT ![p] = where]
End(p, what) == Goto(p, "idle") /\ how' = [how EXCEPT ![p] = what]

\* main: flag.Parse, and -v.
Launch(p) ==
  /\ at[p] = "idle" /\ runs < MaxRuns
  /\ runs' = runs + 1
  /\ \E c \in Commands[p] :
       /\ cmd' = [cmd EXCEPT ![p] = c]
       /\ IF c.version THEN End(p, "version")
          ELSE Goto(p, "look") /\ how' = [how EXCEPT ![p] = "none"]
  /\ pending' = [pending EXCEPT ![p] = 1]
  /\ read'    = [read EXCEPT ![p] = NoSettings]
  /\ options' = [options EXCEPT ![p] = NoSettings]
  /\ next'    = [next EXCEPT ![p] = 1]
  /\ sent'    = [sent EXCEPT ![p] = {}]
  /\ output'  = [output EXCEPT ![p] = <<>>]
  /\ UNCHANGED <<fileVars, placeVars, source>>
-----------------------------------------------------------------------------
(* new: the config file. *)

From(p, place, where) == source' = [source EXCEPT ![p] = place] /\ Goto(p, where) /\ UNCHANGED how

Look(p) ==
  /\ at[p] = "look"
  /\ IF home.exists THEN From(p, "home", "load")
     ELSE IF cwd # NoFile THEN From(p, "cwd", "load")
     ELSE IF gopath = "none" THEN End(p, "exit 1") /\ UNCHANGED source
     ELSE From(p, IF gopath = "copy" THEN "gopath" ELSE "home", "create")
  /\ UNCHANGED <<fileVars, placeVars, runs, cmd, pending, read, options, next, sent, output>>

\* Mutant: what could not be written is tried again.
WriteFailsRetry(p) == Goto(p, "look") /\ UNCHANGED how

\* copyFile's error is ignored, and the copy in GOPATH read; downloadFile's
\* ends the run.
WriteFails(p) ==
  \/ source[p] = "gopath" /\ Goto(p, "load") /\ UNCHANGED how
  \/ source[p] = "home" /\ End(p, "exit 1")

\* os.Create, which empties a file that is there.
Create(p) ==
  /\ at[p] = "create"
  /\ \/ /\ home' = [exists |-> TRUE, of |-> Shipped, blocks |-> {}]
        /\ damaged' = FALSE
        /\ Goto(p, "write") /\ UNCHANGED how
     \/ WriteFails(p) /\ UNCHANGED fileVars
  /\ UNCHANGED <<placeVars, runs, cmd, source, pending, read, options, next, sent, output>>

\* Mutant: a file that ends early counts as copied.
WriteShort(p) ==
  /\ at[p] = "write"
  /\ home'    = [home EXCEPT !.blocks = @ \cup {pending[p]}]
  /\ pending' = [pending EXCEPT ![p] = @ + 1]
  /\ Goto(p, IF pending[p] = 2 THEN "load" ELSE "write")
  /\ UNCHANGED <<damaged, placeVars, runs, cmd, source, read, options, next, sent, output, how>>

\* io.Copy, a block at a time, each process at its own offset.
Write(p) ==
  /\ at[p] = "write"
  /\ home'    = [home EXCEPT !.blocks = @ \cup {pending[p]}]
  /\ pending' = [pending EXCEPT ![p] = @ + 1]
  /\ Goto(p, IF pending[p] = 3 THEN "load" ELSE "write")
  /\ UNCHANGED <<damaged, placeVars, runs, cmd, source, read, options, next, sent, output, how>>

\* No answer of the server, a bad status, a full disk.
WriteStops(p) ==
  /\ at[p] = "write"
  /\ damaged' = TRUE
  /\ WriteFails(p)
  /\ UNCHANGED <<home, placeVars, runs, cmd, source, pending, read, options, next, sent, output>>
-----------------------------------------------------------------------------
(* new: the settings and the options. *)

Parses(file) == \A b \in file.blocks : 1..b \subseteq file.blocks

\* What is not in the file keeps its zero value.
Populated(file) ==
  [rowonly  |-> IF 1 \in file.blocks THEN file.of.rowonly ELSE "off",
   fastfail |-> IF 1 \in file.blocks THEN file.of.fastfail ELSE "off",
   bucket   |-> IF 2 \in file.blocks THEN file.of.bucket ELSE "unset",
   region   |-> IF 2 \in file.blocks THEN file.of.region ELSE "unset",
   admin    |-> IF 3 \in file.blocks THEN file.of.admin ELSE "off"]

File(p) ==
  IF source[p] = "home" THEN home
  ELSE [exists |-> TRUE, of |-> IF source[p] = "cwd" THEN cwd ELSE Shipped, blocks |-> Blocks]

\* SetOutputBucket.
Acceptable(bucket) == bucket \in {"s3://one", "s3://two"}

\* NewDefaultConfig: SetOutputBucket, and SetRegion, which wants one.
Usable(s) == Acceptable(s.bucket) /\ s.region # "unset"

Chosen(flag, setting) == IF flag = "unset" THEN setting ELSE flag

\* The options of the command line win; fastfail is on without its flag.
\* Mutant: SetReadOnly is left out.
WithOptionsNotReadOnly(c, s) ==
  [rowonly  |-> Chosen(c.rowonly, s.rowonly),
   fastfail |-> Chosen(c.fastfail, "on"),
   bucket   |-> IF Acceptable(c.bucket) THEN c.bucket ELSE s.bucket,
   region   |-> s.region,
   admin    |-> "on"]
WithOptions(c, s) ==
  [rowonly  |-> Chosen(c.rowonly, s.rowonly),
   fastfail |-> Chosen(c.fastfail, "on"),
   bucket   |-> IF Acceptable(c.bucket) THEN c.bucket ELSE s.bucket,
   region   |-> s.region,
   admin    |-> Chosen(c.admin, s.admin)]

\* Mutant: the bucket of the command line is checked, given or not.
LoadWantsBucket(p) ==
  /\ at[p] = "load"
  /\ LET s == Populated(File(p)) IN
       IF ~Parses(File(p)) \/ ~Usable(s) \/ ~Acceptable(cmd[p].bucket)
       THEN End(p, "silent") /\ UNCHANGED <<read, options>>
       ELSE /\ read' = [read EXCEPT ![p] = s]
            /\ options' = [options EXCEPT ![p] = WithOptions(cmd[p], s)]
            /\ Goto(p, "query") /\ UNCHANGED how
  /\ UNCHANGED <<fileVars, placeVars, runs, cmd, source, pending, next, sent, output>>

\* A file that cannot be parsed, or has no acceptable bucket or no region, is
\* an error of fx.New, which main does not look at.
Load(p) ==
  /\ at[p] = "load"
  /\ LET s == Populated(File(p)) IN
       IF ~Parses(File(p)) THEN End(p, "silent") /\ UNCHANGED <<read, options>>
       ELSE /\ read' = [read EXCEPT ![p] = s]
            /\ IF ~Usable(s) THEN End(p, "silent") /\ UNCHANGED options
               ELSE /\ options' = [options EXCEPT ![p] = WithOptions(cmd[p], s)]
                    /\ Goto(p, "query") /\ UNCHANGED how
  /\ UNCHANGED <<fileVars, placeVars, runs, cmd, source, pending, next, sent, output>>
-----------------------------------------------------------------------------
(* queryAthena. *)

\* -q is a query, or a file of them; of a file that is there and cannot be
\* read nothing is left.
Queries(p) == IF cmd[p].readable THEN cmd[p].queries ELSE <<>>
Query(p) == Queries(p)[next[p]]
AtQuery(p) == at[p] = "query" /\ next[p] <= Len(Queries(p))

\* isReadOnlyStatement, by the first word; "qid" is a query ID.
IsReadOnlyStatement(query) == query \in {"select", "using", "with", "desc", "show", "qid"}

Shown(p, what) ==
  output' = [output EXCEPT ![p] = Append(@, [query |-> next[p], what |-> what])]

SkipBlank(p) ==
  /\ AtQuery(p) /\ Query(p) = Blank
  /\ next' = [next EXCEPT ![p] = @ + 1]
  /\ UNCHANGED <<fileVars, placeVars, runs, at, cmd, source, pending, read, options, sent, output, how>>

\* Mutant: the loop goes on after an error whatever -f says.
ReportErrorAndGoOn(p) ==
  /\ Shown(p, "error")
  /\ next' = [next EXCEPT ![p] = @ + 1]
  /\ Goto(p, "query") /\ UNCHANGED how

ReportError(p) ==
  /\ Shown(p, "error")
  /\ IF options[p].fastfail = "on" THEN End(p, "done") /\ UNCHANGED next
     ELSE /\ next' = [next EXCEPT ![p] = @ + 1]
          /\ Goto(p, "query") /\ UNCHANGED how

\* The driver lets it through, in read-only mode only what looks like a read;
\* it runs, and there are rows or an error.
Run(p) ==
  /\ AtQuery(p) /\ Query(p) # Blank
  /\ options[p].admin = "on" \/ IsReadOnlyStatement(Query(p))
  /\ sent' = [sent EXCEPT ![p] = @ \cup {Query(p)}]
  /\ \/ Goto(p, "rows") /\ UNCHANGED <<next, output, how>>
     \/ ReportError(p)
  /\ UNCHANGED <<fileVars, placeVars, runs, cmd, source, pending, read, options>>

\* The driver refuses the query, there is no connection, or the service takes
\* none.
NoAnswer(p) ==
  /\ AtQuery(p) /\ Query(p) # Blank
  /\ ReportError(p)
  /\ UNCHANGED <<fileVars, placeVars, runs, cmd, source, pending, read, options, sent>>

\* PrettyPrintSQLRows and PrettyPrintSQLColsRows: the rows up to the end or to
\* an error, of which nothing is said.
PrintRows(p) ==
  /\ at[p] = "rows"
  /\ \E rows \in {"all", "cut"} : Shown(p, rows)
  /\ next' = [next EXCEPT ![p] = @ + 1]
  /\ Goto(p, "query")
  /\ UNCHANGED <<fileVars, placeVars, runs, cmd, source, pending, read, options, sent, how>>

Finish(p) ==
  /\ at[p] = "query" /\ next[p] > Len(Queries(p))
  /\ End(p, "done")
  /\ UNCHANGED <<fileVars, placeVars, runs, cmd, source, pending, read, options, next, sent, output>>
-----------------------------------------------------------------------------
\* The user ends a run.
Kill(p) ==
  /\ at[p] # "idle"
  /\ End(p, "killed")
  /\ damaged' = (damaged \/ at[p] = "write")
  /\ cmd'     = [cmd EXCEPT ![p] = NoCommand]
  /\ read'    = [read EXCEPT ![p] = NoSettings]
  /\ options' = [options EXCEPT ![p] = NoSettings]
  /\ next'    = [next EXCEPT ![p] = 1]
  /\ sent'    = [sent EXCEPT ![p] = {}]
  /\ output'  = [output EXCEPT ![p] = <<>>]
  /\ pending' = [pending EXCEPT ![p] = 1]
  /\ UNCHANGED <<home, placeVars, runs, source>>

\* The user writes the config file, while no run does.
UserInstalls ==
  /\ \A p \in Procs : at[p] # "write"
  /\ \E f \in Settings : home' = [exists |-> TRUE, of |-> f, blocks |-> Blocks]
  /\ damaged' = FALSE
  /\ UNCHANGED <<placeVars, runs, at, runVars>>

Configure(p) == Look(p) \/ Create(p) \/ Write(p) \/ WriteStops(p) \/ Load(p)
QueryAthena(p) == SkipBlank(p) \/ Run(p) \/ NoAnswer(p) \/ PrintRows(p) \/ Finish(p)

Next == \/ \E p \in Procs : Launch(p) \/ Configure(p) \/ QueryAthena(p) \/ Kill(p)
        \/ UserInstalls

\* A process that runs goes on; each execution comes to an end.
Spec == Init /\ [][Next]_vars /\ \A p \in Procs : WF_vars(Configure(p) \/ QueryAthena(p))
-----------------------------------------------------------------------------
TypeOK ==
  /\ home \in [exists : BOOLEAN, of : Settings \cup {NoFile}, blocks : SUBSET Blocks]
  /\ home.exists => home.of \in Settings
  /\ damaged \in BOOLEAN /\ cwd \in Settings \cup {NoFile}
  /\ gopath \in {"none", "empty", "copy"} /\ runs \in 0..MaxRuns
  /\ at      \in [Procs -> {"idle", "look", "create", "write", "load", "query", "rows"}]
  /\ DOMAIN cmd = Procs /\ \A p \in Procs : cmd[p] \in Commands[p] \cup {NoCommand}
  /\ source  \in [Procs -> {"home", "cwd", "gopath"}]
  /\ \A p \in Procs : source[p] = "cwd" /\ at[p] = "load" => cwd # NoFile
  /\ pending \in [Procs -> 1..4]
  /\ \A p \in Procs : at[p] = "write" => pending[p] \in Blocks
  /\ DOMAIN read = Procs /\ DOMAIN options = Procs
  /\ next    \in [Procs -> Nat \ {0}]
  /\ DOMAIN sent = Procs
  /\ output  \in [Procs -> Seq([query : Nat \ {0}, what : {"error", "all", "cut"}])]
  /\ how     \in [Procs -> {"none", "version", "exit 1", "silent", "done", "killed"}]

\* A config file at home that is not whole, which every later run will read
\* instead of any other, is the work of a run that gave up writing it, or of
\* one that will still write what is missing: runs that write it at the same
\* time do not harm each other's work.
HomeExplained ==
  home.exists /\ home.blocks # Blocks =>
    damaged \/ \E p \in Procs : at[p] = "write" /\ Blocks \ home.blocks \subseteq pending[p]..3

\* A run ends without a word (main ignores what fx.New says) only if the
\* config file it reads names no bucket that can be used, whatever -b says, or
\* no region, or another run writes the file at that moment, or gave up
\* writing it.
SilentEnds ==
  [][\A p \in Procs : at[p] = "load" /\ how'[p] = "silent" =>
       \/ ~Usable(File(p).of)
       \/ source[p] = "home" /\ (damaged \/ \E q \in Procs : at[q] = "write")]_vars

\* What changes data or the catalog.
Writes == {"insert", "create", "drop", "alter", "delete", "update", "merge", "unload", "msck"}

\* No such statement reaches the service unless the command line asks for
\* admin mode or, without a word of it there, the config file does.
WritesNeedAdmin ==
  \A p \in Procs : sent[p] \cap Writes # {} =>
    cmd[p].admin = "on" \/ (cmd[p].admin = "unset" /\ read[p].admin = "on")

Fast(p) == options[p].fastfail = "on"
IsAnswered(p, i) == \E k \in DOMAIN output[p] : output[p][k].query = i
StoppedBefore(p, i) ==
  Fast(p) /\ \E k \in DOMAIN output[p] : output[p][k].what = "error" /\ output[p][k].query < i

\* Every query that is not blank is answered with a table or an error, once
\* and in their order, up to the end or, with fastfail, to the first error.
AnswersInOrder ==
  \A p \in Procs :
    LET q == Queries(p)  out == output[p] IN
    /\ \A k \in DOMAIN out : out[k].query \in DOMAIN q /\ q[out[k].query] # Blank
    /\ \A k \in DOMAIN out : \A j \in 1..(k - 1) :
         /\ out[j].query < out[k].query
         /\ Fast(p) => out[j].what # "error"
    /\ how[p] = "done" =>
         \A i \in DOMAIN q : q[i] # Blank => IsAnswered(p, i) \/ StoppedBefore(p, i)

\* A run ends, if the executions of its queries do: neither the files nor a
\* query that fails over and over keep it (main.go: queryAthena).
RunsEnd == \A p \in Procs : at[p] # "idle" ~> at[p] = "idle"
=============================================================================
