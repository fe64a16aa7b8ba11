---------------------------- MODULE ResultStream ----------------------------
(***************************************************************************)
(* The result set of one query as database/sql reads it (go/rows.go).      *)
(*                                                                         *)
(* A Rows value is read by one consumer: Next streams the result object    *)
(* from S3, record by record.  The first Next also spawns a goroutine that *)
(* downloads the same object into a scratch file named after the query ID  *)
(* and, when the download is complete, replaces the S3 stream by that file *)
(* under the lock rmu, skipping what the consumer has read.  Close cancels *)
(* the goroutine, closes the active source and removes the scratch file.   *)
(*                                                                         *)
(* The scratch directory is shared by every Rows of the machine, and two   *)
(* Rows may stand for the same query ID: querying with a query ID is a     *)
(* feature of the driver.  File contents are sets of record positions, so  *)
(* that truncated and half-written files can be told apart.                *)
(***************************************************************************)
EXTENDS Integers, Sequences, FiniteSetsExt

CONSTANTS
  Readers,     \* the Rows values of the machine
  Qids,        \* query IDs
  Qid,         \* the query ID of each reader
  RowsOf,      \* number of data rows of each query's result
  Headerless,  \* the queries whose result object has no heading line (DDL)
  Pseudo,      \* the readers built by NewNonOpsRows for a pseudo command
  NoFile       \* the scratch directory has no file of that name

ASSUME StreamAssumption ==
  /\ Qid \in [Readers -> Qids]
  /\ RowsOf \in [Qids -> Nat]
  /\ Headerless \subseteq Qids
  /\ Pseudo \subseteq Readers
  /\ NoFile \notin Readers

VARIABLES
  client,     \* where the consumer is: between calls, inside Next, ended, ...
  verdict,    \* what Next answered when the scan ended: nothing yet, eof, error
  opened,     \* resultsOpened has run
  lastPage,   \* reachedLastPage
  ctxDone,    \* the context of openResults is done (cancelled by user or Close)
  source,     \* what results reads: nothing, the S3 body, the scratch file
  pos,        \* position in the source of the next record
  readCount,  \* records read, the heading line included
  delivered,  \* history: the rows Next has handed to the consumer
  dl,         \* where the download goroutine is
  todo,       \* positions the goroutine has yet to write
  scratch,    \* the inode the goroutine writes
  buffered,   \* the inode behind the scratch file opened for reading
  handles,    \* open handles: the S3 body, the file written, the file read
  dir,        \* scratch directory: the inode of each query ID's file
  content,    \* the record positions present in each inode
  late        \* history: readers whose file was created after their Close

consumerVars == <<client, verdict, opened, lastPage, pos, readCount, delivered>>
fileVars     == <<todo, scratch, buffered, dir, content, late>>
vars == <<consumerVars, ctxDone, source, dl, handles, fileVars>>

Inodes == Readers \cup {NoFile}

(***************************************************************************)
(* The result object in S3, immutable once the query has succeeded.  Its   *)
(* record at position p is data row Datum(q, p); row 0 is the heading.     *)
(***************************************************************************)
ObjLen(q)   == IF q \in Headerless THEN RowsOf[q] ELSE RowsOf[q] + 1
Datum(q, p) == IF q \in Headerless THEN p ELSE p - 1

\* What a hole of a half-written file reads as: NUL bytes, no row at all.
Garbage == -1

\* Positions of file f that are present; a reader that is past the largest
\* one meets the end of the file, one that is before it but at a position
\* nobody has written reads a hole.
FileEnd(f) == IF content[f] = {} THEN 0 ELSE Max(content[f])

SourceEnd(r) == IF source[r] = "body" THEN ObjLen(Qid[r]) ELSE FileEnd(buffered[r])

RecordAt(r) == IF source[r] = "file" /\ pos[r] \notin content[buffered[r]]
               THEN Garbage ELSE Datum(Qid[r], pos[r])

Init ==
  /\ client    = [r \in Readers |-> "idle"]
  /\ verdict   = [r \in Readers |-> "none"]
  /\ opened    = [r \in Readers |-> FALSE]
  /\ lastPage  = [r \in Readers |-> r \notin Pseudo /\ RowsOf[Qid[r]] = 0]
  /\ ctxDone   = [r \in Readers |-> FALSE]
  /\ source    = [r \in Readers |-> "none"]
  /\ pos       = [r \in Readers |-> 1]
  /\ readCount = [r \in Readers |-> 0]
  /\ delivered = [r \in Readers |-> << >>]
  /\ dl        = [r \in Readers |-> "none"]
  /\ todo      = [r \in Readers |-> {}]
  /\ scratch   = [r \in Readers |-> NoFile]
  /\ buffered  = [r \in Readers |-> NoFile]
  /\ handles   = [r \in Readers |-> {}]
  /\ dir       = [q \in Qids |-> NoFile]
  /\ content   = [f \in Inodes |-> {}]
  /\ late      = {}

-----------------------------------------------------------------------------
(* The consumer: Next. *)

End(r, how) ==
  /\ client'  = [client EXCEPT ![r] = "ended"]
  /\ verdict' = [verdict EXCEPT ![r] = how]

\* Mutant: the heading line is left out of the count.
CountAfterHeadingZero == 0

\* readCount when the heading line has been burned: the line is counted.
CountAfterHeading == 1

NextOpens(r) == client[r] = "idle" /\ ~opened[r] /\ opened' = [opened EXCEPT ![r] = TRUE]

\* The location cannot be parsed, or GetObject fails and the context is cancelled;
\* no goroutine is spawned.
OpenFails(r) ==
  /\ r \notin Pseudo
  /\ NextOpens(r)
  /\ ctxDone'  \in {ctxDone, [ctxDone EXCEPT ![r] = TRUE]}
  /\ lastPage' = [lastPage EXCEPT ![r] = TRUE]
  /\ End(r, "error")
  /\ UNCHANGED <<pos, readCount, delivered, source, dl, handles, fileVars>>

\* GetObject succeeds: the goroutine is spawned and the body becomes the
\* source.  What is left of openResults is to burn off the heading line.
SpawnDownload(r) ==
  /\ r \notin Pseudo
  /\ NextOpens(r)
  /\ ~ctxDone[r]
  /\ dl'      = [dl EXCEPT ![r] = "spawned"]
  /\ source'  = [source EXCEPT ![r] = "body"]
  /\ handles' = [handles EXCEPT ![r] = @ \cup {"body"}]
  /\ UNCHANGED <<delivered, ctxDone, fileVars>>

OpenSucceeds(r) ==
  /\ SpawnDownload(r)
  /\ ObjLen(Qid[r]) > 0
  /\ pos'       = [pos EXCEPT ![r] = 2]
  /\ readCount' = [readCount EXCEPT ![r] = CountAfterHeading]
  /\ client'    = [client EXCEPT ![r] = "inNext"]
  /\ UNCHANGED <<verdict, lastPage>>

\* The body is empty (csv reports io.EOF, which Next returns) or breaks.
HeadingFails(r) ==
  /\ SpawnDownload(r)
  /\ lastPage' = [lastPage EXCEPT ![r] = TRUE]
  /\ \/ ObjLen(Qid[r]) = 0 /\ End(r, "eof")
     \/ End(r, "error")
  /\ UNCHANGED <<pos, readCount>>

\* NewNonOpsRows leaves QueryExecution nil, and openResults dereferences it.
OpenPanics(r) ==
  /\ r \in Pseudo
  /\ NextOpens(r)
  /\ client' = [client EXCEPT ![r] = "panicked"]
  /\ UNCHANGED <<verdict, lastPage, pos, readCount, delivered, ctxDone, source, dl,
                 handles, fileVars>>

\* Next, from the point where resultsOpened has run: a later call, or the
\* rest of the call that opened the results.
PastOpen(r) == opened[r] /\ client[r] \in {"idle", "inNext"}

NextAtLastPage(r) ==
  /\ PastOpen(r)
  /\ lastPage[r]
  /\ End(r, "eof")
  /\ UNCHANGED <<opened, lastPage, pos, readCount, delivered, ctxDone, source, dl,
                 handles, fileVars>>

\* Mutant: the record is read and not counted.
ReadRecordUncounted(r) ==
  /\ PastOpen(r)
  /\ ~lastPage[r]
  /\ pos[r] <= SourceEnd(r)
  /\ pos' = [pos EXCEPT ![r] = @ + 1]
  /\ UNCHANGED <<readCount, opened, lastPage, ctxDone, source, dl, handles, fileVars>>

ReadRecord(r) ==
  /\ PastOpen(r)
  /\ ~lastPage[r]
  /\ pos[r] <= SourceEnd(r)
  /\ pos'       = [pos EXCEPT ![r] = @ + 1]
  /\ readCount' = [readCount EXCEPT ![r] = @ + 1]
  /\ UNCHANGED <<opened, lastPage, ctxDone, source, dl, handles, fileVars>>

NextDelivers(r) ==
  /\ ReadRecord(r)
  /\ delivered' = [delivered EXCEPT ![r] = Append(@, RecordAt(r))]
  /\ client'    = [client EXCEPT ![r] = "idle"]
  /\ UNCHANGED verdict

\* convertRecord rejects a value of the record.
NextRejects(r) ==
  /\ ReadRecord(r)
  /\ End(r, "error")
  /\ UNCHANGED delivered

\* The reader is at the end of its source, or the source breaks.
NextFails(r) ==
  /\ PastOpen(r)
  /\ ~lastPage[r]
  /\ \/ pos[r] > SourceEnd(r) /\ End(r, "eof")
     \/ End(r, "error")
  /\ UNCHANGED <<opened, lastPage, pos, readCount, delivered, ctxDone, source, dl,
                 handles, fileVars>>

-----------------------------------------------------------------------------
(* The download goroutine of openResults. *)

\* Mutant: without the deferred close of the scratch file.
ExitWithoutDefer(r, held) ==
  /\ dl'      = [dl EXCEPT ![r] = "exit"]
  /\ handles' = [handles EXCEPT ![r] = @ \ (held \ {"scratch"})]
  /\ todo'    = [todo EXCEPT ![r] = {}]
  /\ scratch' = [scratch EXCEPT ![r] = NoFile]

\* The goroutine returns: its deferred calls run and its locals die.
Exit(r, held) ==
  /\ dl'      = [dl EXCEPT ![r] = "exit"]
  /\ handles' = [handles EXCEPT ![r] = @ \ held]
  /\ todo'    = [todo EXCEPT ![r] = {}]
  /\ scratch' = [scratch EXCEPT ![r] = NoFile]

\* os.Create truncates the file of that name when there is one.
CreateScratch(r) ==
  LET q == Qid[r]
      f == IF dir[q] = NoFile THEN r ELSE dir[q] IN
  /\ dl[r] = "spawned"
  /\ dl'      = [dl EXCEPT ![r] = "writing"]
  /\ dir'     = [dir EXCEPT ![q] = f]
  /\ content' = [content EXCEPT ![f] = {}]
  /\ scratch' = [scratch EXCEPT ![r] = f]
  /\ todo'    = [todo EXCEPT ![r] = 1..ObjLen(q)]
  /\ handles' = [handles EXCEPT ![r] = @ \cup {"scratch"}]
  /\ late'    = IF client[r] = "closed" THEN late \cup {r} ELSE late
  /\ UNCHANGED <<consumerVars, ctxDone, source, buffered>>

CreateFails(r) ==
  /\ dl[r] = "spawned"
  /\ Exit(r, {})
  /\ UNCHANGED <<consumerVars, ctxDone, source, buffered, dir, content, late>>

\* Download writes the parts of the object in any order.
WritePart(r) ==
  /\ dl[r] = "writing"
  /\ \E p \in todo[r] :
       /\ content' = [content EXCEPT ![scratch[r]] = @ \cup {p}]
       /\ todo'    = [todo EXCEPT ![r] = @ \ {p}]
  /\ UNCHANGED <<consumerVars, ctxDone, source, dl, handles, scratch, buffered, dir, late>>

\* Download returns an error: the context is done or the transfer failed.
DownloadFails(r) ==
  /\ dl[r] = "writing"
  /\ Exit(r, {"scratch"})
  /\ UNCHANGED <<consumerVars, ctxDone, source, buffered, dir, content, late>>

\* Download has returned; the file is opened again, by name, for reading.
OpenScratch(r) ==
  /\ dl[r] = "writing"
  /\ todo[r] = {}
  /\ dir[Qid[r]] # NoFile
  /\ dl'       = [dl EXCEPT ![r] = "swapping"]
  /\ buffered' = [buffered EXCEPT ![r] = dir[Qid[r]]]
  /\ handles'  = [handles EXCEPT ![r] = @ \cup {"buffered"}]
  /\ UNCHANGED <<consumerVars, ctxDone, source, todo, scratch, dir, content, late>>

ReopenFails(r) ==
  /\ dl[r] = "writing"
  /\ todo[r] = {}
  /\ Exit(r, {"scratch"})
  /\ UNCHANGED <<consumerVars, ctxDone, source, buffered, dir, content, late>>

\* Under rmu: the context was cancelled while the goroutine waited.
AbandonSwap(r) ==
  /\ dl[r] = "swapping"
  /\ ctxDone[r]
  /\ Exit(r, {"buffered", "scratch"})
  /\ buffered' = [buffered EXCEPT ![r] = NoFile]
  /\ UNCHANGED <<consumerVars, ctxDone, source, dir, content, late>>

\* Mutants: the skip loop runs once too often, and once too few.
ResumeTooFar(r)  == Min({readCount[r], FileEnd(buffered[r])}) + 2
ResumeTooNear(r) == Min({readCount[r], FileEnd(buffered[r])})

\* Where the loop over readCount leaves the new reader: reads at the end of
\* the file are errors that the loop ignores.
ResumeAt(r) == Min({readCount[r], FileEnd(buffered[r])}) + 1

\* Mutant: the context is not looked at again under the lock.
MayInstallAlways(r) == TRUE

MayInstall(r) == ~ctxDone[r]

\* Under rmu: the file replaces the source, which is closed.
Swap(r) ==
  /\ dl[r] = "swapping"
  /\ MayInstall(r)
  /\ source' = [source EXCEPT ![r] = "file"]
  /\ pos'    = [pos EXCEPT ![r] = ResumeAt(r)]
  /\ Exit(r, {"body", "scratch"})
  /\ UNCHANGED <<client, verdict, opened, lastPage, readCount, delivered, ctxDone,
                 buffered, dir, content, late>>

-----------------------------------------------------------------------------
(* Close, and the user's context. *)

\* Close up to the lock: the scan is over and the goroutine is cancelled.  The
\* consumer's deferred Close runs after a panic too.
CloseCancels(r) ==
  /\ client[r] \in {"idle", "ended", "panicked"}
  /\ client'   = [client EXCEPT ![r] = "closing"]
  /\ lastPage' = [lastPage EXCEPT ![r] = TRUE]
  /\ ctxDone'  = [ctxDone EXCEPT ![r] = @ \/ opened[r]]
  /\ UNCHANGED <<verdict, opened, pos, readCount, delivered, source, dl, handles, fileVars>>

ActiveHandle(r) ==
  CASE source[r] = "body" -> {"body"}
    [] source[r] = "file" -> {"buffered"}
    [] OTHER              -> {}

\* Mutant: Close leaves the scratch file where it is.
UnlinkedNever(r) == dir

\* resultsFilename is set when, and only when, the goroutine is spawned.
Unlinked(r) == IF dl[r] # "none" THEN [dir EXCEPT ![Qid[r]] = NoFile] ELSE dir

\* Close under rmu.
CloseReleases(r) ==
  /\ client[r] = "closing"
  /\ client'  = [client EXCEPT ![r] = "closed"]
  /\ handles' = [handles EXCEPT ![r] = @ \ ActiveHandle(r)]
  /\ source'  = [source EXCEPT ![r] = "none"]
  /\ dir'     = Unlinked(r)
  /\ UNCHANGED <<verdict, opened, lastPage, pos, readCount, delivered, ctxDone, dl, todo,
                 scratch, buffered, content, late>>

\* The user cancels the context the query was started with.
UserCancels(r) ==
  /\ ~ctxDone[r]
  /\ client[r] # "closed"
  /\ ctxDone' = [ctxDone EXCEPT ![r] = TRUE]
  /\ UNCHANGED <<consumerVars, source, dl, handles, fileVars>>

-----------------------------------------------------------------------------
Scan(r) ==
  \/ OpenFails(r) \/ OpenSucceeds(r) \/ HeadingFails(r) \/ OpenPanics(r)
  \/ NextAtLastPage(r) \/ NextDelivers(r) \/ NextRejects(r) \/ NextFails(r)

Download(r) ==
  \/ CreateScratch(r) \/ CreateFails(r) \/ WritePart(r) \/ DownloadFails(r)
  \/ OpenScratch(r) \/ ReopenFails(r) \/ AbandonSwap(r) \/ Swap(r)

Closing(r) == CloseCancels(r) \/ CloseReleases(r)

Next == \E r \in Readers : Scan(r) \/ Download(r) \/ Closing(r) \/ UserCancels(r)

\* Goroutines that can run do run, and a Close that has begun finishes.  The
\* consumer owes nothing: it may keep a result set open for ever.
Fairness == \A r \in Readers : WF_vars(Download(r)) /\ WF_vars(CloseReleases(r))

Spec == Init /\ [][Next]_vars /\ Fairness

-----------------------------------------------------------------------------
TypeOK ==
  /\ client    \in [Readers -> {"idle", "inNext", "ended", "closing", "closed", "panicked"}]
  /\ verdict   \in [Readers -> {"none", "eof", "error"}]
  /\ opened    \in [Readers -> BOOLEAN]
  /\ lastPage  \in [Readers -> BOOLEAN]
  /\ ctxDone   \in [Readers -> BOOLEAN]
  /\ source    \in [Readers -> {"none", "body", "file"}]
  /\ pos       \in [Readers -> Nat \ {0}]
  /\ readCount \in [Readers -> Nat]
  /\ delivered \in [Readers -> Seq(Int)]
  /\ dl        \in [Readers -> {"none", "spawned", "writing", "swapping", "exit"}]
  /\ todo      \in [Readers -> SUBSET (Nat \ {0})]
  /\ scratch   \in [Readers -> Inodes]
  /\ buffered  \in [Readers -> Inodes]
  /\ handles   \in [Readers -> SUBSET {"body", "scratch", "buffered"}]
  /\ dir       \in [Qids -> Inodes]
  /\ content   \in [Inodes -> SUBSET (Nat \ {0})]
  /\ late      \subseteq Readers

\* A reader nobody else shares a scratch file with.
Alone(r) == \A s \in Readers \ {r} : Qid[s] # Qid[r]

\* ... or that has not been switched to its scratch file.
Undisturbed(r) == Alone(r) \/ buffered[r] = NoFile \/ dl[r] = "swapping"

\* The rows handed out are the records of the result object after its first
\* one, in order, none lost, repeated or made up, wherever the switch from the
\* S3 stream to the scratch file happens (rows.go, Next against the goroutine
\* of openResults), for a reader alone with its query and for one that shares
\* it up to its own switch.  Under a heading line these are the rows.
InOrder ==
  \A r \in Readers : Undisturbed(r) =>
    \A i \in 1..Len(delivered[r]) : delivered[r][i] = Datum(Qid[r], i + 1)

\* A scan that ends with io.EOF has handed out every record after the first
\* (rows.go, Next: io.EOF of the stream, of the file or of reachedLastPage).
EofMeansAll ==
  \A r \in Readers : Undisturbed(r) /\ verdict[r] = "eof" =>
    Len(delivered[r]) + 1 >= ObjLen(Qid[r])

\* Once Close has returned and the goroutine has exited no handle is left
\* open, whichever of them came first (rows.go, Close against the swap).
NoHandleLeak ==
  \A r \in Readers : client[r] = "closed" /\ dl[r] \in {"none", "exit"} => handles[r] = {}

\* A scratch file outlives the readers of its query only when a goroutine
\* created it after the Close of its own reader.
ScratchOutlivesOnlyLate ==
  \A q \in Qids :
    dir[q] # NoFile /\ (\A r \in Readers : Qid[r] = q => client[r] = "closed")
      => \E r \in late : Qid[r] = q

\* What an application expects of a result: a scan that ends without an error
\* has seen every row.  Two claims the code does not live up to: for readers of
\* one query ID at the same time, and for results without a heading line.
AllRows(r) == verdict[r] = "eof" => Len(delivered[r]) = RowsOf[Qid[r]]

\* Querying by query ID returns the rows of the query (README, rows.go Next).
RowsOfQueryId == \A r \in Readers : Qid[r] \notin Headerless => AllRows(r)

\* A DDL result has no heading line (rows.go, comment of fetchNextPage), so a
\* scan of it returns its every line.
RowsOfDDL == \A r \in Readers : Qid[r] \in Headerless => AllRows(r)

\* A pseudo command answers with one row, which Next can be asked for.
PseudoRowCanBeRead == \A r \in Pseudo : client[r] # "panicked"

\* The abstract cursor each reader implements.
Status(r) == CASE client[r] \in {"closing", "closed"} -> "closed"
               [] client[r] = "panicked"              -> "error"
               [] OTHER -> IF verdict[r] = "none" THEN "open" ELSE verdict[r]

\* The records of a reader's result object after the first one, which is burned
\* off as the heading line: the rows, when there is a heading line.
Scanned == [r \in Readers |->
              [i \in 1..(IF ObjLen(Qid[r]) = 0 THEN 0 ELSE ObjLen(Qid[r]) - 1) |->
                 Datum(Qid[r], i + 1)]]

\* What a file of that result can hold: any of its records, and holes.
Fragments == [r \in Readers |-> {Garbage} \cup {Datum(Qid[r], p) : p \in 1..ObjLen(Qid[r])}]

Sharing == {r \in Readers : ~Alone(r)}

Torn == {r \in Sharing : ~Undisturbed(r)}

Cursor == INSTANCE RowCursor
            WITH Rows   <- Scanned,
                 Scraps <- Fragments,
                 seen   <- delivered,
                 status <- [r \in Readers |-> Status(r)],
                 torn   <- Torn

\* The stream, the download, the switch between them and Close together
\* implement a cursor over the scanned records of the result, whatever the
\* results and whoever reads them: a reader is torn off by its own switch to a
\* file that others write too, by nothing else and for good, and even then it
\* hands out nothing but fragments of its own query's result.
ImplementsCursor == Cursor!Spec

\* A closed result set is eventually let go by its goroutine, for good.
ReleasedForGood ==
  \A r \in Readers :
    client[r] = "closed" ~> [](handles[r] = {} /\ dl[r] \in {"none", "exit"})
=============================================================================
