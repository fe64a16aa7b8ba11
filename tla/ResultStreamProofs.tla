------------------------- MODULE ResultStreamProofs -------------------------
(***************************************************************************)
(* Proofs about ResultStream, for any readers, query IDs and results.      *)
(***************************************************************************)
EXTENDS ResultStream, WellFoundedInduction, TLAPS

-----------------------------------------------------------------------------
(* Facts about the operators of the model. *)

\* A bounded, non-empty set of positions has a largest one, so the end of a
\* partly written file is a position of the object.
LEMMA MaxOfPositions ==
  ASSUME NEW n \in Nat, NEW S \in SUBSET (1..n), S # {}
  PROVE  Max(S) \in 1..n
<1> DEFINE Below == {k \in Nat : \E x \in S : k = n - x}
<1>1. PICK x \in S : TRUE
  OBVIOUS
<1>2. n - x \in Below
  BY <1>1
<1>3. PICK k \in Below : \A j \in Below : <<j, k>> \notin OpToRel(<, Nat)
  BY <1>2, WFMin, NatLessThanWellFounded, Zenon
<1>4. \A j \in Below : ~(j < k)
  BY <1>3, Zenon DEF OpToRel
<1>5. PICK m \in S : k = n - m
  BY <1>3
<1>6. \A y \in S : m >= y
  <2> TAKE y \in S
  <2>1. n - y \in Below
    OBVIOUS
  <2>2. ~(n - y < n - m)
    BY <2>1, <1>4, <1>5, Zenon
  <2> QED
    BY <2>2
<1> QED
  BY <1>5, <1>6 DEF Max

LEMMA MaxOfInterval ==
  ASSUME NEW n \in Nat \ {0}
  PROVE  Max(1..n) = n
BY DEF Max

LEMMA MinOfTwo ==
  ASSUME NEW a \in Nat, NEW b \in Nat
  PROVE  Min({a, b}) = IF a <= b THEN a ELSE b
<1>1. CASE a <= b
  <2>1. a \in {a, b} /\ \A y \in {a, b} : a =< y
    BY <1>1
  <2>2. \A x \in {a, b} : (\A y \in {a, b} : x =< y) => x = a
    BY <1>1
  <2> QED
    BY <1>1, <2>1, <2>2 DEF Min
<1>2. CASE ~(a <= b)
  <2>1. b \in {a, b} /\ \A y \in {a, b} : b =< y
    BY <1>2
  <2>2. \A x \in {a, b} : (\A y \in {a, b} : x =< y) => x = b
    BY <1>2
  <2> QED
    BY <1>2, <2>1, <2>2 DEF Min
<1> QED
  BY <1>1, <1>2

\* The length of a result object.
LEMMA ObjLenType ==
  ASSUME NEW q \in Qids
  PROVE  ObjLen(q) \in Nat
BY StreamAssumption DEF ObjLen
-----------------------------------------------------------------------------
(* Type correctness.  The position after the switch is computed from the end *)
(* of the scratch file, so the types need to know that a file holds positions *)
(* of the object of its own query only.                                      *)

FilesBelong ==
  /\ \A q \in Qids : dir[q] # NoFile => Qid[dir[q]] = q
  /\ \A r \in Readers :
       /\ scratch[r] # NoFile => Qid[scratch[r]] = Qid[r]
       /\ dl[r] \in {"writing", "swapping"} => scratch[r] # NoFile
       /\ buffered[r] # NoFile => Qid[buffered[r]] = Qid[r]
       /\ todo[r] \subseteq 1..ObjLen(Qid[r])
       /\ content[r] \subseteq 1..ObjLen(Qid[r])
  /\ content[NoFile] = {}

Typing == TypeOK /\ FilesBelong

LEMMA FileEndType ==
  ASSUME Typing, NEW f \in Inodes
  PROVE  /\ FileEnd(f) \in Nat
         /\ f \in Readers => FileEnd(f) <= ObjLen(Qid[f])
         /\ f \notin Readers => FileEnd(f) = 0
<1>1. CASE content[f] = {}
  BY <1>1, ObjLenType, StreamAssumption DEF FileEnd
<1>2. CASE content[f] # {}
  <2>1. f \in Readers
    BY <1>2 DEF Typing, FilesBelong, Inodes
  <2>2. content[f] \in SUBSET (1..ObjLen(Qid[f])) /\ ObjLen(Qid[f]) \in Nat
    BY <2>1, ObjLenType, StreamAssumption DEF Typing, FilesBelong
  <2>3. Max(content[f]) \in 1..ObjLen(Qid[f])
    BY <1>2, <2>2, MaxOfPositions
  <2>4. FileEnd(f) = Max(content[f])
    BY <1>2 DEF FileEnd
  <2> QED
    BY <2>1, <2>2, <2>3, <2>4
<1> QED
  BY <1>1, <1>2

LEMMA RecordAtType ==
  ASSUME Typing, NEW r \in Readers
  PROVE  RecordAt(r) \in Int
BY DEF Typing, TypeOK, RecordAt, Garbage, Datum

LEMMA ResumeAtType ==
  ASSUME Typing, NEW r \in Readers
  PROVE  ResumeAt(r) \in Nat \ {0}
<1>1. buffered[r] \in Inodes /\ readCount[r] \in Nat
  BY DEF Typing, TypeOK
<1> QED
  BY <1>1, FileEndType, MinOfTwo DEF ResumeAt

LEMMA InitTyping == Init => Typing
BY StreamAssumption DEF Init, Typing, TypeOK, FilesBelong, Inodes

LEMMA NextTyping == Typing /\ [Next]_vars => Typing'
<1> SUFFICES ASSUME Typing, [Next]_vars PROVE Typing'
  OBVIOUS
<1> USE StreamAssumption DEF Typing, TypeOK, FilesBelong, Inodes, consumerVars, fileVars
<1>1. ASSUME UNCHANGED vars PROVE Typing'
  BY <1>1 DEF vars
<1>2. ASSUME NEW r \in Readers, Scan(r) PROVE Typing'
  <2>1. CASE OpenFails(r)
    BY <2>1 DEF OpenFails, NextOpens, End
  <2>2. CASE OpenSucceeds(r)
    BY <2>2 DEF OpenSucceeds, SpawnDownload, NextOpens, CountAfterHeading
  <2>3. CASE HeadingFails(r)
    <3>1. PICK how \in {"eof", "error"} : End(r, how)
      BY <2>3 DEF HeadingFails
    <3>2. client' \in [Readers -> {"idle", "inNext", "ended", "closing", "closed", "panicked"}]
          /\ verdict' \in [Readers -> {"none", "eof", "error"}]
      BY <3>1 DEF End
    <3>3. /\ opened' \in [Readers -> BOOLEAN] /\ lastPage' \in [Readers -> BOOLEAN]
          /\ source' \in [Readers -> {"none", "body", "file"}]
          /\ handles' \in [Readers -> SUBSET {"body", "scratch", "buffered"}]
      BY <2>3 DEF HeadingFails, SpawnDownload, NextOpens
    <3>4. dl' = [dl EXCEPT ![r] = "spawned"]
          /\ UNCHANGED <<pos, readCount, delivered, ctxDone, fileVars>>
      BY <2>3 DEF HeadingFails, SpawnDownload
    <3> QED
      BY <3>2, <3>3, <3>4
  <2>4. CASE OpenPanics(r)
    BY <2>4 DEF OpenPanics, NextOpens
  <2>5. CASE NextAtLastPage(r)
    BY <2>5 DEF NextAtLastPage, End
  <2>6. CASE NextDelivers(r)
    <3>1. delivered' \in [Readers -> Seq(Int)]
      BY <2>6, RecordAtType DEF NextDelivers
    <3>2. pos' \in [Readers -> Nat \ {0}] /\ readCount' \in [Readers -> Nat]
      BY <2>6 DEF NextDelivers, ReadRecord
    <3>3. client' = [client EXCEPT ![r] = "idle"]
          /\ UNCHANGED <<verdict, opened, lastPage, ctxDone, source, dl, handles, fileVars>>
      BY <2>6 DEF NextDelivers, ReadRecord
    <3> QED
      BY <3>1, <3>2, <3>3
  <2>7. CASE NextRejects(r)
    BY <2>7 DEF NextRejects, ReadRecord, End
  <2>8. CASE NextFails(r)
    <3>1. PICK how \in {"eof", "error"} : End(r, how)
      BY <2>8 DEF NextFails
    <3>2. UNCHANGED <<opened, lastPage, pos, readCount, delivered, ctxDone, source, dl,
                      handles, fileVars>>
      BY <2>8 DEF NextFails
    <3> QED
      BY <3>1, <3>2 DEF End
  <2> QED
    BY <1>2, <2>1, <2>2, <2>3, <2>4, <2>5, <2>6, <2>7, <2>8 DEF Scan
<1>3. ASSUME NEW r \in Readers, Download(r) PROVE Typing'
  <2>1. CASE CreateScratch(r)
    <3> DEFINE q == Qid[r]  f == IF dir[q] = NoFile THEN r ELSE dir[q]
    <3>1. q \in Qids /\ f \in Readers /\ Qid[f] = q /\ NoFile # f
      OBVIOUS
    <3>2. /\ dl' = [dl EXCEPT ![r] = "writing"] /\ dir' = [dir EXCEPT ![q] = f]
          /\ content' = [content EXCEPT ![f] = {}] /\ scratch' = [scratch EXCEPT ![r] = f]
          /\ todo' = [todo EXCEPT ![r] = 1..ObjLen(q)]
          /\ handles' = [handles EXCEPT ![r] = @ \cup {"scratch"}]
          /\ late' \in {late, late \cup {r}}
          /\ UNCHANGED <<consumerVars, ctxDone, source, buffered>>
      BY <2>1 DEF CreateScratch
    <3> HIDE DEF f
    <3>3. TypeOK'
      BY <3>1, <3>2
    <3>4. FilesBelong'
      BY <3>1, <3>2
    <3> QED
      BY <3>3, <3>4 DEF Typing
  <2>2. CASE CreateFails(r)
    BY <2>2 DEF CreateFails, Exit
  <2>3. CASE WritePart(r)
    <3>1. PICK p \in todo[r] : /\ content' = [content EXCEPT ![scratch[r]] = @ \cup {p}]
                               /\ todo' = [todo EXCEPT ![r] = @ \ {p}]
      BY <2>3 DEF WritePart
    <3>2. scratch[r] \in Readers /\ Qid[scratch[r]] = Qid[r] /\ p \in 1..ObjLen(Qid[r])
          /\ p \in Nat \ {0}
      BY <2>3 DEF WritePart
    <3>3. content' \in [Inodes -> SUBSET (Nat \ {0})] /\ todo' \in [Readers -> SUBSET (Nat \ {0})]
      BY <3>1, <3>2
    <3>4. \A q \in Readers : content'[q] \subseteq 1..ObjLen(Qid[q])
      BY <3>1, <3>2
    <3>5. content'[NoFile] = {} /\ \A q \in Readers : todo'[q] \subseteq 1..ObjLen(Qid[q])
      BY <3>1, <3>2
    <3>6. UNCHANGED <<consumerVars, ctxDone, source, dl, handles, scratch, buffered, dir, late>>
      BY <2>3 DEF WritePart
    <3> QED
      BY <3>3, <3>4, <3>5, <3>6
  <2>4. CASE DownloadFails(r)
    BY <2>4 DEF DownloadFails, Exit
  <2>5. CASE OpenScratch(r)
    BY <2>5 DEF OpenScratch
  <2>6. CASE ReopenFails(r)
    BY <2>6 DEF ReopenFails, Exit
  <2>7. CASE AbandonSwap(r)
    BY <2>7 DEF AbandonSwap, Exit
  <2>8. CASE Swap(r)
    BY <2>8, ResumeAtType DEF Swap, Exit
  <2> QED
    BY <1>3, <2>1, <2>2, <2>3, <2>4, <2>5, <2>6, <2>7, <2>8 DEF Download
<1>4. ASSUME NEW r \in Readers, Closing(r) \/ UserCancels(r) PROVE Typing'
  <2>1. CASE CloseCancels(r)
    BY <2>1 DEF CloseCancels
  <2>2. CASE CloseReleases(r)
    BY <2>2 DEF CloseReleases, ActiveHandle, Unlinked
  <2>3. CASE UserCancels(r)
    BY <2>3 DEF UserCancels
  <2> QED
    BY <1>4, <2>1, <2>2, <2>3 DEF Closing
<1> QED
  BY <1>1, <1>2, <1>3, <1>4 DEF Next

\* Every variable keeps its type (TypeOK), whatever the readers, the queries
\* and the interleaving.
THEOREM StreamTypes == Spec => []TypeOK
<1>1. Spec => []Typing
  BY InitTyping, NextTyping, PTL DEF Spec
<1> QED
  BY <1>1, PTL DEF Typing
-----------------------------------------------------------------------------
(* Handles.  Every open handle has an owner that is still bound to close it: *)
(* the scan, the goroutine, or Close.  A Rows that is closing or closed has  *)
(* its context done, so the goroutine can no longer hand it the file.        *)

HandlesOwned ==
  \A r \in Readers :
    /\ "body" \in handles[r] => source[r] = "body"
    /\ "scratch" \in handles[r] => dl[r] \in {"writing", "swapping"}
    /\ "buffered" \in handles[r] => dl[r] = "swapping" \/ source[r] = "file"
    /\ dl[r] # "none" => opened[r]
    /\ source[r] # "none" => opened[r]
    /\ opened[r] /\ client[r] \in {"closing", "closed"} => ctxDone[r]
    /\ client[r] = "closed" => source[r] = "none"

LEMMA InitHandles == Init => HandlesOwned
BY DEF Init, HandlesOwned

LEMMA NextHandles == TypeOK /\ HandlesOwned /\ [Next]_vars => HandlesOwned'
<1> SUFFICES ASSUME TypeOK, HandlesOwned, [Next]_vars PROVE HandlesOwned'
  OBVIOUS
<1> USE DEF TypeOK, HandlesOwned, consumerVars, fileVars, PastOpen
<1>1. ASSUME UNCHANGED vars PROVE HandlesOwned'
  BY <1>1 DEF vars
<1>2. ASSUME NEW r \in Readers, Scan(r) PROVE HandlesOwned'
  <2>1. CASE OpenFails(r)
    BY <2>1 DEF OpenFails, NextOpens, End
  <2>2. CASE OpenSucceeds(r)
    BY <2>2 DEF OpenSucceeds, SpawnDownload, NextOpens, CountAfterHeading
  <2>3. CASE HeadingFails(r)
    BY <2>3 DEF HeadingFails, SpawnDownload, NextOpens, End
  <2>4. CASE OpenPanics(r)
    BY <2>4 DEF OpenPanics, NextOpens
  <2>5. CASE NextAtLastPage(r)
    BY <2>5 DEF NextAtLastPage, End
  <2>6. CASE NextDelivers(r)
    BY <2>6 DEF NextDelivers, ReadRecord
  <2>7. CASE NextRejects(r)
    BY <2>7 DEF NextRejects, ReadRecord, End
  <2>8. CASE NextFails(r)
    <3>1. PICK how \in {"eof", "error"} : End(r, how)
      BY <2>8 DEF NextFails
    <3>2. UNCHANGED <<opened, lastPage, pos, readCount, delivered, ctxDone, source, dl,
                      handles, fileVars>>
      BY <2>8 DEF NextFails
    <3> QED
      BY <3>1, <3>2, <2>8 DEF End, PastOpen
  <2> QED
    BY <1>2, <2>1, <2>2, <2>3, <2>4, <2>5, <2>6, <2>7, <2>8 DEF Scan
<1>3. ASSUME NEW r \in Readers, Download(r) PROVE HandlesOwned'
  <2>1. CASE CreateScratch(r)
    BY <2>1 DEF CreateScratch
  <2>2. CASE CreateFails(r)
    BY <2>2 DEF CreateFails, Exit
  <2>3. CASE WritePart(r)
    BY <2>3 DEF WritePart
  <2>4. CASE DownloadFails(r)
    BY <2>4 DEF DownloadFails, Exit
  <2>5. CASE OpenScratch(r)
    BY <2>5 DEF OpenScratch
  <2>6. CASE ReopenFails(r)
    BY <2>6 DEF ReopenFails, Exit
  <2>7. CASE AbandonSwap(r)
    BY <2>7 DEF AbandonSwap, Exit
  <2>8. CASE Swap(r)
    BY <2>8 DEF Swap, Exit, MayInstall
  <2> QED
    BY <1>3, <2>1, <2>2, <2>3, <2>4, <2>5, <2>6, <2>7, <2>8 DEF Download
<1>4. ASSUME NEW r \in Readers, Closing(r) \/ UserCancels(r) PROVE HandlesOwned'
  <2>1. CASE CloseCancels(r)
    BY <2>1 DEF CloseCancels
  <2>2. CASE CloseReleases(r)
    BY <2>2 DEF CloseReleases, ActiveHandle, Unlinked
  <2>3. CASE UserCancels(r)
    BY <2>3 DEF UserCancels
  <2> QED
    BY <1>4, <2>1, <2>2, <2>3 DEF Closing
<1> QED
  BY <1>1, <1>2, <1>3, <1>4 DEF Next

\* No handle is left open once Close has returned and the goroutine is gone
\* (NoHandleLeak): rows.go closes the active source under rmu, and the
\* goroutine looks at the context again under the same lock.
THEOREM StreamHandles == Spec => []NoHandleLeak
<1>1. Spec => [](TypeOK /\ HandlesOwned)
  BY StreamTypes, InitHandles, NextHandles, PTL DEF Spec
<1>2. TypeOK /\ HandlesOwned => NoHandleLeak
  <2>1. SUFFICES ASSUME TypeOK, HandlesOwned, NEW r \in Readers, client[r] = "closed",
                        dl[r] \in {"none", "exit"}
                 PROVE  handles[r] = {}
    BY DEF NoHandleLeak
  <2>2. "body" \notin handles[r] /\ "scratch" \notin handles[r] /\ "buffered" \notin handles[r]
    <3>1. source[r] = "none"
      BY <2>1, Zenon DEF HandlesOwned
    <3>2. /\ "body" \in handles[r] => source[r] = "body"
          /\ "scratch" \in handles[r] => dl[r] \in {"writing", "swapping"}
          /\ "buffered" \in handles[r] => dl[r] = "swapping" \/ source[r] = "file"
      BY <2>1, Zenon DEF HandlesOwned
    <3> QED
      BY <2>1, <3>1, <3>2
  <2>3. handles[r] \subseteq {"body", "scratch", "buffered"}
    BY <2>1 DEF TypeOK
  <2> QED
    BY <2>2, <2>3
<1> QED
  BY <1>1, <1>2, PTL

-----------------------------------------------------------------------------
(* Scratch files.  A file in the scratch directory is there on behalf of a    *)
(* reader whose Close is yet to come, or of one that created it too late.    *)

ScratchOwned ==
  \A q \in Qids : dir[q] # NoFile =>
    \E r \in Readers :
      /\ Qid[r] = q
      /\ dl[r] # "none"
      /\ client[r] # "closed" \/ r \in late

LEMMA InitScratch == Init => ScratchOwned
BY DEF Init, ScratchOwned

LEMMA NextScratch == TypeOK /\ ScratchOwned /\ [Next]_vars => ScratchOwned'
<1> SUFFICES ASSUME TypeOK, ScratchOwned, [Next]_vars PROVE ScratchOwned'
  OBVIOUS
<1> USE StreamAssumption DEF TypeOK, ScratchOwned, consumerVars, fileVars, PastOpen
<1>1. ASSUME UNCHANGED vars PROVE ScratchOwned'
  BY <1>1 DEF vars
<1>2. ASSUME NEW r \in Readers, Scan(r) PROVE ScratchOwned'
  <2>1. CASE OpenFails(r)
    BY <2>1 DEF OpenFails, NextOpens, End
  <2>2. CASE OpenSucceeds(r)
    BY <2>2 DEF OpenSucceeds, SpawnDownload, NextOpens, CountAfterHeading
  <2>3. CASE HeadingFails(r)
    BY <2>3 DEF HeadingFails, SpawnDownload, NextOpens, End
  <2>4. CASE OpenPanics(r)
    BY <2>4 DEF OpenPanics, NextOpens
  <2>5. CASE NextAtLastPage(r)
    BY <2>5 DEF NextAtLastPage, End
  <2>6. CASE NextDelivers(r)
    BY <2>6 DEF NextDelivers, ReadRecord
  <2>7. CASE NextRejects(r)
    BY <2>7 DEF NextRejects, ReadRecord, End
  <2>8. CASE NextFails(r)
    <3>1. PICK how \in {"eof", "error"} : End(r, how)
      BY <2>8 DEF NextFails
    <3>2. UNCHANGED <<opened, lastPage, pos, readCount, delivered, ctxDone, source, dl,
                      handles, fileVars>>
      BY <2>8 DEF NextFails
    <3> QED
      BY <3>1, <3>2, <2>8 DEF End, PastOpen
  <2> QED
    BY <1>2, <2>1, <2>2, <2>3, <2>4, <2>5, <2>6, <2>7, <2>8 DEF Scan
<1>3. ASSUME NEW r \in Readers, Download(r) PROVE ScratchOwned'
  <2>1. CASE CreateScratch(r)
    BY <2>1 DEF CreateScratch
  <2>2. CASE CreateFails(r)
    BY <2>2 DEF CreateFails, Exit
  <2>3. CASE WritePart(r)
    BY <2>3 DEF WritePart
  <2>4. CASE DownloadFails(r)
    BY <2>4 DEF DownloadFails, Exit
  <2>5. CASE OpenScratch(r)
    BY <2>5 DEF OpenScratch
  <2>6. CASE ReopenFails(r)
    BY <2>6 DEF ReopenFails, Exit
  <2>7. CASE AbandonSwap(r)
    BY <2>7 DEF AbandonSwap, Exit
  <2>8. CASE Swap(r)
    BY <2>8 DEF Swap, Exit, MayInstall
  <2> QED
    BY <1>3, <2>1, <2>2, <2>3, <2>4, <2>5, <2>6, <2>7, <2>8 DEF Download
<1>4. ASSUME NEW r \in Readers, Closing(r) \/ UserCancels(r) PROVE ScratchOwned'
  <2>1. CASE CloseCancels(r)
    BY <2>1 DEF CloseCancels
  <2>2. CASE CloseReleases(r)
    BY <2>2 DEF CloseReleases, ActiveHandle, Unlinked
  <2>3. CASE UserCancels(r)
    BY <2>3 DEF UserCancels
  <2> QED
    BY <1>4, <2>1, <2>2, <2>3 DEF Closing
<1> QED
  BY <1>1, <1>2, <1>3, <1>4 DEF Next

\* A scratch file outlives the readers of its query only when a goroutine got
\* round to creating it after its reader's Close (ScratchOutlivesOnlyLate).
THEOREM StreamScratch == Spec => []ScratchOutlivesOnlyLate
<1>1. Spec => [](TypeOK /\ ScratchOwned)
  BY StreamTypes, InitScratch, NextScratch, PTL DEF Spec
<1>2. ScratchOwned => ScratchOutlivesOnlyLate
  BY DEF ScratchOwned, ScratchOutlivesOnlyLate
<1> QED
  BY <1>1, <1>2, PTL
-----------------------------------------------------------------------------
(* The rows.  At any time the next record of the source is number             *)
(* readCount + 1: in the stream by reading, and in the scratch file when      *)
(* nobody else writes it, because it is complete when it is installed and the *)
(* skip loop passes over exactly the records that were counted.  What others  *)
(* do to a file cannot reach a reader before it is switched to it.            *)

InStep(r) ==
  /\ readCount[r] <= ObjLen(Qid[r])
  /\ pos[r] = readCount[r] + 1
  /\ ~opened[r] => readCount[r] = 0 /\ delivered[r] = << >>
  /\ PastOpen(r) => readCount[r] = Len(delivered[r]) + 1
  /\ \A i \in 1..Len(delivered[r]) : delivered[r][i] = Datum(Qid[r], i + 1)
  /\ client[r] \in {"idle", "inNext"} /\ lastPage[r] => ObjLen(Qid[r]) <= 1
  /\ verdict[r] = "eof" => Len(delivered[r]) + 1 >= ObjLen(Qid[r])

Switching(r) ==
  /\ client[r] \in {"idle", "inNext"} => verdict[r] = "none"
  /\ dl[r] # "none" => opened[r]
  /\ PastOpen(r) => source[r] # "none"
  /\ dl[r] \in {"none", "spawned", "writing"} => buffered[r] = NoFile
  /\ dl[r] = "swapping" => buffered[r] # NoFile
  /\ source[r] = "file" => dl[r] = "exit" /\ buffered[r] # NoFile

OwnFile(r) ==
  /\ dir[Qid[r]] \in {r, NoFile}
  /\ dl[r] \in {"none", "spawned"} => dir[Qid[r]] = NoFile
  /\ dl[r] = "writing" => scratch[r] = r /\ content[r] \cup todo[r] = 1..ObjLen(Qid[r])
  /\ dl[r] = "swapping" \/ source[r] = "file" =>
       buffered[r] = r /\ content[r] = 1..ObjLen(Qid[r])

ScanInv ==
  \A r \in Readers :
    Switching(r) /\ (Alone(r) => OwnFile(r)) /\ (Undisturbed(r) => InStep(r))

\* A file with every position reaches as far as the object.
LEMMA FullFileEnd ==
  ASSUME NEW n \in Nat, NEW f, content[f] = 1..n
  PROVE  FileEnd(f) = n
<1>1. CASE n = 0
  BY <1>1 DEF FileEnd
<1>2. CASE n # 0
  BY <1>2, MaxOfInterval DEF FileEnd
<1> QED
  BY <1>1, <1>2

\* What an undisturbed reader reads next is the record at its position.
LEMMA NextRecord ==
  ASSUME Typing, ScanInv, NEW r \in Readers, Undisturbed(r), PastOpen(r)
  PROVE  /\ SourceEnd(r) = ObjLen(Qid[r])
         /\ pos[r] <= ObjLen(Qid[r]) => RecordAt(r) = Datum(Qid[r], pos[r])
<1>1. ObjLen(Qid[r]) \in Nat /\ pos[r] \in Nat \ {0} /\ source[r] \in {"none", "body", "file"}
  BY StreamAssumption, ObjLenType DEF Typing, TypeOK
<1>2. CASE source[r] = "body"
  BY <1>2 DEF SourceEnd, RecordAt
<1>3. CASE source[r] = "file"
  <2>1. Alone(r)
    BY <1>3 DEF ScanInv, Switching, Undisturbed
  <2>2. buffered[r] = r /\ content[r] = 1..ObjLen(Qid[r])
    BY <1>3, <2>1 DEF ScanInv, OwnFile
  <2> QED
    BY <1>1, <1>3, <2>2, FullFileEnd DEF SourceEnd, RecordAt
<1> QED
  BY <1>1, <1>2, <1>3 DEF ScanInv, Switching

\* The skip loop leaves a whole file at the record after the last one counted.
LEMMA LoneResume ==
  ASSUME Typing, NEW r \in Readers, InStep(r), OwnFile(r), dl[r] = "swapping"
  PROVE  ResumeAt(r) = readCount[r] + 1
<1>1. ObjLen(Qid[r]) \in Nat /\ readCount[r] \in Nat
  BY StreamAssumption, ObjLenType DEF Typing, TypeOK
<1>2. FileEnd(buffered[r]) = ObjLen(Qid[r])
  BY <1>1, FullFileEnd DEF OwnFile
<1> QED
  BY <1>1, <1>2, MinOfTwo DEF ResumeAt, InStep

LEMMA InitScan == Init => ScanInv
<1> SUFFICES ASSUME Init, NEW r \in Readers PROVE Switching(r) /\ OwnFile(r) /\ InStep(r)
  BY DEF ScanInv
<1>1. ObjLen(Qid[r]) \in Nat /\ Qid[r] \in Qids
  BY StreamAssumption, ObjLenType
<1>2. lastPage[r] => ObjLen(Qid[r]) <= 1
  <2>1. lastPage[r] => RowsOf[Qid[r]] = 0
    BY Zenon DEF Init
  <2> QED
    BY <1>1, <2>1 DEF ObjLen
<1>3. InStep(r)
  BY <1>1, <1>2 DEF Init, InStep, PastOpen
<1>4. Switching(r) /\ OwnFile(r)
  BY <1>1 DEF Init, Switching, OwnFile, PastOpen
<1> QED
  BY <1>3, <1>4

\* A goroutine goes from the stream to the file once, and never back.
LEMMA NextSwitching ==
  ASSUME Typing, NEW s \in Readers, Switching(s), [Next]_vars
  PROVE  Switching(s)'
<1> USE StreamAssumption DEF Typing, TypeOK, FilesBelong, Inodes, Switching, consumerVars,
        fileVars, PastOpen
<1>1. ASSUME UNCHANGED vars PROVE Switching(s)'
  BY <1>1 DEF vars
<1>2. ASSUME NEW r \in Readers, Scan(r) PROVE Switching(s)'
  <2>1. CASE OpenFails(r)
    BY <2>1 DEF OpenFails, NextOpens, End
  <2>2. CASE OpenSucceeds(r)
    BY <2>2 DEF OpenSucceeds, SpawnDownload, NextOpens, CountAfterHeading
  <2>3. CASE HeadingFails(r)
    BY <2>3 DEF HeadingFails, SpawnDownload, NextOpens, End
  <2>4. CASE OpenPanics(r)
    BY <2>4 DEF OpenPanics, NextOpens
  <2>5. CASE NextAtLastPage(r)
    BY <2>5 DEF NextAtLastPage, End
  <2>6. CASE NextDelivers(r)
    BY <2>6 DEF NextDelivers, ReadRecord
  <2>7. CASE NextRejects(r)
    BY <2>7 DEF NextRejects, ReadRecord, End
  <2>8. CASE NextFails(r)
    BY <2>8 DEF NextFails, End
  <2> QED
    BY <1>2, <2>1, <2>2, <2>3, <2>4, <2>5, <2>6, <2>7, <2>8 DEF Scan
<1>3. ASSUME NEW r \in Readers, Download(r) PROVE Switching(s)'
  <2>1. CASE CreateScratch(r)
    BY <2>1 DEF CreateScratch
  <2>2. CASE CreateFails(r)
    BY <2>2 DEF CreateFails, Exit
  <2>3. CASE WritePart(r)
    BY <2>3 DEF WritePart
  <2>4. CASE DownloadFails(r)
    BY <2>4 DEF DownloadFails, Exit
  <2>5. CASE OpenScratch(r)
    BY <2>5 DEF OpenScratch
  <2>6. CASE ReopenFails(r)
    BY <2>6 DEF ReopenFails, Exit
  <2>7. CASE AbandonSwap(r)
    BY <2>7 DEF AbandonSwap, Exit
  <2>8. CASE Swap(r)
    BY <2>8 DEF Swap, Exit, MayInstall
  <2> QED
    BY <1>3, <2>1, <2>2, <2>3, <2>4, <2>5, <2>6, <2>7, <2>8 DEF Download
<1>4. ASSUME NEW r \in Readers, Closing(r) \/ UserCancels(r) PROVE Switching(s)'
  <2>1. CASE CloseCancels(r)
    BY <2>1 DEF CloseCancels
  <2>2. CASE CloseReleases(r)
    BY <2>2 DEF CloseReleases, ActiveHandle, Unlinked
  <2>3. CASE UserCancels(r)
    BY <2>3 DEF UserCancels
  <2> QED
    BY <1>4, <2>1, <2>2, <2>3 DEF Closing
<1> QED
  BY <1>1, <1>2, <1>3, <1>4 DEF Next

\* Nobody else touches the file of a reader that is alone.
LEMMA NextOwnFile ==
  ASSUME Typing, NEW s \in Readers, Alone(s), Switching(s), OwnFile(s), [Next]_vars
  PROVE  OwnFile(s)'
<1>0. ObjLen(Qid[s]) \in Nat
  BY StreamAssumption, ObjLenType
<1> USE <1>0, StreamAssumption DEF Typing, TypeOK, FilesBelong, Inodes, Switching, OwnFile,
        consumerVars, fileVars, Alone
<1>1. ASSUME UNCHANGED vars PROVE OwnFile(s)'
  BY <1>1 DEF vars
<1>2. ASSUME NEW r \in Readers, Scan(r) PROVE OwnFile(s)'
  <2>1. CASE OpenFails(r)
    BY <2>1 DEF OpenFails, NextOpens, End
  <2>2. CASE OpenSucceeds(r)
    BY <2>2 DEF OpenSucceeds, SpawnDownload, NextOpens, CountAfterHeading
  <2>3. CASE HeadingFails(r)
    BY <2>3 DEF HeadingFails, SpawnDownload, NextOpens, End
  <2>4. CASE OpenPanics(r)
    BY <2>4 DEF OpenPanics, NextOpens
  <2>5. CASE NextAtLastPage(r)
    BY <2>5 DEF NextAtLastPage, End
  <2>6. CASE NextDelivers(r)
    BY <2>6 DEF NextDelivers, ReadRecord
  <2>7. CASE NextRejects(r)
    BY <2>7 DEF NextRejects, ReadRecord, End
  <2>8. CASE NextFails(r)
    BY <2>8 DEF NextFails, End
  <2> QED
    BY <1>2, <2>1, <2>2, <2>3, <2>4, <2>5, <2>6, <2>7, <2>8 DEF Scan
<1>3. ASSUME NEW r \in Readers, Download(r) PROVE OwnFile(s)'
  <2>1. CASE CreateScratch(r)
    BY <2>1 DEF CreateScratch
  <2>2. CASE CreateFails(r)
    BY <2>2 DEF CreateFails, Exit
  <2>3. CASE WritePart(r)
    BY <2>3 DEF WritePart
  <2>4. CASE DownloadFails(r)
    BY <2>4 DEF DownloadFails, Exit
  <2>5. CASE OpenScratch(r)
    <3>1. CASE r = s
      <4>1. dl[s] = "writing" /\ todo[s] = {} /\ dir[Qid[s]] # NoFile
        BY <2>5, <3>1 DEF OpenScratch
      <4>2. content[s] \cup todo[s] = 1..ObjLen(Qid[s]) /\ dir[Qid[s]] = s
        BY <4>1
      <4>3. buffered' = [buffered EXCEPT ![s] = dir[Qid[s]]]
        BY <2>5, <3>1 DEF OpenScratch
      <4>4. buffered'[s] = s /\ content[s] = 1..ObjLen(Qid[s])
        BY <4>1, <4>2, <4>3
      <4> QED
        BY <2>5, <3>1, <4>4 DEF OpenScratch
    <3>2. CASE r # s
      BY <2>5, <3>2 DEF OpenScratch
    <3> QED
      BY <3>1, <3>2
  <2>6. CASE ReopenFails(r)
    BY <2>6 DEF ReopenFails, Exit
  <2>7. CASE AbandonSwap(r)
    BY <2>7 DEF AbandonSwap, Exit
  <2>8. CASE Swap(r)
    BY <2>8 DEF Swap, Exit, MayInstall
  <2> QED
    BY <1>3, <2>1, <2>2, <2>3, <2>4, <2>5, <2>6, <2>7, <2>8 DEF Download
<1>4. ASSUME NEW r \in Readers, Closing(r) \/ UserCancels(r) PROVE OwnFile(s)'
  <2>1. CASE CloseCancels(r)
    BY <2>1 DEF CloseCancels
  <2>2. CASE CloseReleases(r)
    BY <2>2 DEF CloseReleases, ActiveHandle, Unlinked
  <2>3. CASE UserCancels(r)
    BY <2>3 DEF UserCancels
  <2> QED
    BY <1>4, <2>1, <2>2, <2>3 DEF Closing
<1> QED
  BY <1>1, <1>2, <1>3, <1>4 DEF Next

\* The steps of a reader other than its switch to the scratch file.
NotTheSwitch(r) ==
  \/ Scan(r) \/ Closing(r) \/ UserCancels(r)
  \/ CreateScratch(r) \/ CreateFails(r) \/ WritePart(r) \/ DownloadFails(r)
  \/ OpenScratch(r) \/ ReopenFails(r) \/ AbandonSwap(r)

\* Nothing but its own switch exposes a reader to others.
LEMMA KeepsUndisturbed ==
  ASSUME Typing, NEW s \in Readers, Switching(s), NEW r \in Readers, NotTheSwitch(r)
  PROVE  Undisturbed(s)' <=> Undisturbed(s)
<1> USE DEF Typing, TypeOK, Switching, Undisturbed, Alone, consumerVars, fileVars
<1>1. ASSUME Scan(r) PROVE UNCHANGED buffered /\ (dl'[s] = "swapping" <=> dl[s] = "swapping")
  <2>1. CASE OpenFails(r)
    BY <2>1 DEF OpenFails
  <2>2. CASE OpenSucceeds(r) \/ HeadingFails(r)
    BY <2>2 DEF OpenSucceeds, HeadingFails, SpawnDownload, NextOpens
  <2>3. CASE OpenPanics(r)
    BY <2>3 DEF OpenPanics
  <2>4. CASE NextAtLastPage(r) \/ NextFails(r)
    BY <2>4 DEF NextAtLastPage, NextFails
  <2>5. CASE NextDelivers(r) \/ NextRejects(r)
    BY <2>5 DEF NextDelivers, NextRejects, ReadRecord
  <2> QED
    BY <1>1, <2>1, <2>2, <2>3, <2>4, <2>5 DEF Scan
<1>2. CASE Scan(r)
  BY <1>1, <1>2
<1>3. CASE Closing(r) \/ UserCancels(r)
  BY <1>3 DEF Closing, CloseCancels, CloseReleases, UserCancels
<1>4. CASE CreateScratch(r)
  BY <1>4 DEF CreateScratch
<1>5. CASE CreateFails(r)
  BY <1>5 DEF CreateFails, Exit
<1>6. CASE WritePart(r)
  BY <1>6 DEF WritePart
<1>7. CASE DownloadFails(r)
  BY <1>7 DEF DownloadFails, Exit
<1>8. CASE OpenScratch(r)
  BY <1>8 DEF OpenScratch
<1>9. CASE ReopenFails(r)
  BY <1>9 DEF ReopenFails, Exit
<1>10. CASE AbandonSwap(r)
  BY <1>10 DEF AbandonSwap, Exit
<1> QED
  BY <1>2, <1>3, <1>4, <1>5, <1>6, <1>7, <1>8, <1>9, <1>10 DEF NotTheSwitch

\* The switch does, when the reader is not alone.
LEMMA SwitchExposes ==
  ASSUME Typing, NEW r \in Readers, Switching(r), Swap(r), NEW s \in Readers
  PROVE  /\ Undisturbed(r)
         /\ s # r => (Undisturbed(s)' <=> Undisturbed(s))
         /\ Undisturbed(r)' <=> Alone(r)
<1>1. dl[r] = "swapping" /\ dl' = [dl EXCEPT ![r] = "exit"] /\ UNCHANGED buffered
  BY DEF Swap, Exit
<1>2. buffered[r] # NoFile
  BY <1>1 DEF Switching
<1> QED
  BY <1>1, <1>2 DEF Typing, TypeOK, Undisturbed, Alone

\* The switch of a reader to a file that others write is for good.
LEMMA StaysUndisturbed ==
  ASSUME Typing, NEW s \in Readers, \A r \in Readers : Switching(r), [Next]_vars, Undisturbed(s)'
  PROVE  Undisturbed(s)
<1>1. CASE UNCHANGED vars
  BY <1>1 DEF vars, fileVars, Undisturbed, Alone
<1>2. CASE \E r \in Readers : NotTheSwitch(r)
  BY <1>2, KeepsUndisturbed
<1>3. CASE \E r \in Readers : Swap(r)
  BY <1>3, SwitchExposes
<1> QED
  BY <1>1, <1>2, <1>3 DEF Next, Download, NotTheSwitch

\* An undisturbed reader stays in step, its own switch included.
LEMMA NextInStep ==
  ASSUME Typing, ScanInv, [Next]_vars, NEW s \in Readers, Undisturbed(s)'
  PROVE  InStep(s)'
<1>0. Undisturbed(s) /\ Switching(s) /\ InStep(s) /\ ObjLen(Qid[s]) \in Nat
  BY StreamAssumption, ObjLenType, StaysUndisturbed DEF ScanInv
<1>a. PastOpen(s) =>
        /\ SourceEnd(s) = ObjLen(Qid[s])
        /\ pos[s] <= ObjLen(Qid[s]) => RecordAt(s) = Datum(Qid[s], pos[s])
  BY <1>0, NextRecord
<1>b. Swap(s) => ResumeAt(s) = readCount[s] + 1
  <2> SUFFICES ASSUME Swap(s) PROVE ResumeAt(s) = readCount[s] + 1
    OBVIOUS
  <2>1. dl[s] = "swapping" /\ dl'[s] = "exit" /\ UNCHANGED buffered
    BY DEF Swap, Exit, Typing, TypeOK
  <2>2. Alone(s)
    BY <1>0, <2>1 DEF Switching, Undisturbed, Alone
  <2> QED
    BY <1>0, <2>1, <2>2, LoneResume DEF ScanInv
<1> USE <1>0, StreamAssumption DEF Typing, TypeOK, Inodes, Switching, InStep, consumerVars,
        fileVars, PastOpen
<1>1. ASSUME UNCHANGED vars PROVE InStep(s)'
  BY <1>1 DEF vars
<1>2. ASSUME NEW r \in Readers, Scan(r) PROVE InStep(s)'
  <2>1. CASE OpenFails(r)
    BY <2>1 DEF OpenFails, NextOpens, End
  <2>2. CASE OpenSucceeds(r)
    BY <2>2 DEF OpenSucceeds, SpawnDownload, NextOpens, CountAfterHeading
  <2>3. CASE HeadingFails(r)
    BY <2>3 DEF HeadingFails, SpawnDownload, NextOpens, End
  <2>4. CASE OpenPanics(r)
    BY <2>4 DEF OpenPanics, NextOpens
  <2>5. CASE NextAtLastPage(r)
    BY <2>5 DEF NextAtLastPage, End
  <2>6. CASE NextDelivers(r)
    <3>1. CASE r = s
      <4>1. pos[s] <= ObjLen(Qid[s]) /\ RecordAt(s) = Datum(Qid[s], pos[s])
        BY <2>6, <3>1, <1>a DEF NextDelivers, ReadRecord
      <4>2. pos[s] = Len(delivered[s]) + 2
        BY <2>6, <3>1 DEF NextDelivers, ReadRecord
      <4>3. delivered'[s] = Append(delivered[s], Datum(Qid[s], Len(delivered[s]) + 2))
        BY <2>6, <3>1, <4>1, <4>2 DEF NextDelivers
      <4>4. \A i \in 1..Len(delivered'[s]) : delivered'[s][i] = Datum(Qid[s], i + 1)
        <5> DEFINE old == delivered[s]  new == delivered'[s]  d(i) == Datum(Qid[s], i + 1)
        <5>1. old \in Seq(Int) /\ new = Append(old, d(Len(old) + 1))
          BY <4>3, (Len(delivered[s]) + 1) + 1 = Len(delivered[s]) + 2
        <5>2. \A i \in 1..Len(old) : old[i] = d(i)
          OBVIOUS
        <5> HIDE DEF old, new, d
        <5>3. \A i \in 1..Len(new) : new[i] = d(i)
          BY <5>1, <5>2
        <5> QED
          BY <5>3 DEF new, d
      <4>5. Len(delivered'[s]) = Len(delivered[s]) + 1
        BY <4>3
      <4> HIDE DEF InStep
      <4> QED
        BY <2>6, <3>1, <4>1, <4>4, <4>5 DEF NextDelivers, ReadRecord, InStep
    <3>2. CASE r # s
      BY <2>6, <3>2 DEF NextDelivers, ReadRecord
    <3> QED
      BY <3>1, <3>2
  <2>7. CASE NextRejects(r)
    <3>1. CASE r = s
      <4>1. pos[s] <= ObjLen(Qid[s])
        BY <2>7, <3>1, <1>a DEF NextRejects, ReadRecord
      <4> QED
        BY <2>7, <3>1, <4>1 DEF NextRejects, ReadRecord, End
    <3>2. CASE r # s
      BY <2>7, <3>2 DEF NextRejects, ReadRecord, End
    <3> QED
      BY <3>1, <3>2
  <2>8. CASE NextFails(r)
    <3>1. PICK how \in {"eof", "error"} :
            End(r, how) /\ (how = "eof" => pos[r] > SourceEnd(r))
      BY <2>8 DEF NextFails
    <3>2. UNCHANGED <<opened, lastPage, pos, readCount, delivered, ctxDone, source, dl,
                      handles, fileVars>>
      BY <2>8 DEF NextFails
    <3>3. CASE r = s
      <4>1. how = "eof" => Len(delivered[s]) + 1 >= ObjLen(Qid[s])
        BY <2>8, <3>1, <3>3, <1>a DEF NextFails
      <4> QED
        BY <3>1, <3>2, <3>3, <4>1 DEF End
    <3>4. CASE r # s
      BY <3>1, <3>2, <3>4 DEF End
    <3> QED
      BY <3>3, <3>4
  <2> QED
    BY <1>2, <2>1, <2>2, <2>3, <2>4, <2>5, <2>6, <2>7, <2>8 DEF Scan
<1>3. ASSUME NEW r \in Readers, Download(r) PROVE InStep(s)'
  <2>1. CASE CreateScratch(r)
    BY <2>1 DEF CreateScratch
  <2>2. CASE CreateFails(r)
    BY <2>2 DEF CreateFails, Exit
  <2>3. CASE WritePart(r)
    BY <2>3 DEF WritePart
  <2>4. CASE DownloadFails(r)
    BY <2>4 DEF DownloadFails, Exit
  <2>5. CASE OpenScratch(r)
    BY <2>5 DEF OpenScratch
  <2>6. CASE ReopenFails(r)
    BY <2>6 DEF ReopenFails, Exit
  <2>7. CASE AbandonSwap(r)
    BY <2>7 DEF AbandonSwap, Exit
  <2>8. CASE Swap(r)
    BY <2>8, <1>b DEF Swap, Exit
  <2> QED
    BY <1>3, <2>1, <2>2, <2>3, <2>4, <2>5, <2>6, <2>7, <2>8 DEF Download
<1>4. ASSUME NEW r \in Readers, Closing(r) \/ UserCancels(r) PROVE InStep(s)'
  <2>1. CASE CloseCancels(r)
    BY <2>1 DEF CloseCancels
  <2>2. CASE CloseReleases(r)
    BY <2>2 DEF CloseReleases, ActiveHandle, Unlinked
  <2>3. CASE UserCancels(r)
    BY <2>3 DEF UserCancels
  <2> QED
    BY <1>4, <2>1, <2>2, <2>3 DEF Closing
<1> QED
  BY <1>1, <1>2, <1>3, <1>4 DEF Next

LEMMA NextScan == Typing /\ ScanInv /\ [Next]_vars => ScanInv'
<1> SUFFICES ASSUME Typing, ScanInv, [Next]_vars, NEW s \in Readers
             PROVE  (Switching(s) /\ (Alone(s) => OwnFile(s)) /\ (Undisturbed(s) => InStep(s)))'
  BY DEF ScanInv, Alone
<1>1. Switching(s)'
  BY NextSwitching DEF ScanInv
<1>2. Alone(s) => OwnFile(s)'
  BY NextOwnFile DEF ScanInv
<1>3. Undisturbed(s)' => InStep(s)'
  BY NextInStep
<1> QED
  BY <1>1, <1>2, <1>3 DEF Alone

LEMMA ScanInvariant == Spec => [](Typing /\ ScanInv)
<1>1. Init => Typing /\ ScanInv
  BY InitTyping, InitScan
<1>2. Typing /\ ScanInv /\ [Next]_vars => (Typing /\ ScanInv)'
  BY NextTyping, NextScan
<1> QED
  BY <1>1, <1>2, PTL DEF Spec

\* A reader hands out the records after the first in order, alone with its query
\* whenever the switch to the scratch file happens, else up to it (InOrder).
THEOREM StreamInOrder == Spec => []InOrder
<1>1. ScanInv => InOrder
  BY DEF ScanInv, InStep, InOrder
<1> QED
  BY <1>1, ScanInvariant, PTL

\* ... and says io.EOF only when it has handed out every one (EofMeansAll).
THEOREM StreamEof == Spec => []EofMeansAll
<1>1. ScanInv => EofMeansAll
  BY DEF ScanInv, InStep, EofMeansAll
<1> QED
  BY <1>1, ScanInvariant, PTL

-----------------------------------------------------------------------------
(* Refinement.  Each reader implements a cursor over the scanned records of   *)
(* its result; the switch to a file that others write tears it off.           *)

LEMMA TornIs ==
  ASSUME NEW r \in Readers
  PROVE  r \in Torn <=> ~Undisturbed(r)
BY DEF Torn, Sharing, Undisturbed

LEMMA KeepsTorn ==
  ASSUME Typing, ScanInv, NEW r \in Readers, NotTheSwitch(r)
  PROVE  UNCHANGED Torn
<1>1. \A s \in Readers : Undisturbed(s)' <=> Undisturbed(s)
  BY KeepsUndisturbed DEF ScanInv
<1>2. UNCHANGED Sharing /\ Sharing \subseteq Readers
  BY DEF Sharing, Alone
<1>3. Torn' = {s \in Sharing : ~Undisturbed(s)'}
  BY <1>2, Zenon DEF Torn
<1>4. \A s \in Sharing : ~Undisturbed(s)' <=> ~Undisturbed(s)
  BY <1>1, <1>2, Zenon
<1> HIDE DEF Sharing
<1> QED
  BY <1>3, <1>4, Zenon DEF Torn

\* How many records are scanned, and which.
LEMMA ScannedIs ==
  ASSUME NEW r \in Readers
  PROVE  /\ ObjLen(Qid[r]) \in Nat
         /\ Len(Scanned[r]) = IF ObjLen(Qid[r]) = 0 THEN 0 ELSE ObjLen(Qid[r]) - 1
         /\ \A i \in 1..Len(Scanned[r]) : Scanned[r][i] = Datum(Qid[r], i + 1)
<1> DEFINE n == IF ObjLen(Qid[r]) = 0 THEN 0 ELSE ObjLen(Qid[r]) - 1
<1>1. ObjLen(Qid[r]) \in Nat /\ n \in Nat
  BY StreamAssumption, ObjLenType
<1> HIDE DEF n
<1>2. Scanned[r] = [i \in 1..n |-> Datum(Qid[r], i + 1)]
  BY DEF Scanned, n
<1>3. Len(Scanned[r]) = n
  BY <1>1, <1>2
<1>4. \A i \in 1..n : Scanned[r][i] = Datum(Qid[r], i + 1)
  BY <1>2
<1> QED
  BY <1>1, <1>3, <1>4 DEF n

\* Whatever is done to its file, a reader gets a record of its own result or
\* a hole.
LEMMA RecordIsFragment ==
  ASSUME Typing, NEW r \in Readers, pos[r] <= SourceEnd(r)
  PROVE  RecordAt(r) \in Fragments[r]
<1>1. /\ pos[r] \in Nat \ {0} /\ buffered[r] \in Inodes /\ ObjLen(Qid[r]) \in Nat
      /\ buffered[r] # NoFile => Qid[buffered[r]] = Qid[r]
  BY StreamAssumption, ObjLenType DEF Typing, TypeOK, FilesBelong
<1>2. SourceEnd(r) <= ObjLen(Qid[r]) \/ SourceEnd(r) = 0
  <2>1. CASE source[r] = "body"
    BY <1>1, <2>1 DEF SourceEnd
  <2>2. CASE source[r] # "body" /\ buffered[r] = NoFile
    BY <1>1, <2>2, FileEndType, StreamAssumption DEF SourceEnd
  <2>3. CASE source[r] # "body" /\ buffered[r] # NoFile
    <3>1. buffered[r] \in Readers /\ SourceEnd(r) = FileEnd(buffered[r])
      BY <1>1, <2>3 DEF SourceEnd, Inodes
    <3> QED
      BY <1>1, <2>3, <3>1, FileEndType
  <2> QED
    BY <2>1, <2>2, <2>3
<1>3. pos[r] \in 1..ObjLen(Qid[r])
  BY <1>1, <1>2, FileEndType DEF SourceEnd
<1>4. Datum(Qid[r], pos[r]) \in Fragments[r] /\ Garbage \in Fragments[r]
  BY <1>3 DEF Fragments
<1> QED
  BY <1>4 DEF RecordAt

StatusNow == [r \in Readers |-> Status(r)]

\* Next ends the scan: the cursor is exhausted or fails.
LEMMA EndIsACursorStep ==
  ASSUME Typing, NEW r \in Readers, NEW how \in {"eof", "error"},
         client[r] \in {"idle", "inNext"}, verdict[r] = "none",
         End(r, how), UNCHANGED <<delivered, Torn>>,
         how = "eof" => r \in Torn \/ Len(delivered[r]) = Len(Scanned[r])
  PROVE  Cursor!Next
<1>1. Status(r) = "open"
  BY DEF Status
<1>2. StatusNow' = [StatusNow EXCEPT ![r] = how]
  BY DEF StatusNow, Status, End, Typing, TypeOK
<1>3. CASE how = "eof"
  <2>1. Cursor!Exhaust(r)
    BY <1>1, <1>2, <1>3 DEF StatusNow, Cursor!Exhaust, Cursor!Finish
  <2> QED
    BY <2>1 DEF Cursor!Next
<1>4. CASE how = "error"
  <2>1. Cursor!Fail(r)
    BY <1>1, <1>2, <1>4 DEF StatusNow, Cursor!Fail, Cursor!Finish
  <2> QED
    BY <2>1 DEF Cursor!Next
<1> QED
  BY <1>3, <1>4

\* A step that moves only the machinery behind the cursor.
LEMMA QuietIsAStutter ==
  ASSUME \A r \in Readers : Status(r)' = Status(r), UNCHANGED <<delivered, Torn>>
  PROVE  UNCHANGED Cursor!cursorVars
BY DEF Cursor!cursorVars

LEMMA InitCursor == Init => Cursor!Init
<1> SUFFICES ASSUME Init PROVE Cursor!Init
  OBVIOUS
<1>1. Torn = {}
  BY DEF Init, Torn, Sharing, Undisturbed
<1>2. \A r \in Readers : Status(r) = "open"
  BY DEF Init, Status
<1> QED
  BY <1>1, <1>2 DEF Init, Cursor!Init

\* A row is handed out: the next one, or a fragment to a reader torn off.
LEMMA DeliveryIsACursorStep ==
  ASSUME Typing, ScanInv, NEW r \in Readers, NextDelivers(r), UNCHANGED Torn
  PROVE  Cursor!Next
<1>1. PastOpen(r) /\ pos[r] <= SourceEnd(r)
  BY DEF NextDelivers, ReadRecord
<1>2. StatusNow[r] = "open"
  BY <1>1 DEF PastOpen, ScanInv, Switching, Status, StatusNow
<1>3. UNCHANGED StatusNow
  <2>1. \A s \in Readers : Status(s)' = Status(s)
    BY <1>1 DEF NextDelivers, PastOpen, Status, Typing, TypeOK
  <2> QED
    BY <2>1 DEF StatusNow
<1>4. delivered' = [delivered EXCEPT ![r] = Append(@, RecordAt(r))]
  BY DEF NextDelivers
<1>5. Cursor!Hand(r, RecordAt(r))
  BY <1>2, <1>3, <1>4 DEF Cursor!Hand, StatusNow
<1>6. CASE r \in Torn
  <2>1. Cursor!DeliverScrap(r)
    BY <1>1, <1>5, <1>6, RecordIsFragment DEF Cursor!DeliverScrap
  <2> QED
    BY <2>1 DEF Cursor!Next
<1>7. CASE r \notin Torn
  <2>1. InStep(r) /\ Undisturbed(r) /\ Len(delivered[r]) \in Nat /\ pos[r] \in Nat
        /\ readCount[r] \in Nat
    BY <1>7, TornIs DEF ScanInv, Typing, TypeOK
  <2>2. pos[r] = Len(delivered[r]) + 2 /\ pos[r] <= ObjLen(Qid[r])
    BY <1>1, <2>1, NextRecord DEF InStep
  <2>3. Len(delivered[r]) + 1 \in 1..Len(Scanned[r])
    BY <2>1, <2>2, ScannedIs
  <2>4. RecordAt(r) = Scanned[r][Len(delivered[r]) + 1]
    <3>1. RecordAt(r) = Datum(Qid[r], pos[r])
      BY <1>1, <2>1, <2>2, NextRecord
    <3>2. Scanned[r][Len(delivered[r]) + 1] = Datum(Qid[r], (Len(delivered[r]) + 1) + 1)
      BY <2>3, ScannedIs
    <3>3. pos[r] = (Len(delivered[r]) + 1) + 1
      BY <2>1, <2>2
    <3> QED
      BY <3>1, <3>2, <3>3
  <2>5. Len(delivered[r]) < Len(Scanned[r])
    BY <2>1, <2>3, ScannedIs
  <2>6. Cursor!Deliver(r)
    BY <1>5, <1>7, <2>4, <2>5 DEF Cursor!Deliver
  <2> QED
    BY <2>6 DEF Cursor!Next
<1> QED
  BY <1>6, <1>7

LEMMA ScanIsACursorStep ==
  ASSUME Typing, ScanInv, NEW r \in Readers, Scan(r)
  PROVE  [Cursor!Next]_(Cursor!cursorVars)
<1>1. UNCHANGED Torn
  BY KeepsTorn DEF NotTheSwitch
<1>2. client[r] \in {"idle", "inNext"} => verdict[r] = "none"
  BY DEF ScanInv, Switching
<1>3. r \notin Torn => InStep(r) /\ Undisturbed(r)
  BY TornIs DEF ScanInv
<1>4. /\ ObjLen(Qid[r]) \in Nat /\ Len(delivered[r]) \in Nat /\ readCount[r] \in Nat
      /\ pos[r] \in Nat
  BY ScannedIs DEF Typing, TypeOK
<1>5. r \notin Torn /\ PastOpen(r) => Len(delivered[r]) + 1 <= ObjLen(Qid[r])
  BY <1>3 DEF InStep
<1>6. CASE OpenFails(r)
  <2>1. client[r] = "idle" /\ End(r, "error") /\ UNCHANGED delivered
    BY <1>6 DEF OpenFails, NextOpens
  <2> QED
    BY <1>1, <1>2, <2>1, EndIsACursorStep
<1>7. CASE OpenSucceeds(r)
  <2>1. \A s \in Readers : Status(s)' = Status(s)
    BY <1>7 DEF OpenSucceeds, SpawnDownload, NextOpens, Status, Typing, TypeOK
  <2>2. UNCHANGED delivered
    BY <1>7 DEF OpenSucceeds, SpawnDownload
  <2> QED
    BY <1>1, <2>1, <2>2, QuietIsAStutter
<1>8. CASE HeadingFails(r)
  <2>1. client[r] = "idle" /\ ~opened[r] /\ UNCHANGED delivered
    BY <1>8 DEF HeadingFails, SpawnDownload, NextOpens
  <2>2. PICK how \in {"eof", "error"} :
          End(r, how) /\ (how = "eof" => ObjLen(Qid[r]) = 0)
    BY <1>8 DEF HeadingFails
  <2>3. r \notin Torn => Len(delivered[r]) = 0
    BY <1>3, <2>1 DEF InStep
  <2>4. how = "eof" => r \in Torn \/ Len(delivered[r]) = Len(Scanned[r])
    BY <2>2, <2>3, ScannedIs
  <2> QED
    BY <1>1, <1>2, <2>1, <2>2, <2>4, EndIsACursorStep
<1>9. CASE OpenPanics(r)
  <2>1. StatusNow[r] = "open" /\ StatusNow' = [StatusNow EXCEPT ![r] = "error"]
    BY <1>9, <1>2 DEF OpenPanics, NextOpens, Status, StatusNow, Typing, TypeOK
  <2>2. UNCHANGED delivered
    BY <1>9 DEF OpenPanics
  <2>3. Cursor!Fail(r)
    BY <1>1, <2>1, <2>2 DEF StatusNow, Cursor!Fail, Cursor!Finish
  <2> QED
    BY <2>3 DEF Cursor!Next
<1>10. CASE NextAtLastPage(r)
  <2>1. PastOpen(r) /\ lastPage[r] /\ End(r, "eof") /\ UNCHANGED delivered
    BY <1>10 DEF NextAtLastPage
  <2>2. r \notin Torn => ObjLen(Qid[r]) <= 1
    BY <1>3, <2>1 DEF InStep, PastOpen
  <2>3. r \in Torn \/ Len(delivered[r]) = Len(Scanned[r])
    BY <1>4, <1>5, <2>1, <2>2, ScannedIs
  <2> QED
    BY <1>1, <1>2, <2>1, <2>3, EndIsACursorStep DEF PastOpen
<1>11. CASE NextDelivers(r)
  BY <1>1, <1>11, DeliveryIsACursorStep
<1>12. CASE NextRejects(r)
  <2>1. PastOpen(r) /\ End(r, "error") /\ UNCHANGED delivered
    BY <1>12 DEF NextRejects, ReadRecord
  <2> QED
    BY <1>1, <1>2, <2>1, EndIsACursorStep DEF PastOpen
<1>13. CASE NextFails(r)
  <2>1. PICK how \in {"eof", "error"} :
          End(r, how) /\ (how = "eof" => pos[r] > SourceEnd(r))
    BY <1>13 DEF NextFails
  <2>2. PastOpen(r) /\ UNCHANGED delivered
    BY <1>13 DEF NextFails
  <2>3. r \notin Torn => SourceEnd(r) = ObjLen(Qid[r]) /\ pos[r] = Len(delivered[r]) + 2
    BY <1>3, <2>2, NextRecord DEF InStep
  <2>4. how = "eof" => r \in Torn \/ Len(delivered[r]) = Len(Scanned[r])
    BY <1>4, <1>5, <2>1, <2>2, <2>3, ScannedIs
  <2> QED
    BY <1>1, <1>2, <2>1, <2>2, <2>4, EndIsACursorStep DEF PastOpen
<1> QED
  BY <1>6, <1>7, <1>8, <1>9, <1>10, <1>11, <1>12, <1>13 DEF Scan

\* The switch to the scratch file is not seen, or tears the reader off.
LEMMA SwapIsACursorStep ==
  ASSUME Typing, ScanInv, NEW r \in Readers, Swap(r)
  PROVE  [Cursor!Next]_(Cursor!cursorVars)
<1>1. UNCHANGED delivered /\ \A s \in Readers : Status(s)' = Status(s)
  BY DEF Swap, Status
<1>2. /\ \A s \in Readers \ {r} : Undisturbed(s)' <=> Undisturbed(s)
      /\ Undisturbed(r)' <=> Alone(r)
      /\ Undisturbed(r) /\ UNCHANGED Sharing /\ Sharing \subseteq Readers
  BY SwitchExposes DEF ScanInv, Sharing, Alone
<1>3. CASE Alone(r)
  <2>1. \A s \in Sharing : Undisturbed(s)' <=> Undisturbed(s)
    BY <1>2, <1>3, Zenon
  <2>2. Torn' = {s \in Sharing : ~Undisturbed(s)'}
    BY <1>2, Zenon DEF Torn
  <2>3. UNCHANGED Torn
    BY <2>1, <2>2, Zenon DEF Torn
  <2> QED
    BY <1>1, <2>3, QuietIsAStutter
<1>4. CASE ~Alone(r)
  <2>1. r \in Sharing /\ Torn' = Torn \cup {r}
    BY <1>2, <1>4 DEF Torn, Sharing
  <2>2. UNCHANGED StatusNow
    BY <1>1 DEF StatusNow
  <2>3. Cursor!Tear(r)
    BY <1>1, <2>1, <2>2 DEF Cursor!Tear, StatusNow
  <2> QED
    BY <2>3 DEF Cursor!Next
<1> QED
  BY <1>3, <1>4

LEMMA StepCursor ==
  ASSUME Typing, ScanInv, [Next]_vars
  PROVE  [Cursor!Next]_(Cursor!cursorVars)
<1>1. ASSUME UNCHANGED vars PROVE UNCHANGED Cursor!cursorVars
  <2>1. UNCHANGED <<client, verdict, delivered, buffered, dl>>
    BY <1>1 DEF vars, consumerVars, fileVars
  <2>2. UNCHANGED Torn
    BY <2>1 DEF Torn, Sharing, Undisturbed, Alone
  <2> QED
    BY <2>1, <2>2, QuietIsAStutter DEF Status
<1>2. ASSUME NEW r \in Readers, Download(r), ~Swap(r) PROVE UNCHANGED Cursor!cursorVars
  <2>1. UNCHANGED <<client, verdict, delivered>>
    BY <1>2 DEF Download, CreateScratch, CreateFails, WritePart, DownloadFails, OpenScratch,
                ReopenFails, AbandonSwap, consumerVars
  <2>2. UNCHANGED Torn
    BY <1>2, KeepsTorn DEF Download, NotTheSwitch
  <2> QED
    BY <2>1, <2>2, QuietIsAStutter DEF Status
<1>3. ASSUME NEW r \in Readers, CloseCancels(r) PROVE Cursor!Next
  <2>1. StatusNow[r] # "closed" /\ StatusNow' = [StatusNow EXCEPT ![r] = "closed"]
    BY <1>3 DEF CloseCancels, Status, StatusNow, Typing, TypeOK
  <2>2. UNCHANGED <<delivered, Torn>>
    BY <1>3, KeepsTorn DEF CloseCancels, NotTheSwitch, Closing
  <2>3. Cursor!Shut(r)
    BY <2>1, <2>2 DEF StatusNow, Cursor!Shut, Cursor!Finish
  <2> QED
    BY <2>3 DEF Cursor!Next
<1>4. ASSUME NEW r \in Readers, CloseReleases(r) PROVE UNCHANGED Cursor!cursorVars
  <2>1. \A s \in Readers : Status(s)' = Status(s)
    BY <1>4 DEF CloseReleases, Status, Typing, TypeOK
  <2>2. UNCHANGED <<delivered, Torn>>
    BY <1>4, KeepsTorn DEF CloseReleases, NotTheSwitch, Closing
  <2> QED
    BY <2>1, <2>2, QuietIsAStutter
<1>5. ASSUME NEW r \in Readers, UserCancels(r) PROVE UNCHANGED Cursor!cursorVars
  <2>1. UNCHANGED <<client, verdict, delivered>>
    BY <1>5 DEF UserCancels, consumerVars
  <2>2. UNCHANGED Torn
    BY <1>5, KeepsTorn DEF NotTheSwitch
  <2> QED
    BY <2>1, <2>2, QuietIsAStutter DEF Status
<1> QED
  BY <1>1, <1>2, <1>3, <1>4, <1>5, ScanIsACursorStep, SwapIsACursorStep DEF Next, Closing

\* The stream, the download, the switch between them and Close together
\* implement the abstract cursor (ImplementsCursor), whatever the results,
\* whoever shares them, and wherever the switches happen.
THEOREM StreamImplementsCursor == Spec => ImplementsCursor
<1>1. Typing /\ ScanInv /\ [Next]_vars => [Cursor!Next]_(Cursor!cursorVars)
  BY StepCursor
<1> QED
  BY <1>1, InitCursor, ScanInvariant, PTL DEF Spec, ImplementsCursor, Cursor!Spec
=============================================================================
