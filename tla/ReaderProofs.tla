----------------------------- MODULE ReaderProofs -----------------------------
(***************************************************************************)
(* Proofs about Reader, for any processes, command lines and config files. *)
(*                                                                         *)
(* A run's own variables are changed by its own steps alone, so that most  *)
(* of the invariant is one formula per run (OfRun); the config file at     *)
(* home is what they share, and HomeExplained is about it.                 *)
(***************************************************************************)
EXTENDS Reader, TLAPS

\* A run before its first query.
Configuring(p) == at[p] \in {"look", "create", "write", "load"}
Querying(p)    == at[p] \in {"query", "rows"}

Stage(p) ==
  /\ at[p] # "idle" => how[p] = "none"
  /\ Configuring(p) => sent[p] = {} /\ output[p] = <<>> /\ next[p] = 1
  /\ at[p] \in {"look", "create"} => pending[p] = 1
  /\ at[p] \in {"create", "write"} => source[p] # "cwd"
  /\ at[p] \in {"write", "load"} /\ source[p] = "home" => home.exists

AdminAsked(p) == cmd[p].admin = "on" \/ (cmd[p].admin = "unset" /\ read[p].admin = "on")
Admin(p) ==
  /\ Querying(p) => options[p].admin = Chosen(cmd[p].admin, read[p].admin)
  /\ sent[p] \cap Writes # {} => AdminAsked(p)

\* What is printed: known queries, in order, an error last with fastfail.
Printed(p) ==
  LET q == Queries(p)  out == output[p] IN
  /\ \A k \in DOMAIN out : out[k].query \in DOMAIN q /\ q[out[k].query] # Blank
  /\ \A k \in DOMAIN out : \A j \in 1..(k - 1) :
       out[j].query < out[k].query /\ (Fast(p) => out[j].what # "error")

\* All that came before the next query was answered.
Answered(p) ==
  Querying(p) =>
    /\ \A k \in DOMAIN output[p] : /\ output[p][k].query < next[p]
                                   /\ Fast(p) => output[p][k].what # "error"
    /\ \A i \in DOMAIN Queries(p) : i < next[p] /\ Queries(p)[i] # Blank => IsAnswered(p, i)
    /\ at[p] = "rows" => next[p] \in DOMAIN Queries(p) /\ Query(p) # Blank

Done(p) ==
  how[p] = "done" =>
    \A i \in DOMAIN Queries(p) : Queries(p)[i] # Blank => IsAnswered(p, i) \/ StoppedBefore(p, i)

OfRun(p) == Stage(p) /\ Admin(p) /\ Printed(p) /\ Answered(p) /\ Done(p)

IInv == TypeOK /\ HomeExplained /\ \A p \in Procs : OfRun(p)

USE ReaderAssumption
-----------------------------------------------------------------------------
(* A run whose variables a step leaves alone. *)

Same(q) ==
  /\ at'[q] = at[q] /\ cmd'[q] = cmd[q] /\ source'[q] = source[q] /\ pending'[q] = pending[q]
  /\ read'[q] = read[q] /\ options'[q] = options[q] /\ next'[q] = next[q]
  /\ sent'[q] = sent[q] /\ output'[q] = output[q] /\ how'[q] = how[q]

LEMMA SameKeeps ==
  ASSUME NEW q \in Procs, OfRun(q), Same(q), home.exists => home'.exists
  PROVE  OfRun(q)'
<1>1. Stage(q)'
  BY DEF OfRun, Same, Stage, Configuring
<1>2. Admin(q)'
  BY DEF OfRun, Same, Admin, AdminAsked, Querying
<1>3. Queries(q)' = Queries(q) /\ (Fast(q)' <=> Fast(q))
  BY DEF Same, Queries, Fast
<1>4. Printed(q)'
  BY <1>3 DEF OfRun, Same, Printed
<1>5. Answered(q)'
  BY <1>3 DEF OfRun, Same, Answered, Querying, IsAnswered, Query
<1>6. Done(q)'
  BY <1>3 DEF OfRun, Same, Done, IsAnswered, StoppedBefore
<1>7. QED
  BY <1>1, <1>2, <1>4, <1>5, <1>6 DEF OfRun

OwnStep(p) == Launch(p) \/ Configure(p) \/ QueryAthena(p) \/ Kill(p)

LEMMA GotoOther ==
  ASSUME NEW p, NEW q, q # p, NEW where, Goto(p, where)
  PROVE  at'[q] = at[q]
BY DEF Goto

LEMMA EndOther ==
  ASSUME NEW p, NEW q, q # p, NEW what, End(p, what)
  PROVE  at'[q] = at[q] /\ how'[q] = how[q]
BY DEF End, Goto

LEMMA FromOther ==
  ASSUME NEW p, NEW q, q # p, NEW place, NEW where, From(p, place, where)
  PROVE  at'[q] = at[q] /\ how'[q] = how[q] /\ source'[q] = source[q]
BY GotoOther DEF From

LEMMA ReportOther ==
  ASSUME NEW p, NEW q, q # p, ReportError(p)
  PROVE  at'[q] = at[q] /\ how'[q] = how[q] /\ next'[q] = next[q] /\ output'[q] = output[q]
<1>1. output'[q] = output[q]
  BY DEF ReportError, Shown
<1>2. CASE options[p].fastfail = "on"
  BY <1>1, <1>2, EndOther DEF ReportError
<1>3. CASE options[p].fastfail # "on"
  <2>1. Goto(p, "query") /\ how' = how /\ next' = [next EXCEPT ![p] = @ + 1]
    BY <1>3 DEF ReportError
  <2>2. QED
    BY <1>1, <2>1, GotoOther
<1>4. QED
  BY <1>2, <1>3

LEMMA WriteFailsOther ==
  ASSUME NEW p, NEW q, q # p, WriteFails(p)
  PROVE  at'[q] = at[q] /\ how'[q] = how[q]
BY GotoOther, EndOther DEF WriteFails

LEMMA OthersSame ==
  ASSUME TypeOK, NEW p \in Procs, NEW q \in Procs, q # p, OwnStep(p)
  PROVE  Same(q)
<1>1. CASE Launch(p)
  <2>1. at'[q] = at[q] /\ how'[q] = how[q]
    <3>1. CASE End(p, "version")
      BY <3>1, EndOther
    <3>2. CASE Goto(p, "look") /\ how' = [how EXCEPT ![p] = "none"]
      BY <3>2, GotoOther
    <3>3. QED
      BY <1>1, <3>1, <3>2 DEF Launch
  <2>2. cmd'[q] = cmd[q] /\ source'[q] = source[q]
    BY <1>1 DEF Launch, TypeOK
  <2>3. pending'[q] = pending[q] /\ read'[q] = read[q] /\ options'[q] = options[q]
    BY <1>1 DEF Launch, TypeOK
  <2>4. next'[q] = next[q] /\ sent'[q] = sent[q] /\ output'[q] = output[q]
    BY <1>1 DEF Launch, TypeOK
  <2>5. QED
    BY <2>1, <2>2, <2>3, <2>4 DEF Same
<1>2. CASE Look(p)
  <2>1. \/ \E place, where : From(p, place, where)
        \/ End(p, "exit 1") /\ UNCHANGED source
    BY <1>2 DEF Look
  <2>2. at'[q] = at[q] /\ how'[q] = how[q] /\ source'[q] = source[q]
    BY <2>1, FromOther, EndOther
  <2>3. QED
    BY <1>2, <2>2 DEF Look, Same
<1>3. CASE Create(p)
  <2>1. at'[q] = at[q] /\ how'[q] = how[q]
    BY <1>3, GotoOther, WriteFailsOther DEF Create
  <2>2. QED
    BY <1>3, <2>1 DEF Create, Same
<1>4. CASE Write(p)
  BY <1>4 DEF Write, Same, Goto
<1>5. CASE WriteStops(p)
  <2>1. at'[q] = at[q] /\ how'[q] = how[q]
    BY <1>5, WriteFailsOther DEF WriteStops
  <2>2. QED
    BY <1>5, <2>1 DEF WriteStops, Same
<1>6. CASE Load(p)
  <2>1. at'[q] = at[q] /\ how'[q] = how[q]
    BY <1>6, GotoOther, EndOther DEF Load
  <2>2. \/ read' = read
        \/ read' = [read EXCEPT ![p] = Populated(File(p))]
    BY <1>6 DEF Load
  <2>3. \/ options' = options
        \/ options' = [options EXCEPT ![p] = WithOptions(cmd[p], Populated(File(p)))]
    BY <1>6 DEF Load
  <2>4. UNCHANGED <<cmd, source, pending, next, sent, output>>
    BY <1>6 DEF Load
  <2>5. DOMAIN read = Procs /\ DOMAIN options = Procs
    BY DEF TypeOK
  <2>6. read'[q] = read[q]
    BY <2>2, <2>5
  <2>7. options'[q] = options[q]
    BY <2>3, <2>5
  <2>8. QED
    BY <2>1, <2>4, <2>6, <2>7 DEF Same
<1>7. CASE SkipBlank(p)
  BY <1>7 DEF SkipBlank, Same
<1>8. CASE Run(p)
  <2>1. at'[q] = at[q] /\ how'[q] = how[q] /\ next'[q] = next[q] /\ output'[q] = output[q]
    BY <1>8, GotoOther, ReportOther DEF Run
  <2>2. QED
    BY <1>8, <2>1 DEF Run, Same
<1>9. CASE NoAnswer(p)
  BY <1>9, ReportOther DEF NoAnswer, Same
<1>10. CASE PrintRows(p)
  BY <1>10 DEF PrintRows, Shown, Same, Goto
<1>11. CASE Finish(p)
  BY <1>11 DEF Finish, Same, Goto, End
<1>12. CASE Kill(p)
  BY <1>12 DEF Kill, Same, Goto, End
<1>13. QED
  BY <1>1, <1>2, <1>3, <1>4, <1>5, <1>6, <1>7, <1>8, <1>9, <1>10, <1>11, <1>12
     DEF OwnStep, Configure, QueryAthena
-----------------------------------------------------------------------------
(* The config file at home. *)

LEMMA HomeStays ==
  ASSUME TypeOK, NEW p \in Procs, OwnStep(p)
  PROVE  home.exists => home'.exists
<1>1. CASE Create(p)
  BY <1>1 DEF Create, fileVars
<1>2. CASE Write(p)
  BY <1>2 DEF Write, TypeOK
<1>3. CASE Launch(p) \/ Look(p) \/ WriteStops(p) \/ Load(p) \/ QueryAthena(p) \/ Kill(p)
  <2>1. UNCHANGED home
    BY <1>3 DEF Launch, Look, WriteStops, Load, QueryAthena, SkipBlank, Run, NoAnswer, PrintRows,
                Finish, Kill, fileVars
  <2>2. QED
    BY <2>1
<1>4. QED
  BY <1>1, <1>2, <1>3 DEF OwnStep, Configure

LEMMA HomeKeeps ==
  ASSUME IInv, NEW p \in Procs, OwnStep(p)
  PROVE  HomeExplained'
<1>1. TypeOK /\ HomeExplained /\ \A q \in Procs \ {p} : Same(q)
  BY OthersSame DEF IInv
<1>2. CASE Create(p)
  <2>1. CASE /\ home' = [exists |-> TRUE, of |-> Shipped, blocks |-> {}] /\ Goto(p, "write")
             /\ UNCHANGED pending
    <3>1. at'[p] = "write" /\ pending'[p] = 1
      <4>1. at[p] = "create" /\ at' = [at EXCEPT ![p] = "write"]
        BY <1>2, <2>1 DEF Create, Goto
      <4>2. pending[p] = 1
        BY <4>1 DEF IInv, OfRun, Stage
      <4>3. at'[p] = "write"
        BY <1>1, <4>1 DEF TypeOK
      <4>4. QED
        BY <2>1, <4>2, <4>3
    <3>2. Blocks \ home'.blocks \subseteq pending'[p]..3
      BY <2>1, <3>1 DEF Blocks
    <3>3. QED
      BY <3>1, <3>2 DEF HomeExplained
  <2>2. CASE UNCHANGED <<home, damaged, pending>>
    BY <1>1, <1>2, <2>2 DEF Create, HomeExplained, Same
  <2>3. QED
    BY <1>2, <2>1, <2>2 DEF Create, fileVars
<1>3. CASE Write(p)
  <2>1. /\ at[p] = "write" /\ pending[p] \in Blocks /\ UNCHANGED damaged
        /\ home'.blocks = home.blocks \cup {pending[p]} /\ home'.exists = home.exists
        /\ pending'[p] = pending[p] + 1
        /\ at'[p] = IF pending[p] = 3 THEN "load" ELSE "write"
    BY <1>1, <1>3 DEF Write, Goto, TypeOK
  <2>2. SUFFICES ASSUME home.exists, home'.blocks # Blocks, ~damaged
                 PROVE  \E q \in Procs : at'[q] = "write" /\ Blocks \ home'.blocks \subseteq pending'[q]..3
    BY <2>1 DEF HomeExplained
  <2>3. home.blocks \subseteq Blocks /\ home.blocks # Blocks
    <3>1. home.blocks \subseteq Blocks
      BY <1>1 DEF TypeOK
    <3>2. home.blocks # Blocks
      <4>1. SUFFICES ASSUME home.blocks = Blocks PROVE home'.blocks = Blocks
        BY <2>2
      <4>2. QED
        BY <2>1, <4>1
    <3>3. QED
      BY <3>1, <3>2
  <2>4. PICK q \in Procs : at[q] = "write" /\ Blocks \ home.blocks \subseteq pending[q]..3
    BY <1>1, <2>2, <2>3 DEF HomeExplained
  <2>5. CASE q = p
    <3>1. Blocks \ home'.blocks \subseteq (pending[p] + 1)..3
      BY <2>1, <2>4, <2>5 DEF Blocks
    <3>2. pending[p] # 3
      <4>1. SUFFICES ASSUME pending[p] = 3 PROVE FALSE
        OBVIOUS
      <4>2. home'.blocks = Blocks
        BY <2>1, <2>3, <3>1, <4>1 DEF Blocks
      <4>3. QED
        BY <2>2, <4>2
    <3>3. QED
      BY <2>1, <3>1, <3>2
  <2>6. CASE q # p
    <3>1. at'[q] = "write" /\ pending'[q] = pending[q]
      BY <1>1, <2>4, <2>6 DEF Same
    <3>2. QED
      BY <2>1, <2>4, <3>1
  <2>7. QED
    BY <2>5, <2>6
<1>4. CASE WriteStops(p)
  BY <1>4 DEF WriteStops, HomeExplained
<1>5. CASE at[p] = "write" /\ Kill(p)
  BY <1>5 DEF Kill, HomeExplained
<1>6. CASE /\ at[p] # "write"
           /\ Launch(p) \/ Look(p) \/ Load(p) \/ QueryAthena(p) \/ Kill(p)
  <2>1. UNCHANGED home
    BY <1>6 DEF Launch, Look, Load, QueryAthena, SkipBlank, Run, NoAnswer, PrintRows, Finish, Kill,
                fileVars
  <2>2. damaged => damaged'
    <3>1. CASE Kill(p)
      BY <3>1 DEF Kill
    <3>2. CASE Launch(p) \/ Look(p) \/ Load(p) \/ QueryAthena(p)
      <4>1. UNCHANGED fileVars
        BY <3>2 DEF Launch, Look, Load, QueryAthena, SkipBlank, Run, NoAnswer, PrintRows, Finish
      <4>2. QED
        BY <4>1 DEF fileVars
    <3>3. QED
      BY <1>6, <3>1, <3>2
  <2>3. QED
    BY <1>1, <1>6, <2>1, <2>2 DEF HomeExplained, Same
<1>7. QED
  <2>1. Look(p) \/ Load(p) \/ QueryAthena(p) \/ Launch(p) => at[p] # "write"
    BY DEF Look, Load, Launch, QueryAthena, SkipBlank, Run, NoAnswer, PrintRows, Finish, AtQuery
  <2>2. QED
    BY <1>2, <1>3, <1>4, <1>5, <1>6, <2>1 DEF OwnStep, Configure
-----------------------------------------------------------------------------
(* What a run does to its own variables. *)

Places  == {"idle", "look", "create", "write", "load", "query", "rows"}
Ends    == {"none", "version", "exit 1", "silent", "done", "killed"}
Entries == [query : Nat \ {0}, what : {"error", "all", "cut"}]

LEMMA TypeIs ==
  ASSUME TypeOK
  PROVE  /\ at \in [Procs -> Places] /\ how \in [Procs -> Ends]
         /\ next \in [Procs -> Nat \ {0}] /\ output \in [Procs -> Seq(Entries)]
         /\ pending \in [Procs -> 1..4] /\ source \in [Procs -> {"home", "cwd", "gopath"}]
         /\ DOMAIN read = Procs /\ DOMAIN options = Procs /\ DOMAIN sent = Procs
         /\ DOMAIN cmd = Procs
BY DEF TypeOK, Places, Ends, Entries

LEMMA GotoIs ==
  ASSUME TypeOK, NEW p \in Procs, NEW where \in Places, Goto(p, where)
  PROVE  at' \in [Procs -> Places] /\ at'[p] = where
BY TypeIs DEF Goto

LEMMA EndIs ==
  ASSUME TypeOK, NEW p \in Procs, NEW what \in Ends, End(p, what)
  PROVE  /\ at' \in [Procs -> Places] /\ at'[p] = "idle"
         /\ how' \in [Procs -> Ends] /\ how'[p] = what
BY TypeIs DEF End, Goto, Places

LEMMA ShownIs ==
  ASSUME TypeOK, NEW p \in Procs, NEW what \in {"error", "all", "cut"}, Shown(p, what)
  PROVE  /\ output' \in [Procs -> Seq(Entries)]
         /\ output'[p] = Append(output[p], [query |-> next[p], what |-> what])
         /\ output[p] \in Seq(Entries) /\ [query |-> next[p], what |-> what] \in Entries
<1>1. [query |-> next[p], what |-> what] \in Entries
  BY TypeIs DEF Entries
<1>2. output \in [Procs -> Seq(Entries)] /\ output[p] \in Seq(Entries)
  BY TypeIs
<1>3. Append(output[p], [query |-> next[p], what |-> what]) \in Seq(Entries)
  BY <1>1, <1>2
<1>4. QED
  BY <1>1, <1>2, <1>3 DEF Shown

LEMMA NextIs ==
  ASSUME TypeOK, NEW p \in Procs, next' = [next EXCEPT ![p] = @ + 1]
  PROVE  next' \in [Procs -> Nat \ {0}] /\ next'[p] = next[p] + 1
BY TypeIs

LEMMA ReportIs ==
  ASSUME TypeOK, NEW p \in Procs, at[p] = "query", ReportError(p)
  PROVE  /\ output' \in [Procs -> Seq(Entries)] /\ at' \in [Procs -> Places]
         /\ next' \in [Procs -> Nat \ {0}] /\ how' \in [Procs -> Ends]
         /\ output'[p] = Append(output[p], [query |-> next[p], what |-> "error"])
         /\ output[p] \in Seq(Entries) /\ [query |-> next[p], what |-> "error"] \in Entries
         /\ Fast(p) => at'[p] = "idle" /\ how'[p] = "done" /\ next'[p] = next[p]
         /\ ~Fast(p) => at'[p] = "query" /\ how'[p] = how[p] /\ next'[p] = next[p] + 1
<1>1. /\ output' \in [Procs -> Seq(Entries)]
      /\ output'[p] = Append(output[p], [query |-> next[p], what |-> "error"])
      /\ output[p] \in Seq(Entries) /\ [query |-> next[p], what |-> "error"] \in Entries
  BY ShownIs DEF ReportError
<1>2. CASE Fast(p)
  <2>1. End(p, "done") /\ next' = next
    BY <1>2 DEF ReportError, Fast
  <2>2. "done" \in Ends
    BY DEF Ends
  <2>3. QED
    BY <1>1, <1>2, <2>1, <2>2, EndIs, TypeIs
<1>3. CASE ~Fast(p)
  <2>1. Goto(p, "query") /\ how' = how /\ next' = [next EXCEPT ![p] = @ + 1]
    BY <1>3 DEF ReportError, Fast
  <2>2. "query" \in Places
    BY DEF Places
  <2>3. QED
    BY <1>1, <1>3, <2>1, <2>2, GotoIs, NextIs, TypeIs
<1>4. QED
  BY <1>2, <1>3
-----------------------------------------------------------------------------
(* Types. *)

LEMMA PlacesIs ==
  /\ {"idle", "look", "create", "write", "load", "query", "rows"} \subseteq Places
  /\ {"none", "version", "exit 1", "silent", "done", "killed"} \subseteq Ends
BY DEF Places, Ends

\* The parts of TypeOK that a step of a run changes.
RunTypes ==
  /\ at \in [Procs -> Places] /\ how \in [Procs -> Ends]
  /\ next \in [Procs -> Nat \ {0}] /\ output \in [Procs -> Seq(Entries)]
  /\ pending \in [Procs -> 1..4] /\ source \in [Procs -> {"home", "cwd", "gopath"}]
  /\ DOMAIN read = Procs /\ DOMAIN options = Procs /\ DOMAIN sent = Procs
  /\ DOMAIN cmd = Procs /\ \A q \in Procs : cmd[q] \in Commands[q] \cup {NoCommand}

HomeTypes ==
  /\ home \in [exists : BOOLEAN, of : Settings \cup {NoFile}, blocks : SUBSET Blocks]
  /\ home.exists => home.of \in Settings
  /\ damaged \in BOOLEAN /\ runs \in 0..MaxRuns

PlaceTypes ==
  /\ cwd \in Settings \cup {NoFile} /\ gopath \in {"none", "empty", "copy"}

StageTypes(p) ==
  /\ source[p] = "cwd" /\ at[p] = "load" => cwd # NoFile
  /\ at[p] = "write" => pending[p] \in Blocks

LEMMA TypeParts ==
  TypeOK <=> RunTypes /\ HomeTypes /\ PlaceTypes /\ \A p \in Procs : StageTypes(p)
BY DEF TypeOK, RunTypes, HomeTypes, PlaceTypes, StageTypes, Places, Ends, Entries

LEMMA TypePartsNext ==
  TypeOK' <=> RunTypes' /\ HomeTypes' /\ PlaceTypes' /\ \A p \in Procs : StageTypes(p)'
BY DEF TypeOK, RunTypes, HomeTypes, PlaceTypes, StageTypes, Places, Ends, Entries

LEMMA HomeTypesKept ==
  ASSUME TypeOK, NEW p \in Procs, OwnStep(p)
  PROVE  HomeTypes' /\ PlaceTypes'
<1>0. HomeTypes /\ PlaceTypes /\ StageTypes(p)
  BY TypeParts
<1>1. UNCHANGED placeVars
  BY DEF OwnStep, Launch, Configure, Look, Create, Write, WriteStops, Load, QueryAthena, SkipBlank,
         Run, NoAnswer, PrintRows, Finish, Kill
<1>2. PlaceTypes'
  BY <1>1, <1>0 DEF PlaceTypes, placeVars
<1> SUFFICES HomeTypes'
  BY <1>2
<1>3. CASE Create(p)
  <2>1. UNCHANGED runs
    BY <1>3 DEF Create
  <2>2. CASE home' = [exists |-> TRUE, of |-> Shipped, blocks |-> {}] /\ damaged' = FALSE
    BY <2>1, <2>2, <1>0 DEF HomeTypes
  <2>3. CASE UNCHANGED <<home, damaged>>
    BY <2>1, <2>3, <1>0 DEF HomeTypes
  <2>4. QED
    BY <1>3, <2>2, <2>3 DEF Create, fileVars
<1>4. CASE Write(p)
  <2>1. pending[p] \in Blocks /\ UNCHANGED <<damaged, runs>>
    BY <1>4, <1>0 DEF Write, StageTypes
  <2>2. home' = [home EXCEPT !.blocks = @ \cup {pending[p]}]
    BY <1>4 DEF Write
  <2>3. QED
    BY <2>1, <2>2, <1>0 DEF HomeTypes
<1>5. CASE WriteStops(p)
  BY <1>5, <1>0 DEF WriteStops, HomeTypes
<1>6. CASE Kill(p)
  <2>1. damaged' \in BOOLEAN
    BY <1>6, <1>0 DEF Kill, HomeTypes
  <2>2. UNCHANGED <<home, runs>>
    BY <1>6 DEF Kill
  <2>3. QED
    BY <1>2, <2>1, <2>2, <1>0 DEF HomeTypes
<1>7. CASE Launch(p)
  BY <1>7, <1>0 DEF Launch, HomeTypes, fileVars
<1>8. CASE Look(p) \/ Load(p) \/ QueryAthena(p)
  <2>1. UNCHANGED <<fileVars, runs>>
    BY <1>8 DEF Look, Load, QueryAthena, SkipBlank, Run, NoAnswer, PrintRows, Finish
  <2>2. QED
    BY <2>1, <1>0 DEF HomeTypes, fileVars
<1>9. QED
  BY <1>2, <1>3, <1>4, <1>5, <1>6, <1>7, <1>8 DEF OwnStep, Configure
-----------------------------------------------------------------------------
(* A run before its queries, and after. *)

LEMMA QueriesAre ==
  ASSUME TypeOK, NEW p \in Procs
  PROVE  Queries(p) \in Seq(STRING)
<1>1. cmd[p] \in Commands[p] \cup {NoCommand}
  BY DEF TypeOK
<1>2. <<>> \in Seq(STRING)
  OBVIOUS
<1>3. CASE cmd[p] \in Commands[p]
  <2>1. cmd[p].queries \in Seq(STRING)
    BY <1>3
  <2>2. QED
    BY <1>2, <2>1 DEF Queries
<1>4. CASE cmd[p] = NoCommand
  <2>1. cmd[p].queries = <<>>
    BY <1>4 DEF NoCommand
  <2>2. QED
    BY <1>2, <2>1 DEF Queries
<1>5. QED
  BY <1>1, <1>3, <1>4

LEMMA QuietEnd ==
  ASSUME NEW p \in Procs, sent'[p] = {}, output'[p] = <<>>,
         at'[p] = "idle", how'[p] # "done"
  PROVE  OfRun(p)'
BY DEF OfRun, Stage, Configuring, Admin, Querying, Printed, Answered, Done

LEMMA ConfiguresOn ==
  ASSUME NEW p \in Procs, at'[p] \in {"look", "create", "write", "load"}, how'[p] = "none",
         sent'[p] = {}, output'[p] = <<>>, next'[p] = 1,
         at'[p] \in {"look", "create"} => pending'[p] = 1,
         at'[p] \in {"create", "write"} => source'[p] # "cwd",
         at'[p] \in {"write", "load"} /\ source'[p] = "home" => home'.exists
  PROVE  OfRun(p)'
BY DEF OfRun, Stage, Configuring, Admin, Querying, Printed, Answered, Done

LEMMA ConfiguringIs ==
  ASSUME NEW p \in Procs, OfRun(p), Configuring(p)
  PROVE  how[p] = "none" /\ sent[p] = {} /\ output[p] = <<>> /\ next[p] = 1
BY DEF OfRun, Stage, Configuring

\* What a step of a run has to keep.
Kept(p) == RunTypes' /\ StageTypes(p)' /\ OfRun(p)'

LEMMA LaunchKeeps ==
  ASSUME IInv, NEW p \in Procs, Launch(p)
  PROVE  Kept(p)
<1>1. TypeOK /\ RunTypes
  BY TypeParts DEF IInv
<1>2. /\ pending' = [pending EXCEPT ![p] = 1] /\ read' = [read EXCEPT ![p] = NoSettings]
      /\ options' = [options EXCEPT ![p] = NoSettings] /\ next' = [next EXCEPT ![p] = 1]
      /\ sent' = [sent EXCEPT ![p] = {}] /\ output' = [output EXCEPT ![p] = <<>>]
      /\ UNCHANGED source
  BY DEF Launch
<1>3. PICK c \in Commands[p] :
        /\ cmd' = [cmd EXCEPT ![p] = c]
        /\ \/ End(p, "version")
           \/ Goto(p, "look") /\ how' = [how EXCEPT ![p] = "none"]
  BY DEF Launch
<1>4. /\ at' \in [Procs -> Places] /\ how' \in [Procs -> Ends]
      /\ \/ at'[p] = "idle" /\ how'[p] = "version"
         \/ at'[p] = "look" /\ how'[p] = "none"
  <2>1. CASE End(p, "version")
    BY <1>1, <2>1, PlacesIs, EndIs
  <2>2. CASE Goto(p, "look") /\ how' = [how EXCEPT ![p] = "none"]
    <3>1. how' \in [Procs -> Ends] /\ how'[p] = "none"
      BY <1>1, <2>2, TypeIs, PlacesIs
    <3>2. at' \in [Procs -> Places] /\ at'[p] = "look"
      BY <1>1, <2>2, PlacesIs, GotoIs
    <3>3. QED
      BY <3>1, <3>2
  <2>3. QED
    BY <1>3, <2>1, <2>2
<1>5. sent'[p] = {} /\ output'[p] = <<>> /\ next'[p] = 1 /\ pending'[p] = 1
  BY <1>1, <1>2, TypeIs
<1>6. RunTypes'
  <2>1. DOMAIN cmd' = Procs /\ \A q \in Procs : cmd'[q] \in Commands[q] \cup {NoCommand}
    BY <1>1, <1>3 DEF RunTypes
  <2>2. next' \in [Procs -> Nat \ {0}] /\ pending' \in [Procs -> 1..4]
    BY <1>1, <1>2 DEF RunTypes
  <2>3. output' \in [Procs -> Seq(Entries)]
    <3>1. <<>> \in Seq(Entries)
      OBVIOUS
    <3>2. QED
      BY <1>1, <1>2, <3>1 DEF RunTypes
  <2>4. DOMAIN read' = Procs /\ DOMAIN options' = Procs /\ DOMAIN sent' = Procs
    BY <1>1, <1>2 DEF RunTypes
  <2>5. source' \in [Procs -> {"home", "cwd", "gopath"}]
    BY <1>1, <1>2 DEF RunTypes
  <2>6. QED
    BY <1>4, <2>1, <2>2, <2>3, <2>4, <2>5 DEF RunTypes
<1>7. StageTypes(p)'
  BY <1>4 DEF StageTypes
<1>8. OfRun(p)'
  BY <1>4, <1>5, QuietEnd, ConfiguresOn
<1>9. QED
  BY <1>6, <1>7, <1>8 DEF Kept

LEMMA KillKeeps ==
  ASSUME IInv, NEW p \in Procs, Kill(p)
  PROVE  Kept(p)
<1>1. TypeOK /\ RunTypes
  BY TypeParts DEF IInv
<1>2. /\ cmd' = [cmd EXCEPT ![p] = NoCommand] /\ read' = [read EXCEPT ![p] = NoSettings]
      /\ options' = [options EXCEPT ![p] = NoSettings] /\ next' = [next EXCEPT ![p] = 1]
      /\ sent' = [sent EXCEPT ![p] = {}] /\ output' = [output EXCEPT ![p] = <<>>]
      /\ pending' = [pending EXCEPT ![p] = 1] /\ UNCHANGED source /\ End(p, "killed")
  BY DEF Kill
<1>3. /\ at' \in [Procs -> Places] /\ how' \in [Procs -> Ends]
      /\ at'[p] = "idle" /\ how'[p] = "killed"
  BY <1>1, <1>2, PlacesIs, EndIs
<1>4. sent'[p] = {} /\ output'[p] = <<>>
  BY <1>1, <1>2, TypeIs
<1>5. RunTypes'
  <2>1. DOMAIN cmd' = Procs /\ \A q \in Procs : cmd'[q] \in Commands[q] \cup {NoCommand}
    BY <1>1, <1>2 DEF RunTypes
  <2>2. next' \in [Procs -> Nat \ {0}] /\ pending' \in [Procs -> 1..4]
    BY <1>1, <1>2 DEF RunTypes
  <2>3. output' \in [Procs -> Seq(Entries)]
    <3>1. <<>> \in Seq(Entries)
      OBVIOUS
    <3>2. QED
      BY <1>1, <1>2, <3>1 DEF RunTypes
  <2>4. DOMAIN read' = Procs /\ DOMAIN options' = Procs /\ DOMAIN sent' = Procs
    BY <1>1, <1>2 DEF RunTypes
  <2>5. source' \in [Procs -> {"home", "cwd", "gopath"}]
    BY <1>1, <1>2 DEF RunTypes
  <2>6. QED
    BY <1>3, <2>1, <2>2, <2>3, <2>4, <2>5 DEF RunTypes
<1>6. StageTypes(p)'
  BY <1>3 DEF StageTypes
<1>7. OfRun(p)'
  BY <1>3, <1>4, QuietEnd
<1>8. QED
  BY <1>5, <1>6, <1>7 DEF Kept

LEMMA LookKeeps ==
  ASSUME IInv, NEW p \in Procs, Look(p)
  PROVE  Kept(p)
<1>1. TypeOK /\ RunTypes /\ OfRun(p) /\ at[p] = "look"
  BY TypeParts DEF IInv, Look
<1>2. how[p] = "none" /\ sent[p] = {} /\ output[p] = <<>> /\ next[p] = 1 /\ pending[p] = 1
  BY <1>1, ConfiguringIs DEF Configuring, OfRun, Stage
<1>3. UNCHANGED <<home, cwd, cmd, pending, read, options, next, sent, output>>
  BY DEF Look, fileVars, placeVars
<1>4. \/ From(p, "home", "load") /\ home.exists
      \/ From(p, "cwd", "load") /\ cwd # NoFile
      \/ From(p, "home", "create") \/ From(p, "gopath", "create")
      \/ End(p, "exit 1") /\ UNCHANGED source
  BY DEF Look
<1>5. CASE End(p, "exit 1") /\ UNCHANGED source
  <2>1. /\ at' \in [Procs -> Places] /\ how' \in [Procs -> Ends]
        /\ at'[p] = "idle" /\ how'[p] = "exit 1"
    BY <1>1, <1>5, PlacesIs, EndIs
  <2>2. RunTypes'
    BY <1>1, <1>3, <1>5, <2>1 DEF RunTypes
  <2>3. QED
    BY <1>2, <1>3, <2>1, <2>2, QuietEnd DEF Kept, StageTypes
<1>6. ASSUME NEW place \in {"home", "cwd", "gopath"}, NEW where \in {"load", "create"},
             From(p, place, where), where = "load" /\ place = "home" => home.exists,
             place = "cwd" => where = "load" /\ cwd # NoFile
      PROVE  Kept(p)
  <2>1. /\ at' \in [Procs -> Places] /\ at'[p] = where /\ how' = how
        /\ source' \in [Procs -> {"home", "cwd", "gopath"}] /\ source'[p] = place
    BY <1>1, <1>6, PlacesIs, GotoIs, TypeIs DEF From
  <2>2. RunTypes'
    BY <1>1, <1>3, <2>1 DEF RunTypes
  <2>3. OfRun(p)'
    BY <1>2, <1>3, <1>6, <2>1, ConfiguresOn
  <2>4. StageTypes(p)'
    BY <1>3, <1>6, <2>1 DEF StageTypes
  <2>5. QED
    BY <2>2, <2>3, <2>4 DEF Kept
<1>7. QED
  BY <1>4, <1>5, <1>6

LEMMA WriteFailsIs ==
  ASSUME TypeOK, NEW p \in Procs, WriteFails(p)
  PROVE  /\ at' \in [Procs -> Places] /\ how' \in [Procs -> Ends]
         /\ \/ source[p] = "gopath" /\ at'[p] = "load" /\ how'[p] = how[p]
            \/ at'[p] = "idle" /\ how'[p] = "exit 1"
<1>1. CASE source[p] = "gopath" /\ Goto(p, "load") /\ UNCHANGED how
  BY <1>1, PlacesIs, GotoIs, TypeIs
<1>2. CASE End(p, "exit 1")
  BY <1>2, PlacesIs, EndIs
<1>3. QED
  BY <1>1, <1>2 DEF WriteFails

LEMMA CreateKeeps ==
  ASSUME IInv, NEW p \in Procs, Create(p)
  PROVE  Kept(p)
<1>1. TypeOK /\ RunTypes /\ OfRun(p) /\ at[p] = "create"
  BY TypeParts DEF IInv, Create
<1>2. how[p] = "none" /\ sent[p] = {} /\ output[p] = <<>> /\ next[p] = 1 /\ pending[p] = 1
  BY <1>1, ConfiguringIs DEF Configuring, OfRun, Stage
<1>3. UNCHANGED <<cmd, source, pending, read, options, next, sent, output>>
  BY DEF Create
<1>4. /\ at' \in [Procs -> Places] /\ how' \in [Procs -> Ends]
      /\ \/ at'[p] = "write" /\ how'[p] = how[p] /\ home'.exists
         \/ source[p] = "gopath" /\ at'[p] = "load" /\ how'[p] = how[p]
         \/ at'[p] = "idle" /\ how'[p] = "exit 1"
  <2>1. CASE /\ home' = [exists |-> TRUE, of |-> Shipped, blocks |-> {}]
             /\ Goto(p, "write") /\ UNCHANGED how
    BY <1>1, <2>1, PlacesIs, GotoIs, TypeIs
  <2>2. CASE WriteFails(p)
    BY <1>1, <2>2, WriteFailsIs
  <2>3. QED
    BY <2>1, <2>2 DEF Create
<1>5. RunTypes'
  BY <1>1, <1>3, <1>4 DEF RunTypes
<1>6. StageTypes(p)'
  <2>1. pending'[p] \in Blocks
    BY <1>2, <1>3 DEF Blocks
  <2>2. at'[p] = "load" => source'[p] # "cwd"
    BY <1>3, <1>4
  <2>3. QED
    BY <2>1, <2>2 DEF StageTypes
<1>7. OfRun(p)'
  <2>1. source[p] # "cwd"
    BY <1>1 DEF OfRun, Stage
  <2>2. QED
    BY <1>2, <1>3, <1>4, <2>1, QuietEnd, ConfiguresOn
<1>8. QED
  BY <1>5, <1>6, <1>7 DEF Kept

LEMMA WriteKeeps ==
  ASSUME IInv, NEW p \in Procs, Write(p)
  PROVE  Kept(p)
<1>1. TypeOK /\ RunTypes /\ OfRun(p) /\ StageTypes(p) /\ at[p] = "write"
  BY TypeParts DEF IInv, Write
<1>2. how[p] = "none" /\ sent[p] = {} /\ output[p] = <<>> /\ next[p] = 1
  BY <1>1, ConfiguringIs DEF Configuring
<1>3. UNCHANGED <<cwd, cmd, source, read, options, next, sent, output, how>>
  BY DEF Write, placeVars
<1>4. pending[p] \in Blocks /\ pending \in [Procs -> 1..4]
  BY <1>1 DEF StageTypes, RunTypes
<1>5. pending' \in [Procs -> 1..4] /\ pending'[p] = pending[p] + 1
  BY <1>4 DEF Write, Blocks
<1>6. /\ at' \in [Procs -> Places] /\ at'[p] = IF pending[p] = 3 THEN "load" ELSE "write"
  BY <1>1, PlacesIs, GotoIs DEF Write
<1>7. source[p] = "home" => home'.exists
  BY <1>1, HomeStays DEF OfRun, Stage, OwnStep, Configure
<1>8. RunTypes'
  BY <1>1, <1>3, <1>5, <1>6 DEF RunTypes
<1>9. StageTypes(p)'
  <2>1. source[p] # "cwd"
    BY <1>1 DEF OfRun, Stage
  <2>2. QED
    BY <1>3, <1>4, <1>5, <1>6, <2>1 DEF StageTypes, Blocks
<1>10. OfRun(p)'
  <2>1. source[p] # "cwd"
    BY <1>1 DEF OfRun, Stage
  <2>2. QED
    BY <1>2, <1>3, <1>6, <1>7, <2>1, ConfiguresOn
<1>11. QED
  BY <1>8, <1>9, <1>10 DEF Kept

LEMMA WriteStopsKeeps ==
  ASSUME IInv, NEW p \in Procs, WriteStops(p)
  PROVE  Kept(p)
<1>1. TypeOK /\ RunTypes /\ OfRun(p) /\ at[p] = "write"
  BY TypeParts DEF IInv, WriteStops
<1>2. how[p] = "none" /\ sent[p] = {} /\ output[p] = <<>> /\ next[p] = 1
  BY <1>1, ConfiguringIs DEF Configuring
<1>3. UNCHANGED <<cmd, source, pending, read, options, next, sent, output>>
  BY DEF WriteStops
<1>4. /\ at' \in [Procs -> Places] /\ how' \in [Procs -> Ends]
      /\ \/ source[p] = "gopath" /\ at'[p] = "load" /\ how'[p] = how[p]
         \/ at'[p] = "idle" /\ how'[p] = "exit 1"
  BY <1>1, WriteFailsIs DEF WriteStops
<1>5. RunTypes'
  BY <1>1, <1>3, <1>4 DEF RunTypes
<1>6. StageTypes(p)'
  BY <1>3, <1>4 DEF StageTypes
<1>7. OfRun(p)'
  BY <1>2, <1>3, <1>4, QuietEnd, ConfiguresOn
<1>8. QED
  BY <1>5, <1>6, <1>7 DEF Kept

LEMMA QueriesStart ==
  ASSUME NEW p \in Procs, at'[p] = "query", how'[p] = "none", sent'[p] = {}, output'[p] = <<>>,
         next'[p] = 1, options'[p].admin = Chosen(cmd'[p].admin, read'[p].admin),
         Queries(p)' \in Seq(STRING)
  PROVE  OfRun(p)'
<1>1. \A i \in DOMAIN Queries(p)' : i >= 1
  OBVIOUS
<1>2. Answered(p)'
  BY <1>1 DEF Answered, Querying
<1>3. QED
  BY <1>2 DEF OfRun, Stage, Configuring, Admin, Querying, Printed, Done

LEMMA LoadKeeps ==
  ASSUME IInv, NEW p \in Procs, Load(p)
  PROVE  Kept(p)
<1>1. TypeOK /\ RunTypes /\ OfRun(p) /\ at[p] = "load"
  BY TypeParts DEF IInv, Load
<1>2. how[p] = "none" /\ sent[p] = {} /\ output[p] = <<>> /\ next[p] = 1
  BY <1>1, ConfiguringIs DEF Configuring
<1>3. UNCHANGED <<cmd, source, pending, next, sent, output>>
  BY DEF Load
<1> DEFINE s == Populated(File(p))
           o == WithOptions(cmd[p], s)
<1>4. o.admin = Chosen(cmd[p].admin, s.admin)
  BY DEF WithOptions
<1> HIDE DEF s, o
<1>5. \/ End(p, "silent") /\ UNCHANGED <<read, options>>
      \/ End(p, "silent") /\ read' = [read EXCEPT ![p] = s] /\ UNCHANGED options
      \/ /\ read' = [read EXCEPT ![p] = s] /\ options' = [options EXCEPT ![p] = o]
         /\ Goto(p, "query") /\ UNCHANGED how
  BY DEF Load, s, o
<1>6. DOMAIN read' = Procs /\ DOMAIN options' = Procs
  BY <1>1, <1>5 DEF RunTypes
<1>7. CASE End(p, "silent")
  <2>1. /\ at' \in [Procs -> Places] /\ at'[p] = "idle"
        /\ how' \in [Procs -> Ends] /\ how'[p] = "silent"
    BY <1>1, <1>7, PlacesIs, EndIs
  <2>2. RunTypes'
    BY <1>1, <1>3, <1>6, <2>1 DEF RunTypes
  <2>3. QED
    BY <1>2, <1>3, <2>1, <2>2, QuietEnd DEF Kept, StageTypes
<1>8. CASE /\ read' = [read EXCEPT ![p] = s] /\ options' = [options EXCEPT ![p] = o]
           /\ Goto(p, "query") /\ UNCHANGED how
  <2>1. at' \in [Procs -> Places] /\ at'[p] = "query" /\ how' = how
    BY <1>1, <1>8, PlacesIs, GotoIs
  <2>2. RunTypes'
    BY <1>1, <1>3, <1>6, <2>1 DEF RunTypes
  <2>3. read'[p] = s /\ options'[p] = o
    BY <1>1, <1>8 DEF RunTypes
  <2>4. Queries(p)' \in Seq(STRING)
    BY <1>1, <1>3, QueriesAre DEF Queries
  <2>5. OfRun(p)'
    BY <1>2, <1>3, <1>4, <2>1, <2>3, <2>4, QueriesStart
  <2>6. QED
    BY <2>1, <2>2, <2>5 DEF Kept, StageTypes
<1>9. QED
  BY <1>5, <1>7, <1>8
-----------------------------------------------------------------------------
(* The queries. *)

LEMMA AppendIs ==
  ASSUME NEW S, NEW s \in Seq(S), NEW e \in S
  PROVE  /\ Len(s) \in Nat /\ DOMAIN s = 1..Len(s)
         /\ DOMAIN Append(s, e) = 1..(Len(s) + 1) /\ Append(s, e)[Len(s) + 1] = e
         /\ \A k \in 1..Len(s) : Append(s, e)[k] = s[k]
OBVIOUS

\* The next query is answered: the loop goes on, or it ends with an error.
LEMMA AnswerKeeps ==
  ASSUME IInv, NEW p \in Procs, Querying(p), next[p] \in DOMAIN Queries(p), Query(p) # Blank,
         NEW e \in Entries, e.query = next[p], output'[p] = Append(output[p], e),
         cmd'[p] = cmd[p], options'[p] = options[p],
         \/ /\ at'[p] = "query" /\ how'[p] = "none" /\ next'[p] = next[p] + 1
            /\ Fast(p) => e.what # "error"
         \/ at'[p] = "idle" /\ how'[p] = "done" /\ Fast(p) /\ e.what = "error"
  PROVE  Printed(p)' /\ Answered(p)' /\ Done(p)'
<1>1. TypeOK /\ Printed(p) /\ Answered(p)
  BY DEF IInv, OfRun
<1> DEFINE q == Queries(p)
           out == output[p]
           new == output'[p]
<1>2. Queries(p)' = q /\ (Fast(p)' <=> Fast(p))
  BY DEF Queries, Fast
<1>3. q \in Seq(STRING) /\ out \in Seq(Entries) /\ next[p] \in Nat \ {0}
  BY <1>1, QueriesAre, TypeIs
<1>4. /\ Len(out) \in Nat /\ DOMAIN out = 1..Len(out)
      /\ DOMAIN new = 1..(Len(out) + 1) /\ new[Len(out) + 1] = e
      /\ \A k \in 1..Len(out) : new[k] = out[k]
  BY <1>3, AppendIs
<1>5. q[next[p]] # Blank /\ next[p] \in DOMAIN q
  BY DEF Query
<1>6. /\ \A k \in DOMAIN out : out[k].query \in DOMAIN q /\ q[out[k].query] # Blank
      /\ \A k \in DOMAIN out : \A j \in 1..(k - 1) :
           out[j].query < out[k].query /\ (Fast(p) => out[j].what # "error")
  BY <1>1 DEF Printed
<1>7. /\ \A k \in DOMAIN out : out[k].query < next[p] /\ (Fast(p) => out[k].what # "error")
      /\ \A i \in DOMAIN q : i < next[p] /\ q[i] # Blank => \E k \in DOMAIN out : out[k].query = i
  BY <1>1 DEF Answered, IsAnswered
<1> HIDE DEF q, out, new
<1>8. /\ \A k \in DOMAIN new : new[k].query \in DOMAIN q /\ q[new[k].query] # Blank
      /\ \A k \in DOMAIN new : \A j \in 1..(k - 1) :
           new[j].query < new[k].query /\ (Fast(p) => new[j].what # "error")
  <2>1. ASSUME NEW k \in DOMAIN new
        PROVE  new[k].query \in DOMAIN q /\ q[new[k].query] # Blank
    BY <1>4, <1>5, <1>6, <2>1
  <2>2. ASSUME NEW k \in DOMAIN new, NEW j \in 1..(k - 1)
        PROVE  new[j].query < new[k].query /\ (Fast(p) => new[j].what # "error")
    <3>1. j \in 1..Len(out) /\ new[j] = out[j]
      BY <1>4, <2>2
    <3>2. CASE k = Len(out) + 1
      BY <1>4, <1>7, <3>1, <3>2
    <3>3. CASE k \in 1..Len(out)
      BY <1>4, <1>6, <3>1, <3>3
    <3>4. QED
      BY <1>4, <3>2, <3>3
  <2>3. QED
    BY <2>1, <2>2
<1>9. Printed(p)'
  BY <1>2, <1>8 DEF Printed, new
<1>10. \A i \in DOMAIN q : i <= next[p] /\ q[i] # Blank => \E k \in DOMAIN new : new[k].query = i
  <2>1. TAKE i \in DOMAIN q
  <2>2. HAVE i <= next[p] /\ q[i] # Blank
  <2>3. i \in Nat
    BY <1>3 DEF q
  <2>4. CASE i = next[p]
    BY <1>4, <2>4
  <2>5. CASE i < next[p]
    <3>1. PICK k \in DOMAIN out : out[k].query = i
      BY <1>7, <2>2, <2>5
    <3>2. k \in DOMAIN new /\ new[k].query = i
      BY <1>4, <3>1
    <3>3. QED
      BY <3>2
  <2>6. QED
    BY <1>3, <2>2, <2>3, <2>4, <2>5
<1>11. CASE /\ at'[p] = "query" /\ how'[p] = "none" /\ next'[p] = next[p] + 1
            /\ Fast(p) => e.what # "error"
  <2>1. \A k \in DOMAIN new : new[k].query < next'[p] /\ (Fast(p) => new[k].what # "error")
    <3>1. TAKE k \in DOMAIN new
    <3>2. CASE k = Len(out) + 1
      BY <1>3, <1>4, <1>11, <3>2
    <3>3. CASE k \in 1..Len(out)
      <4>1. new[k] = out[k] /\ out[k].query \in Nat /\ out[k].query < next[p]
        <5>1. k \in DOMAIN out /\ new[k] = out[k] /\ out[k].query < next[p]
          BY <1>4, <1>7, <3>3
        <5>2. out \in Seq(Entries)
          BY <1>3
        <5>3. out[k] \in Entries
          BY <5>1, <5>2
        <5>4. QED
          BY <5>1, <5>3 DEF Entries
      <4>2. QED
        BY <1>3, <1>4, <1>7, <1>11, <3>3, <4>1
    <3>4. QED
      BY <1>4, <3>2, <3>3
  <2>2. \A i \in DOMAIN q : i < next'[p] => i <= next[p]
    BY <1>3, <1>11 DEF q
  <2>3. Answered(p)'
    BY <1>2, <1>10, <1>11, <2>1, <2>2 DEF Answered, IsAnswered, new
  <2>4. QED
    BY <1>9, <1>11, <2>3 DEF Done
<1>12. CASE at'[p] = "idle" /\ how'[p] = "done" /\ Fast(p) /\ e.what = "error"
  <2>1. Answered(p)'
    BY <1>12 DEF Answered, Querying
  <2>2. ASSUME NEW i \in DOMAIN q, q[i] # Blank
        PROVE  \/ \E k \in DOMAIN new : new[k].query = i
               \/ \E k \in DOMAIN new : new[k].what = "error" /\ new[k].query < i
    <3>1. i \in Nat
      BY <1>3 DEF q
    <3>2. CASE i <= next[p]
      BY <1>10, <2>2, <3>2
    <3>3. CASE i > next[p]
      <4>1. Len(out) + 1 \in DOMAIN new /\ new[Len(out) + 1] = e
        BY <1>4
      <4>2. e.what = "error" /\ e.query < i
        BY <1>12, <3>3
      <4>3. QED
        BY <4>1, <4>2
    <3>4. QED
      BY <1>3, <3>1, <3>2, <3>3
  <2>3. Done(p)'
    BY <1>2, <1>12, <2>2 DEF Done, IsAnswered, StoppedBefore, new
  <2>4. QED
    BY <1>9, <2>1, <2>3
<1>13. QED
  BY <1>11, <1>12

LEMMA AtQueryIs ==
  ASSUME IInv, NEW p \in Procs, at[p] = "query"
  PROVE  /\ TypeOK /\ RunTypes /\ OfRun(p) /\ Querying(p) /\ how[p] = "none"
         /\ next[p] \in Nat \ {0} /\ Queries(p) \in Seq(STRING)
         /\ options[p].admin = Chosen(cmd[p].admin, read[p].admin)
         /\ AtQuery(p) => next[p] \in DOMAIN Queries(p)
<1>1. TypeOK /\ RunTypes /\ OfRun(p) /\ Querying(p)
  BY TypeParts DEF IInv, Querying
<1>2. how[p] = "none" /\ options[p].admin = Chosen(cmd[p].admin, read[p].admin)
  BY <1>1 DEF OfRun, Stage, Admin
<1>3. next[p] \in Nat \ {0} /\ Queries(p) \in Seq(STRING)
  BY <1>1, QueriesAre, TypeIs
<1>4. QED
  BY <1>1, <1>2, <1>3 DEF AtQuery

\* Stage and Admin of a run that is, or was, at its queries.
LEMMA SentKeeps ==
  ASSUME IInv, NEW p \in Procs, Querying(p), at'[p] \in {"query", "rows", "idle"},
         at'[p] # "idle" => how'[p] = "none",
         cmd'[p] = cmd[p], read'[p] = read[p], options'[p] = options[p],
         sent'[p] \cap Writes # {} => AdminAsked(p)
  PROVE  Stage(p)' /\ Admin(p)'
<1>1. OfRun(p)
  BY DEF IInv
<1>2. AdminAsked(p)' <=> AdminAsked(p)
  BY DEF AdminAsked
<1>3. QED
  BY <1>1, <1>2 DEF OfRun, Stage, Configuring, Admin, Querying

LEMMA SkipBlankKeeps ==
  ASSUME IInv, NEW p \in Procs, SkipBlank(p)
  PROVE  Kept(p)
<1>1. at[p] = "query" /\ AtQuery(p) /\ Query(p) = Blank
  BY DEF SkipBlank, AtQuery
<1>2. /\ TypeOK /\ RunTypes /\ OfRun(p) /\ Querying(p) /\ how[p] = "none"
      /\ next[p] \in Nat \ {0} /\ Queries(p) \in Seq(STRING)
  BY <1>1, AtQueryIs
<1>3. UNCHANGED <<at, cmd, source, pending, read, options, sent, output, how>>
  BY DEF SkipBlank
<1>4. next' \in [Procs -> Nat \ {0}] /\ next'[p] = next[p] + 1
  BY <1>2, NextIs DEF SkipBlank
<1>5. RunTypes'
  BY <1>2, <1>3, <1>4 DEF RunTypes
<1>6. Stage(p)' /\ Admin(p)'
  <2>1. sent[p] \cap Writes # {} => AdminAsked(p)
    BY <1>2 DEF OfRun, Admin
  <2>2. QED
    BY <1>1, <1>2, <1>3, <2>1, SentKeeps
<1>7. Queries(p)' = Queries(p) /\ (Fast(p)' <=> Fast(p))
  BY <1>3 DEF Queries, Fast
<1>8. Printed(p)'
  BY <1>2, <1>3, <1>7 DEF OfRun, Printed
<1>9. Done(p)'
  BY <1>2, <1>3, <1>7 DEF OfRun, Done, IsAnswered, StoppedBefore
<1>10. Answered(p)'
  <2>1. \A k \in DOMAIN output[p] : output[p][k].query < next'[p] /\ (Fast(p) => output[p][k].what # "error")
    <3>1. TAKE k \in DOMAIN output[p]
    <3>2. output[p][k].query < next[p] /\ (Fast(p) => output[p][k].what # "error")
      BY <1>2 DEF OfRun, Answered
    <3>3. output \in [Procs -> Seq(Entries)]
      BY <1>2 DEF RunTypes
    <3>4. output[p] \in Seq(Entries)
      BY <3>3
    <3>5. output[p][k] \in Entries
      BY <3>4
    <3>6. QED
      BY <1>2, <1>4, <3>2, <3>5 DEF Entries
  <2>2. \A i \in DOMAIN Queries(p) : i < next'[p] => i < next[p] \/ i = next[p]
    BY <1>2, <1>4
  <2>3. Queries(p)[next[p]] = Blank
    BY <1>1 DEF Query
  <2>4. \A i \in DOMAIN Queries(p) : i < next'[p] /\ Queries(p)[i] # Blank => IsAnswered(p, i)
    BY <1>2, <2>2, <2>3 DEF OfRun, Answered
  <2>5. at'[p] = "query"
    BY <1>1, <1>3
  <2>6. QED
    BY <1>3, <1>7, <2>1, <2>4, <2>5 DEF Answered, IsAnswered
<1>11. StageTypes(p)'
  BY <1>1, <1>3 DEF StageTypes
<1>12. QED
  BY <1>5, <1>6, <1>8, <1>9, <1>10, <1>11 DEF Kept, OfRun

\* An error is reported, with or without the query being sent.
LEMMA ReportKeeps ==
  ASSUME IInv, NEW p \in Procs, AtQuery(p), Query(p) # Blank, ReportError(p),
         UNCHANGED <<cmd, source, pending, read, options>>, DOMAIN sent' = Procs,
         sent'[p] \cap Writes # {} => AdminAsked(p)
  PROVE  Kept(p)
<1>1. at[p] = "query"
  BY DEF AtQuery
<1>2. /\ TypeOK /\ RunTypes /\ OfRun(p) /\ Querying(p) /\ how[p] = "none"
      /\ next[p] \in DOMAIN Queries(p)
  BY <1>1, AtQueryIs
<1> DEFINE e == [query |-> next[p], what |-> "error"]
<1>3. /\ output' \in [Procs -> Seq(Entries)] /\ at' \in [Procs -> Places]
      /\ next' \in [Procs -> Nat \ {0}] /\ how' \in [Procs -> Ends]
  BY <1>1, <1>2, ReportIs
<1>4. /\ output'[p] = Append(output[p], e) /\ e \in Entries
      /\ Fast(p) => at'[p] = "idle" /\ how'[p] = "done" /\ next'[p] = next[p]
      /\ ~Fast(p) => at'[p] = "query" /\ how'[p] = how[p] /\ next'[p] = next[p] + 1
  BY <1>1, <1>2, ReportIs
<1>5. RunTypes'
  BY <1>2, <1>3 DEF RunTypes
<1>6. Stage(p)' /\ Admin(p)'
  BY <1>2, <1>4, SentKeeps
<1>7. e.query = next[p] /\ e.what = "error"
  OBVIOUS
<1> HIDE DEF e
<1>8. Printed(p)' /\ Answered(p)' /\ Done(p)'
  BY <1>2, <1>4, <1>7, AnswerKeeps
<1>9. StageTypes(p)'
  BY <1>4 DEF StageTypes
<1>10. QED
  BY <1>5, <1>6, <1>8, <1>9 DEF Kept, OfRun

LEMMA NoAnswerKeeps ==
  ASSUME IInv, NEW p \in Procs, NoAnswer(p)
  PROVE  Kept(p)
<1>1. TypeOK /\ OfRun(p) /\ DOMAIN sent = Procs
  BY DEF IInv, TypeOK
<1>2. sent[p] \cap Writes # {} => AdminAsked(p)
  BY <1>1 DEF OfRun, Admin
<1>3. /\ AtQuery(p) /\ Query(p) # Blank /\ ReportError(p)
      /\ UNCHANGED <<cmd, source, pending, read, options, sent>>
  BY DEF NoAnswer
<1>4. QED
  BY <1>1, <1>2, <1>3, ReportKeeps

LEMMA RunKeeps ==
  ASSUME IInv, NEW p \in Procs, Run(p)
  PROVE  Kept(p)
<1>1. at[p] = "query" /\ AtQuery(p) /\ Query(p) # Blank
  BY DEF Run, AtQuery
<1>2. /\ TypeOK /\ RunTypes /\ OfRun(p) /\ Querying(p) /\ how[p] = "none"
      /\ next[p] \in DOMAIN Queries(p)
      /\ options[p].admin = Chosen(cmd[p].admin, read[p].admin)
  BY <1>1, AtQueryIs
<1>3. UNCHANGED <<cmd, source, pending, read, options>>
  BY DEF Run
<1>4. DOMAIN sent' = Procs /\ sent'[p] = sent[p] \cup {Query(p)}
  BY <1>2 DEF Run, RunTypes
<1>5. sent'[p] \cap Writes # {} => AdminAsked(p)
  <2>1. CASE options[p].admin = "on"
    BY <1>2, <2>1 DEF AdminAsked, Chosen
  <2>2. CASE options[p].admin # "on"
    <3>1. IsReadOnlyStatement(Query(p))
      BY <2>2 DEF Run
    <3>2. Query(p) \notin Writes
      BY <3>1 DEF IsReadOnlyStatement, Writes
    <3>3. sent'[p] \cap Writes = sent[p] \cap Writes
      BY <1>4, <3>2
    <3>4. QED
      BY <1>2, <3>3 DEF OfRun, Admin
  <2>3. QED
    BY <2>1, <2>2
<1>6. CASE Goto(p, "rows") /\ UNCHANGED <<next, output, how>>
  <2>1. at' \in [Procs -> Places] /\ at'[p] = "rows"
    BY <1>2, <1>6, PlacesIs, GotoIs
  <2>2. RunTypes'
    BY <1>2, <1>3, <1>4, <1>6, <2>1 DEF RunTypes
  <2>3. Stage(p)' /\ Admin(p)'
    BY <1>2, <1>3, <1>5, <1>6, <2>1, SentKeeps
  <2>4. Queries(p)' = Queries(p) /\ (Fast(p)' <=> Fast(p)) /\ Query(p)' = Query(p)
    BY <1>3, <1>6 DEF Queries, Fast, Query
  <2>5. Printed(p)' /\ Done(p)'
    BY <1>2, <1>6, <2>4 DEF OfRun, Printed, Done, IsAnswered, StoppedBefore
  <2>6. Answered(p)'
    BY <1>1, <1>2, <1>6, <2>1, <2>4 DEF OfRun, Answered, IsAnswered, Querying
  <2>7. StageTypes(p)'
    BY <2>1 DEF StageTypes
  <2>8. QED
    BY <2>2, <2>3, <2>5, <2>6, <2>7 DEF Kept, OfRun
<1>7. CASE ReportError(p)
  BY <1>1, <1>3, <1>4, <1>5, <1>7, ReportKeeps
<1>8. QED
  BY <1>6, <1>7 DEF Run

LEMMA PrintKeeps ==
  ASSUME IInv, NEW p \in Procs, PrintRows(p)
  PROVE  Kept(p)
<1>1. at[p] = "rows" /\ Querying(p)
  BY DEF PrintRows, Querying
<1>2. TypeOK /\ RunTypes /\ OfRun(p)
  BY TypeParts DEF IInv
<1>3. how[p] = "none" /\ next[p] \in DOMAIN Queries(p) /\ Query(p) # Blank
  BY <1>1, <1>2 DEF OfRun, Stage, Answered
<1>4. UNCHANGED <<cmd, source, pending, read, options, sent, how>>
  BY DEF PrintRows
<1>5. PICK rows \in {"all", "cut"} : Shown(p, rows)
  BY DEF PrintRows
<1> DEFINE e == [query |-> next[p], what |-> rows]
<1>6. /\ output' \in [Procs -> Seq(Entries)] /\ output'[p] = Append(output[p], e)
      /\ e \in Entries
  BY <1>2, <1>5, ShownIs
<1>7. e.query = next[p] /\ e.what # "error"
  OBVIOUS
<1> HIDE DEF e
<1>8. next' \in [Procs -> Nat \ {0}] /\ next'[p] = next[p] + 1
  BY <1>2, NextIs DEF PrintRows
<1>9. at' \in [Procs -> Places] /\ at'[p] = "query"
  BY <1>2, PlacesIs, GotoIs DEF PrintRows
<1>10. RunTypes'
  BY <1>2, <1>4, <1>6, <1>8, <1>9 DEF RunTypes
<1>11. Stage(p)' /\ Admin(p)'
  <2>1. sent[p] \cap Writes # {} => AdminAsked(p)
    BY <1>2 DEF OfRun, Admin
  <2>2. QED
    BY <1>1, <1>3, <1>4, <1>9, <2>1, SentKeeps
<1>12. Printed(p)' /\ Answered(p)' /\ Done(p)'
  BY <1>1, <1>3, <1>4, <1>6, <1>7, <1>8, <1>9, AnswerKeeps
<1>13. StageTypes(p)'
  BY <1>9 DEF StageTypes
<1>14. QED
  BY <1>10, <1>11, <1>12, <1>13 DEF Kept, OfRun

LEMMA FinishKeeps ==
  ASSUME IInv, NEW p \in Procs, Finish(p)
  PROVE  Kept(p)
<1>1. at[p] = "query" /\ next[p] > Len(Queries(p))
  BY DEF Finish
<1>2. /\ TypeOK /\ RunTypes /\ OfRun(p) /\ Querying(p) /\ how[p] = "none"
      /\ next[p] \in Nat \ {0} /\ Queries(p) \in Seq(STRING)
  BY <1>1, AtQueryIs
<1>3. UNCHANGED <<cmd, source, pending, read, options, next, sent, output>>
  BY DEF Finish
<1>4. /\ at' \in [Procs -> Places] /\ how' \in [Procs -> Ends]
      /\ at'[p] = "idle" /\ how'[p] = "done"
  BY <1>2, PlacesIs, EndIs DEF Finish
<1>5. RunTypes'
  BY <1>2, <1>3, <1>4 DEF RunTypes
<1>6. Stage(p)' /\ Admin(p)'
  <2>1. sent[p] \cap Writes # {} => AdminAsked(p)
    BY <1>2 DEF OfRun, Admin
  <2>2. QED
    BY <1>2, <1>3, <1>4, <2>1, SentKeeps
<1>7. Queries(p)' = Queries(p) /\ (Fast(p)' <=> Fast(p))
  BY <1>3 DEF Queries, Fast
<1>8. Printed(p)' /\ Answered(p)'
  BY <1>2, <1>3, <1>4, <1>7 DEF OfRun, Printed, Answered, Querying
<1>9. Done(p)'
  <2>1. \A i \in DOMAIN Queries(p) : i < next[p]
    BY <1>1, <1>2
  <2>2. \A i \in DOMAIN Queries(p) : Queries(p)[i] # Blank => IsAnswered(p, i)
    BY <1>2, <2>1 DEF OfRun, Answered
  <2>3. QED
    BY <1>3, <1>7, <2>2 DEF Done, IsAnswered
<1>10. StageTypes(p)'
  BY <1>4 DEF StageTypes
<1>11. QED
  BY <1>5, <1>6, <1>8, <1>9, <1>10 DEF Kept, OfRun
-----------------------------------------------------------------------------
(* The invariant. *)

LEMMA StepKeeps ==
  ASSUME IInv, NEW p \in Procs, OwnStep(p)
  PROVE  Kept(p)
BY LaunchKeeps, LookKeeps, CreateKeeps, WriteKeeps, WriteStopsKeeps, LoadKeeps, SkipBlankKeeps,
   RunKeeps, NoAnswerKeeps, PrintKeeps, FinishKeeps, KillKeeps
   DEF OwnStep, Configure, QueryAthena

LEMMA Initially == Init => IInv
<1> SUFFICES ASSUME Init PROVE IInv
  OBVIOUS
<1>1. RunTypes
  <2>1. at \in [Procs -> Places] /\ how \in [Procs -> Ends]
    BY PlacesIs DEF Init
  <2>2. <<>> \in Seq(Entries)
    OBVIOUS
  <2>3. QED
    BY <2>1, <2>2 DEF Init, RunTypes
<1>2. HomeTypes /\ PlaceTypes
  <2>1. \/ home = Nowhere
        \/ \E f \in Settings : home = [exists |-> TRUE, of |-> f, blocks |-> Blocks]
    BY DEF Init
  <2>2. /\ home \in [exists : BOOLEAN, of : Settings \cup {NoFile}, blocks : SUBSET Blocks]
        /\ home.exists => home.of \in Settings
    <3>1. CASE home = Nowhere
      BY <3>1 DEF Nowhere
    <3>2. CASE \E f \in Settings : home = [exists |-> TRUE, of |-> f, blocks |-> Blocks]
      BY <3>2
    <3>3. QED
      BY <2>1, <3>1, <3>2
  <2>3. damaged \in BOOLEAN /\ runs \in 0..MaxRuns
    <3>1. damaged = FALSE /\ runs = 0
      BY DEF Init
    <3>2. MaxRuns \in Nat
      OBVIOUS
    <3>3. runs \in 0..MaxRuns
      BY <3>1, <3>2
    <3>4. QED
      BY <3>1, <3>3
  <2>4. cwd \in Settings \cup {NoFile} /\ gopath \in {"none", "empty", "copy"}
    BY DEF Init
  <2>5. QED
    BY <2>2, <2>3, <2>4 DEF HomeTypes, PlaceTypes
<1>3. \A p \in Procs : StageTypes(p)
  BY DEF Init, StageTypes
<1>4. TypeOK
  BY <1>1, <1>2, <1>3, TypeParts
<1>5. HomeExplained
  BY DEF Init, HomeExplained, Nowhere
<1>6. \A p \in Procs : OfRun(p)
  BY DEF Init, OfRun, Stage, Configuring, Admin, Querying, Printed, Answered, Done
<1>7. QED
  BY <1>4, <1>5, <1>6 DEF IInv

LEMMA Inductive == IInv /\ [Next]_vars => IInv'
<1> SUFFICES ASSUME IInv, [Next]_vars PROVE IInv'
  OBVIOUS
<1>1. CASE \E p \in Procs : OwnStep(p)
  <2>1. PICK p \in Procs : OwnStep(p)
    BY <1>1
  <2>2. Kept(p) /\ HomeExplained' /\ HomeTypes' /\ PlaceTypes'
    BY <2>1, StepKeeps, HomeKeeps, HomeTypesKept DEF IInv
  <2>3. \A q \in Procs \ {p} : Same(q)
    BY <2>1, OthersSame DEF IInv
  <2>4. \A q \in Procs : OfRun(q)'
    BY <2>1, <2>2, <2>3, SameKeeps, HomeStays DEF IInv, Kept
  <2>5. \A q \in Procs : StageTypes(q)'
    <3>1. TAKE q \in Procs
    <3>2. UNCHANGED cwd
      BY <2>1 DEF OwnStep, Launch, Configure, Look, Create, Write, WriteStops, Load, QueryAthena,
                  SkipBlank, Run, NoAnswer, PrintRows, Finish, Kill, placeVars
    <3>3. StageTypes(q)
      BY TypeParts DEF IInv
    <3>4. CASE q = p
      BY <2>2, <3>4 DEF Kept
    <3>5. CASE q # p
      BY <2>3, <3>2, <3>3, <3>5 DEF Same, StageTypes
    <3>6. QED
      BY <3>4, <3>5
  <2>6. TypeOK'
    BY <2>2, <2>5, TypePartsNext DEF Kept
  <2>7. QED
    BY <2>2, <2>4, <2>6 DEF IInv
<1>2. CASE UserInstalls
  <2>1. TypeOK /\ RunTypes /\ HomeTypes /\ PlaceTypes
    BY TypeParts DEF IInv
  <2>2. PICK f \in Settings : home' = [exists |-> TRUE, of |-> f, blocks |-> Blocks]
    BY <1>2 DEF UserInstalls
  <2>3. UNCHANGED <<at, cmd, source, pending, read, options, next, sent, output, how, cwd, gopath, runs>>
    BY <1>2 DEF UserInstalls, placeVars, runVars
  <2>4. \A q \in Procs : Same(q)
    BY <2>3 DEF Same
  <2>5. HomeTypes' /\ HomeExplained'
    BY <1>2, <2>1, <2>2, <2>3 DEF UserInstalls, HomeTypes, HomeExplained
  <2>6. RunTypes' /\ PlaceTypes' /\ \A q \in Procs : StageTypes(q)'
    <3>1. \A q \in Procs : StageTypes(q)
      BY <2>1, TypeParts
    <3>2. QED
      BY <2>1, <2>3, <3>1 DEF RunTypes, PlaceTypes, StageTypes
  <2>7. \A q \in Procs : OfRun(q)'
    BY <2>2, <2>4, SameKeeps DEF IInv
  <2>8. QED
    BY <2>5, <2>6, <2>7, TypePartsNext DEF IInv
<1>3. CASE UNCHANGED vars
  <2>1. UNCHANGED <<home, damaged, cwd, gopath, runs, at, cmd, source, pending, read, options,
                    next, sent, output, how>>
    BY <1>3 DEF vars, fileVars, placeVars, runVars
  <2>2. \A q \in Procs : Same(q)
    BY <2>1 DEF Same
  <2>3. \A q \in Procs : OfRun(q)'
    BY <2>1, <2>2, SameKeeps DEF IInv
  <2>4. TypeOK' /\ HomeExplained'
    BY <2>1 DEF IInv, TypeOK, HomeExplained
  <2>5. QED
    BY <2>3, <2>4 DEF IInv
<1>4. QED
  BY <1>1, <1>2, <1>3 DEF Next, OwnStep

LEMMA Invariant == Spec => []IInv
BY Initially, Inductive, PTL DEF Spec

\* TypeOK of a run of any processes.
THEOREM TypeCorrect == Spec => []TypeOK
<1>1. IInv => TypeOK
  BY DEF IInv
<1>2. QED
  BY <1>1, Invariant, PTL

\* HomeExplained: a config file at home that is not whole is the work of a
\* run that gave up, or will be finished by one that writes it (copyFile,
\* downloadFile), however many write it at the same time.
THEOREM HomeIsExplained == Spec => []HomeExplained
<1>1. IInv => HomeExplained
  BY DEF IInv
<1>2. QED
  BY <1>1, Invariant, PTL

\* WritesNeedAdmin: what changes data reaches the service only if admin mode
\* is asked for (module.go: SetReadOnly; the driver's check).
THEOREM AdminNeeded == Spec => []WritesNeedAdmin
<1>1. IInv => WritesNeedAdmin
  BY DEF IInv, OfRun, Admin, AdminAsked, WritesNeedAdmin
<1>2. QED
  BY <1>1, Invariant, PTL

\* AnswersInOrder: each query that is not blank is answered once, in order,
\* up to the end or to the first error (main.go: queryAthena).
THEOREM InOrder == Spec => []AnswersInOrder
<1>1. ASSUME IInv, NEW p \in Procs
      PROVE  Printed(p) /\ Done(p)
  BY <1>1 DEF IInv, OfRun
<1>2. IInv => AnswersInOrder
  <2>1. SUFFICES ASSUME IInv PROVE AnswersInOrder
    OBVIOUS
  <2>2. \A p \in Procs : Printed(p) /\ Done(p)
    BY <1>1, <2>1
  <2>3. QED
    BY <2>2 DEF AnswersInOrder, Printed, Done
<1>3. QED
  BY <1>2, Invariant, PTL
-----------------------------------------------------------------------------
(* Silence. *)

LEMMA LoadSilent ==
  ASSUME IInv, NEW p \in Procs, Load(p), how'[p] = "silent"
  PROVE  \/ ~Usable(File(p).of)
         \/ source[p] = "home" /\ (damaged \/ \E q \in Procs : at[q] = "write")
<1>1. TypeOK /\ HomeExplained /\ Stage(p) /\ at[p] = "load" /\ how[p] = "none"
  BY DEF IInv, OfRun, Stage, Load
<1>2. ~Parses(File(p)) \/ ~Usable(Populated(File(p)))
  BY <1>1 DEF Load
<1>3. SUFFICES ASSUME Usable(File(p).of)
               PROVE  source[p] = "home" /\ (damaged \/ \E q \in Procs : at[q] = "write")
  OBVIOUS
<1>4. File(p).blocks # Blocks
  <2>1. SUFFICES ASSUME File(p).blocks = Blocks PROVE FALSE
    OBVIOUS
  <2>2. Parses(File(p))
    BY <2>1 DEF Parses, Blocks
  <2>3. /\ Populated(File(p)).bucket = File(p).of.bucket
        /\ Populated(File(p)).region = File(p).of.region
    BY <2>1 DEF Populated, Blocks
  <2>4. QED
    BY <1>2, <1>3, <2>2, <2>3 DEF Usable
<1>5. source[p] = "home" /\ File(p) = home
  BY <1>4 DEF File
<1>6. home.exists
  BY <1>1, <1>5 DEF Stage
<1>7. QED
  BY <1>1, <1>4, <1>5, <1>6 DEF HomeExplained

LEMMA SilentStep ==
  ASSUME IInv, [Next]_vars, NEW p \in Procs, at[p] = "load", how'[p] = "silent"
  PROVE  \/ ~Usable(File(p).of)
         \/ source[p] = "home" /\ (damaged \/ \E q \in Procs : at[q] = "write")
<1>1. TypeOK /\ how[p] = "none"
  BY DEF IInv, OfRun, Stage
<1>2. CASE \E q \in Procs : OwnStep(q)
  <2>1. PICK q \in Procs : OwnStep(q)
    BY <1>2
  <2>2. CASE q # p
    BY <1>1, <2>1, <2>2, OthersSame DEF Same
  <2>3. CASE q = p
    <3>1. Load(p) \/ Kill(p)
      BY <2>1, <2>3 DEF OwnStep, Launch, Configure, Look, Create, Write, WriteStops, QueryAthena,
                        SkipBlank, Run, NoAnswer, PrintRows, Finish, AtQuery
    <3>2. ASSUME Kill(p) PROVE how'[p] = "killed"
      BY <1>1, <3>2, PlacesIs, EndIs DEF Kill
    <3>3. QED
      BY <3>1, <3>2, LoadSilent
  <2>4. QED
    BY <2>2, <2>3
<1>3. CASE UserInstalls \/ UNCHANGED vars
  BY <1>1, <1>3 DEF UserInstalls, vars, runVars
<1>4. QED
  BY <1>2, <1>3 DEF Next, OwnStep

\* SilentEnds: a run ends without a word only over a config file without a
\* usable bucket, one without a region, or one not written to its end.
THEOREM SilenceExplained == Spec => SilentEnds
<1> DEFINE A == \A p \in Procs : at[p] = "load" /\ how'[p] = "silent" =>
                  \/ ~Usable(File(p).of)
                  \/ source[p] = "home" /\ (damaged \/ \E q \in Procs : at[q] = "write")
<1>1. IInv /\ [Next]_vars => [A]_vars
  BY SilentStep
<1>2. QED
  BY <1>1, Invariant, PTL DEF Spec, SilentEnds
=============================================================================
