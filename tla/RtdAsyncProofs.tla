--------------------------- MODULE RtdAsyncProofs ---------------------------
(***************************************************************************)
(* Proofs about functions which compute in the background, for every set   *)
(* of formulas and arguments: the types, that no cell has two tasks which  *)
(* do the same, that a task which a cell can find has a record, and that   *)
(* what a cell shows is the result of its own formula.                     *)
(***************************************************************************)
EXTENDS RtdAsyncProps, TLAPS

Result == Args \union {None}
PubType == [arg : Result, cell : Nat, state : {"new", "running", "published", "stopped", "done"}]
RecType == [ids : SUBSET Nat, value : Result, pub : BOOLEAN]
CellType == [tasks : SUBSET Topics, count : Nat, topic : 0..MaxTasks, caller : Nat \X Nat]
Pairs == Nat \X Topics
WorkType == [joins : SUBSET Pairs, leaves : SUBSET Pairs, at : {"idle", "serve", "unlist", "erase"},
             id : 0..MaxTasks]

SheetOK ==
  /\ formula \in [Regions -> Result] /\ shown \in [Regions -> Result]
  /\ dirty \subseteq Regions /\ used \in [Regions -> SUBSET Topics]

\* A follow-up call is one of a single cell of the region.
CalcOK ==
  \/ calc = None
  \/ /\ calc \in CalcType
     /\ calc.ref = calc.region \/ calc.ref[1] = calc.ref[2]
     /\ calc.left <= Size(calc.region)
     /\ calc.at = "match" => calc.cell \in DOMAIN cells
     /\ calc.at = "subscribe" => calc.topic \in Topics

PubsOK == pubs \in Seq(PubType) /\ Len(pubs) <= MaxTasks

\* A task is listed in the cell it was started for.
CellsOK ==
  /\ cells \in Seq(CellType)
  /\ \A o \in DOMAIN cells : cells[o].count > 0 => cells[o].topic \in Topics
  /\ \A o \in DOMAIN cells : \A p \in cells[o].tasks : p \in DOMAIN pubs /\ pubs[p].cell = o
  /\ \A k \in DOMAIN tasksAt : k \in Nat \X Nat /\ tasksAt[k] \in DOMAIN cells

RecordsOK ==
  /\ DOMAIN records \subseteq Topics
  /\ \A t \in DOMAIN records : records[t] \in RecType /\ (records[t].pub => t \in DOMAIN pubs)

RequestsOK ==
  /\ lastId \in Nat /\ link \in [Topics -> 0..lastId]
  /\ work \in WorkType /\ serving \in {"up", "quit", "ended"}
  /\ \A x \in joining \union active \union work.joins : x \in Pairs /\ x[1] \in 1..lastId
  /\ work.at \in {"unlist", "erase"} => work.id \in DOMAIN pubs

Types == SheetOK /\ CalcOK /\ PubsOK /\ CellsOK /\ RecordsOK /\ RequestsOK

\* What is listed has its record, and the record its publisher: it is not one
\* without, which goes with its last subscriber.
ListedKept ==
  serving # "ended" =>
    \A o \in DOMAIN cells : \A p \in cells[o].tasks : p \in DOMAIN records /\ records[p].pub

\* The record to be erased is that of a task which is in no list any more.
ErasedUnlisted ==
  work.at = "erase" => \A o \in DOMAIN cells : work.id \notin cells[o].tasks

AsyncInv == Types /\ OneTask /\ ListedKept /\ ErasedUnlisted

-----------------------------------------------------------------------------
\* A calculation's region and the cell it has reached.
LEMMA SizeIs ==
  ASSUME Types, calc # None
  PROVE  /\ calc.region \in Regions /\ calc.ref \in Nat \X Nat
         /\ calc.ref[1] \in Nat /\ calc.ref[2] \in Nat /\ calc.ref[1] <= calc.ref[2]
         /\ calc.region[1] \in Nat /\ calc.region[2] \in Nat /\ 1 <= calc.region[1]
         /\ Size(calc.ref) \in Nat /\ Size(calc.region) \in Nat
         /\ Size(calc.ref) > 1 => calc.ref = calc.region
<1>1. /\ calc \in CalcType
      /\ calc.ref = calc.region \/ calc.ref[1] = calc.ref[2]
  BY DEF Types, CalcOK
<1>2. calc.region \in Regions /\ calc.ref \in Nat \X Nat
  BY <1>1 DEF CalcType
<1>3. calc.region \in Nat \X Nat /\ 1 <= calc.region[1] /\ calc.region[1] <= calc.region[2]
  BY <1>2, AsyncConstants
<1>. QED BY <1>1, <1>2, <1>3 DEF Size

\* The record of a topic, or the empty one.
LEMMA RecordIs ==
  ASSUME Types, NEW t
  PROVE  /\ RecordOf(t) \in RecType
         /\ RecordOf(t).pub => t \in DOMAIN records /\ t \in DOMAIN pubs
<1>1. NoRecord \in RecType /\ ~NoRecord.pub
  BY DEF NoRecord, RecType, Result
<1>. QED BY <1>1 DEF RecordOf, Types, RecordsOK

\* What a look at a topic yields.
LEMMA PeekIs == ASSUME Types, NEW t PROVE Peek(t) \in Result
BY DEF Types, RecordsOK, RecType, Result, Peek

-----------------------------------------------------------------------------
\* The invariant holds at first.
LEMMA InitInv == Init => AsyncInv
<1>. SUFFICES ASSUME Init PROVE AsyncInv
  OBVIOUS
<1>. USE AsyncConstants DEF Init
<1>1. SheetOK
  BY DEF SheetOK, Result
<1>2. CalcOK
  BY DEF CalcOK
<1>3. PubsOK /\ CellsOK
  BY DEF PubsOK, CellsOK
<1>4. RecordsOK
  BY DEF RecordsOK
<1>5. RequestsOK
  BY DEF RequestsOK, WorkType, Idle
<1>6. OneTask /\ ListedKept /\ ErasedUnlisted
  BY DEF OneTask, ListedKept, ErasedUnlisted, Idle
<1>. QED BY <1>1, <1>2, <1>3, <1>4, <1>5, <1>6 DEF AsyncInv, Types

\* The sheet stays typed.
LEMMA SheetNext == ASSUME Types, [Next]_vars PROVE SheetOK'
<1>. USE AsyncConstants DEF Types
<1>1. ASSUME NEW r \in Regions, NEW a \in ArgsOf[r], Edit(r, a) PROVE SheetOK'
  <2>1. a \in Result
    BY DEF Result
  <2>2. formula' \in [Regions -> Result] /\ shown' \in [Regions -> Result]
    BY <1>1, <2>1 DEF Edit, SheetOK, Result
  <2>3. dirty' \subseteq Regions
    BY <1>1 DEF Edit, SheetOK
  <2>4. used' \in [Regions -> SUBSET Topics]
    BY <1>1 DEF Edit, Abandon, SheetOK
  <2>. QED BY <2>2, <2>3, <2>4 DEF SheetOK
<1>2. ASSUME NEW r \in Regions, Evaluate(r) PROVE SheetOK'
  BY <1>2 DEF Evaluate, SheetOK, sheet
<1>3. CASE Finish
  <2>1. calc.result \in Result /\ calc.topics \in SUBSET Topics /\ calc.region \in Regions
    BY <1>3 DEF Finish, CalcOK, CalcType, Result
  <2>. QED BY <1>3, <2>1 DEF Finish, Abandon, SheetOK
<1>4. ASSUME NEW p \in Topics, Publish(p) PROVE SheetOK'
  BY <1>4 DEF Publish, SheetOK, sheet
<1>5. ASSUME UNCHANGED <<sheet, dirty>> PROVE SheetOK'
  BY <1>5 DEF SheetOK, sheet
<1>6. ASSUME NEW p \in Topics, TaskEnds(p) PROVE SheetOK'
  BY <1>5, <1>6 DEF TaskEnds
<1>7. FindTargetCellTasks \/ FollowUp \/ MatchTask \/ StartCellTask \/ Subscribe \/ NextCall
        => UNCHANGED <<sheet, dirty>>
  BY DEF FindTargetCellTasks, FollowUp, MatchTask, StartCellTask, Subscribe, NextCall
<1>8. Clear \/ Worker => UNCHANGED <<sheet, dirty>>
  BY DEF Clear, Worker, TakeBatch, ConnectTopic, DisconnectTopic, Unlist, Erase, EndBatch,
         WorkerExits
<1>9. UNCHANGED vars => UNCHANGED <<sheet, dirty>>
  BY DEF vars, sheet
<1>. HIDE DEF Types
<1>. QED BY <1>1, <1>2, <1>3, <1>4, <1>5, <1>6, <1>7, <1>8, <1>9 DEF Next, Tasks, Excel

\* What a publisher is for never changes, and there are ever more of them.
PubsGrow ==
  /\ PubsOK'
  /\ \A p \in DOMAIN pubs : /\ p \in DOMAIN pubs' /\ pubs'[p].cell = pubs[p].cell
                            /\ pubs'[p].arg = pubs[p].arg

\* Changing one publisher's state.
LEMMA PubState ==
  ASSUME PubsOK, NEW p \in DOMAIN pubs,
         NEW st \in {"new", "running", "published", "stopped", "done"},
         pubs' = [pubs EXCEPT ![p].state = st]
  PROVE  PubsGrow
<1>1. pubs[p] \in PubType
  BY DEF PubsOK
<1>2. PICK e : e = [pubs[p] EXCEPT !.state = st]
  OBVIOUS
<1>3. e \in PubType /\ e.cell = pubs[p].cell /\ e.arg = pubs[p].arg
  BY <1>1, <1>2 DEF PubType
<1>4. pubs' = [pubs EXCEPT ![p] = e]
  BY <1>2
<1>5. PubsOK'
  BY <1>3, <1>4 DEF PubsOK
<1>. QED BY <1>3, <1>4, <1>5 DEF PubsGrow, PubsOK

\* Stopping a publisher changes its state only.
LEMMA StoppedIs ==
  ASSUME PubsOK, NEW p \in DOMAIN pubs
  PROVE  \E st \in {"new", "running", "published", "stopped", "done"} :
           Stopped(p) = [pubs EXCEPT ![p].state = st]
<1>1. pubs[p].state = "done" \/ pubs[p].state # "done"
  OBVIOUS
<1>. QED BY <1>1 DEF Stopped, PubsOK, PubType

\* Publishers are kept, with their cells and arguments.
LEMMA PubsNext == ASSUME Types, [Next]_vars PROVE PubsGrow
<1>. USE DEF Types
<1>1. CASE StartCellTask
  <2>1. calc.region \in Regions /\ calc.cell \in Nat
    BY <1>1 DEF StartCellTask, CalcOK, CalcType
  <2>. DEFINE e == [arg |-> formula[calc.region], cell |-> calc.cell, state |-> "new"]
  <2>2. e \in PubType
    BY <2>1 DEF PubType, SheetOK
  <2>3. pubs' = Append(pubs, e) /\ Len(pubs) + 1 <= MaxTasks
    BY <1>1 DEF StartCellTask
  <2>. HIDE DEF e, Types
  <2>. QED BY <2>2, <2>3 DEF PubsGrow, PubsOK, Types
<1>2. CASE ConnectTopic
  <2>1. PICK x \in work.joins : pubs' = IF RecordOf(x[2]).pub /\ RecordOf(x[2]).ids = {}
                                      THEN Started(x[2]) ELSE pubs
    BY <1>2 DEF ConnectTopic
  <2>2. CASE RecordOf(x[2]).pub /\ RecordOf(x[2]).ids = {}
    BY <2>1, <2>2, RecordIs, PubState DEF Started
  <2>. QED BY <2>1, <2>2 DEF PubsGrow, PubsOK
<1>3. CASE DisconnectTopic
  <2>1. PICK x \in work.leaves : pubs' = IF RecordOf(x[2]).pub THEN Stopped(x[2]) ELSE pubs
    BY <1>3 DEF DisconnectTopic
  <2>2. CASE RecordOf(x[2]).pub
    BY <2>1, <2>2, RecordIs, PubState, StoppedIs
  <2>. QED BY <2>1, <2>2 DEF PubsGrow, PubsOK
<1>4. CASE WorkerExits
  <2>1. ASSUME NEW p \in DOMAIN pubs
        PROVE  /\ pubs'[p] \in PubType
               /\ pubs'[p].cell = pubs[p].cell /\ pubs'[p].arg = pubs[p].arg
    <3>1. PICK st \in {"new", "running", "published", "stopped", "done"} :
             Stopped(p) = [pubs EXCEPT ![p].state = st]
      BY StoppedIs
    <3>2. pubs'[p] = IF p \in DOMAIN records /\ records[p].pub THEN Stopped(p)[p] ELSE pubs[p]
      BY <1>4 DEF WorkerExits
    <3>3. pubs[p] \in PubType
      BY DEF PubsOK
    <3>4. CASE pubs'[p] = Stopped(p)[p]
      <4>1. pubs'[p] = [pubs[p] EXCEPT !.state = st]
        BY <3>1, <3>4
      <4>. QED BY <4>1, <3>3 DEF PubType
    <3>. QED BY <3>2, <3>3, <3>4
  <2>2. DOMAIN pubs' = DOMAIN pubs /\ pubs' = [p \in DOMAIN pubs |-> pubs'[p]]
    BY <1>4 DEF WorkerExits
  <2>3. pubs' \in Seq(PubType) /\ Len(pubs') = Len(pubs)
    BY <2>1, <2>2 DEF PubsOK
  <2>. QED BY <2>1, <2>2, <2>3 DEF PubsGrow, PubsOK
<1>5. ASSUME NEW p \in Topics, Publish(p) \/ TaskEnds(p) PROVE PubsGrow
  <2>1. \E st \in {"published", "done"} : pubs' = [pubs EXCEPT ![p].state = st]
    BY <1>5 DEF Publish, TaskEnds
  <2>. QED BY <1>5, <2>1, PubState DEF Publish, TaskEnds
<1>6. ASSUME UNCHANGED pubs PROVE PubsGrow
  BY <1>6 DEF PubsGrow, PubsOK
<1>7. /\ FindTargetCellTasks \/ FollowUp \/ MatchTask \/ Subscribe \/ NextCall \/ Finish
           => UNCHANGED pubs
      /\ Clear \/ TakeBatch \/ Unlist \/ Erase \/ EndBatch => UNCHANGED pubs
      /\ UNCHANGED vars => UNCHANGED pubs
      /\ \A r \in Regions : (\E a \in ArgsOf[r] : Edit(r, a)) => UNCHANGED pubs
      /\ \A r \in Regions : Evaluate(r) => UNCHANGED pubs
  BY DEF Edit, Evaluate, FindTargetCellTasks, FollowUp, MatchTask, Subscribe, NextCall, Finish,
         Clear, TakeBatch, Unlist, Erase, EndBatch, vars
<1>. HIDE DEF Types
<1>. QED BY <1>1, <1>2, <1>3, <1>4, <1>5, <1>6, <1>7 DEF Next, Tasks, Excel, Worker

\* The calculation under way stays typed.
LEMMA CalcNext == ASSUME Types, [Next]_vars, \A o \in DOMAIN cells : o \in DOMAIN cells'
                  PROVE  /\ CalcOK'
                         /\ Excel /\ ~Finish => calc' \in CalcType
<1>1. ASSUME NEW r \in Regions, Evaluate(r) PROVE CalcOK' /\ calc' \in CalcType
  <2>1. r \in Nat \X Nat /\ 1 <= r[1] /\ r[1] <= r[2]
    BY <1>1, AsyncConstants
  <2>2. Size(r) \in Nat /\ {} \in SUBSET Topics /\ 0 \in 0..MaxTasks
    BY <2>1, AsyncConstants DEF Size
  <2>. QED BY <1>1, <2>1, <2>2 DEF Evaluate, CalcOK, CalcType, Size
<1>2. ASSUME FindTargetCellTasks PROVE CalcOK' /\ calc' \in CalcType
  <2>. DEFINE address == <<calc.ref[1], Sheet>>
              o == IF address \in DOMAIN tasksAt THEN tasksAt[address] ELSE Len(cells) + 1
  <2>1. calc # None /\ calc' = [calc EXCEPT !.at = "match", !.cell = o]
    BY <1>2 DEF FindTargetCellTasks
  <2>2. o \in Nat /\ o \in DOMAIN cells'
    <3>1. CASE address \in DOMAIN tasksAt
      BY <3>1 DEF Types, CellsOK
    <3>2. CASE address \notin DOMAIN tasksAt
      BY <1>2, <3>2 DEF FindTargetCellTasks, Types, CellsOK
    <3>. QED BY <3>1, <3>2
  <2>3. calc \in CalcType /\ (calc.ref = calc.region \/ calc.ref[1] = calc.ref[2])
        /\ calc.left <= Size(calc.region)
    BY <2>1 DEF Types, CalcOK
  <2>. HIDE DEF o
  <2>. QED BY <2>1, <2>2, <2>3 DEF CalcOK, CalcType
<1>3. ASSUME FollowUp PROVE CalcOK' /\ calc' \in CalcType
  <2>1. cells[calc.cell].topic \in Topics
    BY <1>3 DEF FollowUp, Expected, Types, CalcOK, CellsOK
  <2>2. PICK t : t = cells[calc.cell].topic
    OBVIOUS
  <2>3. calc # None /\ calc' = [calc EXCEPT !.at = "subscribe", !.topic = t]
    BY <1>3, <2>2 DEF FollowUp
  <2>4. t \in Topics /\ t \in 0..MaxTasks
    BY <2>1, <2>2, AsyncConstants DEF Topics
  <2>. QED BY <2>3, <2>4 DEF Types, CalcOK, CalcType
<1>4. ASSUME MatchTask PROVE CalcOK' /\ calc' \in CalcType
  <2>1. PICK p \in cells[calc.cell].tasks :
             calc' = IF Peeked(p) THEN [calc EXCEPT !.at = "return", !.result = Peek(p)]
                                  ELSE [calc EXCEPT !.at = "subscribe", !.topic = p]
    BY <1>4 DEF MatchTask
  <2>2. calc # None /\ calc.at = "match"
    BY <1>4 DEF MatchTask
  <2>3. p \in Topics /\ p \in 0..MaxTasks
    BY <2>1, <2>2, AsyncConstants DEF Types, CalcOK, CellsOK, PubsOK, Topics
  <2>4. Peek(p) \in Args \union {None}
    BY PeekIs DEF Result
  <2>. QED BY <2>1, <2>2, <2>3, <2>4 DEF Types, CalcOK, CalcType
<1>5. ASSUME StartCellTask PROVE CalcOK' /\ calc' \in CalcType
  <2>. DEFINE p == Len(pubs) + 1
  <2>1. calc # None /\ calc' = [calc EXCEPT !.at = "subscribe", !.topic = p] /\ p <= MaxTasks
    BY <1>5 DEF StartCellTask
  <2>2. p \in Topics /\ p \in 0..MaxTasks
    BY <2>1, AsyncConstants DEF Types, PubsOK, Topics
  <2>. HIDE DEF p
  <2>. QED BY <2>1, <2>2 DEF Types, CalcOK, CalcType
<1>6. ASSUME Subscribe PROVE CalcOK' /\ calc' \in CalcType
  <2>1. calc # None /\ calc.at = "subscribe" /\ calc.topic \in Topics
    BY <1>6 DEF Subscribe, Types, CalcOK
  <2>2. PICK n : n = IF Size(calc.ref) > 1 THEN Size(calc.ref) ELSE calc.left
    OBVIOUS
  <2>3. calc' = [calc EXCEPT !.at = "return", !.topics = @ \union {calc.topic},
                             !.result = Peek(calc.topic), !.left = n]
    BY <1>6, <2>2 DEF Subscribe
  <2>4. calc \in CalcType /\ calc.left <= Size(calc.region)
        /\ (calc.ref = calc.region \/ calc.ref[1] = calc.ref[2])
    BY <2>1 DEF Types, CalcOK
  <2>5. n \in Nat /\ n <= Size(calc.region)
    BY <2>1, <2>2, <2>4, SizeIs DEF CalcType
  <2>6. Peek(calc.topic) \in Args \union {None}
    BY PeekIs DEF Result
  <2>7. calc.topics \union {calc.topic} \in SUBSET Topics
    BY <2>1, <2>4 DEF CalcType
  <2>. QED BY <2>1, <2>3, <2>4, <2>5, <2>6, <2>7 DEF CalcOK, CalcType
<1>7. ASSUME NextCall PROVE CalcOK' /\ calc' \in CalcType
  <2>1. PICK n : /\ n = IF Cycles THEN calc.region[2] - calc.left + 1 ELSE calc.region[1]
                 /\ calc' = [calc EXCEPT !.at = "find", !.ref = <<n, n>>, !.left = @ - 1]
    BY <1>7 DEF NextCall
  <2>2. calc # None /\ calc.left > 0 /\ calc \in CalcType /\ calc.left <= Size(calc.region)
    BY <1>7 DEF NextCall, Types, CalcOK
  <2>3. calc.left \in Nat
    BY <2>2 DEF CalcType
  <2>4. n \in Nat
    BY <2>1, <2>2, <2>3, SizeIs DEF Size
  <2>5. calc.left - 1 \in Nat /\ calc.left - 1 <= Size(calc.region)
    BY <2>2, <2>3, SizeIs
  <2>. QED BY <2>1, <2>2, <2>4, <2>5 DEF CalcOK, CalcType
<1>8. ASSUME Finish PROVE CalcOK'
  BY <1>8 DEF Finish, CalcOK
<1>9. ASSUME UNCHANGED calc PROVE CalcOK'
  BY <1>9 DEF Types, CalcOK
<1>10. /\ Clear \/ Worker \/ UNCHANGED vars => UNCHANGED calc
       /\ \A r \in Regions : (\E a \in ArgsOf[r] : Edit(r, a)) => UNCHANGED calc
       /\ \A p \in Topics : Publish(p) \/ TaskEnds(p) => UNCHANGED calc
  BY DEF Edit, Clear, Worker, TakeBatch, ConnectTopic, DisconnectTopic, Unlist, Erase, EndBatch,
         WorkerExits, vars, Publish, TaskEnds
<1>. QED BY <1>1, <1>2, <1>3, <1>4, <1>5, <1>6, <1>7, <1>8, <1>9, <1>10 DEF Next, Tasks, Excel

\* Which cells there are never shrinks, and their tasks change only in two steps.
CellsSame ==
  /\ \A o \in DOMAIN cells : o \in DOMAIN cells'
  /\ \A o \in DOMAIN cells' :
       cells'[o].tasks = {} \/ (o \in DOMAIN cells /\ cells'[o].tasks = cells[o].tasks)

\* A new or changed element of a sequence of cells.
LEMMA CellPut ==
  ASSUME CellsOK, NEW o \in DOMAIN cells, NEW e \in CellType,
         cells' = [cells EXCEPT ![o] = e],
         e.count > 0 => e.topic \in Topics
  PROVE  /\ cells' \in Seq(CellType) /\ DOMAIN cells' = DOMAIN cells
         /\ cells'[o] = e /\ \A x \in DOMAIN cells \ {o} : cells'[x] = cells[x]
         /\ \A x \in DOMAIN cells' : cells'[x].count > 0 => cells'[x].topic \in Topics
BY DEF CellsOK

\* A new list of tasks for a cell.
LEMMA CellNew ==
  ASSUME CellsOK, NEW e \in CellType, cells' = Append(cells, e), e.count = 0
  PROVE  /\ cells' \in Seq(CellType) /\ DOMAIN cells' = DOMAIN cells \union {Len(cells) + 1}
         /\ cells'[Len(cells) + 1] = e /\ \A x \in DOMAIN cells : cells'[x] = cells[x]
         /\ \A x \in DOMAIN cells' : cells'[x].count > 0 => cells'[x].topic \in Topics
BY DEF CellsOK

\* The part of a cell's record which a call changes.
LEMMA CountedIs ==
  ASSUME Types, calc # None, NEW c \in CellType, NEW t \in Topics
  PROVE  /\ Counted(c, t) \in CellType
         /\ Counted(c, t).tasks = c.tasks
         /\ Counted(c, t).count > 0 => Counted(c, t).topic \in Topics
<1>1. Size(calc.ref) \in Nat
  BY SizeIs
<1>2. t \in 0..MaxTasks /\ 0 \in 0..MaxTasks
  BY AsyncConstants DEF Topics
<1>3. CASE Size(calc.ref) > 1
  <2>1. Counted(c, t) = [c EXCEPT !.count = Size(calc.ref), !.topic = t]
    BY <1>3 DEF Counted
  <2>. QED BY <2>1, <1>1, <1>2 DEF CellType
<1>4. CASE ~(Size(calc.ref) > 1)
  <2>. DEFINE e == [c EXCEPT !.count = 0, !.topic = 0]
  <2>1. e \in CellType
    BY <1>2 DEF CellType
  <2>2. e.tasks = c.tasks /\ e.count = 0
    BY DEF CellType
  <2>3. Counted(c, t) = e
    BY <1>4 DEF Counted
  <2>. HIDE DEF e
  <2>. QED BY <2>1, <2>2, <2>3
<1>. QED BY <1>3, <1>4

\* Each action's effect on the cells: their types, and which tasks they list.
CellsTyped ==
  /\ cells' \in Seq(CellType)
  /\ \A o \in DOMAIN cells' : cells'[o].count > 0 => cells'[o].topic \in Topics

\* Finding a cell's tasks makes an empty list at most.
LEMMA FindCells == ASSUME Types, FindTargetCellTasks PROVE CellsTyped /\ CellsSame
<1>. DEFINE address == <<calc.ref[1], Sheet>>
            o == IF address \in DOMAIN tasksAt THEN tasksAt[address] ELSE Len(cells) + 1
<1>1. calc # None /\ calc.ref \in Nat \X Nat
  BY SizeIs DEF FindTargetCellTasks
<1>2. CASE address \notin DOMAIN tasksAt
  <2>. DEFINE e == [tasks |-> {}, count |-> 0, topic |-> 0, caller |-> calc.ref]
  <2>1. cells' = Append(cells, e)
    BY <1>2 DEF FindTargetCellTasks
  <2>2. e \in CellType /\ e.count = 0 /\ e.tasks = {}
    BY <1>1, AsyncConstants DEF CellType
  <2>. HIDE DEF e
  <2>. QED BY <2>1, <2>2, CellNew DEF Types, CellsTyped, CellsSame
<1>3. CASE address \in DOMAIN tasksAt
  <2>1. o \in DOMAIN cells
    BY <1>3 DEF Types, CellsOK
  <2>2. cells[o] \in CellType /\ (cells[o].count > 0 => cells[o].topic \in Topics)
    BY <2>1 DEF Types, CellsOK
  <2>. DEFINE e == [cells[o] EXCEPT !.caller = calc.ref]
  <2>3. e \in CellType /\ e.count = cells[o].count /\ e.topic = cells[o].topic
        /\ e.tasks = cells[o].tasks
    BY <1>1, <2>2 DEF CellType
  <2>4. cells' = cells \/ cells' = [cells EXCEPT ![o] = e]
    BY <1>3 DEF FindTargetCellTasks
  <2>. HIDE DEF e, o
  <2>5. CASE cells' = cells
    BY <2>5 DEF Types, CellsOK, CellsTyped, CellsSame
  <2>6. CASE cells' = [cells EXCEPT ![o] = e]
    BY <2>1, <2>2, <2>3, <2>6, CellPut DEF Types, CellsTyped, CellsSame
  <2>. QED BY <2>4, <2>5, <2>6
<1>. QED BY <1>2, <1>3

\* A follow-up call changes no list but for an empty one.
LEMMA FollowUpCells == ASSUME Types, FollowUp PROVE CellsTyped /\ CellsSame
<1>1. calc.cell \in DOMAIN cells /\ cells[calc.cell].count > 0
  BY DEF FollowUp, Expected, Types, CalcOK
<1>2. cells[calc.cell] \in CellType
  BY <1>1 DEF Types, CellsOK
<1>3. cells[calc.cell].topic \in Topics
  BY <1>1 DEF Types, CellsOK
<1>4. cells[calc.cell].count \in Nat
  BY <1>2 DEF CellType
<1>. DEFINE e == [cells[calc.cell] EXCEPT !.count = @ - 1]
<1>5. cells' = [cells EXCEPT ![calc.cell] = e]
  BY DEF FollowUp
<1>6. e \in CellType /\ e.topic = cells[calc.cell].topic /\ e.tasks = cells[calc.cell].tasks
  BY <1>1, <1>2, <1>4 DEF CellType
<1>. HIDE DEF e
<1>. QED BY <1>1, <1>3, <1>5, <1>6, CellPut DEF Types, CellsTyped, CellsSame

\* Matching a task changes no list but for emptying one.
LEMMA MatchCells == ASSUME Types, MatchTask PROVE CellsTyped /\ CellsSame
<1>1. calc # None /\ calc.cell \in DOMAIN cells
  BY DEF MatchTask, Types, CalcOK
<1>2. PICK p \in cells[calc.cell].tasks :
        cells' = [cells EXCEPT ![calc.cell] = Counted(cells[calc.cell], p)]
  BY DEF MatchTask
<1>3. cells[calc.cell] \in CellType
  BY <1>1 DEF Types, CellsOK
<1>4. p \in Topics
  BY <1>2, <1>3 DEF CellType
<1>. DEFINE e == Counted(cells[calc.cell], p)
<1>5. e \in CellType /\ e.tasks = cells[calc.cell].tasks /\ (e.count > 0 => e.topic \in Topics)
  BY <1>1, <1>3, <1>4, CountedIs
<1>. HIDE DEF e
<1>6. cells' = [cells EXCEPT ![calc.cell] = e]
  BY <1>2 DEF e
<1>. QED BY <1>1, <1>5, <1>6, CellPut DEF Types, CellsTyped, CellsSame

\* The two steps which change a cell's list.
LEMMA StartCells ==
  ASSUME Types, StartCellTask
  PROVE  /\ CellsTyped /\ calc.cell \in DOMAIN cells /\ DOMAIN cells' = DOMAIN cells
         /\ pubs' = Append(pubs, [arg |-> formula[calc.region], cell |-> calc.cell,
                                  state |-> "new"])
         /\ Len(pubs) + 1 \in Topics
         /\ cells'[calc.cell].tasks = cells[calc.cell].tasks \union {Len(pubs) + 1}
         /\ \A x \in DOMAIN cells \ {calc.cell} : cells'[x] = cells[x]
<1>. DEFINE p == Len(pubs) + 1
            c == [cells[calc.cell] EXCEPT !.tasks = @ \union {p}]
            e == Counted(c, p)
<1>1. calc # None /\ calc.cell \in DOMAIN cells /\ p \in Topics
  BY DEF StartCellTask, Types, CalcOK, PubsOK, Topics
<1>2. cells[calc.cell] \in CellType
  BY <1>1 DEF Types, CellsOK
<1>3. c \in CellType /\ c.tasks = cells[calc.cell].tasks \union {p}
  BY <1>1, <1>2 DEF CellType
<1>4. /\ cells' = [cells EXCEPT ![calc.cell] = e]
      /\ pubs' = Append(pubs, [arg |-> formula[calc.region], cell |-> calc.cell, state |-> "new"])
  BY DEF StartCellTask
<1>. HIDE DEF p, c
<1>5. e \in CellType /\ e.tasks = cells[calc.cell].tasks \union {p}
      /\ (e.count > 0 => e.topic \in Topics)
  BY <1>1, <1>3, CountedIs
<1>. HIDE DEF e
<1>6. CellsTyped /\ DOMAIN cells' = DOMAIN cells /\ cells'[calc.cell] = e
      /\ \A x \in DOMAIN cells \ {calc.cell} : cells'[x] = cells[x]
  BY <1>1, <1>4, <1>5, CellPut DEF Types, CellsTyped
<1>. QED BY <1>1, <1>4, <1>5, <1>6 DEF p

\* Only the task which ended leaves its list.
LEMMA UnlistCells ==
  ASSUME Types, Unlist
  PROVE  /\ CellsTyped /\ DOMAIN cells' = DOMAIN cells
         /\ \A o \in DOMAIN cells : cells'[o].tasks = cells[o].tasks \ {work.id}
<1>. DEFINE o == pubs[work.id].cell
            e == [cells[o] EXCEPT !.tasks = @ \ {work.id}]
<1>1. work.id \in DOMAIN pubs
  BY DEF Unlist, Types, RequestsOK
<1>2. \A x \in DOMAIN cells : work.id \in cells[x].tasks => x = o
  BY DEF Types, CellsOK
<1>3. cells' = [cells EXCEPT ![o] = e]
  BY DEF Unlist, Unlisted
<1>4. CASE o \in DOMAIN cells
  <2>1. cells[o] \in CellType /\ (cells[o].count > 0 => cells[o].topic \in Topics)
    BY <1>4 DEF Types, CellsOK
  <2>2. e \in CellType /\ e.tasks = cells[o].tasks \ {work.id}
        /\ e.count = cells[o].count /\ e.topic = cells[o].topic
    BY <2>1 DEF CellType
  <2>. HIDE DEF o, e
  <2>3. CellsTyped /\ DOMAIN cells' = DOMAIN cells /\ cells'[o] = e
        /\ \A x \in DOMAIN cells \ {o} : cells'[x] = cells[x]
    BY <1>3, <1>4, <2>1, <2>2, CellPut DEF Types, CellsTyped
  <2>. QED BY <1>2, <2>2, <2>3
<1>5. CASE o \notin DOMAIN cells
  <2>1. cells' = cells
    BY <1>3, <1>5 DEF Types, CellsOK
  <2>. QED BY <1>2, <1>5, <2>1 DEF Types, CellsOK, CellsTyped
<1>. QED BY <1>4, <1>5

\* All other steps leave the lists alone.
LEMMA OtherCells ==
  ASSUME [Next]_vars
  PROVE  FindTargetCellTasks \/ FollowUp \/ MatchTask \/ StartCellTask \/ Unlist
           \/ UNCHANGED cells
BY DEF Next, Tasks, Excel, Worker, Edit, Evaluate, Subscribe, NextCall, Finish, Clear, TakeBatch,
       ConnectTopic, DisconnectTopic, Erase, EndBatch, WorkerExits, Publish, TaskEnds, vars,
       manager

\* What every step does to the lists of the cells.
LEMMA CellsNext ==
  ASSUME Types, [Next]_vars
  PROVE  /\ CellsTyped
         /\ \A o \in DOMAIN cells : o \in DOMAIN cells'
         /\ CellsSame \/ StartCellTask \/ Unlist
<1>1. CASE FindTargetCellTasks
  BY <1>1, FindCells DEF CellsSame
<1>2. CASE FollowUp
  BY <1>2, FollowUpCells DEF CellsSame
<1>3. CASE MatchTask
  BY <1>3, MatchCells DEF CellsSame
<1>4. CASE StartCellTask
  BY <1>4, StartCells
<1>5. CASE Unlist
  BY <1>5, UnlistCells
<1>6. CASE UNCHANGED cells
  BY <1>6 DEF CellsTyped, CellsSame, Types, CellsOK
<1>. QED BY <1>1, <1>2, <1>3, <1>4, <1>5, <1>6, OtherCells

\* A listed task remains one of its cell's.
LEMMA ListsNext ==
  ASSUME Types, [Next]_vars
  PROVE  \A o \in DOMAIN cells' : \A p \in cells'[o].tasks : p \in DOMAIN pubs' /\ pubs'[p].cell = o
<1>1. SUFFICES ASSUME NEW o \in DOMAIN cells', NEW p \in cells'[o].tasks
               PROVE  p \in DOMAIN pubs' /\ pubs'[p].cell = o
  OBVIOUS
<1>2. PubsGrow
  BY PubsNext
<1>3. CASE o \in DOMAIN cells /\ p \in cells[o].tasks
  BY <1>2, <1>3 DEF Types, CellsOK, PubsGrow
<1>4. CASE CellsSame
  BY <1>1, <1>3, <1>4 DEF CellsSame
<1>5. CASE StartCellTask
  <2>1. CASE p = Len(pubs) + 1
    BY <2>1, <1>1, <1>3, <1>5, StartCells DEF Types, PubsOK
  <2>. QED BY <2>1, <1>1, <1>3, <1>5, StartCells
<1>6. CASE Unlist
  BY <1>1, <1>3, <1>6, UnlistCells
<1>. QED BY <1>4, <1>5, <1>6, CellsNext

\* The keys of the map lead to lists.
LEMMA KeysNext ==
  ASSUME Types, [Next]_vars
  PROVE  \A k \in DOMAIN tasksAt' : k \in Nat \X Nat /\ tasksAt'[k] \in DOMAIN cells'
<1>0. \A o \in DOMAIN cells : o \in DOMAIN cells'
  BY CellsNext
<1>1. CASE FindTargetCellTasks
  <2>. DEFINE address == <<calc.ref[1], Sheet>>
              o == IF address \in DOMAIN tasksAt THEN tasksAt[address] ELSE Len(cells) + 1
              others == IF Size(calc.ref) > 1
                        THEN {<<calc.ref[1], n>> : n \in calc.ref[1]..calc.ref[2]} ELSE {}
  <2>1. tasksAt' = With(tasksAt, others \union {address}, o)
    BY <1>1 DEF FindTargetCellTasks
  <2>2. calc # None
    BY <1>1 DEF FindTargetCellTasks
  <2>3. address \in Nat \X Nat /\ others \subseteq Nat \X Nat
    BY <2>2, SizeIs, AsyncConstants
  <2>4. o \in DOMAIN cells'
    <3>1. CASE address \in DOMAIN tasksAt
      BY <1>0, <3>1 DEF Types, CellsOK
    <3>2. CASE address \notin DOMAIN tasksAt
      BY <1>1, <3>2 DEF FindTargetCellTasks, Types, CellsOK
    <3>. QED BY <3>1, <3>2
  <2>5. \A k \in DOMAIN tasksAt : k \in Nat \X Nat /\ tasksAt[k] \in DOMAIN cells'
    BY <1>0 DEF Types, CellsOK
  <2>. HIDE DEF address, others, o
  <2>. QED BY <2>1, <2>3, <2>4, <2>5 DEF With
<1>2. CASE Clear
  BY <1>2 DEF Clear
<1>3. CASE UNCHANGED tasksAt
  BY <1>0, <1>3 DEF Types, CellsOK
<1>4. FindTargetCellTasks \/ Clear \/ UNCHANGED tasksAt
  BY DEF Next, Tasks, Excel, Worker, Edit, Evaluate, FollowUp, MatchTask, StartCellTask, Subscribe,
         NextCall, Finish, TakeBatch, ConnectTopic, DisconnectTopic, Unlist, Erase, EndBatch,
         WorkerExits, Publish, TaskEnds, vars, manager
<1>. QED BY <1>1, <1>2, <1>3, <1>4

\* Putting a record keeps records typed.
LEMMA RecordPut ==
  ASSUME RecordsOK, NEW t \in Topics, NEW rec \in RecType, records' = With(records, {t}, rec),
         rec.pub => t \in DOMAIN pubs', \A p \in DOMAIN pubs : p \in DOMAIN pubs'
  PROVE  RecordsOK'
BY DEF RecordsOK, With

\* Erasing a record keeps records typed.
LEMMA RecordGone ==
  ASSUME RecordsOK, NEW t, records' = [x \in DOMAIN records \ {t} |-> records[x]],
         \A p \in DOMAIN pubs : p \in DOMAIN pubs'
  PROVE  RecordsOK'
BY DEF RecordsOK

\* Records stay typed.
LEMMA RecordsNext == ASSUME Types, [Next]_vars PROVE RecordsOK'
<1>0. RecordsOK /\ \A p \in DOMAIN pubs : p \in DOMAIN pubs'
  BY PubsNext DEF PubsGrow, Types
<1>1. CASE StartCellTask
  <2>. DEFINE p == Len(pubs) + 1
              rec == [ids |-> {}, value |-> None, pub |-> TRUE]
  <2>1. records' = With(records, {p}, rec)
    BY <1>1 DEF StartCellTask
  <2>2. rec \in RecType
    BY DEF RecType, Result
  <2>3. p \in Topics /\ p \in DOMAIN pubs'
    BY <1>1, StartCells DEF Types, PubsOK
  <2>. HIDE DEF p, rec
  <2>. QED BY <1>0, <2>1, <2>2, <2>3, RecordPut
<1>2. CASE ConnectTopic
  <2>1. PICK x \in work.joins :
          records' = With(records, {x[2]}, [RecordOf(x[2]) EXCEPT !.ids = @ \union {x[1]}])
    BY <1>2 DEF ConnectTopic
  <2>2. x[2] \in Topics /\ x[1] \in Nat
    BY DEF Types, RequestsOK, Pairs
  <2>. DEFINE rec == [RecordOf(x[2]) EXCEPT !.ids = @ \union {x[1]}]
  <2>3. rec \in RecType /\ rec.pub = RecordOf(x[2]).pub
    BY <2>2, RecordIs DEF RecType
  <2>4. rec.pub => x[2] \in DOMAIN pubs'
    BY <1>0, <2>3, RecordIs
  <2>. HIDE DEF rec
  <2>5. records' = With(records, {x[2]}, rec)
    BY <2>1 DEF rec
  <2>. QED BY <1>0, <2>2, <2>3, <2>4, <2>5, RecordPut
<1>3. CASE DisconnectTopic
  <2>. DEFINE left(x) == [RecordOf(x[2]) EXCEPT !.ids = @ \ {x[1]}]
  <2>1. PICK x \in work.leaves :
          \/ records' = With(records, {x[2]}, left(x))
          \/ records' = [t \in DOMAIN records \ {x[2]} |-> records[t]]
    BY <1>3 DEF DisconnectTopic
  <2>2. x[2] \in Topics
    BY DEF Types, RequestsOK, WorkType, Pairs
  <2>3. left(x) \in RecType /\ left(x).pub = RecordOf(x[2]).pub
    BY RecordIs DEF RecType
  <2>4. left(x).pub => x[2] \in DOMAIN pubs'
    BY <1>0, <2>3, RecordIs
  <2>. HIDE DEF left
  <2>. QED BY <1>0, <2>1, <2>2, <2>3, <2>4, RecordPut, RecordGone
<1>4. CASE Erase
  BY <1>0, <1>4, RecordGone DEF Erase
<1>5. CASE WorkerExits
  BY <1>5 DEF WorkerExits, RecordsOK
<1>6. ASSUME NEW p \in Topics, Publish(p) PROVE RecordsOK'
  <2>1. CASE UNCHANGED records
    BY <1>0, <2>1 DEF RecordsOK
  <2>2. CASE p \in DOMAIN records /\ records' = [records EXCEPT ![p].value = pubs[p].arg]
    <3>0. pubs[p] \in PubType
      BY <1>6 DEF Publish, Types, PubsOK
    <3>1. records[p] \in RecType /\ pubs[p].arg \in Result
      BY <1>0, <2>2, <3>0 DEF RecordsOK, PubType
    <3>2. [records[p] EXCEPT !.value = pubs[p].arg] \in RecType
      BY <3>1 DEF RecType
    <3>. QED BY <1>0, <2>2, <3>1, <3>2 DEF RecordsOK, RecType
  <2>. QED BY <1>6, <2>1, <2>2 DEF Publish
<1>7. ASSUME UNCHANGED records PROVE RecordsOK'
  BY <1>0, <1>7 DEF RecordsOK
<1>8. /\ FindTargetCellTasks \/ FollowUp \/ MatchTask \/ Subscribe \/ NextCall \/ Finish
           => UNCHANGED records
      /\ Clear \/ TakeBatch \/ Unlist \/ EndBatch \/ UNCHANGED vars => UNCHANGED records
      /\ \A r \in Regions : (\E a \in ArgsOf[r] : Edit(r, a)) => UNCHANGED records
      /\ \A r \in Regions : Evaluate(r) => UNCHANGED records
      /\ \A p \in Topics : TaskEnds(p) => UNCHANGED records
  BY DEF Edit, Evaluate, FindTargetCellTasks, FollowUp, MatchTask, Subscribe, NextCall, Finish,
         Clear, TakeBatch, Unlist, EndBatch, TaskEnds, vars, server
<1>. QED BY <1>1, <1>2, <1>3, <1>4, <1>5, <1>6, <1>7, <1>8 DEF Next, Tasks, Excel, Worker

\* What the requests and the batch hold.
LinksOK == lastId \in Nat /\ link \in [Topics -> 0..lastId]
IdsOK == \A x \in joining \union active \union work.joins : x \in Pairs /\ x[1] \in 1..lastId
WorkOK == /\ work \in WorkType /\ serving \in {"up", "quit", "ended"}
          /\ work.at \in {"unlist", "erase"} => work.id \in DOMAIN pubs

\* Links from cells to topics stay typed.
LEMMA LinksNext == ASSUME Types, [Next]_vars PROVE LinksOK'
<1>0. LinksOK
  BY DEF Types, RequestsOK, LinksOK
<1>1. ASSUME NEW users, Abandon(users), UNCHANGED lastId PROVE LinksOK'
  BY <1>0, <1>1 DEF Abandon, LinksOK
<1>2. CASE Subscribe
  <2>1. CASE UNCHANGED <<link, lastId>>
    BY <1>0, <2>1 DEF LinksOK
  <2>2. CASE lastId' = lastId + 1 /\ link' = [link EXCEPT ![calc.topic] = lastId + 1]
    <3>1. lastId' \in Nat /\ lastId + 1 \in 0..lastId'
      BY <1>0, <2>2 DEF LinksOK
    <3>2. \A t \in Topics : link[t] \in 0..lastId'
      BY <1>0, <2>2, <3>1 DEF LinksOK
    <3>. QED BY <1>0, <2>2, <3>1, <3>2 DEF LinksOK
  <2>. QED BY <1>2, <2>1, <2>2 DEF Subscribe
<1>3. ASSUME NEW r \in Regions, NEW a \in ArgsOf[r], Edit(r, a) PROVE LinksOK'
  BY <1>1, <1>3 DEF Edit
<1>4. CASE Finish
  BY <1>1, <1>4 DEF Finish
<1>5. ASSUME UNCHANGED <<link, lastId>> PROVE LinksOK'
  BY <1>0, <1>5 DEF LinksOK
<1>6. /\ FindTargetCellTasks \/ FollowUp \/ MatchTask \/ StartCellTask \/ NextCall
           => UNCHANGED <<link, lastId>>
      /\ Clear \/ Worker \/ UNCHANGED vars => UNCHANGED <<link, lastId>>
      /\ \A r \in Regions : Evaluate(r) => UNCHANGED <<link, lastId>>
      /\ \A p \in Topics : Publish(p) \/ TaskEnds(p) => UNCHANGED <<link, lastId>>
  BY DEF Evaluate, FindTargetCellTasks, FollowUp, MatchTask, StartCellTask, NextCall, Clear,
         Worker, TakeBatch, ConnectTopic, DisconnectTopic, Unlist, Erase, EndBatch, WorkerExits,
         Publish, TaskEnds, vars
<1>. QED BY <1>2, <1>3, <1>4, <1>5, <1>6 DEF Next, Tasks, Excel

\* Ids stay typed.
LEMMA IdsNext == ASSUME Types, [Next]_vars PROVE IdsOK'
<1>0. IdsOK /\ lastId \in Nat
  BY DEF Types, RequestsOK, IdsOK
<1>1. CASE Subscribe
  <2>1. CASE UNCHANGED <<lastId, joining>>
    BY <1>0, <1>1, <2>1 DEF Subscribe, IdsOK
  <2>2. CASE lastId' = lastId + 1 /\ joining' = joining \union {<<lastId + 1, calc.topic>>}
    <3>1. calc.topic \in Topics
      BY <1>1 DEF Subscribe, Types, CalcOK
    <3>2. <<lastId + 1, calc.topic>> \in Pairs
      BY <1>0, <3>1 DEF Pairs
    <3>3. UNCHANGED <<active, work>>
      BY <1>1 DEF Subscribe
    <3>. QED BY <1>0, <2>2, <3>2, <3>3 DEF IdsOK
  <2>. QED BY <1>1, <2>1, <2>2 DEF Subscribe
<1>2. CASE TakeBatch
  <2>1. work' = [Idle EXCEPT !.at = "serve", !.joins = joining,
                             !.leaves = {x \in active : x[1] \in leaving}]
        /\ active' \subseteq active /\ joining' = {} /\ lastId' = lastId
    BY <1>2 DEF TakeBatch
  <2>2. work'.joins = joining
    BY <2>1 DEF Idle
  <2>. QED BY <1>0, <2>1, <2>2 DEF IdsOK
<1>3. CASE ConnectTopic
  <2>1. PICK x \in work.joins : active' = active \union {x} /\ work' = [work EXCEPT !.joins = @ \ {x}]
    BY <1>3 DEF ConnectTopic
  <2>2. work'.joins \subseteq work.joins
    BY <2>1 DEF Types, RequestsOK, WorkType
  <2>3. UNCHANGED <<joining, lastId>>
    BY <1>3 DEF ConnectTopic
  <2>. QED BY <1>0, <2>1, <2>2, <2>3 DEF IdsOK
<1>4. ASSUME UNCHANGED <<lastId, joining, active>>, work'.joins \subseteq work.joins PROVE IdsOK'
  BY <1>0, <1>4 DEF IdsOK
<1>5. CASE DisconnectTopic
  <2>1. UNCHANGED <<lastId, joining, active>>
    BY <1>5 DEF DisconnectTopic
  <2>2. work'.joins = work.joins
    BY <1>5 DEF DisconnectTopic, Types, RequestsOK, WorkType
  <2>. QED BY <1>4, <2>1, <2>2
<1>6. CASE Unlist \/ Erase
  BY <1>4, <1>6 DEF Unlist, Erase, Types, RequestsOK, WorkType
<1>7. CASE EndBatch
  BY <1>4, <1>7 DEF EndBatch, Idle
<1>8. ASSUME UNCHANGED <<lastId, joining, active, work>> PROVE IdsOK'
  BY <1>0, <1>8 DEF IdsOK
<1>9. /\ FindTargetCellTasks \/ FollowUp \/ MatchTask \/ StartCellTask \/ NextCall \/ Finish
           => UNCHANGED <<lastId, joining, active, work>>
      /\ Clear \/ WorkerExits \/ UNCHANGED vars => UNCHANGED <<lastId, joining, active, work>>
      /\ \A r \in Regions : (\E a \in ArgsOf[r] : Edit(r, a)) \/ Evaluate(r)
           => UNCHANGED <<lastId, joining, active, work>>
      /\ \A p \in Topics : Publish(p) \/ TaskEnds(p) => UNCHANGED <<lastId, joining, active, work>>
  BY DEF Edit, Evaluate, FindTargetCellTasks, FollowUp, MatchTask, StartCellTask, NextCall, Finish,
         Clear, WorkerExits, Publish, TaskEnds, vars, server
<1>. QED BY <1>1, <1>2, <1>3, <1>5, <1>6, <1>7, <1>8, <1>9 DEF Next, Tasks, Excel, Worker

\* The worker's place and locals stay typed.
LEMMA WorkNext == ASSUME Types, [Next]_vars PROVE WorkOK'
<1>0. WorkOK /\ \A p \in DOMAIN pubs : p \in DOMAIN pubs'
  BY PubsNext DEF Types, RequestsOK, WorkOK, PubsGrow
<1>1. CASE TakeBatch
  <2>1. active \subseteq Pairs /\ joining \subseteq Pairs
    BY DEF Types, RequestsOK
  <2>2. Idle \in WorkType
    BY AsyncConstants DEF Idle, WorkType
  <2>. QED BY <1>0, <1>1, <2>1, <2>2 DEF TakeBatch, WorkOK, WorkType
<1>2. CASE ConnectTopic
  <2>1. PICK x \in work.joins : work' = [work EXCEPT !.joins = @ \ {x}]
    BY <1>2 DEF ConnectTopic
  <2>2. work.at = "serve" /\ serving' = serving
    BY <1>2 DEF ConnectTopic
  <2>. QED BY <1>0, <2>1, <2>2 DEF WorkOK, WorkType
<1>3. CASE DisconnectTopic
  <2>1. PICK x \in work.leaves :
          work' = [work EXCEPT !.leaves = @ \ {x}, !.id = x[2],
                               !.at = IF RecordOf(x[2]).pub THEN "unlist" ELSE "serve"]
    BY <1>3 DEF DisconnectTopic
  <2>2. x[2] \in Topics /\ x[2] \in 0..MaxTasks
    BY AsyncConstants DEF Types, RequestsOK, WorkType, Pairs, Topics
  <2>3. RecordOf(x[2]).pub => x[2] \in DOMAIN pubs'
    BY <1>0, RecordIs
  <2>4. serving' = serving
    BY <1>3 DEF DisconnectTopic
  <2>. QED BY <1>0, <2>1, <2>2, <2>3, <2>4 DEF WorkOK, WorkType
<1>4. CASE Unlist
  BY <1>0, <1>4 DEF Unlist, WorkOK, WorkType
<1>5. CASE Erase
  BY <1>0, <1>5 DEF Erase, WorkOK, WorkType
<1>6. CASE EndBatch
  <2>1. Idle \in WorkType /\ Idle.at = "idle"
    BY AsyncConstants DEF Idle, WorkType
  <2>. QED BY <1>0, <1>6, <2>1 DEF EndBatch, WorkOK
<1>7. ASSUME UNCHANGED work, serving' \in {"up", "quit", "ended"} PROVE WorkOK'
  BY <1>0, <1>7 DEF WorkOK
<1>8. CASE Clear \/ WorkerExits
  BY <1>7, <1>8 DEF Clear, WorkerExits
<1>9. ASSUME UNCHANGED <<work, serving>> PROVE WorkOK'
  BY <1>0, <1>9 DEF WorkOK
<1>10. /\ Excel \/ UNCHANGED vars => UNCHANGED <<work, serving>>
       /\ \A r \in Regions : (\E a \in ArgsOf[r] : Edit(r, a)) \/ Evaluate(r)
            => UNCHANGED <<work, serving>>
       /\ \A p \in Topics : Publish(p) \/ TaskEnds(p) => UNCHANGED <<work, serving>>
  BY DEF Excel, Edit, Evaluate, FindTargetCellTasks, FollowUp, MatchTask, StartCellTask,
         Subscribe, NextCall, Finish, Publish, TaskEnds, vars, server
<1>. QED BY <1>1, <1>2, <1>3, <1>4, <1>5, <1>6, <1>8, <1>9, <1>10 DEF Next, Tasks, Worker

\* Every step keeps the types.
LEMMA TypesNext == ASSUME Types, [Next]_vars PROVE Types'
<1>1. SheetOK' /\ PubsOK' /\ RecordsOK'
  BY SheetNext, PubsNext, RecordsNext DEF PubsGrow
<1>2. CalcOK'
  BY CalcNext, CellsNext
<1>3. CellsOK'
  BY CellsNext, ListsNext, KeysNext DEF CellsTyped, CellsOK
<1>4. RequestsOK'
  BY LinksNext, IdsNext, WorkNext DEF LinksOK, IdsOK, WorkOK, RequestsOK
<1>. QED BY <1>1, <1>2, <1>3, <1>4 DEF Types

-----------------------------------------------------------------------------
(***************************************************************************)
(* One task for each argument, and a record for each task listed.          *)
(***************************************************************************)
LEMMA OneTaskNext == ASSUME Types, OneTask, [Next]_vars PROVE OneTask'
<1>1. SUFFICES ASSUME NEW o \in DOMAIN cells', NEW p \in cells'[o].tasks,
                      NEW q \in cells'[o].tasks, pubs'[p].arg = pubs'[q].arg
               PROVE  p = q
  BY DEF OneTask
<1>2. PubsGrow
  BY PubsNext
<1>3. CASE o \in DOMAIN cells /\ p \in cells[o].tasks /\ q \in cells[o].tasks
  <2>1. p \in DOMAIN pubs /\ q \in DOMAIN pubs
    BY <1>3 DEF Types, CellsOK
  <2>2. pubs[p].arg = pubs[q].arg
    BY <1>1, <1>2, <2>1 DEF PubsGrow
  <2>. QED BY <1>3, <2>2 DEF OneTask
<1>4. CASE CellsSame
  BY <1>1, <1>3, <1>4 DEF CellsSame
<1>5. CASE Unlist
  BY <1>1, <1>3, <1>5, UnlistCells
<1>6. CASE StartCellTask
  <2>. DEFINE n == Len(pubs) + 1
              e == [arg |-> formula[calc.region], cell |-> calc.cell, state |-> "new"]
  <2>1. pubs' = Append(pubs, e) /\ e.arg = formula[calc.region]
    BY <1>6, StartCells
  <2>. HIDE DEF e
  <2>2. pubs'[n].arg = formula[calc.region]
    BY <2>1 DEF Types, PubsOK
  <2>3. \A x \in cells[calc.cell].tasks : pubs[x].arg # formula[calc.region]
    BY <1>6 DEF StartCellTask, Matches
  <2>4. \A x \in cells[calc.cell].tasks : pubs'[x].arg # formula[calc.region]
    BY <1>2, <1>6, <2>3, StartCells DEF PubsGrow, Types, CellsOK
  <2>5. CASE o = calc.cell
    <3>1. p \in cells[o].tasks \/ p = n
      BY <1>1, <1>6, <2>5, StartCells
    <3>2. q \in cells[o].tasks \/ q = n
      BY <1>1, <1>6, <2>5, StartCells
    <3>3. o \in DOMAIN cells
      BY <1>6, <2>5, StartCells
    <3>. HIDE DEF n
    <3>. QED BY <1>1, <1>3, <2>2, <2>4, <2>5, <3>1, <3>2, <3>3
  <2>6. CASE o # calc.cell
    BY <1>1, <1>3, <1>6, <2>6, StartCells
  <2>. QED BY <2>5, <2>6
<1>. QED BY <1>4, <1>5, <1>6, CellsNext

\* A record with a publisher stays so, unless it is erased or the server ends.
RecordsKept ==
  \A t \in DOMAIN records : records[t].pub => t \in DOMAIN records' /\ records'[t].pub

\* Only the worker takes records away, one at a time or all when it ends.
LEMMA RecordsStay ==
  ASSUME Types, [Next]_vars
  PROVE  RecordsKept \/ Erase \/ WorkerExits
<1>0. \A t \in DOMAIN records : records[t] \in RecType /\ RecordOf(t) = records[t]
  BY DEF Types, RecordsOK, RecordOf
<1>1. ASSUME NEW t, NEW rec, records' = With(records, {t}, rec),
             t \in DOMAIN records /\ records[t].pub => rec.pub
      PROVE  RecordsKept
  BY <1>1 DEF RecordsKept, With
<1>2. CASE StartCellTask
  <2>. DEFINE rec == [ids |-> {}, value |-> None, pub |-> TRUE]
  <2>1. records' = With(records, {Len(pubs) + 1}, rec)
    BY <1>2 DEF StartCellTask
  <2>2. rec.pub
    OBVIOUS
  <2>. HIDE DEF rec
  <2>. QED BY <1>1, <2>1, <2>2
<1>3. CASE ConnectTopic
  <2>. DEFINE rec(x) == [RecordOf(x[2]) EXCEPT !.ids = @ \union {x[1]}]
  <2>1. PICK x \in work.joins : records' = With(records, {x[2]}, rec(x))
    BY <1>3 DEF ConnectTopic
  <2>2. rec(x).pub = RecordOf(x[2]).pub
    BY RecordIs DEF RecType
  <2>. HIDE DEF rec
  <2>. QED BY <1>0, <1>1, <2>1, <2>2
<1>4. CASE DisconnectTopic
  <2>. DEFINE left(x) == [RecordOf(x[2]) EXCEPT !.ids = @ \ {x[1]}]
  <2>1. PICK x \in work.leaves :
          \/ records' = With(records, {x[2]}, left(x))
          \/ ~RecordOf(x[2]).pub /\ records' = [t \in DOMAIN records \ {x[2]} |-> records[t]]
    BY <1>4 DEF DisconnectTopic
  <2>2. left(x).pub = RecordOf(x[2]).pub
    BY RecordIs DEF RecType
  <2>. HIDE DEF left
  <2>3. CASE records' = With(records, {x[2]}, left(x))
    BY <1>0, <1>1, <2>2, <2>3
  <2>4. CASE ~RecordOf(x[2]).pub /\ records' = [t \in DOMAIN records \ {x[2]} |-> records[t]]
    BY <1>0, <2>4 DEF RecordsKept
  <2>. QED BY <2>1, <2>3, <2>4
<1>5. ASSUME NEW p \in Topics, Publish(p) PROVE RecordsKept
  <2>1. CASE UNCHANGED records
    BY <2>1 DEF RecordsKept
  <2>2. CASE p \in DOMAIN records /\ records' = [records EXCEPT ![p].value = pubs[p].arg]
    <3>1. [records[p] EXCEPT !.value = pubs[p].arg].pub = records[p].pub
      BY <1>0, <2>2 DEF RecType
    <3>. QED BY <2>2, <3>1 DEF RecordsKept
  <2>. QED BY <1>5, <2>1, <2>2 DEF Publish
<1>6. ASSUME UNCHANGED records PROVE RecordsKept
  BY <1>6 DEF RecordsKept
<1>7. /\ FindTargetCellTasks \/ FollowUp \/ MatchTask \/ Subscribe \/ NextCall \/ Finish
           => UNCHANGED records
      /\ Clear \/ TakeBatch \/ Unlist \/ EndBatch \/ UNCHANGED vars => UNCHANGED records
      /\ \A r \in Regions : (\E a \in ArgsOf[r] : Edit(r, a)) \/ Evaluate(r)
           => UNCHANGED records
      /\ \A p \in Topics : TaskEnds(p) => UNCHANGED records
  BY DEF Edit, Evaluate, FindTargetCellTasks, FollowUp, MatchTask, Subscribe, NextCall, Finish,
         Clear, TakeBatch, Unlist, EndBatch, TaskEnds, vars, server
<1>. QED BY <1>2, <1>3, <1>4, <1>5, <1>6, <1>7 DEF Next, Tasks, Excel, Worker

\* A listed task keeps its record.
LEMMA ListedNext ==
  ASSUME Types, ListedKept, ErasedUnlisted, [Next]_vars
  PROVE  ListedKept'
<1>1. SUFFICES ASSUME serving' # "ended", NEW o \in DOMAIN cells', NEW p \in cells'[o].tasks
               PROVE  p \in DOMAIN records' /\ records'[p].pub
  BY DEF ListedKept
<1>2. serving # "ended" /\ ~WorkerExits
  BY <1>1 DEF Next, Tasks, Excel, Worker, Edit, Evaluate, FindTargetCellTasks, FollowUp, MatchTask,
       StartCellTask, Subscribe, NextCall, Finish, Clear, TakeBatch, ConnectTopic,
       DisconnectTopic, Unlist, Erase, EndBatch, WorkerExits, Publish, TaskEnds, vars, server
<1>3. CASE o \in DOMAIN cells /\ p \in cells[o].tasks
  <2>1. p \in DOMAIN records /\ records[p].pub
    BY <1>2, <1>3 DEF ListedKept
  <2>2. CASE RecordsKept
    BY <2>1, <2>2 DEF RecordsKept
  <2>3. CASE Erase
    <3>1. p # work.id
      BY <1>3, <2>3 DEF Erase, ErasedUnlisted
    <3>. QED BY <2>1, <2>3, <3>1 DEF Erase
  <2>. QED BY <1>2, <2>2, <2>3, RecordsStay
<1>4. CASE CellsSame
  BY <1>1, <1>3, <1>4 DEF CellsSame
<1>5. CASE Unlist
  BY <1>1, <1>3, <1>5, UnlistCells
<1>6. CASE StartCellTask
  <2>1. CASE p = Len(pubs) + 1
    <3>. DEFINE rec == [ids |-> {}, value |-> None, pub |-> TRUE]
    <3>1. records' = With(records, {p}, rec)
      BY <1>6, <2>1 DEF StartCellTask
    <3>2. rec.pub
      OBVIOUS
    <3>. HIDE DEF rec
    <3>. QED BY <3>1, <3>2 DEF With
  <2>. QED BY <2>1, <1>1, <1>3, <1>6, StartCells
<1>. QED BY <1>4, <1>5, <1>6, CellsNext

\* What is about to be erased is on no list.
LEMMA ErasedNext ==
  ASSUME Types, ErasedUnlisted, [Next]_vars
  PROVE  ErasedUnlisted'
<1>1. SUFFICES ASSUME work'.at = "erase", NEW o \in DOMAIN cells', work'.id \in cells'[o].tasks
               PROVE  FALSE
  BY DEF ErasedUnlisted
<1>2. CASE Unlist
  <2>1. work'.id = work.id
    BY <1>2 DEF Unlist, Types, RequestsOK, WorkType
  <2>. QED BY <1>1, <1>2, <2>1, UnlistCells
<1>3. ASSUME UNCHANGED work, ~Unlist PROVE FALSE
  <2>1. work.at = "erase" /\ work.id \in DOMAIN pubs /\ work'.id = work.id
    BY <1>1, <1>3 DEF Types, RequestsOK
  <2>2. work.id \in 1..Len(pubs) /\ Len(pubs) \in Nat
    BY <2>1 DEF Types, PubsOK
  <2>3. CASE StartCellTask
    <3>1. work.id # Len(pubs) + 1
      BY <2>2
    <3>. QED BY <1>1, <2>1, <2>3, <3>1, StartCells DEF ErasedUnlisted
  <2>4. CASE CellsSame
    BY <1>1, <2>1, <2>4 DEF CellsSame, ErasedUnlisted
  <2>. QED BY <1>3, <2>3, <2>4, CellsNext
<1>4. ASSUME TakeBatch \/ ConnectTopic \/ DisconnectTopic \/ Erase \/ EndBatch PROVE FALSE
  <2>0. work \in WorkType
    BY DEF Types, RequestsOK
  <2>1. TakeBatch \/ Erase \/ EndBatch => work'.at # "erase"
    <3>1. TakeBatch => work'.at = "serve"
      BY DEF TakeBatch, Idle
    <3>2. Erase => work'.at = "serve"
      BY <2>0 DEF Erase, WorkType
    <3>3. EndBatch => work'.at = "idle"
      BY DEF EndBatch, Idle
    <3>. QED BY <3>1, <3>2, <3>3
  <2>2. ASSUME ConnectTopic PROVE work'.at # "erase"
    <3>1. work.at = "serve" /\ \E x \in work.joins : work' = [work EXCEPT !.joins = @ \ {x}]
      BY <2>2 DEF ConnectTopic
    <3>. QED BY <2>0, <3>1 DEF WorkType
  <2>3. ASSUME DisconnectTopic PROVE work'.at # "erase"
    <3>1. PICK x \in work.leaves :
            work' = [work EXCEPT !.leaves = @ \ {x}, !.id = x[2],
                                 !.at = IF RecordOf(x[2]).pub THEN "unlist" ELSE "serve"]
      BY <2>3 DEF DisconnectTopic
    <3>2. work'.at = IF RecordOf(x[2]).pub THEN "unlist" ELSE "serve"
      BY <2>0, <3>1 DEF WorkType
    <3>. QED BY <3>2
  <2>. QED BY <1>1, <1>4, <2>1, <2>2, <2>3
<1>5. Unlist \/ UNCHANGED work \/ TakeBatch \/ ConnectTopic \/ DisconnectTopic \/ Erase \/ EndBatch
  BY DEF Next, Tasks, Excel, Worker, Edit, Evaluate, FindTargetCellTasks, FollowUp, MatchTask,
     StartCellTask, Subscribe, NextCall, Finish, Clear, WorkerExits, Publish, TaskEnds, vars,
     server
<1>. QED BY <1>2, <1>3, <1>4, <1>5

\* The invariant holds in every behaviour: the lists which getValueAndSubscribe
\* searches and the records of the RTD server agree (RtdAsyncManager.cpp).
THEOREM AsyncInvariant == Spec => []AsyncInv
<1>1. AsyncInv /\ [Next]_vars => AsyncInv'
  BY TypesNext, OneTaskNext, ListedNext, ErasedNext DEF AsyncInv
<1>. QED BY InitInv, <1>1, PTL DEF Spec

\* What every variable may hold.
THEOREM AsyncTypeCorrect == Spec => []TypeOK
<1>1. AsyncInv => TypeOK
  <2>. SUFFICES ASSUME AsyncInv PROVE TypeOK
    OBVIOUS
  <2>1. SheetOK /\ CalcOK /\ PubsOK /\ CellsOK /\ RecordsOK /\ RequestsOK
    BY DEF AsyncInv, Types
  <2>2. /\ formula \in [Regions -> Args \union {None}] /\ shown \in [Regions -> Args \union {None}]
        /\ dirty \subseteq Regions /\ used \in [Regions -> SUBSET Topics]
        /\ calc = None \/ calc \in CalcType
    BY <2>1 DEF SheetOK, CalcOK, Result
  <2>3. \A o \in DOMAIN cells : /\ cells[o].tasks \subseteq DOMAIN pubs
                                /\ cells[o].count \in Nat /\ cells[o].topic \in 0..MaxTasks
    <3>1. SUFFICES ASSUME NEW o \in DOMAIN cells
                   PROVE  /\ cells[o].tasks \subseteq DOMAIN pubs
                          /\ cells[o].count \in Nat /\ cells[o].topic \in 0..MaxTasks
      OBVIOUS
    <3>2. cells[o] \in CellType /\ cells[o].tasks \subseteq DOMAIN pubs
      BY <2>1 DEF CellsOK
    <3>. QED BY <3>2 DEF CellType
  <2>4. DOMAIN pubs \subseteq Topics
    BY <2>1, AsyncConstants DEF PubsOK, Topics
  <2>5. /\ link \in [Topics -> 0..lastId]
        /\ \A x \in joining \union active : x[1] \in 1..lastId /\ x[2] \in Topics
        /\ work.at \in {"idle", "serve", "unlist", "erase"} /\ serving \in {"up", "quit", "ended"}
    BY <2>1 DEF RequestsOK, Pairs, WorkType
  <2>. QED BY <2>1, <2>2, <2>3, <2>4, <2>5 DEF TypeOK, CellsOK, RecordsOK
<1>. QED BY <1>1, AsyncInvariant, PTL

\* No cell has two tasks with the same arguments, whatever is edited and recalculated.
THEOREM OneTaskPerCell == Spec => []OneTask
<1>1. AsyncInv => OneTask
  BY DEF AsyncInv
<1>. QED BY <1>1, AsyncInvariant, PTL

\* A call never finds a task whose record has gone.
THEOREM ListedTasksHaveRecords == Spec => []ListedHasRecord
<1>1. AsyncInv => ListedHasRecord
  BY DEF AsyncInv, ListedKept, ListedHasRecord
<1>. QED BY <1>1, AsyncInvariant, PTL

-----------------------------------------------------------------------------
(***************************************************************************)
(* Results. A call is taken for a follow-up of an array formula by its     *)
(* cell alone, and then gets the array's topic without a look at its       *)
(* arguments. That is its own result if no other formula is ever called in *)
(* the first cell of a region which may hold an array formula.             *)
(***************************************************************************)
\* The cells which Excel names in the calls of a region's formula.
Called(r) == IF Cycles THEN r[1]..r[2] ELSE {r[1]}
FirstCellsApart == \A r, s \in Regions : r # s /\ Size(s) > 1 => s[1] \notin Called(r)

Home(ref) == <<ref[1], Sheet>>

\* Calls after the first are those of an array formula, in its cells.
Following ==
  calc # None =>
    /\ calc.ref # calc.region =>
         Size(calc.region) > 1 /\ \E n \in Called(calc.region) : calc.ref = <<n, n>>
    /\ calc.left > 0 => Size(calc.region) > 1

\* A cell's tasks are found under its number, and only in the first cell of an array
\* formula are there calls to count.
Keyed == \A k \in DOMAIN tasksAt : cells[tasksAt[k]].caller[1] = k[1]
Counting ==
  \A o \in DOMAIN cells : cells[o].count > 0 =>
    \E s \in Regions : Size(s) > 1 /\ s[1] = cells[o].caller[1]

Found ==
  calc # None /\ calc.at = "match" =>
    Home(calc.ref) \in DOMAIN tasksAt /\ calc.cell = tasksAt[Home(calc.ref)]

\* From its first call on an array formula's topic is that of its own task.
OwnTopic(o) ==
  cells[o].count > 0 =>
    cells[o].topic \in DOMAIN pubs /\ pubs[cells[o].topic].arg = formula[calc.region]
InHand ==
  calc # None /\ Size(calc.region) > 1
    /\ (calc.ref # calc.region \/ calc.at \in {"subscribe", "return"}) =>
      Home(calc.region) \in DOMAIN tasksAt /\ OwnTopic(tasksAt[Home(calc.region)])

\* What the call subscribes to, and returns, is that task or its result.
Answered ==
  calc # None =>
    /\ calc.at = "subscribe" =>
         calc.topic \in DOMAIN pubs /\ pubs[calc.topic].arg = formula[calc.region]
    /\ calc.at = "return" => calc.result \in {None, formula[calc.region]}

\* A record's value is the result of the task whose topic it has.
Valued ==
  \A t \in DOMAIN records : records[t].value # None =>
    t \in DOMAIN pubs /\ records[t].value = pubs[t].arg

Calls == Following /\ Keyed /\ Counting /\ Found /\ InHand /\ Answered
OwnInv == AsyncInv /\ Calls /\ Valued /\ OwnResult

\* Steps which do not touch what calls depend on.
CellsKept ==
  /\ DOMAIN cells' = DOMAIN cells
  /\ \A o \in DOMAIN cells : /\ cells'[o].caller = cells[o].caller
                             /\ cells'[o].count = cells[o].count
                             /\ cells'[o].topic = cells[o].topic
Calm ==
  /\ UNCHANGED calc /\ CellsKept
  /\ calc # None => UNCHANGED <<formula, tasksAt>>
  /\ UNCHANGED tasksAt \/ tasksAt' = <<>>

\* Whoever edits, serves requests or publishes leaves the calls alone.
LEMMA OthersCalm ==
  ASSUME Types, [Next]_vars
  PROVE  Calm \/ Excel
<1>1. CASE Unlist
  <2>1. cells' = [cells EXCEPT ![pubs[work.id].cell].tasks = @ \ {work.id}]
    BY <1>1 DEF Unlist, Unlisted
  <2>2. \A o \in DOMAIN cells : cells[o] \in CellType
    BY DEF Types, CellsOK
  <2>3. CellsKept
    BY <2>1, <2>2 DEF CellsKept, CellType
  <2>. QED BY <1>1, <2>3 DEF Unlist, Calm, sheet
<1>2. CASE TakeBatch \/ ConnectTopic \/ DisconnectTopic \/ Erase \/ EndBatch \/ WorkerExits
  BY <1>2 DEF Calm, CellsKept, TakeBatch, ConnectTopic, DisconnectTopic, Erase, EndBatch,
              WorkerExits, sheet, manager
<1>3. CASE Clear
  BY <1>3 DEF Clear, Calm, CellsKept
<1>4. ASSUME NEW r \in Regions, NEW a \in ArgsOf[r], Edit(r, a) PROVE Calm
  BY <1>4 DEF Edit, Calm, CellsKept, manager
<1>5. ASSUME NEW p \in Topics, Publish(p) \/ TaskEnds(p) PROVE Calm
  BY <1>5 DEF Publish, TaskEnds, Calm, CellsKept, sheet, manager
<1>6. CASE UNCHANGED vars
  BY <1>6 DEF vars, Calm, CellsKept
<1>. QED BY <1>1, <1>2, <1>3, <1>4, <1>5, <1>6 DEF Next, Tasks, Worker

\* The calculation's record and its cells, as the calls need them.
LEMMA CalcIs ==
  ASSUME Types, calc # None
  PROVE  /\ calc \in CalcType
         /\ calc.at = "match" => calc.cell \in DOMAIN cells
         /\ calc.region \in Regions /\ Size(calc.region) \in Nat
         /\ calc.region[1] \in Called(calc.region)
<1>1. calc \in CalcType /\ (calc.at = "match" => calc.cell \in DOMAIN cells)
  BY DEF Types, CalcOK
<1>2. calc.region \in Nat \X Nat /\ calc.region[1] <= calc.region[2]
  BY <1>1, AsyncConstants DEF CalcType
<1>. QED BY <1>1, <1>2, SizeIs DEF Called

LEMMA CalmStep == ASSUME Types, Types', Calls, Calm, PubsGrow PROVE Calls'
<1>1. /\ \A k \in DOMAIN tasksAt : tasksAt[k] \in DOMAIN cells
      /\ UNCHANGED tasksAt \/ DOMAIN tasksAt' = {}
  BY DEF Types, CellsOK, Calm
<1>2. Following'
  BY DEF Calls, Calm, Following
<1>3. Keyed'
  BY <1>1 DEF Calls, Calm, CellsKept, Keyed
<1>4. Counting'
  BY DEF Calls, Calm, CellsKept, Counting
<1>5. Found'
  BY DEF Calls, Calm, Found
<1>6. InHand'
  BY <1>1 DEF Calls, Calm, CellsKept, InHand, OwnTopic, PubsGrow
<1>7. Answered'
  BY DEF Calls, Calm, Answered, PubsGrow
<1>. QED BY <1>2, <1>3, <1>4, <1>5, <1>6, <1>7 DEF Calls


\* An evaluation begins: no call has been made.
LEMMA EvaluateStep ==
  ASSUME Types, Types', Calls, NEW r \in Regions, Evaluate(r) PROVE Calls'
<1>1. /\ calc'.region = r /\ calc'.ref = r /\ calc'.left = 0 /\ calc'.at = "find"
      /\ UNCHANGED <<tasksAt, cells>>
  BY DEF Evaluate, manager
<1>. QED BY <1>1 DEF Calls, Following, Keyed, Counting, Found, InHand, Answered

\* A call finds, or makes, the tasks of the cell it names.
LEMMA FindStep == ASSUME Types, Types', Calls, FindTargetCellTasks PROVE Calls'
<1>. DEFINE home == Home(calc.ref)
            others == IF Size(calc.ref) > 1
                      THEN {<<calc.ref[1], n>> : n \in calc.ref[1]..calc.ref[2]} ELSE {}
            o == IF home \in DOMAIN tasksAt THEN tasksAt[home] ELSE Len(cells) + 1
<1>1. /\ calc # None /\ calc.at = "find"
      /\ calc' = [calc EXCEPT !.at = "match", !.cell = o]
      /\ tasksAt' = With(tasksAt, others \union {home}, o)
      /\ UNCHANGED <<formula, pubs>>
  BY DEF FindTargetCellTasks, Home, sheet
<1>2. /\ calc'.region = calc.region /\ calc'.ref = calc.ref /\ calc'.left = calc.left
      /\ calc'.at = "match" /\ calc'.cell = o
  BY <1>1, CalcIs DEF CalcType
<1>3. /\ DOMAIN tasksAt' = DOMAIN tasksAt \union others \union {home}
      /\ \A k \in others \union {home} : tasksAt'[k] = o
      /\ \A k \in DOMAIN tasksAt \ (others \union {home}) : tasksAt'[k] = tasksAt[k]
  BY <1>1 DEF With
<1>4. /\ \A k \in others \union {home} : k[1] = calc.ref[1]
      /\ \A k \in DOMAIN tasksAt : tasksAt[k] \in DOMAIN cells
  BY DEF Home, Types, CellsOK
<1>5. /\ o \in DOMAIN cells' /\ cells'[o].caller[1] = calc.ref[1]
      /\ \A x \in DOMAIN cells : /\ x \in DOMAIN cells'
                                 /\ cells'[x].caller[1] = cells[x].caller[1]
                                 /\ cells'[x].count = cells[x].count
                                 /\ cells'[x].topic = cells[x].topic
      /\ \A x \in DOMAIN cells' \ DOMAIN cells : cells'[x].count = 0
  <2>0. calc.ref \in Nat \X Nat
    BY <1>1, CalcIs DEF CalcType
  <2>1. CASE home \notin DOMAIN tasksAt
    <3>1. cells' = Append(cells, [tasks |-> {}, count |-> 0, topic |-> 0, caller |-> calc.ref])
      BY <2>1 DEF FindTargetCellTasks, Home
    <3>. QED BY <2>1, <3>1 DEF Types, CellsOK
  <2>2. CASE home \in DOMAIN tasksAt
    <3>1. cells' = cells \/ cells' = [cells EXCEPT ![o].caller = calc.ref]
      BY <2>2 DEF FindTargetCellTasks, Home
    <3>2. o \in DOMAIN cells /\ cells[o].caller[1] = calc.ref[1]
      BY <2>2, <1>4 DEF Calls, Keyed, Home
    <3>3. \A x \in DOMAIN cells : cells[x] \in CellType
      BY DEF Types, CellsOK
    <3>4. CASE cells' = cells
      BY <3>2, <3>4
    <3>5. CASE cells' = [cells EXCEPT ![o].caller = calc.ref]
      <4>1. /\ DOMAIN cells' = DOMAIN cells
            /\ \A x \in DOMAIN cells \ {o} : cells'[x] = cells[x]
            /\ cells'[o] = [cells[o] EXCEPT !.caller = calc.ref]
        BY <3>2, <3>5
      <4>2. PICK e : e = [cells[o] EXCEPT !.caller = calc.ref]
        OBVIOUS
      <4>3. e.caller = calc.ref /\ e.count = cells[o].count /\ e.topic = cells[o].topic
        BY <3>2, <3>3, <4>2 DEF CellType
      <4>. HIDE DEF o
      <4>. QED BY <3>2, <4>1, <4>2, <4>3
    <3>. QED BY <3>1, <3>4, <3>5
  <2>. QED BY <2>1, <2>2
<1>. HIDE DEF o, others
<1>6. Following'
  BY <1>1, <1>2 DEF Calls, Following
<1>7. Keyed'
  BY <1>3, <1>4, <1>5 DEF Calls, Keyed
<1>8. Counting'
  BY <1>5 DEF Calls, Counting
<1>9. Found'
  BY <1>2, <1>3 DEF Found, Home
<1>10. InHand'
  <2>. DEFINE h == Home(calc.region)
  <2>1. SUFFICES ASSUME Size(calc.region) > 1, calc.ref # calc.region
                 PROVE  h \in DOMAIN tasksAt' /\ OwnTopic(tasksAt[h])'
    BY <1>2 DEF InHand
  <2>2. h \in DOMAIN tasksAt /\ OwnTopic(tasksAt[h])
    BY <1>1, <2>1 DEF Calls, InHand
  <2>3. PICK n : calc.ref = <<n, n>>
    BY <1>1, <2>1 DEF Calls, Following
  <2>4. others = {} /\ Size(calc.ref) = 1
    BY <1>1, <2>3, SizeIs DEF others, Size
  <2>5. tasksAt'[h] = tasksAt[h] /\ h \in DOMAIN tasksAt'
    BY <1>3, <2>2, <2>4 DEF o
  <2>. QED BY <1>1, <1>2, <1>4, <1>5, <2>2, <2>5 DEF OwnTopic
<1>11. Answered'
  BY <1>2 DEF Answered
<1>. QED BY <1>6, <1>7, <1>8, <1>9, <1>10, <1>11 DEF Calls

\* A call which is taken for a follow-up is one, of the region's own array formula.
LEMMA FollowUpIsOwn ==
  ASSUME Types, Calls, FirstCellsApart, FollowUp
  PROVE  /\ calc.ref # calc.region /\ Size(calc.region) > 1
         /\ Home(calc.ref) = Home(calc.region)
         /\ calc.cell = tasksAt[Home(calc.region)] /\ OwnTopic(calc.cell)
<1>1. /\ calc # None /\ calc.at = "match"
      /\ Size(calc.ref) = 1 /\ cells[calc.cell].count > 0
  BY DEF FollowUp, Expected
<1>2. Home(calc.ref) \in DOMAIN tasksAt /\ calc.cell = tasksAt[Home(calc.ref)]
  BY <1>1 DEF Calls, Found
<1>3. calc.cell \in DOMAIN cells /\ cells[calc.cell].caller[1] = calc.ref[1]
  BY <1>1, <1>2, CalcIs DEF Calls, Keyed, Home
<1>4. PICK s \in Regions : Size(s) > 1 /\ s[1] = calc.ref[1]
  BY <1>1, <1>3 DEF Calls, Counting
<1>5. calc.region \in Regions /\ calc.region[1] \in Called(calc.region)
  BY <1>1, CalcIs
<1>6. s = calc.region
  <2>1. calc.ref[1] \in Called(calc.region)
    BY <1>1, <1>5 DEF Calls, Following
  <2>. QED BY <1>4, <1>5, <2>1 DEF FirstCellsApart
<1>7. calc.ref # calc.region
  BY <1>1, <1>4, <1>6
<1>8. Home(calc.ref) = Home(calc.region)
  BY <1>4, <1>6 DEF Home
<1>. QED BY <1>1, <1>2, <1>4, <1>6, <1>7, <1>8 DEF Calls, InHand

\* A step which changes the cell in hand, and nothing else that is there to be found.
LEMMA CellStep ==
  ASSUME Types, Calls, calc # None, calc.at = "match", NEW e \in CellType,
         cells' = [cells EXCEPT ![calc.cell] = e],
         UNCHANGED <<tasksAt, formula>>, PubsGrow,
         e.caller = cells[calc.cell].caller,
         e.count > 0 => \E s \in Regions : Size(s) > 1 /\ s[1] = e.caller[1],
         calc'.region = calc.region, calc'.ref = calc.ref, calc'.left = calc.left,
         calc'.at \in {"subscribe", "return"},
         Size(calc.region) > 1 /\ Home(calc.region) = Home(calc.ref) /\ e.count > 0 =>
           e.topic \in DOMAIN pubs' /\ pubs'[e.topic].arg = formula[calc.region],
         Answered'
  PROVE  Calls'
<1>1. calc.cell \in DOMAIN cells
  BY CalcIs
<1>2. /\ DOMAIN cells' = DOMAIN cells /\ cells'[calc.cell] = e
      /\ \A x \in DOMAIN cells \ {calc.cell} : cells'[x] = cells[x]
  BY <1>1
<1>3. \A k \in DOMAIN tasksAt : tasksAt[k] \in DOMAIN cells
  BY DEF Types, CellsOK
<1>4. Following'
  BY DEF Calls, Following
<1>5. Keyed'
  BY <1>2, <1>3 DEF Calls, Keyed
<1>6. Counting'
  BY <1>2 DEF Calls, Counting
<1>7. Found'
  BY DEF Found
<1>8. InHand'
  <2>. DEFINE h == Home(calc.region)
  <2>1. SUFFICES ASSUME Size(calc.region) > 1
                 PROVE  h \in DOMAIN tasksAt /\ OwnTopic(tasksAt[h])'
    BY DEF InHand
  <2>2. Home(calc.ref) \in DOMAIN tasksAt /\ calc.cell = tasksAt[Home(calc.ref)]
    BY DEF Calls, Found
  <2>3. CASE calc.ref = calc.region
    BY <1>2, <2>1, <2>2, <2>3 DEF OwnTopic
  <2>4. CASE calc.ref # calc.region
    <3>1. h \in DOMAIN tasksAt /\ OwnTopic(tasksAt[h])
      BY <2>1, <2>4 DEF Calls, InHand
    <3>2. CASE tasksAt[h] # calc.cell
      BY <1>2, <1>3, <3>1, <3>2 DEF OwnTopic, PubsGrow
    <3>3. CASE tasksAt[h] = calc.cell
      <4>1. h = Home(calc.ref)
        BY <2>2, <3>1, <3>3 DEF Calls, Keyed, Home
      <4>. QED BY <1>2, <2>1, <3>1, <3>3, <4>1 DEF OwnTopic
    <3>. QED BY <3>1, <3>2, <3>3
  <2>. QED BY <2>3, <2>4
<1>. QED BY <1>4, <1>5, <1>6, <1>7, <1>8 DEF Calls

\* A follow-up call gets the array's own topic.
LEMMA FollowUpStep ==
  ASSUME Types, Types', Calls, FirstCellsApart, FollowUp, PubsGrow PROVE Calls'
<1>. DEFINE c == cells[calc.cell]
<1>1. /\ calc # None /\ calc.at = "match" /\ c.count > 0
      /\ cells' = [cells EXCEPT ![calc.cell] = [c EXCEPT !.count = @ - 1]]
      /\ calc' = [calc EXCEPT !.at = "subscribe", !.topic = c.topic]
      /\ UNCHANGED <<tasksAt, formula, pubs>>
  BY DEF FollowUp, Expected, sheet
<1>2. calc.cell \in DOMAIN cells /\ c \in CellType
  BY <1>1, CalcIs DEF Types, CellsOK
<1>3. PICK e : e = [c EXCEPT !.count = @ - 1]
  OBVIOUS
<1>4. e \in CellType /\ e.caller = c.caller /\ e.topic = c.topic
  BY <1>1, <1>2, <1>3 DEF CellType
<1>5. /\ calc'.region = calc.region /\ calc'.ref = calc.ref /\ calc'.left = calc.left
      /\ calc'.at = "subscribe" /\ calc'.topic = c.topic
  BY <1>1, CalcIs DEF CalcType
<1>6. c.topic \in DOMAIN pubs /\ pubs[c.topic].arg = formula[calc.region]
  BY <1>1, FollowUpIsOwn DEF OwnTopic
<1>7. Answered'
  BY <1>1, <1>5, <1>6 DEF Answered
<1>8. \E s \in Regions : Size(s) > 1 /\ s[1] = e.caller[1]
  BY <1>1, <1>2, <1>4 DEF Calls, Counting
<1>9. cells' = [cells EXCEPT ![calc.cell] = e]
  BY <1>1, <1>3
<1>. HIDE DEF c
<1>. QED BY <1>1, <1>4, <1>5, <1>6, <1>7, <1>8, <1>9, CellStep DEF c

\* The count which the first call of an array formula begins.
LEMMA CountedCell ==
  ASSUME Types, Calls, calc # None, NEW c \in CellType, c.caller[1] = calc.ref[1],
         NEW t \in Topics
  PROVE  /\ Counted(c, t) \in CellType /\ Counted(c, t).tasks = c.tasks
         /\ Counted(c, t).caller = c.caller
         /\ Counted(c, t).count > 0 => /\ Counted(c, t).topic = t
                                       /\ \E s \in Regions : Size(s) > 1 /\ s[1] = c.caller[1]
<1>1. Size(calc.ref) > 1 => calc.ref = calc.region
  BY SizeIs
<1>2. calc.region \in Regions /\ 0 \in 0..MaxTasks
  BY CalcIs, AsyncConstants
<1>3. CASE Size(calc.ref) > 1
  BY <1>1, <1>2, <1>3, CountedIs DEF Counted, CellType
<1>4. CASE ~(Size(calc.ref) > 1)
  <2>. DEFINE e == [c EXCEPT !.count = 0, !.topic = 0]
  <2>1. e.count = 0 /\ e.caller = c.caller /\ Counted(c, t) = e
    BY <1>4 DEF CellType, Counted
  <2>. HIDE DEF e
  <2>. QED BY <2>1, CountedIs
<1>. QED BY <1>3, <1>4

\* A call which finds a task takes one of its own arguments.
LEMMA MatchStep ==
  ASSUME Types, Types', Calls, Valued, MatchTask, PubsGrow PROVE Calls'
<1>. DEFINE c == cells[calc.cell]
<1>1. PICK p \in c.tasks :
        /\ calc # None /\ calc.at = "match"
        /\ pubs[p].arg = formula[calc.region]
        /\ cells' = [cells EXCEPT ![calc.cell] = Counted(c, p)]
        /\ calc' = IF Peeked(p) THEN [calc EXCEPT !.at = "return", !.result = Peek(p)]
                   ELSE [calc EXCEPT !.at = "subscribe", !.topic = p]
        /\ UNCHANGED <<tasksAt, formula, pubs>>
  BY DEF MatchTask, Matches, sheet
<1>2. calc.cell \in DOMAIN cells /\ c \in CellType /\ p \in DOMAIN pubs
  BY <1>1, CalcIs DEF Types, CellsOK
<1>3. p \in Topics
  BY <1>1, <1>2 DEF CellType
<1>4. c.caller[1] = calc.ref[1]
  BY <1>1, <1>2 DEF Calls, Found, Keyed, Home
<1>5. /\ calc'.region = calc.region /\ calc'.ref = calc.ref /\ calc'.left = calc.left
      /\ \/ calc'.at = "return" /\ calc'.result = Peek(p)
         \/ calc'.at = "subscribe" /\ calc'.topic = p
  BY <1>1, CalcIs DEF CalcType
<1>6. Peek(p) \in {None, pubs[p].arg}
  BY DEF Peek, Valued
<1>7. Answered'
  BY <1>1, <1>2, <1>5, <1>6 DEF Answered
<1>. HIDE DEF c
<1>8. /\ Counted(c, p) \in CellType /\ Counted(c, p).caller = c.caller
      /\ Counted(c, p).count > 0 => /\ Counted(c, p).topic = p
                                    /\ \E s \in Regions : Size(s) > 1 /\ s[1] = c.caller[1]
  BY <1>1, <1>2, <1>4, <1>3, CountedCell
<1>. QED BY <1>1, <1>2, <1>5, <1>7, <1>8, CellStep DEF c

\* A call which finds none starts one of its own arguments.
LEMMA StartStep ==
  ASSUME Types, Types', Calls, StartCellTask, PubsGrow PROVE Calls'
<1>. DEFINE p == Len(pubs) + 1
            c == [cells[calc.cell] EXCEPT !.tasks = @ \union {p}]
<1>1. /\ calc # None /\ calc.at = "match" /\ p <= MaxTasks
      /\ cells' = [cells EXCEPT ![calc.cell] = Counted(c, p)]
      /\ calc' = [calc EXCEPT !.at = "subscribe", !.topic = p]
      /\ pubs' = Append(pubs, [arg |-> formula[calc.region], cell |-> calc.cell,
                               state |-> "new"])
      /\ UNCHANGED <<tasksAt, formula>>
  BY DEF StartCellTask, sheet
<1>2. calc.cell \in DOMAIN cells /\ cells[calc.cell] \in CellType /\ p \in Topics
  BY <1>1, CalcIs, AsyncConstants DEF Types, CellsOK, PubsOK, Topics
<1>3. cells[calc.cell].caller[1] = calc.ref[1]
  BY <1>1, <1>2 DEF Calls, Found, Keyed, Home
<1>4. /\ calc'.region = calc.region /\ calc'.ref = calc.ref /\ calc'.left = calc.left
      /\ calc'.at = "subscribe" /\ calc'.topic = p
  BY <1>1, CalcIs DEF CalcType
<1>5. p \in DOMAIN pubs' /\ pubs'[p].arg = formula[calc.region]
  BY <1>1 DEF Types, PubsOK
<1>6. Answered'
  BY <1>1, <1>4, <1>5 DEF Answered
<1>7. c \in CellType /\ c.caller = cells[calc.cell].caller
  BY <1>2 DEF CellType
<1>. HIDE DEF c, p
<1>8. /\ Counted(c, p) \in CellType /\ Counted(c, p).caller = c.caller
      /\ Counted(c, p).count > 0 => /\ Counted(c, p).topic = p
                                    /\ \E s \in Regions : Size(s) > 1 /\ s[1] = c.caller[1]
  BY <1>1, <1>2, <1>3, <1>7, CountedCell
<1>. QED BY <1>1, <1>2, <1>4, <1>5, <1>6, <1>7, <1>8, CellStep

\* A call subscribes, returns, and the next one begins: no cell is touched.
LEMMA SubscribeStep == ASSUME Types, Types', Calls, Valued, Subscribe PROVE Calls'
<1>1. /\ calc # None /\ calc.at = "subscribe" /\ UNCHANGED <<formula, pubs, tasksAt, cells>>
      /\ \E n : /\ calc' = [calc EXCEPT !.at = "return", !.topics = @ \union {calc.topic},
                                        !.result = Peek(calc.topic), !.left = n]
                /\ n = IF Size(calc.ref) > 1 THEN Size(calc.ref) ELSE calc.left
  BY DEF Subscribe, sheet, manager
<1>2. /\ calc'.region = calc.region /\ calc'.ref = calc.ref /\ calc'.at = "return"
      /\ calc'.result = Peek(calc.topic)
      /\ calc'.left = IF Size(calc.ref) > 1 THEN Size(calc.ref) ELSE calc.left
  BY <1>1, CalcIs DEF CalcType
<1>3. Peek(calc.topic) \in {None, formula[calc.region]}
  BY <1>1 DEF Calls, Answered, Peek, Valued
<1>4. Following'
  BY <1>1, <1>2, SizeIs DEF Calls, Following
<1>5. InHand'
  BY <1>1, <1>2 DEF Calls, InHand, OwnTopic
<1>. QED BY <1>1, <1>2, <1>3, <1>4, <1>5 DEF Calls, Keyed, Counting, Found, Answered

LEMMA NextCallStep == ASSUME Types, Types', Calls, NextCall PROVE Calls'
<1>. DEFINE r == calc.region
            n == IF Cycles THEN r[2] - calc.left + 1 ELSE r[1]
<1>1. /\ calc # None /\ calc.at = "return" /\ calc.left > 0
      /\ UNCHANGED <<formula, pubs, tasksAt, cells>>
      /\ calc' = [calc EXCEPT !.at = "find", !.ref = <<n, n>>, !.left = @ - 1]
  BY DEF NextCall, sheet, manager
<1>2. calc'.region = r /\ calc'.ref = <<n, n>> /\ calc'.at = "find"
  BY <1>1, CalcIs DEF CalcType
<1>3. Size(r) > 1
  BY <1>1 DEF Calls, Following
<1>4. n \in Called(r)
  <2>1. calc.left \in Nat /\ calc.left <= Size(r) /\ r[1] \in Nat /\ r[2] \in Nat
    BY <1>1, SizeIs DEF Types, CalcOK, CalcType
  <2>. QED BY <1>1, <1>3, <2>1 DEF Called, Size
<1>5. Following'
  BY <1>2, <1>3, <1>4 DEF Following
<1>6. InHand'
  BY <1>1, <1>2, <1>3 DEF Calls, InHand, OwnTopic
<1>. QED BY <1>1, <1>2, <1>5, <1>6 DEF Calls, Keyed, Counting, Found, Answered

LEMMA FinishStep == ASSUME Types, Types', Calls, Finish PROVE Calls'
<1>1. calc' = None /\ UNCHANGED <<tasksAt, cells>>
  BY DEF Finish, manager
<1>. QED BY <1>1 DEF Calls, Following, Keyed, Counting, Found, InHand, Answered

\* Whatever comes next, the calls stay in order.
LEMMA CallsNext ==
  ASSUME Types, Types', Calls, Valued, FirstCellsApart, [Next]_vars PROVE Calls'
<1>1. PubsGrow
  BY PubsNext
<1>. QED BY <1>1, OthersCalm, CalmStep, EvaluateStep, FindStep, FollowUpStep, MatchStep,
            StartStep, SubscribeStep, NextCallStep, FinishStep DEF Excel

\* A record's value is its task's result: the only step which writes one is a publication.
LEMMA ValuedNext == ASSUME Types, Valued, [Next]_vars PROVE Valued'
<1>1. PubsGrow
  BY PubsNext
<1>. DEFINE Fewer == \A t \in DOMAIN records' :
                       \/ records'[t].value = None
                       \/ t \in DOMAIN records /\ records'[t].value = records[t].value
<1>2. ASSUME Fewer PROVE Valued'
  BY <1>1, <1>2 DEF Valued, PubsGrow
<1>3. CASE StartCellTask
  <2>1. PICK v : v = [ids |-> {}, value |-> None, pub |-> TRUE]
    OBVIOUS
  <2>2. v.value = None /\ records' = With(records, {Len(pubs) + 1}, v)
    BY <1>3, <2>1 DEF StartCellTask
  <2>3. Fewer
    BY <2>2 DEF With
  <2>. QED BY <1>2, <2>3
<1>4. ASSUME NEW x, NEW S, records' = With(records, {x}, [RecordOf(x) EXCEPT !.ids = S])
      PROVE Fewer
  <2>1. PICK v : v = [RecordOf(x) EXCEPT !.ids = S]
    OBVIOUS
  <2>2. RecordOf(x) \in RecType /\ v.value = RecordOf(x).value
    BY <2>1, RecordIs DEF RecType
  <2>3. x \notin DOMAIN records => RecordOf(x).value = None
    BY DEF RecordOf, NoRecord
  <2>4. x \in DOMAIN records => RecordOf(x) = records[x]
    BY DEF RecordOf
  <2>5. records' = With(records, {x}, v)
    BY <1>4, <2>1
  <2>. QED BY <2>2, <2>3, <2>4, <2>5 DEF With
<1>5. ASSUME NEW x, records' = [t \in DOMAIN records \ {x} |-> records[t]] PROVE Fewer
  BY <1>5
<1>6. CASE ConnectTopic
  <2>1. PICK x : \E S : records' = With(records, {x}, [RecordOf(x) EXCEPT !.ids = S])
    BY <1>6 DEF ConnectTopic
  <2>. QED BY <1>2, <1>4, <2>1
<1>7. CASE DisconnectTopic
  <2>1. PICK x : \/ \E S : records' = With(records, {x}, [RecordOf(x) EXCEPT !.ids = S])
                 \/ records' = [t \in DOMAIN records \ {x} |-> records[t]]
    BY <1>7 DEF DisconnectTopic
  <2>. QED BY <1>2, <1>4, <1>5, <2>1
<1>8. CASE Erase
  BY <1>2, <1>5, <1>8 DEF Erase
<1>9. CASE WorkerExits
  BY <1>9 DEF WorkerExits, Valued
<1>10. ASSUME NEW p \in Topics, Publish(p) PROVE Valued'
  <2>1. CASE p \in DOMAIN records /\ serving = "up"
    <3>1. records' = [records EXCEPT ![p].value = pubs[p].arg] /\ p \in DOMAIN pubs
      BY <1>10, <2>1 DEF Publish
    <3>2. records[p] \in RecType
      BY <2>1 DEF Types, RecordsOK
    <3>3. /\ DOMAIN records' = DOMAIN records /\ records'[p].value = pubs[p].arg
          /\ \A t \in DOMAIN records \ {p} : records'[t] = records[t]
      BY <2>1, <3>1, <3>2 DEF RecType
    <3>. QED BY <1>1, <3>1, <3>3 DEF Valued, PubsGrow
  <2>2. CASE ~(p \in DOMAIN records /\ serving = "up")
    <3>1. UNCHANGED records
      BY <1>10, <2>2 DEF Publish
    <3>. QED BY <1>2, <3>1
  <2>. QED BY <2>1, <2>2
<1>11. ASSUME UNCHANGED records PROVE Valued'
  BY <1>2, <1>11
<1>12. \/ StartCellTask \/ ConnectTopic \/ DisconnectTopic \/ Erase \/ WorkerExits
       \/ \E p \in Topics : Publish(p)
       \/ UNCHANGED records
  BY DEF Next, Tasks, Excel, Worker, Edit, Evaluate, FindTargetCellTasks, FollowUp, MatchTask,
     Subscribe, NextCall, Finish, Clear, TakeBatch, Unlist, EndBatch, TaskEnds, vars, server
<1>. QED BY <1>3, <1>6, <1>7, <1>8, <1>9, <1>10, <1>11, <1>12

\* What a region shows changes when its formula goes or its evaluation is complete.
LEMMA OwnResultNext ==
  ASSUME Types, Types', Calls, OwnResult, [Next]_vars PROVE OwnResult'
<1>1. ASSUME NEW r \in Regions, NEW a \in ArgsOf[r], Edit(r, a) PROVE OwnResult'
  <2>. DEFINE over == {s \in Regions \ {r} : Overlap(r, s)}
              gone == over \union (IF a = None THEN {r} ELSE {})
  <2>1. /\ calc = None
        /\ formula' = [s \in Regions |-> IF s = r THEN a ELSE IF s \in over THEN None
                                         ELSE formula[s]]
        /\ shown' = [s \in Regions |-> IF s \in gone THEN None ELSE shown[s]]
        /\ dirty' = IF a = None THEN dirty \ gone ELSE (dirty \ gone) \union {r}
    BY <1>1 DEF Edit
  <2>2. ASSUME NEW s \in Regions, s \notin dirty' PROVE shown'[s] \in {None, formula'[s]}
    <3>1. CASE s \in gone
      BY <2>1, <3>1
    <3>2. CASE s \notin gone
      <4>1. s # r /\ s \notin dirty
        BY <2>1, <2>2, <3>2
      <4>. QED BY <2>1, <3>2, <4>1 DEF OwnResult
    <3>. QED BY <3>1, <3>2
  <2>. QED BY <2>2 DEF OwnResult
<1>2. ASSUME NEW r \in Regions, Evaluate(r) PROVE OwnResult'
  <2>1. calc = None /\ dirty' = dirty \ {r} /\ calc'.region = r /\ UNCHANGED <<shown, formula>>
    BY <1>2 DEF Evaluate, sheet
  <2>2. Excel /\ ~Finish
    BY <1>2, <2>1 DEF Excel, Finish
  <2>3. calc' # None
    BY <2>2, CellsNext, CalcNext, NoneIsNoCalc
  <2>. QED BY <2>1, <2>3 DEF OwnResult
<1>3. CASE Finish
  <2>1. /\ calc # None /\ calc.at = "return" /\ calc' = None /\ UNCHANGED <<dirty, formula>>
        /\ shown' = [shown EXCEPT ![calc.region] = calc.result]
    BY <1>3 DEF Finish
  <2>2. calc.result \in {None, formula[calc.region]}
    BY <2>1 DEF Calls, Answered
  <2>. QED BY <2>1, <2>2 DEF OwnResult, Types, SheetOK
<1>4. ASSUME UNCHANGED <<shown, formula>>, dirty \subseteq dirty',
             calc' = calc \/ (calc' # None /\ calc'.region = calc.region)
      PROVE  OwnResult'
  BY <1>4 DEF OwnResult
<1>5. CASE FindTargetCellTasks \/ FollowUp \/ MatchTask \/ StartCellTask \/ Subscribe \/ NextCall
  <2>1. calc # None /\ UNCHANGED <<shown, formula, dirty>>
    BY <1>5 DEF FindTargetCellTasks, FollowUp, MatchTask, StartCellTask, Subscribe, NextCall,
                sheet
  <2>2. calc'.region = calc.region
    BY <1>5, <2>1, CalcIs DEF FindTargetCellTasks, FollowUp, MatchTask, StartCellTask, Subscribe,
                              NextCall, CalcType
  <2>3. Excel /\ ~Finish
    <3>1. calc.at # "return" \/ calc.left > 0
      BY <1>5 DEF FindTargetCellTasks, FollowUp, MatchTask, StartCellTask, Subscribe, NextCall
    <3>2. Finish => calc.at = "return" /\ calc.left = 0
      BY DEF Finish
    <3>. QED BY <1>5, <3>1, <3>2 DEF Excel
  <2>4. calc' \in CalcType
    BY <2>3, CellsNext, CalcNext
  <2>. QED BY <1>4, <2>1, <2>2, <2>4, NoneIsNoCalc
<1>6. ASSUME NEW p \in Topics, Publish(p) \/ TaskEnds(p) PROVE OwnResult'
  BY <1>4, <1>6 DEF Publish, TaskEnds, sheet
<1>7. CASE Clear \/ Worker \/ UNCHANGED vars
  BY <1>4, <1>7 DEF Clear, Worker, TakeBatch, ConnectTopic, DisconnectTopic, Unlist, Erase,
                    EndBatch, WorkerExits, vars, sheet
<1>. QED BY <1>1, <1>2, <1>3, <1>5, <1>6, <1>7 DEF Next, Tasks, Excel

\* RtdServer.h:182, RtdAsyncManager.cpp:213-344: what a region shows is the result of its own
\* formula, for every sheet on which no other formula is ever called in the first cell of a
\* region that may hold an array formula.
THEOREM ResultsAreOwn ==
  ASSUME FirstCellsApart
  PROVE  Spec => []OwnResult
<1>1. Init => OwnInv
  <2>. SUFFICES ASSUME Init PROVE Calls /\ Valued /\ OwnResult
    BY InitInv DEF OwnInv
  <2>. QED BY DEF Init, Calls, Following, Keyed, Counting, Found, InHand, Answered, Valued,
                  OwnResult
<1>2. OwnInv /\ [Next]_vars => OwnInv'
  <2>. SUFFICES ASSUME OwnInv, [Next]_vars PROVE OwnInv'
    OBVIOUS
  <2>1. Types /\ Types' /\ AsyncInv'
    BY TypesNext, OneTaskNext, ListedNext, ErasedNext DEF OwnInv, AsyncInv
  <2>. QED BY <2>1, CallsNext, ValuedNext, OwnResultNext DEF OwnInv
<1>3. OwnInv => OwnResult
  BY DEF OwnInv
<1>. QED BY <1>1, <1>2, <1>3, PTL DEF Spec
=============================================================================
