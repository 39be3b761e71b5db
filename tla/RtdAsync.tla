----------------------------- MODULE RtdAsync ------------------------------
(***************************************************************************)
(* Worksheet functions which compute in the background: RtdAsyncManager    *)
(* (xlOil-COM/RtdAsyncManager.cpp), as Excel's calculation uses it.        *)
(*                                                                         *)
(* Excel evaluates one formula at a time. Each call of its function builds *)
(* a task, which the manager compares with those of the same cell: a new   *)
(* one is started under a new topic, else the cell subscribes to the topic *)
(* of the old. After an array formula has subscribed Excel calls it again  *)
(* for every cell. A topic which no cell has asked for in its last         *)
(* evaluation is disconnected. The server is that of RtdWorker, with its   *)
(* requests taken in batches, but without locks, wake-ups and failures.    *)
(***************************************************************************)
EXTENDS Naturals, Sequences

CONSTANTS
  Regions,      \* the ranges <<first, last>> of a row which hold formulas
  Args,         \* a function with its arguments: what == of two tasks compares
  ArgsOf,       \* those which each region may be given, None to delete its formula
  None,
  Sheet,        \* the sheet's id
  Ready,        \* the states of a task in which its done() is true
  Cycles,       \* whether follow-up calls name each cell or always the first
  MaxEdits,     \* bound on the edits of formulas
  MaxTasks      \* bound on the tasks started

ASSUME AsyncConstants ==
  /\ \A r \in Regions : r \in Nat \X Nat /\ 1 <= r[1] /\ r[1] <= r[2]
  /\ None \notin Args /\ ArgsOf \in [Regions -> SUBSET (Args \union {None})]
  /\ Sheet \in Nat
  /\ Ready \subseteq {"new", "running", "published", "stopped", "done"}
  /\ Cycles \in BOOLEAN
  /\ MaxEdits \in Nat /\ MaxTasks \in Nat

VARIABLES
  formula,      \* the arguments in each region's formula, or None
  edits,        \* those made so far
  shown,        \* the result which each region shows, None for #N/A
  dirty,        \* regions to be evaluated
  used,         \* the topics for which each region last called RTD()
  calc,         \* the evaluation which Excel is in, or None
  tasksAt,      \* _tasksPerCell: the CellTasks found under each key
  cells,        \* the CellTasks created; the tasks listed are in the order of their topics
  pubs,         \* the AsyncTaskPublishers created; the n-th has topic n
  records,      \* the server's records: subscribed ids and last value
  link,         \* the id which Excel has connected to each topic, 0 if none
  lastId,
  joining,      \* _topicsToConnect
  leaving,      \* _topicIdsToDisconnect
  active,       \* _activeTopicIds
  work,         \* the batch which the worker thread is serving
  serving       \* the server: up, quitting or ended

vars == <<formula, edits, shown, dirty, used, calc, tasksAt, cells, pubs, records,
          link, lastId, joining, leaving, active, work, serving>>
sheet == <<formula, edits, shown, used>>
server == <<records, joining, leaving, active, work, serving>>
manager == <<tasksAt, cells>>

-----------------------------------------------------------------------------
Topics == 1..MaxTasks
Idle == [joins |-> {}, leaves |-> {}, at |-> "idle", id |-> 0]
Size(ref) == ref[2] - ref[1] + 1
With(f, S, v) == [x \in DOMAIN f \union S |-> IF x \in S THEN v ELSE f[x]]

\* isSubarray(): ref lies within the range which last called.
IsSubarray(ref, c) == c.caller[1] <= ref[1] /\ ref[2] <= c.caller[2]

Overlap(r, s) == r[1] <= s[2] /\ s[1] <= r[2]

\* value(): null if there is no record; a record without a value gives #N/A.
Peek(t) == IF t \in DOMAIN records THEN records[t].value ELSE None

Init ==
  /\ formula = [r \in Regions |-> None] /\ edits = 0
  /\ shown = [r \in Regions |-> None]
  /\ dirty = {}
  /\ used = [r \in Regions |-> {}]
  /\ calc = None
  /\ tasksAt = <<>> /\ cells = <<>> /\ pubs = <<>> /\ records = <<>>
  /\ link = [t \in Topics |-> 0] /\ lastId = 0
  /\ joining = {} /\ leaving = {} /\ active = {}
  /\ work = Idle /\ serving = "up"

-----------------------------------------------------------------------------
(***************************************************************************)
(* Excel.                                                                  *)
(***************************************************************************)
\* Topics no region uses any more are disconnected: DisconnectData.
Abandon(users) ==
  LET gone == {t \in Topics : link[t] # 0 /\ \A r \in Regions : t \notin users[r]} IN
  /\ used' = users
  /\ leaving' = leaving \union {link[t] : t \in gone}
  /\ link' = [t \in Topics |-> IF t \in gone THEN 0 ELSE link[t]]

\* The user enters or deletes a formula; those it overlaps go.
Edit(r, a) ==
  LET over == {s \in Regions \ {r} : Overlap(r, s)}
      gone == over \union (IF a = None THEN {r} ELSE {}) IN
  /\ calc = None
  /\ edits < MaxEdits /\ a # formula[r]
  /\ formula' = [s \in Regions |-> IF s = r THEN a ELSE IF s \in over THEN None ELSE formula[s]]
  /\ edits' = edits + 1
  /\ shown' = [s \in Regions |-> IF s \in gone THEN None ELSE shown[s]]
  /\ dirty' = IF a = None THEN dirty \ gone ELSE (dirty \ gone) \union {r}
  /\ Abandon([s \in Regions |-> IF s \in gone THEN {} ELSE used[s]])
  /\ UNCHANGED <<calc, manager, pubs, records, lastId, joining, active, work, serving>>

\* Excel evaluates a formula which has changed or whose topic has a new value.
Evaluate(r) ==
  /\ calc = None /\ r \in dirty
  /\ dirty' = dirty \ {r}
  /\ calc' = [region |-> r, ref |-> r, left |-> 0, at |-> "find", cell |-> 0,
              topic |-> 0, topics |-> {}, result |-> None]
  /\ UNCHANGED <<sheet, manager, pubs, link, lastId, server>>

-----------------------------------------------------------------------------
(***************************************************************************)
(* getValue, called by the formula's function.                             *)
(***************************************************************************)
\* Under the manager's mutex. The arguments cellNumber and sheetId are swapped
\* in the call, in the key which is looked up and in those which are written.
\* newCellTasks keeps an entry which it finds: only its caller changes.
FindTargetCellTasks ==
  LET ref == calc.ref
      address == <<ref[1], Sheet>>
      found == address \in DOMAIN tasksAt
      o == IF found THEN tasksAt[address] ELSE Len(cells) + 1
      slave == /\ found /\ IsSubarray(ref, cells[o])
               /\ Size(ref) = 1 /\ cells[o].count > 0
      others == IF Size(ref) > 1 THEN {<<ref[1], n>> : n \in ref[1]..ref[2]} ELSE {} IN
  /\ calc # None /\ calc.at = "find"
  /\ tasksAt' = With(tasksAt, others \union {address}, o)
  /\ cells' = IF ~found
              THEN Append(cells, [tasks |-> {}, count |-> 0, topic |-> 0, caller |-> ref])
              ELSE IF slave THEN cells ELSE [cells EXCEPT ![o].caller = ref]
  /\ calc' = [calc EXCEPT !.at = "match", !.cell = o]
  /\ UNCHANGED <<sheet, dirty, pubs, link, lastId, server>>

\* Fault: a task of the same cell is taken for the same task.
MatchesAny(p, a) == TRUE

\* Fault: a task which has finished is not considered.
MatchesRunning(p, a) == pubs[p].arg = a /\ pubs[p].state \notin {"published", "done"}

\* taskMatches()
Matches(p, a) == pubs[p].arg = a

\* Fault: no check that the task is done.
PeekedAlways(p) == p \in DOMAIN records

\* The task is done and its record still there: no need to subscribe.
Peeked(p) == pubs[p].state \in Ready /\ p \in DOMAIN records

\* A single cell calls after an array formula has subscribed.
Expected == Size(calc.ref) = 1 /\ cells[calc.cell].count > 0

\* In a follow-up call of an array formula: the array's topic, unseen.
FollowUp ==
  LET c == cells[calc.cell] IN
  /\ calc # None /\ calc.at = "match" /\ Expected
  /\ cells' = [cells EXCEPT ![calc.cell].count = @ - 1]
  /\ calc' = [calc EXCEPT !.at = "subscribe", !.topic = c.topic]
  /\ UNCHANGED <<sheet, dirty, tasksAt, pubs, link, lastId, server>>

\* arrayCount and arrayTopic, for the follow-up calls.
Counted(c, t) ==
  IF Size(calc.ref) > 1 THEN [c EXCEPT !.count = Size(calc.ref), !.topic = t]
  ELSE [c EXCEPT !.count = 0, !.topic = 0]

\* The first task in the cell's list which matches.
MatchTask ==
  LET c == cells[calc.cell]
      a == formula[calc.region] IN
  /\ calc # None /\ calc.at = "match" /\ ~Expected
  /\ \E p \in c.tasks :
       /\ Matches(p, a) /\ \A q \in c.tasks : Matches(q, a) => p <= q
       /\ cells' = [cells EXCEPT ![calc.cell] = Counted(c, p)]
       /\ calc' = IF Peeked(p)
                  THEN [calc EXCEPT !.at = "return", !.result = Peek(p)]
                  ELSE [calc EXCEPT !.at = "subscribe", !.topic = p]
  /\ UNCHANGED <<sheet, dirty, tasksAt, pubs, link, lastId, server>>

\* startCellTask: a new publisher, which addPublisher puts into a new record.
StartCellTask ==
  LET c == cells[calc.cell]
      a == formula[calc.region]
      p == Len(pubs) + 1 IN
  /\ calc # None /\ calc.at = "match" /\ ~Expected
  /\ p <= MaxTasks
  /\ \A q \in c.tasks : ~Matches(q, a)
  /\ pubs' = Append(pubs, [arg |-> a, cell |-> calc.cell, state |-> "new"])
  /\ records' = With(records, {p}, [ids |-> {}, value |-> None, pub |-> TRUE])
  /\ cells' = [cells EXCEPT ![calc.cell] = Counted([c EXCEPT !.tasks = @ \union {p}], p)]
  /\ calc' = [calc EXCEPT !.at = "subscribe", !.topic = p]
  /\ UNCHANGED <<sheet, dirty, tasksAt, link, lastId, joining, leaving, active, work, serving>>

\* subscribe(): RTD() makes Excel connect the topic if it is not; then value().
Subscribe ==
  LET t == calc.topic IN
  /\ calc # None /\ calc.at = "subscribe"
  /\ IF link[t] # 0 THEN UNCHANGED <<link, lastId, joining>>
     ELSE /\ lastId' = lastId + 1
          /\ link' = [link EXCEPT ![t] = lastId + 1]
          /\ joining' = joining \union {<<lastId + 1, t>>}
  /\ calc' = [calc EXCEPT !.at = "return", !.topics = @ \union {t}, !.result = Peek(t),
                          !.left = IF Size(calc.ref) > 1 THEN Size(calc.ref) ELSE @]
  /\ UNCHANGED <<sheet, dirty, manager, pubs, records, leaving, active, work, serving>>

\* The call returns and Excel calls the array formula for its next cell,
NextCall ==
  LET r == calc.region
      n == IF Cycles THEN r[2] - calc.left + 1 ELSE r[1] IN
  /\ calc # None /\ calc.at = "return" /\ calc.left > 0
  /\ calc' = [calc EXCEPT !.at = "find", !.ref = <<n, n>>, !.left = @ - 1]
  /\ UNCHANGED <<sheet, dirty, manager, pubs, link, lastId, server>>

\* or the evaluation is complete.
Finish ==
  /\ calc # None /\ calc.at = "return" /\ calc.left = 0
  /\ shown' = [shown EXCEPT ![calc.region] = calc.result]
  /\ Abandon([used EXCEPT ![calc.region] = calc.topics])
  /\ calc' = None
  /\ UNCHANGED <<formula, edits, dirty, manager, pubs, records, lastId, joining, active, work, serving>>

-----------------------------------------------------------------------------
(***************************************************************************)
(* The server's worker thread and the tasks.                               *)
(***************************************************************************)
\* The ids to disconnect are looked up before the batch's connects are served.
TakeBatch ==
  /\ work.at = "idle" /\ serving = "up" /\ (joining # {} \/ leaving # {})
  /\ work' = [Idle EXCEPT !.at = "serve", !.joins = joining,
                          !.leaves = {x \in active : x[1] \in leaving}]
  /\ active' = {x \in active : x[1] \notin leaving}
  /\ joining' = {} /\ leaving' = {}
  /\ UNCHANGED <<sheet, dirty, calc, manager, pubs, records, link, lastId, serving>>

NoRecord == [ids |-> {}, value |-> None, pub |-> FALSE]
RecordOf(t) == IF t \in DOMAIN records THEN records[t] ELSE NoRecord
Started(p) == [pubs EXCEPT ![p].state = "running"]

\* connectTopic: the publisher's first subscriber starts its task.
ConnectTopic ==
  \E x \in work.joins :
    LET rec == RecordOf(x[2]) IN
    /\ work.at = "serve"
    /\ \A y \in work.joins : x[1] <= y[1]
    /\ records' = With(records, {x[2]}, [rec EXCEPT !.ids = @ \union {x[1]}])
    /\ pubs' = IF rec.pub /\ rec.ids = {} THEN Started(x[2]) ELSE pubs
    /\ active' = active \union {x}
    /\ work' = [work EXCEPT !.joins = @ \ {x}]
    /\ UNCHANGED <<sheet, dirty, calc, manager, link, lastId, joining, leaving, serving>>

Stopped(p) == [pubs EXCEPT ![p].state = IF @ = "done" THEN @ ELSE "stopped"]

\* disconnectTopic: AsyncTaskPublisher::disconnect stops the task whoever still
\* subscribes; a record without publisher goes with its last subscriber.
DisconnectTopic ==
  \E x \in work.leaves :
    LET rec == RecordOf(x[2])
        left == [rec EXCEPT !.ids = @ \ {x[1]}] IN
    /\ work.at = "serve" /\ work.joins = {}
    /\ \A y \in work.leaves : x[1] <= y[1]
    /\ work' = [work EXCEPT !.leaves = @ \ {x}, !.at = IF rec.pub THEN "unlist" ELSE "serve",
                            !.id = x[2]]
    /\ pubs' = IF rec.pub THEN Stopped(x[2]) ELSE pubs
    /\ records' = IF rec.pub \/ left.ids # {} THEN With(records, {x[2]}, left)
                  ELSE [t \in DOMAIN records \ {x[2]} |-> records[t]]
    /\ UNCHANGED <<sheet, dirty, calc, manager, link, lastId, joining, leaving, active, serving>>

\* Fault: the task stays in its cell's list.
UnlistedNever(p) == cells

\* Under the cell's flag, the task is taken off its list;
Unlisted(p) ==
  [cells EXCEPT ![pubs[p].cell].tasks = @ \ {p}]

Unlist ==
  /\ work.at = "unlist"
  /\ cells' = Unlisted(work.id)
  /\ work' = [work EXCEPT !.at = "erase"]
  /\ UNCHANGED <<sheet, dirty, calc, tasksAt, pubs, records, link, lastId,
                 joining, leaving, active, serving>>

\* then its record goes, with its subscribers.
Erase ==
  /\ work.at = "erase"
  /\ records' = [t \in DOMAIN records \ {work.id} |-> records[t]]
  /\ work' = [work EXCEPT !.at = "serve"]
  /\ UNCHANGED <<sheet, dirty, calc, manager, pubs, link, lastId, joining, leaving, active, serving>>

EndBatch ==
  /\ work.at = "serve" /\ work.joins = {} /\ work.leaves = {}
  /\ work' = Idle
  /\ UNCHANGED <<sheet, dirty, calc, manager, pubs, records, link, lastId,
                 joining, leaving, active, serving>>

\* A task publishes its result, whose subscribers Excel will evaluate again,
Publish(p) ==
  /\ p \in DOMAIN pubs /\ pubs[p].state = "running"
  /\ pubs' = [pubs EXCEPT ![p].state = "published"]
  /\ IF p \in DOMAIN records /\ serving = "up"
     THEN /\ records' = [records EXCEPT ![p].value = pubs[p].arg]
          /\ dirty' = IF records[p].ids = {} THEN dirty
                      ELSE dirty \union
                             {r \in Regions : p \in used[r]
                                \/ (calc # None /\ calc.region = r /\ p \in calc.topics)}
     ELSE UNCHANGED <<records, dirty>>
  /\ UNCHANGED <<sheet, calc, manager, link, lastId, joining, leaving, active, work, serving>>

\* and ends; so does one which has been stopped.
TaskEnds(p) ==
  /\ p \in DOMAIN pubs /\ pubs[p].state \in {"published", "stopped"}
  /\ pubs' = [pubs EXCEPT ![p].state = "done"]
  /\ UNCHANGED <<sheet, dirty, calc, manager, records, link, lastId, joining,
                 leaving, active, work, serving>>

\* rtdAsyncServerClear, called by a reload and at AutoClose: the server is told to
\* quit and the cells' tasks are forgotten;
Clear ==
  /\ calc = None /\ serving = "up"
  /\ serving' = "quit"
  /\ tasksAt' = <<>>
  /\ UNCHANGED <<sheet, dirty, calc, cells, pubs, records, link, lastId, joining, leaving,
                 active, work>>

\* its worker stops all publishers and ends.
WorkerExits ==
  /\ serving = "quit" /\ work.at = "idle"
  /\ serving' = "ended"
  /\ records' = <<>>
  /\ pubs' = [p \in DOMAIN pubs |->
               IF p \in DOMAIN records /\ records[p].pub THEN Stopped(p)[p] ELSE pubs[p]]
  /\ UNCHANGED <<sheet, dirty, calc, manager, link, lastId, joining, leaving, active, work>>

Excel ==
  \/ \E r \in Regions : Evaluate(r)
  \/ FindTargetCellTasks \/ FollowUp \/ MatchTask \/ StartCellTask \/ Subscribe
  \/ NextCall \/ Finish
Worker == TakeBatch \/ ConnectTopic \/ DisconnectTopic \/ Unlist \/ Erase \/ EndBatch
          \/ WorkerExits
Tasks == \E p \in Topics : Publish(p) \/ TaskEnds(p)

Next ==
  \/ \E r \in Regions : \E a \in ArgsOf[r] : Edit(r, a)
  \/ Excel
  \/ Clear
  \/ Worker
  \/ Tasks

Spec == Init /\ [][Next]_vars

\* As long as Excel can go on with a calculation, the worker with its requests or a
\* task to its end, one of them does.
FairSpec == Spec /\ WF_vars(Excel \/ Worker \/ Tasks)
=============================================================================
