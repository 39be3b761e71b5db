-------------------------- MODULE RtdAsyncProps ---------------------------
(***************************************************************************)
(* What a worksheet function which computes in the background owes the     *)
(* cells which call it.                                                    *)
(***************************************************************************)
EXTENDS RtdAsync

CalcType ==
  [region: Regions, ref: Nat \X Nat, left: Nat, at: {"find", "match", "subscribe", "return"},
   cell: Nat, topic: 0..MaxTasks, topics: SUBSET Topics, result: Args \union {None}]

ASSUME NoneIsNoCalc == None \notin CalcType

\* Every variable holds what the code may put there.
TypeOK ==
  /\ formula \in [Regions -> Args \union {None}] /\ shown \in [Regions -> Args \union {None}]
  /\ dirty \subseteq Regions /\ used \in [Regions -> SUBSET Topics]
  /\ calc = None \/ calc \in CalcType
  /\ \A k \in DOMAIN tasksAt : k \in Nat \X Nat /\ tasksAt[k] \in DOMAIN cells
  /\ \A o \in DOMAIN cells : /\ cells[o].tasks \subseteq DOMAIN pubs
                             /\ cells[o].count \in Nat /\ cells[o].topic \in 0..MaxTasks
  /\ DOMAIN pubs \subseteq Topics /\ DOMAIN records \subseteq Topics
  /\ link \in [Topics -> 0..lastId]
  /\ \A x \in joining \union active : x[1] \in 1..lastId /\ x[2] \in Topics
  /\ work.at \in {"idle", "serve", "unlist", "erase"} /\ serving \in {"up", "quit", "ended"}

\* RtdServer.h:182: a function "will be called by Excel again to collect the
\* result": what a region shows, once evaluated, is the result of its own
\* formula, never that of one it had before or of another cell's.
OwnResult ==
  \A r \in Regions :
    r \notin dirty /\ (calc = None \/ calc.region # r) => shown[r] \in {None, formula[r]}

\* RtdAsyncManager.cpp:318: a task is started only if no task of the cell does the
\* same, so that a cell never has two of them, whatever Excel recalculates.
OneTask ==
  \A o \in DOMAIN cells : \A p, q \in cells[o].tasks : pubs[p].arg = pubs[q].arg => p = q

\* AsyncTaskPublisher::disconnect: the worker takes a task off its cell's list
\* before its record goes, so that no call finds a task whose topic is dead.
ListedHasRecord ==
  serving # "ended" => \A o \in DOMAIN cells : cells[o].tasks \subseteq DOMAIN records

\* An id of the task's topic is still to be disconnected, upon which the worker
\* stops the task, whoever subscribes to it by then (RtdAsyncManager.cpp:107).
Doomed(p) ==
  \/ \E x \in active \union work.joins : x[2] = p /\ x[1] \in leaving
  \/ \E x \in work.leaves : x[2] = p
  \/ work.at \in {"unlist", "erase"} /\ work.id = p

\* A formula's function has been called, to find a task of its cell which does the
\* same or to start one; the one it finds is not to be disconnected.
Looking(r) ==
  /\ calc # None /\ calc.at = "match" /\ calc.region = r /\ calc.ref = r
  /\ \A p \in cells[calc.cell].tasks : pubs[p].arg = formula[r] => ~Doomed(p)

\* Whatever is edited, given up and entered again, a formula whose function is called
\* comes to show its result, unless it is to be calculated again or the server told
\* to quit: the task it finds or starts is not stopped by what the cell's formulas have
\* given up, nor is it one whose topic is dead. It need not show it if the task which
\* it finds is still to be disconnected.
ResultShown ==
  \A r \in Regions : Looking(r) ~> (shown[r] = formula[r] \/ r \in dirty \/ serving # "up")

\* RtdServer.h:182, of every evaluation. It does not hold: a formula which is given
\* arguments again before the topic it had for them is disconnected subscribes to
\* a task which is then stopped, and shows #N/A until it is calculated again.
AlwaysShown == \A r \in Regions : []<>(shown[r] = formula[r] \/ serving # "up")
=============================================================================
