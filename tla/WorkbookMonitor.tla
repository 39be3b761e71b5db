-------------------------- MODULE WorkbookMonitor --------------------------
(***************************************************************************)
(* WorkbookMonitor and the handlers of Excel's workbook events which drive *)
(* it (xlOil-COM/ComEventSink.cpp). Excel does not say when a workbook has *)
(* closed, only that it is about to: the monitor compares the workbooks it *)
(* knows of with Excel's, some time later, and fires WorkbookAfterClose.   *)
(*                                                                         *)
(* All of it runs on the main thread. The handlers of WorkbookAfterClose   *)
(* may open workbooks, whose events arrive whilst check() is in its loop.  *)
(***************************************************************************)
EXTENDS Naturals, Sequences, FiniteSets

CONSTANTS
  Books,        \* the names of workbooks
  HandlerOpens, \* workbooks which handlers of WorkbookAfterClose may open
  Renames,      \* whether workbooks are saved under other names
  Silences,     \* whether user code may turn Excel's events off
  MaxChecks,    \* bound on the checks queued
  MaxOpened     \* bound on how often a workbook is opened

VARIABLES
  open,     \* Excel's workbooks
  known,    \* _workbooks
  closing,  \* the workbooks whose closing Excel has not decided yet
  checks,   \* calls of check() in the main thread's queue
  timer,    \* the timer of the queue has been set: it is periodic, for ever
  frames,   \* check() calls in their loops: what was open, what is to be reported,
            \* and whether handlers have run
  events,   \* Application.EnableEvents
  opened    \* workbooks opened so far

NoWorkbook == {}
InCheck == frames # <<>>

MonitorInit ==
  /\ open = {} /\ known = {}
  /\ closing = NoWorkbook
  /\ checks = 0
  /\ timer = FALSE
  /\ frames = <<>>
  /\ events = TRUE
  /\ opened = 0

\* check(): it reads what is open and works out what has closed. The frame stays
\* until the loop is over.
Check(now) ==
  /\ frames' = <<[open |-> now, closed |-> known \ now, fired |-> FALSE]>> \o frames
  /\ UNCHANGED known

\* The collection has grown by one: nothing was closed.
Grown(now) == Cardinality(now) = Cardinality(known) + 1

\* checkOnOpenWorkbook()
CheckOnOpen(w, now) ==
  \/ Grown(now) /\ known' = known \union {w} /\ UNCHANGED frames
  \/ ~Grown(now) /\ Check(now)

\* NewWorkbook and WorkbookOpen; with events off nobody is told.
Open(w) ==
  /\ opened < MaxOpened /\ w \notin open
  /\ closing = NoWorkbook
  /\ InCheck => Head(frames).fired /\ w \in HandlerOpens
  /\ open' = open \union {w}
  /\ opened' = opened + 1
  /\ \/ events /\ CheckOnOpen(w, open')
     \/ ~events /\ UNCHANGED <<known, frames>>
  /\ UNCHANGED <<closing, checks, timer, events>>

\* For a job which is due later the queue sets its timer, unless another job is
\* first and due: then it posts a message, which comes too soon for this one.
SetTimer == timer' \in {timer, TRUE}

\* Fault: the check is queued before the handlers have had their say.
QueuedIfAsked(cancel) == checks' = IF cancel THEN checks + 1 ELSE checks

\* A check is queued unless a handler has cancelled.
Queued(cancel) == checks' = IF cancel THEN checks ELSE checks + 1

\* WorkbookBeforeClose: Excel goes on unless a handler has cancelled.
BeforeClose(w, cancel) ==
  /\ ~InCheck /\ w \in open /\ closing = NoWorkbook
  /\ checks < MaxChecks
  /\ closing' = IF cancel /\ events THEN NoWorkbook ELSE {w}
  /\ IF events THEN Queued(cancel) ELSE UNCHANGED checks
  /\ IF checks' = checks THEN UNCHANGED timer ELSE SetTimer
  /\ UNCHANGED <<open, known, frames, events, opened>>

\* The user decides, in Excel's dialog.
Close(w) ==
  /\ w \in closing
  /\ open' = open \ {w} /\ closing' = NoWorkbook
  /\ UNCHANGED <<known, checks, timer, frames, events, opened>>

StayOpen ==
  /\ closing # NoWorkbook
  /\ closing' = NoWorkbook
  /\ UNCHANGED <<open, known, checks, timer, frames, events, opened>>

\* With the dialog up Excel rejects COM calls: the queue puts the checks back.
Refuse ==
  /\ checks > 0 /\ closing # NoWorkbook
  /\ SetTimer
  /\ UNCHANGED <<open, known, closing, checks, frames, events, opened>>

\* A queued check runs.
RunCheck ==
  /\ ~InCheck /\ closing = NoWorkbook
  /\ checks > 0
  /\ checks' = checks - 1
  /\ Check(open)
  /\ UNCHANGED <<open, closing, timer, events, opened>>

\* The loop of check() fires WorkbookAfterClose,
Report(w) ==
  /\ InCheck /\ w \in Head(frames).closed
  /\ frames' = [frames EXCEPT ![1].closed = @ \ {w}, ![1].fired = TRUE]
  /\ UNCHANGED <<open, known, closing, checks, timer, events, opened>>

\* Fault: those which have closed are taken out, and no other is put in.
KnowRest == known' = known \intersect Head(frames).open

Know == known' = Head(frames).open

\* and then the workbooks read before the loop are those known.
EndCheck ==
  /\ InCheck /\ Head(frames).closed = {}
  /\ Know
  /\ frames' = Tail(frames)
  /\ UNCHANGED <<open, closing, checks, timer, events, opened>>

\* BeforeSave and AfterSave: WorkbookRename is fired, which no cache hears.
SaveAs(w, v) ==
  /\ Renames /\ ~InCheck /\ closing = NoWorkbook
  /\ w \in open /\ v \in Books \ open
  /\ open' = (open \ {w}) \union {v}
  /\ UNCHANGED <<known, closing, checks, timer, frames, events, opened>>

\* setAllowEvents()
AllowEvents ==
  /\ Silences /\ ~InCheck /\ closing = NoWorkbook
  /\ events' = ~events
  /\ UNCHANGED <<open, known, closing, checks, timer, frames, opened>>
=============================================================================
