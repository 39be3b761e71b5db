------------------------------ MODULE Session ------------------------------
(***************************************************************************)
(* Workbooks which come and go, calculations, and the cache of the objects *)
(* which their cells return: the workbook monitor's events reach the cache *)
(* through Event::WorkbookAfterClose, Excel's through AfterCalculate.      *)
(***************************************************************************)
EXTENDS ObjectCache

CONSTANTS
  HandlerOpens, Renames, Silences, MaxChecks, MaxOpened   \* see WorkbookMonitor

VARIABLES
  open, known, closing, checks, timer, frames, events, opened,   \* see WorkbookMonitor
  missed    \* workbooks of whose coming or going the monitor, or the cache, has missed
            \* something, since they were last opened

INSTANCE WorkbookMonitor

ASSUME SessionConstants ==
  HandlerOpens \subseteq Books /\ MaxChecks \in Nat /\ MaxOpened \in Nat

bookVars == <<open, known, closing, checks, timer, frames, events, opened>>
vars == <<cacheVars, bookVars, missed>>

SessionInit == CacheInit /\ MonitorInit /\ missed = {}

Misses(S) == missed' = missed \union S

\* A function called from a cell adds an object, or a task which publishes for it,
\* and may do so after its workbook has closed.
AddObject(k) ==
  /\ Add(k)
  /\ Misses({k[1]} \ open)
  /\ UNCHANGED bookVars

\* A user calls remove() for any reference.
RemoveObject(k) ==
  /\ Erase(k)
  /\ UNCHANGED <<bookVars, missed>>

\* A calculation ends, and the caches start a new cycle. What the handlers calculate
\* themselves starts no other (_enableAfterCalculate), nor does anything with events
\* off: objects are then added in the same cycle, as they are if no calculation ends.
AfterCalculate ==
  /\ events
  /\ NextCycle
  /\ UNCHANGED <<bookVars, missed>>

\* Of these the cache does not hear.
Unheard == UNCHANGED cacheVars

\* Its functions have returned nothing yet. What a handler of WorkbookAfterClose
\* opens, the rest of check() overlooks.
OpenBook(w) ==
  /\ Open(w) /\ Forget(w)
  /\ UNCHANGED <<cache, calcId, added>>
  /\ missed' = IF events /\ ~InCheck THEN missed \ {w} ELSE missed \union {w}

BeforeCloseBook(w, cancel) ==
  /\ BeforeClose(w, cancel) /\ Unheard
  /\ Misses(IF events THEN {} ELSE {w})

Leave == StayOpen /\ Unheard /\ UNCHANGED missed
PutBack == Refuse /\ Unheard /\ UNCHANGED missed
StartCheck == RunCheck /\ Unheard /\ UNCHANGED missed
LeaveCheck == EndCheck /\ Unheard /\ UNCHANGED missed
Silence == AllowEvents /\ Unheard /\ UNCHANGED missed

\* Its cells' references remain under the old name until they are calculated again.
SaveBookAs(w, v) == SaveAs(w, v) /\ Unheard /\ Misses({w, v})

\* A workbook's cells go with it.
CloseBook(w) ==
  /\ Close(w) /\ Forget(w)
  /\ UNCHANGED <<cache, calcId, added, missed>>

\* The cache's handler is the first of WorkbookAfterClose.
ReportBook(w) ==
  /\ Report(w) /\ Reap(w)
  /\ UNCHANGED missed

Reporting == LeaveCheck \/ (\E w \in Books : ReportBook(w))
Decide == Leave \/ (\E w \in Books : CloseBook(w))

Next ==
  \/ \E k \in Keys : AddObject(k) \/ RemoveObject(k)
  \/ AfterCalculate
  \/ \E w \in Books : \/ OpenBook(w)
                       \/ \E cancel \in BOOLEAN : BeforeCloseBook(w, cancel)
                       \/ \E v \in Books : SaveBookAs(w, v)
  \/ Silence
  \/ StartCheck \/ PutBack \/ Reporting \/ Decide

Spec == SessionInit /\ [][Next]_vars

\* Once its timer has been set the main thread's queue retries its jobs until one
\* dialog is closed and the next is not yet up. Loops end, and nobody leaves a dialog
\* open for ever.
FairSpec ==
  /\ Spec
  /\ SF_vars((timer /\ StartCheck) \/ Reporting) /\ WF_vars(Decide)
=============================================================================
