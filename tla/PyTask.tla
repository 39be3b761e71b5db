------------------------------ MODULE PyTask -------------------------------
(***************************************************************************)
(* Python coroutines as worksheet functions: RtdAsyncTask and AsyncReturn  *)
(* (xlOil_Python/AsyncFunctions.cpp), RtdReturn (PyRtd.cpp), the wrapper   *)
(* which drives a coroutine (async_wrapper in xloil/register.py) and the   *)
(* event loop's thread (EventLoop.h), from a call to the end of Python.    *)
(*                                                                         *)
(* A task is an RTD task, which the RTD server's worker thread starts and  *)
(* stops for its publisher, or a native asynchronous call, which answers   *)
(* through Excel's handle. Whoever runs Python code holds the GIL and may  *)
(* lose it wherever Python code runs: a step ends where it may.            *)
(***************************************************************************)
EXTENDS Naturals

CONSTANTS
  Tasks,
  Native,       \* the tasks which are native asynchronous calls
  MaxResults,   \* bound on the results of a coroutine (of a generator, many)
  Yields,       \* the tasks whose return converter runs Python code
  OtherStops    \* whether another thread than the worker may stop a task

ASSUME PyTaskConstants ==
  /\ Native \subseteq Tasks
  /\ MaxResults \in Nat
  /\ Yields \subseteq Tasks /\ OtherStops \in BOOLEAN

VARIABLES
  pub,       \* the publisher (or the native call) of each task
  running,   \* RtdReturn::_running
  task,      \* whether _task has been set
  coro,      \* the coroutine
  cancels,   \* tasks whose cancel() has been given to the event loop
  results,   \* results which each coroutine has produced
  sent,      \* those which were published or returned
  first,     \* the task whose result AsyncReturn::set_result has kept
  worker,    \* where the RTD server's worker thread is
  quit,      \* the server has been told to quit
  missed,    \* the worker sleeps: the call of notify_one in quit() came too early
  loop,      \* the event loop: up, stopping or closed
  main       \* the main thread's part in closing the last add-in

vars == <<pub, running, task, coro, cancels, results, sent, first, worker, quit, missed, loop, main>>
coros == <<coro, results, sent, first>>
closing == <<quit, missed, loop, main>>

Rtd == Tasks \ Native
Idle == [at |-> "idle"]
None == "none"
Unfinished == {"scheduled", "running", "converting"}

Init ==
  /\ pub = [t \in Tasks |-> "fresh"]
  /\ running = [t \in Tasks |-> FALSE] /\ task = [t \in Tasks |-> FALSE]
  /\ coro = [t \in Tasks |-> None]
  /\ cancels = {}
  /\ results = [t \in Tasks |-> 0] /\ sent = [t \in Tasks |-> 0]
  /\ first = None
  /\ worker = Idle /\ quit = FALSE /\ missed = FALSE
  /\ loop = "up" /\ main = "open"

-----------------------------------------------------------------------------
(***************************************************************************)
(* The RTD server's worker thread.                                         *)
(***************************************************************************)
\* In a round of the worker, or between two.
Awake == worker = Idle /\ ~missed

\* It may wake for no reason: then it sees that it has to quit.
Wakes ==
  /\ missed
  /\ missed' = FALSE
  /\ UNCHANGED <<pub, running, task, cancels, coros, worker, quit, loop, main>>

\* RtdAsyncTask::start: a new RtdReturn, which is running from the start;
Start(t) ==
  /\ Awake /\ t \in Rtd /\ pub[t] = "fresh"
  /\ pub' = [pub EXCEPT ![t] = "alive"]
  /\ running' = [running EXCEPT ![t] = TRUE]
  /\ worker' = [at |-> "call", task |-> t]
  /\ UNCHANGED <<task, cancels, coros, closing>>

\* the wrapper schedules the coroutine on the event loop,
Call ==
  /\ worker.at = "call"
  /\ coro' = [coro EXCEPT ![worker.task] = "scheduled"]
  /\ worker' = [worker EXCEPT !.at = "settask"]
  /\ UNCHANGED <<pub, running, task, cancels, results, sent, first, closing>>

\* or the arguments are not convertible, and the error is published;
CallFails ==
  /\ worker.at = "call"
  /\ coro' = [coro EXCEPT ![worker.task] = "ended"]
  /\ worker' = Idle
  /\ UNCHANGED <<pub, running, task, cancels, results, sent, first, closing>>

\* then set_task, which sets _running whatever has happened since.
SetTask ==
  /\ worker.at = "settask"
  /\ task' = [task EXCEPT ![worker.task] = TRUE]
  /\ running' = [running EXCEPT ![worker.task] = TRUE]
  /\ worker' = Idle
  /\ UNCHANGED <<pub, cancels, coros, closing>>

\* Fault: the coroutine is not told.
CancelQuietly(t) ==
  /\ running' = [running EXCEPT ![t] = FALSE]
  /\ UNCHANGED cancels

\* cancel() of a task which is not done; without _task there is nothing to tell.
Cancel(t) ==
  /\ running' = [running EXCEPT ![t] = FALSE]
  /\ cancels' = IF running[t] /\ task[t] THEN cancels \union {t} ELSE cancels

\* The publisher's stop(): its topic has no subscriber any more, or (OtherStops)
\* a user thread drops or replaces it.
Stop(t) ==
  /\ t \in Rtd /\ pub[t] = "alive"
  /\ Awake \/ OtherStops
  /\ Cancel(t)
  /\ pub' = [pub EXCEPT ![t] = "stopped"]
  /\ UNCHANGED <<task, coros, worker, closing>>

\* done()
Done(t) == ~running[t]

\* A stopped publisher whose task is done is destroyed; the destructor's wait()
\* does not wait.
Destroy(t) ==
  /\ Awake /\ pub[t] = "stopped" /\ Done(t)
  /\ Cancel(t)
  /\ pub' = [pub EXCEPT ![t] = "dead"]
  /\ UNCHANGED <<task, coros, worker, closing>>

\* The worker sees that it has to quit, stops every publisher, destroys them and ends.
WorkerClears ==
  /\ Awake /\ quit
  /\ worker' = [at |-> "ended"]
  /\ running' = [t \in Tasks |-> IF pub[t] \in {"alive", "stopped"} THEN FALSE ELSE running[t]]
  /\ cancels' = cancels \union {t \in Rtd : pub[t] = "alive" /\ running[t] /\ task[t]}
  /\ pub' = [t \in Tasks |-> IF pub[t] \in {"alive", "stopped"} THEN "dead" ELSE pub[t]]
  /\ UNCHANGED <<task, coros, closing>>

-----------------------------------------------------------------------------
(***************************************************************************)
(* A native asynchronous call, in Excel's calculation.                     *)
(***************************************************************************)
CallNative(t) ==
  /\ main = "open" /\ t \in Native /\ pub[t] = "fresh"
  /\ pub' = [pub EXCEPT ![t] = "calling"]
  /\ coro' = [coro EXCEPT ![t] = "scheduled"]
  /\ UNCHANGED <<running, task, cancels, results, sent, first, worker, closing>>

SetNativeTask(t) ==
  /\ pub[t] = "calling"
  /\ pub' = [pub EXCEPT ![t] = "called"]
  /\ task' = [task EXCEPT ![t] = TRUE]
  /\ UNCHANGED <<running, cancels, coros, worker, closing>>

\* The event CalcCancelled, or the end of the AsyncReturn: _task is let go.
CalcCancelled ==
  LET S == {t \in Native : pub[t] = "called"} IN
  /\ main = "open" /\ S # {}
  /\ cancels' = cancels \union {t \in S : task[t]}
  /\ task' = [t \in Tasks |-> task[t] /\ t \notin S]
  /\ pub' = [t \in Tasks |-> IF t \in S THEN "cancelled" ELSE pub[t]]
  /\ UNCHANGED <<running, coros, worker, closing>>

-----------------------------------------------------------------------------
(***************************************************************************)
(* The event loop's thread, which pumps the loop until it is told to stop. *)
(***************************************************************************)
Pumping == loop # "closed"

Begin(t) ==
  /\ Pumping /\ coro[t] = "scheduled"
  /\ coro' = [coro EXCEPT ![t] = "running"]
  /\ UNCHANGED <<pub, running, task, cancels, results, sent, first, worker, closing>>

\* Fault: set_result does not look at _running.
HeededAlways(t) == TRUE

\* Whether set_result goes on.
Heeded(t) == t \in Native \/ running[t]

Produced(t) == results' = [results EXCEPT ![t] = @ + 1]

\* set_result after cancel() or set_done() does nothing.
Unheeded(t) ==
  /\ Pumping /\ coro[t] = "running" /\ results[t] < MaxResults /\ ~Heeded(t)
  /\ Produced(t)
  /\ UNCHANGED <<pub, running, task, coro, cancels, sent, first, worker, closing>>

\* A converter in Python may lose the GIL,
Convert(t) ==
  /\ Pumping /\ t \in Yields /\ coro[t] = "running" /\ results[t] < MaxResults /\ Heeded(t)
  /\ coro' = [coro EXCEPT ![t] = "converting"]
  /\ Produced(t)
  /\ UNCHANGED <<pub, running, task, cancels, sent, first, worker, closing>>

\* AsyncReturn::set_result converts into a static, which keeps the first result.
Kept(t) == first' = IF t \in Native /\ first = None THEN t ELSE first

\* before the result is published. A native call returns the static result.
Send(t) ==
  /\ Pumping
  /\ \/ coro[t] = "converting" /\ UNCHANGED results
     \/ /\ t \notin Yields /\ coro[t] = "running" /\ results[t] < MaxResults /\ Heeded(t)
        /\ Produced(t)
  /\ coro' = [coro EXCEPT ![t] = "running"]
  /\ sent' = [sent EXCEPT ![t] = @ + 1]
  /\ Kept(t)
  /\ UNCHANGED <<pub, running, task, cancels, worker, closing>>

\* set_done()
SetDone(t) ==
  /\ running' = [running EXCEPT ![t] = FALSE]
  /\ task' = IF t \in Rtd /\ running[t] THEN [task EXCEPT ![t] = FALSE] ELSE task

\* The coroutine returns after its last result, or raises once told to cancel.
End(t) ==
  /\ Pumping /\ coro[t] = "running"
  /\ results[t] > 0 \/ t \in cancels
  /\ SetDone(t)
  /\ coro' = [coro EXCEPT ![t] = "ended"]
  /\ cancels' = cancels \ {t}
  /\ UNCHANGED <<pub, results, sent, first, worker, closing>>

\* One told before its first step never takes it; one told too late does nothing.
NeverBegins(t) ==
  /\ Pumping /\ t \in cancels /\ coro[t] \in {"scheduled", "ended"}
  /\ coro' = [coro EXCEPT ![t] = "ended"]
  /\ cancels' = cancels \ {t}
  /\ UNCHANGED <<pub, running, task, results, sent, first, worker, closing>>

-----------------------------------------------------------------------------
(***************************************************************************)
(* Closing the last add-in, on the main thread: the server of asynchronous *)
(* functions is told to quit, AutoClose waits for its worker, and Python's *)
(* add-ins go with the event loop, whose thread is waited for.             *)
(***************************************************************************)
\* quit() does not hold the worker's mutex: its notify_one is lost if the worker
\* has found nothing to do and is not waiting yet.
Close ==
  /\ main = "open"
  /\ quit' = TRUE
  /\ missed' \in {FALSE, worker = Idle}
  /\ main' = "joining"
  /\ UNCHANGED <<pub, running, task, cancels, coros, worker, loop>>

\* Fault: Python is unloaded without waiting for the worker.
JoinedEarly == quit

Joined == worker.at = "ended"

\* Fault: the thread is waited for without having been told.
ToldNothing == UNCHANGED loop

\* EventLoop::shutdown(): _stopped is set before the thread is waited for.
Told == loop' = "stopping"

StopLoop ==
  /\ main = "joining" /\ Joined
  /\ main' = "unloading"
  /\ Told
  /\ UNCHANGED <<pub, running, task, cancels, coros, worker, quit, missed>>

\* The loop's thread leaves its loop between two pumps.
LoopEnds ==
  /\ loop = "stopping"
  /\ loop' = "closed"
  /\ UNCHANGED <<pub, running, task, cancels, coros, worker, quit, missed, main>>

Unloaded ==
  /\ main = "unloading" /\ loop = "closed"
  /\ main' = "unloaded"
  /\ UNCHANGED <<pub, running, task, cancels, coros, worker, quit, missed, loop>>

Worker == Call \/ CallFails \/ SetTask \/ WorkerClears
Coroutine(t) == Begin(t) \/ Unheeded(t) \/ Convert(t) \/ Send(t)
Main == StopLoop \/ Unloaded

Next ==
  \/ Worker \/ Wakes
  \/ \E t \in Tasks : \/ Start(t) \/ Stop(t) \/ Destroy(t)
                      \/ CallNative(t) \/ SetNativeTask(t)
                      \/ Coroutine(t) \/ End(t) \/ NeverBegins(t)
  \/ CalcCancelled
  \/ Close \/ Main \/ LoopEnds

Spec == Init /\ [][Next]_vars

\* Threads go on, but a worker which has missed its notification need not wake, and
\* nothing obliges it to look again at a publisher which was not done. A coroutine
\* which has been told to cancel ends, any other need not.
FairSpec ==
  /\ Spec
  /\ WF_vars(Worker) /\ WF_vars(Main) /\ WF_vars(LoopEnds)
  /\ \A t \in Tasks : /\ WF_vars(Coroutine(t)) /\ WF_vars(NeverBegins(t))
                      /\ WF_vars(t \in cancels /\ End(t))
=============================================================================
