----------------------------- MODULE MainQueue -----------------------------
(***************************************************************************)
(* The queue of functions to be run on Excel's main thread: runExcelThread *)
(* and the Messenger behind it (xlOil-COM/API/ExcelThread.cpp), with       *)
(* runInXllContext and the connection to COM at start-up.                  *)
(*                                                                         *)
(* A job is the packaged task of one call of runExcelThread. Any thread    *)
(* puts jobs in the queue and sees to it that the main thread is woken: by *)
(* a posted message, or by the one timer, which is periodic and never      *)
(* killed. The main thread dispatches either to TimerCallback, from its    *)
(* message loop or from that of a job which shows a dialog, so that        *)
(* callbacks nest. Times are the milliseconds left, in coarse units.       *)
(***************************************************************************)
EXTENDS Naturals, Sequences

CONSTANTS
  Jobs,
  Threads,
  Main,        \* the main thread
  Program,     \* the jobs which each thread submits, in order
  Api,         \* "com", "xll" or "none": what a job's flags ask for
  NoRetry,     \* jobs with the flag NO_RETRY
  Enqueue,     \* jobs with the flag ENQUEUE
  Before,      \* waitBeforeCall of each job
  Between,     \* waitBetweenRetries of each job
  Startup,     \* jobs which are a RetryAtStartup
  FuncOf,      \* the job which each of those submits once COM is connected
  Reconnect,   \* the time between its attempts
  Pumps,       \* jobs which dispatch messages whilst they run
  MaxDepth,    \* bound on the nesting of callbacks
  MaxTime      \* the longest time: what an unset timer, or garbage, may hold

ASSUME QueueConstants ==
  /\ Main \in Threads
  /\ Program \in [Threads -> Seq(Jobs)]
  /\ Api \in [Jobs -> {"com", "xll", "none"}]
  /\ NoRetry \subseteq Jobs /\ Enqueue \subseteq Jobs /\ Pumps \subseteq Jobs
  /\ MaxTime \in Nat
  /\ Before \in [Jobs -> 0..MaxTime] /\ Between \in [Jobs -> 0..MaxTime]
  /\ Startup \subseteq Enqueue /\ \A j \in Startup : Api[j] = "none"
  \* runComSetupOnXllOpen is called on the main thread (CoreEntryPoint.cpp:67-89)
  /\ \A h \in Threads \ {Main} : \A m \in DOMAIN Program[h] : Program[h][m] \notin Startup
  /\ FuncOf \in [Startup -> Jobs \ Startup]
  \* a job is one call: it is submitted once
  /\ \A g, h \in Threads : \A m \in DOMAIN Program[g], n \in DOMAIN Program[h] :
       /\ Program[g][m] = Program[h][n] => g = h /\ m = n
       /\ \A j \in Startup : FuncOf[j] # Program[g][m]
  /\ \A i, j \in Startup : FuncOf[i] = FuncOf[j] => i = j
  /\ Reconnect \in 1..MaxTime
  /\ MaxDepth \in Nat

VARIABLES
  queue,      \* _timerQueue: the jobs with the time left, by due time
  posted,     \* a WINDOW_MESSAGE is waiting (several are as good as one)
  timer,      \* the time left until WM_TIMER, and the period (0: not set)
  frames,     \* the callbacks which the main thread is in, innermost first
  arming,     \* what each thread is about to give to startTimer
  todo,       \* the rest of each thread's program
  outcome,    \* what has become of each job
  connected,  \* theComConnector exists
  busy        \* Excel rejects COM calls

vars == <<queue, posted, timer, frames, arming, todo, outcome, connected, busy>>

-----------------------------------------------------------------------------
Time == 0..MaxTime
Entry == [job: Jobs, left: Time]
Quiet == MaxTime + 1      \* in arming: not about to call startTimer

\* A TimerCallback, or a run of a job at once (direct), and the job it is at.
Frame == [at: {"check", "run", "body", "requeue"}, items: Seq(Jobs), kept: Seq(Jobs),
          com: BOOLEAN, direct: BOOLEAN]

Called(js, d) == [at |-> "check", items |-> js, kept |-> <<>>, com |-> FALSE, direct |-> d]
Top == frames[1]
Job == Head(Top.items)

Pending == {"queued", "retried"}

\* isComApiAvailable()
Available == connected /\ ~busy

\* InXllContext::check(): a job is running in an XLL function.
InXll == \E k \in DOMAIN frames : frames[k].at = "body" /\ Api[Head(frames[k].items)] = "xll"

\* The main thread is in no step of a callback: it may call and dispatch.
Calm == arming[Main] = Quiet /\ (frames # <<>> => Top.at = "body")

\* TimerCallback holds _lock whilst it puts jobs back.
Locked == frames # <<>> /\ Top.at = "requeue"

\* Fault: before those due at the same time.
EmplaceFirst(j, ms) ==
  \E k \in 0..Len(queue) :
    /\ \A i \in 1..k : queue[i].left < ms
    /\ \A i \in k + 1..Len(queue) : queue[i].left >= ms
    /\ queue' = SubSeq(queue, 1, k) \o <<[job |-> j, left |-> ms]>>
                  \o SubSeq(queue, k + 1, Len(queue))

\* emplace() in the multimap: after all those due no later.
Emplace(j, ms) ==
  \E k \in 0..Len(queue) :
    /\ \A i \in 1..k : queue[i].left <= ms
    /\ \A i \in k + 1..Len(queue) : queue[i].left > ms
    /\ queue' = SubSeq(queue, 1, k) \o <<[job |-> j, left |-> ms]>>
                  \o SubSeq(queue, k + 1, Len(queue))

\* firstJobTime() reads the first element even if there is none.
FirstJobTime(q) == IF q = <<>> THEN Time ELSE {q[1].left}

Init ==
  /\ queue = <<>>
  /\ posted = FALSE
  /\ timer = [left |-> 0, period |-> 0]
  /\ frames = <<>>
  /\ arming = [h \in Threads |-> Quiet]
  /\ todo = Program
  /\ outcome = [j \in Jobs |-> "new"]
  /\ connected = FALSE
  /\ busy \in BOOLEAN

-----------------------------------------------------------------------------
(***************************************************************************)
(* runExcelThread, in any thread.                                          *)
(***************************************************************************)
\* On the main thread a job may be run at once.
RunsNow(h, j) == h = Main /\ Before[j] = 0 /\ j \notin Enqueue

CallNow(j) ==
  /\ Calm
  /\ todo[Main] # <<>> /\ j = Head(todo[Main]) /\ RunsNow(Main, j)
  /\ frames' = <<Called(<<j>>, TRUE)>> \o frames
  /\ todo' = [todo EXCEPT ![Main] = Tail(@)]
  /\ outcome' = [outcome EXCEPT ![j] = "queued"]
  /\ UNCHANGED <<queue, posted, timer, arming, connected, busy>>

\* enqueue(): put the job in the queue under the lock and work out when the
\* main thread is to be woken.
Submit(h, j) ==
  /\ arming[h] = Quiet
  /\ h = Main => Calm
  /\ ~Locked
  /\ todo[h] # <<>> /\ j = Head(todo[h]) /\ ~RunsNow(h, j)
  /\ Emplace(j, Before[j])
  /\ \E ms \in FirstJobTime(queue') :
       arming' = [arming EXCEPT ![h] = IF Before[j] = 0 THEN 0 ELSE ms]
  /\ todo' = [todo EXCEPT ![h] = Tail(@)]
  /\ outcome' = [outcome EXCEPT ![j] = "queued"]
  /\ UNCHANGED <<posted, timer, frames, connected, busy>>

\* Fault: no wait is taken to mean no timer.
StartTimerUnlessZero(ms) ==
  /\ timer' = IF ms = 0 THEN timer ELSE [left |-> ms, period |-> ms]
  /\ UNCHANGED posted

\* startTimer(), with the lock released: there is only one timer.
StartTimer(ms) ==
  IF ms = 0
  THEN posted' = TRUE /\ UNCHANGED timer
  ELSE timer' = [left |-> ms, period |-> ms] /\ UNCHANGED posted

Arm(h) ==
  /\ arming[h] # Quiet
  /\ StartTimer(arming[h])
  /\ arming' = [arming EXCEPT ![h] = Quiet]
  /\ UNCHANGED <<queue, frames, todo, outcome, connected, busy>>

-----------------------------------------------------------------------------
(***************************************************************************)
(* The main thread's message loop, or that of a job, and TimerCallback.    *)
(***************************************************************************)
Dispatches ==
  /\ Calm
  /\ frames # <<>> => Job \in Pumps
  /\ Len(frames) < MaxDepth

\* Fault: the jobs are not erased from the queue.
TakeCopies ==
  \E k \in 0..Len(queue) :
    /\ \A i \in 1..k : queue[i].left = 0
    /\ k < Len(queue) => queue[k + 1].left > 0
    /\ frames' = IF k = 0 THEN frames
                 ELSE <<Called([i \in 1..k |-> queue[i].job], FALSE)>> \o frames
    /\ UNCHANGED queue

\* Take all jobs which are due; return if there are none.
TakeDue ==
  \E k \in 0..Len(queue) :
    /\ \A i \in 1..k : queue[i].left = 0
    /\ k < Len(queue) => queue[k + 1].left > 0
    /\ queue' = SubSeq(queue, k + 1, Len(queue))
    /\ frames' = IF k = 0 THEN frames
                 ELSE <<Called([i \in 1..k |-> queue[i].job], FALSE)>> \o frames

WindowMessage ==
  /\ Dispatches
  /\ posted
  /\ posted' = FALSE
  /\ TakeDue
  /\ UNCHANGED <<timer, arming, todo, outcome, connected, busy>>

TimerMessage ==
  /\ Dispatches
  /\ timer.period > 0 /\ timer.left = 0
  /\ timer' = [timer EXCEPT !.left = timer.period]
  /\ TakeDue
  /\ UNCHANGED <<posted, arming, todo, outcome, connected, busy>>

Becomes(f) == frames' = [frames EXCEPT ![1] = f]

\* Ask whether COM is available, once for all the jobs.
Check ==
  /\ frames # <<>> /\ Top.at = "check"
  /\ Becomes([Top EXCEPT !.at = "run", !.com = Available])
  /\ UNCHANGED <<queue, posted, timer, arming, todo, outcome, connected, busy>>

\* QueueItem::operator() returns false: by what was found before, or because the
\* call of the XLL function by COM is rejected now.
Refused(j) ==
  \/ Api[j] = "com" /\ ~Top.com
  \/ Api[j] = "xll" /\ ~InXll /\ (~Top.com \/ busy)

Refuse ==
  /\ frames # <<>> /\ Top.at = "run" /\ Top.items # <<>>
  /\ Refused(Job)
  /\ Becomes([Top EXCEPT !.items = Tail(@), !.kept = Append(@, Job)])
  /\ UNCHANGED <<queue, posted, timer, arming, todo, outcome, connected, busy>>

Run ==
  /\ frames # <<>> /\ Top.at = "run" /\ Top.items # <<>>
  /\ ~Refused(Job)
  /\ Becomes([Top EXCEPT !.at = "body"])
  /\ UNCHANGED <<queue, posted, timer, arming, todo, outcome, connected, busy>>

\* The job returns. If a COM call within it was rejected, the packaged task has
\* caught the exception.
Finish ==
  /\ Calm /\ frames # <<>>
  /\ Job \notin Startup \/ outcome[Job] = "ran"
  /\ \E r \in IF Api[Job] = "com" /\ busy THEN {"ran", "busy"} ELSE {"ran"} :
       outcome' = [outcome EXCEPT ![Job] = r]
  /\ Becomes([Top EXCEPT !.at = "run", !.items = Tail(@)])
  /\ UNCHANGED <<queue, posted, timer, arming, todo, connected, busy>>

\* Fault: the refused jobs are forgotten.
TriedForgotten ==
  /\ frames # <<>> /\ Top.at = "run" /\ Top.items = <<>>
  /\ frames' = Tail(frames)
  /\ UNCHANGED <<queue, posted, timer, arming, todo, outcome, connected, busy>>

\* All jobs have been tried. If none was refused, return.
Tried ==
  /\ frames # <<>> /\ Top.at = "run" /\ Top.items = <<>>
  /\ IF Top.kept = <<>> THEN frames' = Tail(frames)
                        ELSE Becomes([Top EXCEPT !.at = "requeue"])
  /\ UNCHANGED <<queue, posted, timer, arming, todo, outcome, connected, busy>>

\* Put a refused job back, unless it has the flag NO_RETRY; one which was to run
\* at once is given to enqueue().
PutBack ==
  /\ Locked /\ Top.kept # <<>>
  /\ LET j == Head(Top.kept)
     IN IF Top.direct \/ j \notin NoRetry
        THEN /\ Emplace(j, IF Top.direct THEN 0 ELSE Between[j])
             /\ outcome' = [outcome EXCEPT ![j] = IF Top.direct THEN @ ELSE "retried"]
        ELSE /\ UNCHANGED queue
             /\ outcome' = [outcome EXCEPT ![j] = "dropped"]
  /\ Becomes([Top EXCEPT !.kept = Tail(@)])
  /\ UNCHANGED <<posted, timer, arming, todo, connected, busy>>

\* Release the lock, start the timer for what is first in the queue, and return.
Requeued ==
  /\ Locked /\ Top.kept = <<>>
  /\ \E ms \in FirstJobTime(queue) :
       arming' = [arming EXCEPT ![Main] = IF Top.direct THEN 0 ELSE ms]
  /\ frames' = Tail(frames)
  /\ UNCHANGED <<queue, posted, timer, todo, outcome, connected, busy>>

-----------------------------------------------------------------------------
(***************************************************************************)
(* RetryAtStartup, the body of the jobs in Startup.                        *)
(***************************************************************************)
Starting == Calm /\ frames # <<>> /\ Job \in Startup /\ outcome[Job] # "ran"

\* connectCom() throws ComConnectException: queue another attempt.
ConnectFails ==
  /\ Starting
  /\ Emplace(Job, Reconnect)
  /\ arming' = [arming EXCEPT ![Main] = queue'[1].left]
  /\ Becomes([Top EXCEPT !.at = "run", !.items = Tail(@)])
  /\ UNCHANGED <<posted, timer, todo, outcome, connected, busy>>

\* connectCom() succeeds: run the function which was waiting for it.
Connect ==
  /\ Starting
  /\ ~busy
  /\ connected' = TRUE
  /\ outcome' = [outcome EXCEPT ![Job] = "ran", ![FuncOf[Job]] = "queued"]
  /\ frames' = <<Called(<<FuncOf[Job]>>, TRUE)>> \o frames
  /\ UNCHANGED <<queue, posted, timer, arming, todo, busy>>

-----------------------------------------------------------------------------
Less(n) == IF n = 0 THEN 0 ELSE n - 1

\* Time passes, if anything depends on it.
Tick ==
  /\ timer.left > 0 \/ \E k \in DOMAIN queue : queue[k].left > 0
  /\ queue' = [k \in DOMAIN queue |-> [queue[k] EXCEPT !.left = Less(@)]]
  /\ timer' = [timer EXCEPT !.left = Less(@)]
  /\ UNCHANGED <<posted, frames, arming, todo, outcome, connected, busy>>

\* Excel begins or ceases to reject COM calls: a dialog, an edit, a calculation.
Busy ==
  /\ busy' = ~busy
  /\ UNCHANGED <<queue, posted, timer, frames, arming, todo, outcome, connected>>

Callback ==
  Check \/ Refuse \/ Run \/ Tried \/ PutBack \/ Requeued

Next ==
  \/ \E j \in Jobs : CallNow(j) \/ \E h \in Threads : Submit(h, j)
  \/ \E h \in Threads : Arm(h)
  \/ WindowMessage \/ TimerMessage
  \/ Callback \/ Finish
  \/ ConnectFails \/ Connect
  \/ Tick \/ Busy

Spec == Init /\ [][Next]_vars

(***************************************************************************)
(* Fairness: threads and time go on, callbacks and jobs return, and the    *)
(* main thread comes to dispatch each message although others may precede  *)
(* it: strong fairness, as a callback in between disables them. A dialog   *)
(* is closed in the end, however many callbacks it lets through. Neither   *)
(* Excel's accepting COM calls nor a connection is assumed.                *)
(***************************************************************************)
Fairness ==
  /\ WF_vars(\E h \in Threads : Arm(h))
  /\ WF_vars(Callback \/ Finish \/ ConnectFails \/ Connect)
  /\ SF_vars(WindowMessage) /\ SF_vars(TimerMessage)
  /\ \A k \in 1..MaxDepth - 1 : SF_vars(Len(frames) = k /\ Finish)
  /\ WF_vars(Tick)

FairSpec == Spec /\ Fairness
=============================================================================
