---------------------------- MODULE PyTaskProofs ----------------------------
(***************************************************************************)
(* Proofs about coroutines as worksheet functions, for every set of tasks: *)
(* the types, that no task is left to cancel when the event loop goes, and *)
(* that a stopped task publishes at most the result in conversion.         *)
(***************************************************************************)
EXTENDS PyTaskProps, TLAPS

\* The task which the worker is starting.
InHand == worker.at \in {"call", "settask"}

Workers == [at : {"idle", "ended"}] \union [at : {"call", "settask"}, task : Rtd]

\* No more is sent than was produced.
Counts ==
  \A t \in Tasks : /\ sent[t] <= results[t]
                   /\ coro[t] = "converting" => sent[t] < results[t] /\ t \in Yields

Types == TypeOK /\ worker \in Workers

\* The publisher of a task which the worker is starting is still there; one which
\* is dead has nothing running; and when the worker has ended there are none.
LifeInv ==
  /\ Types /\ Counts
  /\ InHand => pub[worker.task] \in {"alive", "stopped"}
  /\ \A t \in Rtd : pub[t] = "dead" => ~running[t]
  /\ worker.at = "ended" => \A t \in Rtd : pub[t] \notin {"alive", "stopped"}
  /\ loop # "up" => worker.at = "ended"

\* With nobody but the worker to stop tasks, none is stopped while it is started.
QuietInv ==
  /\ LifeInv
  /\ InHand => pub[worker.task] = "alive"
  /\ \A t \in Rtd : pub[t] \in {"stopped", "dead"} => ~running[t]

\* The counters are numbers within their bounds.
LEMMA NumberTypes ==
  ASSUME Types
  PROVE  /\ results \in [Tasks -> 0..MaxResults] /\ sent \in [Tasks -> 0..MaxResults]
         /\ DOMAIN results = Tasks /\ DOMAIN sent = Tasks
         /\ \A t \in Tasks : results[t] \in 0..MaxResults /\ sent[t] \in 0..MaxResults
BY DEF Types, TypeOK

\* Every step keeps the types.
LEMMA TypeKept == Types /\ Counts /\ [Next]_vars => Types'
<1> SUFFICES ASSUME Types, Counts, [Next]_vars PROVE Types'
  OBVIOUS
<1>0. /\ results \in [Tasks -> 0..MaxResults] /\ sent \in [Tasks -> 0..MaxResults]
      /\ \A t \in Tasks : results[t] \in 0..MaxResults /\ sent[t] \in 0..MaxResults
      /\ \A t \in Tasks : sent[t] <= results[t] /\ (coro[t] = "converting" => sent[t] < results[t])
  BY NumberTypes DEF Counts
<1> USE PyTaskConstants DEF Types, TypeOK, Workers, Rtd, Unfinished, None, closing, coros
<1>1. ASSUME NEW t \in Tasks, Start(t) PROVE Types'
  BY <1>1 DEF Start
<1>2. CASE Call
  <2>1. worker \in [at : {"call", "settask"}, task : Rtd]
    BY <1>2 DEF Call
  <2>. QED BY <1>2, <2>1 DEF Call
<1>3. CASE CallFails
  <2>1. worker \in [at : {"call", "settask"}, task : Rtd]
    BY <1>3 DEF CallFails
  <2>. QED BY <1>3, <2>1 DEF CallFails, Idle
<1>4. CASE SetTask
  <2>1. worker \in [at : {"call", "settask"}, task : Rtd]
    BY <1>4 DEF SetTask
  <2>. QED BY <1>4, <2>1 DEF SetTask, Idle
<1>5. ASSUME NEW t \in Tasks, Stop(t) PROVE Types'
  BY <1>5 DEF Stop, Cancel
<1>6. ASSUME NEW t \in Tasks, Destroy(t) PROVE Types'
  BY <1>6 DEF Destroy, Cancel
<1>7. CASE WorkerClears
  BY <1>7 DEF WorkerClears
<1>8. ASSUME NEW t \in Tasks, CallNative(t) PROVE Types'
  BY <1>8 DEF CallNative
<1>9. ASSUME NEW t \in Tasks, SetNativeTask(t) PROVE Types'
  BY <1>9 DEF SetNativeTask
<1>10. CASE CalcCancelled
  BY <1>10 DEF CalcCancelled
<1>11. ASSUME NEW t \in Tasks, Begin(t) PROVE Types'
  BY <1>11 DEF Begin
<1>12. ASSUME NEW t \in Tasks, Unheeded(t) PROVE Types'
  BY <1>12 DEF Unheeded, Produced
<1>13. ASSUME NEW t \in Tasks, Convert(t) PROVE Types'
  BY <1>13 DEF Convert, Produced
<1>14. ASSUME NEW t \in Tasks, Send(t) PROVE Types'
  <2>1. /\ results \in [Tasks -> 0..MaxResults] /\ sent \in [Tasks -> 0..MaxResults]
        /\ results[t] \in 0..MaxResults /\ sent[t] \in 0..MaxResults
        /\ sent[t] <= results[t] /\ (coro[t] = "converting" => sent[t] < results[t])
    BY <1>0
  <2>2. sent' = [sent EXCEPT ![t] = sent[t] + 1]
    BY <1>14 DEF Send
  <2>3. \/ coro[t] = "converting" /\ results' = results
        \/ results[t] < MaxResults /\ results' = [results EXCEPT ![t] = results[t] + 1]
    BY <1>14 DEF Send, Produced
  <2> HIDE DEF Types, TypeOK
  <2>4. results' \in [Tasks -> 0..MaxResults] /\ sent[t] + 1 \in 0..MaxResults
    BY <2>1, <2>3
  <2>5. sent' \in [Tasks -> 0..MaxResults]
    BY <2>1, <2>2, <2>4
  <2> USE DEF Types, TypeOK
  <2>. QED BY <1>14, <2>4, <2>5 DEF Send, Kept
<1>15. ASSUME NEW t \in Tasks, End(t) PROVE Types'
  BY <1>15 DEF End, SetDone
<1>16. ASSUME NEW t \in Tasks, NeverBegins(t) PROVE Types'
  BY <1>16 DEF NeverBegins
<1>17. CASE Close \/ Wakes \/ StopLoop \/ LoopEnds \/ Unloaded
  BY <1>17 DEF Close, Wakes, StopLoop, LoopEnds, Unloaded, Told
<1>18. CASE UNCHANGED vars
  BY <1>18 DEF vars
<1>. QED BY <1>1, <1>2, <1>3, <1>4, <1>5, <1>6, <1>7, <1>8, <1>9, <1>10, <1>11, <1>12,
            <1>13, <1>14, <1>15, <1>16, <1>17, <1>18 DEF Next, Worker, Coroutine, Main

\* A task publishes no more than it has produced.
LEMMA CountsKept == Types /\ Counts /\ [Next]_vars => Counts'
<1> SUFFICES ASSUME Types, Counts, [Next]_vars, NEW u \in Tasks
             PROVE  /\ sent'[u] <= results'[u]
                    /\ coro'[u] = "converting" => sent'[u] < results'[u] /\ u \in Yields
  BY DEF Counts
<1>1. /\ DOMAIN results = Tasks /\ DOMAIN sent = Tasks
      /\ \A t \in Tasks : results[t] \in 0..MaxResults /\ sent[t] \in 0..MaxResults
      /\ coro \in [Tasks -> {None, "ended"} \union Unfinished]
      /\ sent[u] <= results[u]
      /\ coro[u] = "converting" => sent[u] < results[u] /\ u \in Yields
  BY NumberTypes DEF Types, TypeOK, Counts
<1>2. ASSUME NEW t \in Tasks, Unheeded(t) \/ Convert(t) \/ Send(t)
      PROVE  /\ sent'[u] <= results'[u]
             /\ coro'[u] = "converting" => sent'[u] < results'[u] /\ u \in Yields
  BY <1>1, <1>2 DEF Unheeded, Convert, Send, Produced
<1>3. ASSUME UNCHANGED <<results, sent>>, coro'[u] = coro[u] \/ coro'[u] # "converting"
      PROVE  /\ sent'[u] <= results'[u]
             /\ coro'[u] = "converting" => sent'[u] < results'[u] /\ u \in Yields
  BY <1>1, <1>3
<1>4. CASE Call \/ CallFails
  BY <1>1, <1>3, <1>4 DEF Call, CallFails
<1>5. CASE SetTask \/ WorkerClears \/ CalcCancelled \/ Close \/ Wakes \/ StopLoop \/ LoopEnds \/ Unloaded
  BY <1>3, <1>5 DEF SetTask, WorkerClears, CalcCancelled, Close, Wakes, StopLoop, LoopEnds, Unloaded, coros
<1>6. ASSUME NEW t \in Tasks, Start(t) \/ Stop(t) \/ Destroy(t) \/ SetNativeTask(t)
      PROVE  UNCHANGED coros
  BY <1>6 DEF Start, Stop, Destroy, SetNativeTask
<1>7. ASSUME NEW t \in Tasks, CallNative(t) \/ Begin(t) \/ End(t) \/ NeverBegins(t)
      PROVE  UNCHANGED <<results, sent>> /\ (coro'[u] = coro[u] \/ coro'[u] # "converting")
  BY <1>1, <1>7 DEF CallNative, Begin, End, NeverBegins
<1>8. CASE UNCHANGED vars
  BY <1>3, <1>8 DEF vars
<1>. QED BY <1>2, <1>3, <1>4, <1>5, <1>6, <1>7, <1>8 DEF Next, Worker, Coroutine, Main, coros

\* What does not start or end a task, or the worker, leaves the publishers alone.
LEMMA LifeKept == LifeInv /\ [Next]_vars => LifeInv'
<1> SUFFICES ASSUME LifeInv, [Next]_vars PROVE LifeInv'
  OBVIOUS
<1>1. Types' /\ Counts'
  BY TypeKept, CountsKept DEF LifeInv
<1>2. /\ DOMAIN pub = Tasks /\ running \in [Tasks -> BOOLEAN] /\ worker \in Workers
  BY DEF LifeInv, Types, TypeOK
<1> DEFINE Rest ==
      /\ InHand => pub[worker.task] \in {"alive", "stopped"}
      /\ \A t \in Rtd : pub[t] = "dead" => ~running[t]
      /\ worker.at = "ended" => \A t \in Rtd : pub[t] \notin {"alive", "stopped"}
      /\ loop # "up" => worker.at = "ended"
<1>3. Rest
  BY DEF LifeInv
<1> SUFFICES Rest'
  BY <1>1 DEF LifeInv
<1>4. ASSUME NEW t \in Tasks, Start(t) PROVE Rest'
  BY <1>2, <1>3, <1>4 DEF Start, Awake, Idle, InHand, closing
<1>5. CASE Call \/ CallFails
  BY <1>2, <1>3, <1>5 DEF Call, CallFails, Idle, InHand, Workers, closing
<1>6. CASE SetTask
  BY <1>2, <1>3, <1>6 DEF SetTask, Idle, InHand, closing
<1>7. ASSUME NEW t \in Tasks, Stop(t) PROVE Rest'
  BY <1>2, <1>3, <1>7 DEF Stop, Awake, Cancel, InHand, closing, Rtd
<1>8. ASSUME NEW t \in Tasks, Destroy(t) PROVE Rest'
  BY <1>2, <1>3, <1>8 DEF Destroy, Awake, Cancel, InHand, Idle, closing, Rtd
<1>9. CASE WorkerClears
  BY <1>2, <1>3, <1>9 DEF WorkerClears, Awake, InHand, Idle, closing, Rtd
<1>10. ASSUME NEW t \in Tasks, CallNative(t) \/ SetNativeTask(t) PROVE Rest'
  BY <1>2, <1>3, <1>10 DEF CallNative, SetNativeTask, InHand, closing, Rtd, Workers
<1>11. CASE CalcCancelled
  BY <1>2, <1>3, <1>11 DEF CalcCancelled, InHand, closing, Rtd, Workers
<1>12. ASSUME NEW t \in Tasks, Coroutine(t) \/ NeverBegins(t) PROVE Rest'
  BY <1>3, <1>12 DEF Coroutine, Begin, Unheeded, Convert, Send, NeverBegins, InHand, closing
<1>13. ASSUME NEW t \in Tasks, End(t) PROVE Rest'
  BY <1>2, <1>3, <1>13 DEF End, SetDone, InHand, closing
<1>14. CASE Close \/ Wakes \/ StopLoop \/ LoopEnds \/ Unloaded
  BY <1>3, <1>14 DEF Close, Wakes, StopLoop, LoopEnds, Unloaded, Told, Joined, InHand
<1>15. CASE UNCHANGED vars
  BY <1>3, <1>15 DEF vars, InHand
<1>. QED BY <1>4, <1>5, <1>6, <1>7, <1>8, <1>9, <1>10, <1>11, <1>12, <1>13, <1>14, <1>15
     DEF Next, Worker, Main

\* If nobody but the worker stops tasks, every step keeps the invariant of silence.
LEMMA QuietKept == ~OtherStops /\ QuietInv /\ [Next]_vars => QuietInv'
<1> SUFFICES ASSUME ~OtherStops, QuietInv, [Next]_vars PROVE QuietInv'
  OBVIOUS
<1>1. LifeInv'
  BY LifeKept DEF QuietInv
<1>2. /\ DOMAIN pub = Tasks /\ running \in [Tasks -> BOOLEAN] /\ worker \in Workers
      /\ worker.at = "ended" => \A t \in Rtd : pub[t] \notin {"alive", "stopped"}
  BY DEF QuietInv, LifeInv, Types, TypeOK
<1> DEFINE Rest ==
      /\ InHand => pub[worker.task] = "alive"
      /\ \A t \in Rtd : pub[t] \in {"stopped", "dead"} => ~running[t]
<1>3. Rest
  BY DEF QuietInv
<1> SUFFICES Rest'
  BY <1>1 DEF QuietInv
<1>4. ASSUME NEW t \in Tasks, Start(t) PROVE Rest'
  BY <1>2, <1>3, <1>4 DEF Start, Awake, Idle, InHand
<1>5. CASE Call \/ CallFails
  BY <1>2, <1>3, <1>5 DEF Call, CallFails, Idle, InHand, Workers
<1>6. CASE SetTask
  BY <1>2, <1>3, <1>6 DEF SetTask, Idle, InHand
<1>7. ASSUME NEW t \in Tasks, Stop(t) PROVE Rest'
  BY <1>2, <1>3, <1>7 DEF Stop, Awake, Cancel, InHand, Rtd, Idle
<1>8. ASSUME NEW t \in Tasks, Destroy(t) PROVE Rest'
  BY <1>2, <1>3, <1>8 DEF Destroy, Awake, Cancel, InHand, Idle, Rtd
<1>9. CASE WorkerClears
  BY <1>2, <1>3, <1>9 DEF WorkerClears, Awake, InHand, Idle, Rtd
<1>10. ASSUME NEW t \in Tasks, CallNative(t) \/ SetNativeTask(t) PROVE Rest'
  BY <1>2, <1>3, <1>10 DEF CallNative, SetNativeTask, InHand, Rtd, Workers
<1>11. CASE CalcCancelled
  BY <1>2, <1>3, <1>11 DEF CalcCancelled, InHand, Rtd, Workers
<1>12. ASSUME NEW t \in Tasks, Coroutine(t) \/ NeverBegins(t) PROVE Rest'
  BY <1>3, <1>12 DEF Coroutine, Begin, Unheeded, Convert, Send, NeverBegins, InHand
<1>13. ASSUME NEW t \in Tasks, End(t) PROVE Rest'
  BY <1>2, <1>3, <1>13 DEF End, SetDone, InHand
<1>14. CASE Close \/ Wakes \/ StopLoop \/ LoopEnds \/ Unloaded
  BY <1>3, <1>14 DEF Close, Wakes, StopLoop, LoopEnds, Unloaded, InHand
<1>15. CASE UNCHANGED vars
  BY <1>3, <1>15 DEF vars, InHand
<1>. QED BY <1>4, <1>5, <1>6, <1>7, <1>8, <1>9, <1>10, <1>11, <1>12, <1>13, <1>14, <1>15
     DEF Next, Worker, Main

\* A result goes out, or into conversion, only for a task which is running or past
\* the test in set_result.
LEMMA IdleIsLast ==
  ASSUME Types, [Next]_vars, NEW u \in Rtd, ~running[u]
  PROVE  OneMore(u)
<1>1. /\ DOMAIN sent = Tasks /\ DOMAIN coro = Tasks /\ u \in Tasks /\ u \notin Native
  BY NumberTypes DEF Rtd, Types, TypeOK
<1>2. ASSUME NEW t \in Tasks, Send(t) PROVE OneMore(u)
  BY <1>1, <1>2 DEF Send, Heeded, OneMore
<1>3. ASSUME NEW t \in Tasks, Convert(t) PROVE OneMore(u)
  BY <1>1, <1>3 DEF Convert, Heeded, OneMore
<1>4. ASSUME NEW t \in Tasks, \/ CallNative(t) \/ Begin(t) \/ End(t) \/ NeverBegins(t)
      PROVE  OneMore(u)
  BY <1>1, <1>4 DEF CallNative, Begin, End, NeverBegins, OneMore
<1>5. ASSUME NEW t \in Tasks, \/ Start(t) \/ Stop(t) \/ Destroy(t) \/ SetNativeTask(t) \/ Unheeded(t)
      PROVE  OneMore(u)
  BY <1>5 DEF Start, Stop, Destroy, SetNativeTask, Unheeded, OneMore, coros
<1>6. CASE Call \/ CallFails
  BY <1>1, <1>6 DEF Call, CallFails, OneMore
<1>7. CASE \/ SetTask \/ WorkerClears \/ CalcCancelled
           \/ Close \/ Wakes \/ StopLoop \/ LoopEnds \/ Unloaded \/ UNCHANGED vars
  BY <1>7 DEF SetTask, WorkerClears, CalcCancelled, Close, Wakes, StopLoop, LoopEnds, Unloaded,
              OneMore, vars, coros
<1>. QED BY <1>2, <1>3, <1>4, <1>5, <1>6, <1>7 DEF Next, Worker, Coroutine, Main

\* The invariants hold at first.
LEMMA TasksStart == Init => QuietInv
<1> SUFFICES ASSUME Init PROVE QuietInv
  OBVIOUS
<1>1. Types
  <2>1. 0 \in 0..MaxResults
    BY PyTaskConstants
  <2>2. worker \in Workers
    BY DEF Init, Workers, Idle
  <2>3. /\ results \in [Tasks -> 0..MaxResults] /\ sent \in [Tasks -> 0..MaxResults]
    BY <2>1 DEF Init
  <2>4. worker.at = "idle"
    BY DEF Init, Idle
  <2>. QED BY <2>2, <2>3, <2>4 DEF Init, Types, TypeOK
<1>2. Counts
  <2>1. \A t \in Tasks : sent[t] = 0 /\ results[t] = 0 /\ coro[t] = "none"
    BY DEF Init, None
  <2>2. "none" # "converting" /\ 0 <= 0
    OBVIOUS
  <2> SUFFICES ASSUME NEW t \in Tasks
               PROVE  sent[t] <= results[t] /\ coro[t] # "converting"
    BY DEF Counts
  <2>. QED BY <2>1, <2>2
<1>3. worker.at = "idle" /\ ~InHand
  BY DEF Init, Idle, InHand
<1>. QED BY <1>1, <1>2, <1>3 DEF Init, QuietInv, LifeInv, Rtd

\* The invariant of publishers' lives holds in every behaviour.
LEMMA LifeAlways == Spec => []LifeInv
<1>1. Init => LifeInv
  BY TasksStart DEF QuietInv
<1>. QED BY <1>1, LifeKept, PTL DEF Spec

-----------------------------------------------------------------------------
\* Every variable of the python tasks keeps its type.
THEOREM PyTaskTypeCorrect == Spec => []TypeOK
<1>1. LifeInv => TypeOK
  BY DEF LifeInv, Types
<1>. QED BY <1>1, LifeAlways, PTL

\* However tasks are stopped, by whatever threads, and whenever the server quits, a
\* task whose publisher has been destroyed begins no conversion, and only a result
\* already in conversion goes out (PyRtd.cpp:91-103).
THEOREM LastOfDestroyed == Spec => LastOfDead
<1>1. LifeInv /\ [Next]_vars => [\A t \in Rtd : pub[t] = "dead" => OneMore(t)]_vars
  <2> SUFFICES ASSUME LifeInv, [Next]_vars, NEW u \in Rtd, pub[u] = "dead" PROVE OneMore(u)
    OBVIOUS
  <2>1. Types /\ ~running[u]
    BY DEF LifeInv
  <2>. QED BY <2>1, IdleIsLast
<1>. QED BY <1>1, LifeAlways, PTL DEF Spec, LastOfDead

\* When the event loop has been told to end no task is left whose cancel() would use
\* it (PyRtd.cpp:120).
THEOREM NothingLeftToCancel == Spec => []CancelledInTime
<1>1. LifeInv => CancelledInTime
  BY DEF LifeInv, CancelledInTime
<1>. QED BY <1>1, LifeAlways, PTL

\* If only the worker stops tasks, the same holds from the stop on (PyRtd.cpp:91-103):
\* without that set_task may make a stopped task run again.
THEOREM LastOfStopped ==
  ASSUME ~OtherStops PROVE Spec => LastResult
<1>1. Init => QuietInv
  BY TasksStart
<1>2. QuietInv /\ [Next]_vars => QuietInv'
  BY QuietKept
<1>3. QuietInv /\ [Next]_vars =>
        [\A t \in Rtd : pub[t] \in {"stopped", "dead"} => OneMore(t)]_vars
  <2> SUFFICES ASSUME QuietInv, [Next]_vars, NEW u \in Rtd, pub[u] \in {"stopped", "dead"}
               PROVE  OneMore(u)
    OBVIOUS
  <2>1. Types /\ ~running[u]
    BY DEF QuietInv, LifeInv
  <2>. QED BY <2>1, IdleIsLast
<1>. QED BY <1>1, <1>2, <1>3, PTL DEF Spec, LastResult
=============================================================================
