---------------------------- MODULE PyTaskProps ----------------------------
(***************************************************************************)
(* What coroutines run as worksheet functions must keep to.                *)
(***************************************************************************)
EXTENDS PyTask

\* Every variable holds what the code may put there.
TypeOK ==
  /\ pub \in [Tasks -> {"fresh", "alive", "stopped", "dead", "calling", "called", "cancelled"}]
  /\ running \in [Tasks -> BOOLEAN] /\ task \in [Tasks -> BOOLEAN]
  /\ coro \in [Tasks -> {None, "ended"} \union Unfinished]
  /\ cancels \subseteq Tasks
  /\ results \in [Tasks -> 0..MaxResults] /\ sent \in [Tasks -> 0..MaxResults]
  /\ first \in Native \union {None}
  /\ worker.at \in {"idle", "call", "settask", "ended"}
  /\ quit \in BOOLEAN /\ missed \in BOOLEAN
  /\ loop \in {"up", "stopping", "closed"}
  /\ main \in {"open", "joining", "unloading", "unloaded"}

\* The result which set_result is converting may go out; no conversion begins.
OneMore(t) ==
  /\ sent'[t] # sent[t] => coro[t] = "converting"
  /\ coro'[t] = "converting" => coro[t] = "converting"

\* PyRtd.cpp:91-103: set_result tests _running before it converts, and publishes
\* afterwards without a second test. Once its publisher was stopped a task may
\* still publish the one result which is being converted, and no other, whatever
\* the coroutine goes on to produce. This needs ~OtherStops: set_task, which sets
\* _running again, may follow the stop by another thread.
LastResult == [][\A t \in Rtd : pub[t] \in {"stopped", "dead"} => OneMore(t)]_vars

\* The same once the publisher, to which RtdReturn keeps a reference (PyRtd.h:41),
\* has been destroyed.
LastOfDead == [][\A t \in Rtd : pub[t] = "dead" => OneMore(t)]_vars

\* RtdServer.h:42: a publisher which says that it is done can be destroyed. Not so:
\* done() is true as soon as the task was cancelled, and the result in conversion
\* goes out through the destroyed publisher.
DeadIsSilent == [][\A t \in Rtd : pub[t] = "dead" => sent'[t] = sent[t]]_vars

\* PyRtd.cpp:120: cancel() uses the core add-in's event loop. The worker of the
\* asynchronous functions' server is waited for before the loop goes, so that no
\* task is left to cancel afterwards.
CancelledInTime ==
  loop # "up" => \A t \in Rtd : pub[t] # "alive" /\ worker.at = "ended"

\* A coroutine which is not told to stop need not end; one whose publisher was
\* stopped does (PyRtd.cpp:113-121), from whatever point it has reached, unless
\* Python is unloaded first.
StoppedEnds ==
  \A t \in Rtd : pub[t] = "stopped" ~> coro[t] \notin Unfinished \/ loop # "up"

\* AddinLoader.cpp:102-117: closing the last add-in ends, whatever tasks and
\* coroutines there are, unless the worker misses the notification in quit()
\* (RtdServerWorker.h:66-75): then join() may wait for ever.
CloseEnds == main = "joining" ~> main = "unloaded" \/ missed

\* Without that exception it does not hold.
CloseAlwaysEnds == main = "joining" ~> main = "unloaded"

\* AsyncFunctions.cpp:63: a native call returns its own result. Not so: the
\* converted result is a static, which keeps the first one for ever.
OwnAnswer == \A t \in Native : sent[t] > 0 => first = t
=============================================================================
