----------------------------- MODULE RtdClaims ------------------------------
(***************************************************************************)
(* What comments and documentation say of the RTD server, and the code     *)
(* does not do. TLC finds a counterexample to each.                        *)
(***************************************************************************)
EXTENDS RtdWorker

\* The worker has dealt with all that was asked of it and is waiting.
Quiet == toConnect = <<>> /\ toDisconnect = <<>> /\ pc = "blocked" /\ ~pending /\ running

\* RtdServerWorker.h:217: the wait "protects against spurious wakes and 'lost'
\* wakes"; then the quit() in join() reaches the worker, and ServerTerminate
\* returns.
JoinReturns == session = "terminating" ~> session = "down"

\* RtdServerWorker.h:283: when an id is disconnected and connected in one batch,
\* _activeTopicIds ends in the correct state.
ConnectedIsActive == Quiet => \A i \in Ids : conn[i] # None => active[i] = conn[i]

\* RtdManager.h:24: disconnect() delinks the id from its topic.
DisconnectedIsDelinked == Quiet => \A t \in Topics : \A i \in subs[t] : conn[i] = t

\* RtdServer.h:271: producer and subscribers can be registered in either order;
\* so a publisher with subscribers has been started.
EitherOrder ==
  Quiet => \A t \in Topics : pub[t] # None /\ subs[t] # {} => future[pub[t]] # "none"

\* RtdServerWorker.h:279: exceptions from publisher calls do not kill the server;
\* the worker leaves its loop only when told to quit.
WorkerSurvives == pc = "exit" => ~running

\* RtdServerWorker.h:479: a record is erased only when it has no subscribers.
EraseOnlyUnsubscribed == pc = "erase" => subs[cur.topic] = {}

\* RtdServerWorker.h:160: a publisher in _cancelledPublishers has been cancelled;
\* nothing starts it again.
CancelledStaysStopped == \A p \in cancelled : future[p] = "running" => cancel[p]

\* RtdServer.h:346: drop() waits for the producer to complete.
DropWaits ==
  [][user.op = "dropping" /\ user'.op # "dropping" => future[user.pub] # "running"]_vars

\* RtdServer.h:169: start() is called again only on a producer which was stopped,
\* so that its wait for the earlier run can end.
RestartsOnlyStopped ==
  pc = "joinCall" /\ Starts /\ future[cur.pub] = "running" => cancel[cur.pub]

\* RtdServer.h:306: subscribers are recalculated every time a new value is
\* published. An array left by a session which was terminated must not keep the
\* next session from sending its own.
ArrayIsAnnounced == array # {} /\ session = "up" => notify # "none" \/ pc = "notify"
=============================================================================
