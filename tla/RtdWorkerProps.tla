--------------------------- MODULE RtdWorkerProps ---------------------------
(***************************************************************************)
(* What RtdWorker is expected to guarantee.                                *)
(***************************************************************************)
EXTENDS RtdWorker

\* The array is posted by StoreArray but readyTopicIds is only cleared by
\* SendNotify; between the two the ids are no longer dirty.
Feed == INSTANCE RtdFeed WITH
          dirty <- IF pc = "notify" THEN {} ELSE ready,
          posted <- array

\* RtdServerThreadedWorker implements RtdFeed: no subscriber of a changed topic
\* is forgotten, no id is dropped from a batch or an array before Excel has
\* taken it, and no record is erased whilst it has subscribers.
FeedSpec == Feed!Spec

\* _readyUpdates and UpdateNotify agree: whilst Excel's session lasts, an array
\* waits only if a notification is on its way (or the worker would never send
\* again), and a notification finds an array (or RefreshData reads the bounds of
\* a null SAFEARRAY).
Handshake ==
  /\ array # {} /\ session = "up" => notify # "none" \/ pc = "notify"
  /\ notify # "none" => array # {}

\* Whilst the worker serves requests, an id in _activeTopicIds is a subscriber
\* of its topic's record, so that disconnecting it can find what to undo.
ActiveSubscribed ==
  pc \notin {"clearing", "finish", "dead"} =>
    \A i \in Ids : active[i] # None => i \in subs[active[i]]

\* Somebody who will wait for it holds each running task: no replacement, drop,
\* disconnect or clear abandons a thread.
NoOrphanTask ==
  \A p \in Pubs : future[p] = "running" =>
    p \in Registered \union cancelled \union doomed \union {cur.pub, user.pub}

\* Once the worker thread has ended no task runs, except one for which the caller
\* of start() or drop() is still waiting.
AllStopped ==
  pc = "dead" => \A p \in Pubs : future[p] = "running" => p = user.pub

-----------------------------------------------------------------------------
(***************************************************************************)
(* Liveness. The first two hold as long as somebody keeps publishing, since *)
(* every publication wakes the worker again (BusySpec).                    *)
(***************************************************************************)

\* Requests which Excel has queued are taken by the worker, unless it stops.
RequestsTaken ==
  (toConnect # <<>> \/ toDisconnect # <<>>) ~> (toConnect = <<>> /\ toDisconnect = <<>>) \/ ~running

\* An id whose value has changed reaches Excel by way of an array, unless the
\* server stops first.
UpdatesDelivered ==
  \A i \in Ids : i \in ready ~> (i \in array /\ notify # "none") \/ ~running

\* The array which Excel was told of is fetched, so that the next can be sent.
ArrayFetched == array # {} ~> array = {} \/ session # "up"

-----------------------------------------------------------------------------
(***************************************************************************)
(* Inductive strengthenings of the invariants.                             *)
(***************************************************************************)
\* The worker holds a publisher only between looking one up and letting go.
CurIdle == pc \notin {"joinCall", "leaveCall", "erase", "release"} => cur = Nobody

\* Those which clear() took from the records are held until they are destroyed.
DoomedIdle == pc \notin {"clearing", "finish"} => doomed = {}

\* A publisher not yet given to start() is known to nobody and has not run.
FreshUnused ==
  \A p \in fresh :
    /\ future[p] = "none"
    /\ p \notin Registered \union cancelled \union doomed \union {cur.pub, user.pub}

\* The publisher of a record which disconnectTopic may erase is the one it holds,
\* or a newer one, which has not run.
ErasedNotRunning ==
  pc \in {"leaveCall", "erase"} =>
    pub[cur.topic] = cur.pub \/ pub[cur.topic] = None \/ future[pub[cur.topic]] # "running"

\* done() was true and nobody has started the task since.
DoneStays == pc = "erase" /\ cur.done => future[cur.pub] # "running"

\* user.pub is held by the user thread within addPublisher or dropPublisher only.
UserHolds == user.pub # None => user.op \in {"replacing", "dropping"}

\* From clear() on, the running tasks are those which clear() is waiting for, or
\* which the user thread holds.
ClearWaits ==
  /\ pc = "clearing" =>
       /\ Registered = {}
       /\ \A p \in Pubs : future[p] = "running" => p \in cancelled \union doomed \union {user.pub}
  /\ pc \in {"finish", "dead"} =>
       \A p \in Pubs : future[p] = "running" =>
         p \in doomed \union {user.pub} /\ p \notin Registered \union cancelled

TaskInv ==
  /\ CurIdle /\ DoomedIdle /\ FreshUnused /\ ErasedNotRunning /\ DoneStays /\ UserHolds
  /\ ClearWaits /\ NoOrphanTask

-----------------------------------------------------------------------------
\* In the first session the worker has not run before ServerStart.
OneSession ==
  /\ sessions = 0 => pc = "none" /\ session = "none"
  /\ session = "none" => array = {} /\ notify = "none" /\ pc = "none"

\* Between storing an array and queueing the message for it, no message exists.
NotifyPending == pc = "notify" => notify = "none" /\ array # {}

\* Disconnects still to be served have no entry in the id table, and the connect
\* being served does not undo one of them.
LeavesDelinked ==
  /\ \A r \in leaves : active[r.id] # r.topic
  /\ pc = "joinCall" => /\ [id |-> cur.id, topic |-> cur.topic] \notin leaves
                        /\ cur.id \in Ids /\ cur.topic \in Topics
                        /\ cur.id \in subs[cur.topic]
  /\ pc \notin {"batch", "joinCall", "leaveCall", "erase", "release"} => leaves = {}

\* A record is erased when its last subscriber has left.
ErasedUnsubscribed ==
  /\ pc \in {"leaveCall", "erase"} => cur.topic \in Topics
  /\ pc \in {"leaveCall", "erase"} /\ cur.count = 0 => subs[cur.topic] = {}
  /\ pc = "erase" => cur.count = 0

\* Nothing is subscribed while clear() ends.
ClearedRecords ==
  pc \in {"clearing", "finish"} => \A t \in Topics : subs[t] = {} /\ value[t] = None

SendInv == OneSession /\ NotifyPending /\ Handshake
LinkInv == LeavesDelinked /\ ActiveSubscribed
EraseInv == ErasedUnsubscribed /\ ClearedRecords
=============================================================================
