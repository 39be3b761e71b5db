----------------------------- MODULE RtdWorker -----------------------------
(***************************************************************************)
(* The RTD server: RtdServerThreadedWorker (xlOil-COM/RtdServerWorker.h)   *)
(* driven by the COM object RtdServerImpl (xlOil-COM/rtdmanager.cpp), with *)
(* the publishers and tasks it starts and stops (RtdPublisher in           *)
(* xlOil-COM/API/RtdServer.cpp, RtdTaskBase in xloil/RtdServer.h).         *)
(*                                                                         *)
(* Four kinds of thread take steps:                                        *)
(*   Excel   Excel's main thread, which calls the COM interface;           *)
(*   worker  workerThreadMain, which alone changes subscriptions;          *)
(*   task p  the background task of publisher p, which publishes values;   *)
(*   user    any other caller of IRtdServer: start, drop, publish, clear.  *)
(* A step is one lock section, or one call made with no lock held.         *)
(*                                                                         *)
(* A definition whose comment calls it a fault stands before the one it    *)
(* varies; it is no part of the specification, and the checks substitute   *)
(* it to see that a property notices.                                      *)
(***************************************************************************)
EXTENDS Naturals, Sequences

CONSTANTS
  Topics,         \* topic strings
  Ids,            \* topic ids which Excel allocates
  Pubs,           \* IRtdPublisher objects, each given to start() once
  Values,         \* values which may be published
  None,           \* the null pointer
  NoUpdate,       \* "no value queued"
  TopicOf,        \* the topic each publisher is created for
  AsyncPubs,      \* the publishers which are AsyncTaskPublishers
  StartMayThrow,  \* TRUE if IRtdTask::start may throw
  UserCalls,      \* which of drop, publish and quit the user thread calls
  MaxQueue,       \* bound on each queue of connect and disconnect requests
  MaxSessions     \* bound on the ServerStart calls which Excel makes

ASSUME RtdConstants ==
  /\ Ids \subseteq Nat
  /\ None \notin Topics \union Pubs \union Values
  /\ NoUpdate \notin Values \union {None}
  /\ TopicOf \in [Pubs -> Topics]
  /\ AsyncPubs \subseteq Pubs
  /\ StartMayThrow \in BOOLEAN
  /\ UserCalls \subseteq {"drop", "publish", "quit"}
  /\ MaxQueue \in Nat
  /\ MaxSessions \in Nat

VARIABLES
  running,        \* _isRunning
  pending,        \* _workPending
  newValues,      \* _newValues: the last value queued for each topic
  toConnect,      \* _topicsToConnect
  toDisconnect,   \* _topicIdsToDisconnect
  known,          \* the keys of _records
  pub,            \* TopicRecord::publisher of each key
  subs,           \* TopicRecord::subscribers of each key
  value,          \* TopicRecord::value of each key
  active,         \* _activeTopicIds
  array,          \* _readyUpdates: the ids in the SAFEARRAY, {} if it is null
  cancelled,      \* _cancelledPublishers
  pc,             \* where the worker thread is
  ready,          \* its readyTopicIds
  joins,          \* what remains of its topicsToConnect
  leaves,         \* what remains of its topicsToDisconnect
  cur,            \* the request it is serving and the publisher it holds
  doomed,         \* the publishers its clear() is stopping
  future,         \* RtdTaskBase::_future of each publisher's task
  cancel,         \* RtdTaskBase::_cancel of each publisher's task
  thread,         \* where each task is within publish()
  fresh,          \* publishers not yet given to start()
  user,           \* the call which the user thread is in
  conn,           \* the topic Excel has connected to each id
  session,        \* the COM server's life as Excel sees it
  notify,         \* the UpdateNotify message on its way to Excel
  sessions        \* ServerStart calls made

queueVars  == <<newValues, toConnect, toDisconnect>>
recordVars == <<known, pub, subs, value>>
batchVars  == <<ready, joins, leaves, cur, doomed>>
taskVars   == <<future, cancel, thread>>
excelVars  == <<conn, session, notify, sessions>>
vars == <<running, pending, queueVars, recordVars, active, array, cancelled,
          pc, batchVars, taskVars, fresh, user, excelVars>>

-----------------------------------------------------------------------------
MaybeValue == Values \union {None}
Request == [id: Ids, topic: Topics]
Idle == [op |-> "idle", pub |-> None, topic |-> None]
Nobody == [pub |-> None, id |-> None, topic |-> None, count |-> 0, done |-> FALSE]

\* numSubscribers, told apart as none, one or several.
Count(S) == IF S = {} THEN 0 ELSE IF \E i \in S : S = {i} THEN 1 ELSE 2

Registered == {pub[t] : t \in Topics} \ {None}

\* Dropping the last shared_ptr to a publisher runs ~RtdPublisher, which stops
\* the task and waits for it. Does the worker's cur, or the user thread, hold it?
WorkerHoldsLast == cur.pub \notin Registered \union cancelled \union {None, user.pub}
UserHoldsLast == user.pub \notin Registered \union cancelled \union {None, cur.pub}

\* Fault: the destructor does not wait.
EndedUnawaited(p) == cancel[p]

\* The destructor may go ahead: it has stopped the task and waited for it.
Ended(p) == cancel[p] /\ future[p] # "running"

\* The worker holds _mutexNewValues from its loop test until it has swapped the
\* new values out; clear() holds _lockRecords whilst it destroys the cancelled
\* publishers.
ValuesLocked == pc \in {"test", "gap", "apply"}
RecordsLocked == pc = "clearing"

\* Fault: the flag is not set.
NotifyUnflagged ==
  /\ UNCHANGED pending
  /\ pc' = IF pc = "blocked" THEN "test" ELSE pc

\* notify(): set the flag, then notify_one, which is lost unless the worker is
\* blocked on the condition variable at that moment.
Notify ==
  /\ pending' = TRUE
  /\ pc' = IF pc = "blocked" THEN "test" ELSE pc

Init ==
  /\ running = FALSE
  /\ pending = FALSE
  /\ newValues = [t \in Topics |-> NoUpdate]
  /\ toConnect = <<>>
  /\ toDisconnect = <<>>
  /\ known = {}
  /\ pub = [t \in Topics |-> None]
  /\ subs = [t \in Topics |-> {}]
  /\ value = [t \in Topics |-> None]
  /\ active = [i \in Ids |-> None]
  /\ array = {}
  /\ cancelled = {}
  /\ pc = "none"
  /\ ready = {}
  /\ joins = <<>>
  /\ leaves = {}
  /\ cur = Nobody
  /\ doomed = {}
  /\ future = [p \in Pubs |-> "none"]
  /\ cancel = [p \in Pubs |-> FALSE]
  /\ thread = [p \in Pubs |-> "idle"]
  /\ fresh = Pubs
  /\ user = Idle
  /\ conn = [i \in Ids |-> None]
  /\ session = "none"
  /\ notify = "none"
  /\ sessions = 0

-----------------------------------------------------------------------------
(***************************************************************************)
(* Excel's main thread.                                                    *)
(***************************************************************************)
\* raw_ServerStart: the worker thread starts with an empty readyTopicIds; every
\* member of the worker object keeps what an earlier session left in it.
ServerStart ==
  /\ session \in {"none", "down"}
  /\ pc \in {"none", "dead"}
  /\ sessions < MaxSessions
  /\ session' = "up"
  /\ sessions' = sessions + 1
  /\ running' = TRUE
  /\ pc' = "loop"
  /\ UNCHANGED <<pending, queueVars, recordVars, active, array, cancelled,
                 batchVars, taskVars, fresh, user, conn, notify>>

\* raw_ConnectData: Excel links an id it does not use at present to a topic.
ConnectData(i, t) ==
  /\ session = "up"
  /\ conn[i] = None
  /\ Len(toConnect) < MaxQueue
  /\ conn' = [conn EXCEPT ![i] = t]
  /\ toConnect' = Append(toConnect, [id |-> i, topic |-> t])
  /\ Notify
  /\ UNCHANGED <<running, newValues, toDisconnect, recordVars, active, array,
                 cancelled, batchVars, taskVars, fresh, user, session, notify,
                 sessions>>

\* raw_DisconnectData: no cell uses the id any more.
DisconnectData(i) ==
  /\ session = "up"
  /\ conn[i] # None
  /\ Len(toDisconnect) < MaxQueue
  /\ conn' = [conn EXCEPT ![i] = None]
  /\ toDisconnect' = Append(toDisconnect, i)
  /\ Notify
  /\ UNCHANGED <<running, newValues, toConnect, recordVars, active, array,
                 cancelled, batchVars, taskVars, fresh, user, session, notify,
                 sessions>>

\* The function which updateNotify() queued runs on the main thread. It does
\* nothing if ServerTerminate has cleared _updateCallback.
UpdateNotify ==
  /\ session # "terminating"
  /\ notify = "queued"
  /\ notify' = IF session = "up" THEN "told" ELSE "none"
  /\ UNCHANGED <<running, pending, queueVars, recordVars, active, array, cancelled, pc,
                 batchVars, taskVars, fresh, user, conn, session, sessions>>

\* raw_RefreshData, which Excel calls in answer to UpdateNotify.
RefreshData ==
  /\ session = "up"
  /\ notify = "told"
  /\ notify' = "none"
  /\ array' = {}
  /\ Notify
  /\ UNCHANGED <<running, queueVars, recordVars, active, cancelled, batchVars,
                 taskVars, fresh, user, conn, session, sessions>>

\* raw_ServerTerminate: clear _updateCallback, quit(), then block in join().
ServerTerminate ==
  /\ session = "up"
  /\ session' = "terminating"
  /\ conn' = [i \in Ids |-> None]
  /\ notify' = IF notify = "told" THEN "none" ELSE notify
  /\ IF running
     THEN running' = FALSE /\ Notify
     ELSE UNCHANGED <<running, pending, pc>>
  /\ UNCHANGED <<queueVars, recordVars, active, array, cancelled, batchVars,
                 taskVars, fresh, user, sessions>>

\* ... until the worker thread has ended.
Joined ==
  /\ session = "terminating"
  /\ pc = "dead"
  /\ session' = "down"
  /\ UNCHANGED <<running, pending, queueVars, recordVars, active, array, cancelled, pc,
                 batchVars, taskVars, fresh, user, conn, notify, sessions>>

-----------------------------------------------------------------------------
(***************************************************************************)
(* The user thread.                                                        *)
(***************************************************************************)
\* What addPublisher puts in _cancelledPublishers: the publisher it replaces, if any.
Replaced(old) == {old} \ {None}

\* IRtdServer::start -> addPublisher: a publisher it replaces is stopped.
AddPublisher(p) ==
  /\ user = Idle
  /\ p \in fresh
  /\ ~RecordsLocked
  /\ LET t   == TopicOf[p]
         old == pub[t]
     IN /\ known' = known \union {t}
        /\ pub' = [pub EXCEPT ![t] = p]
        /\ cancelled' = cancelled \union Replaced(old)
        /\ cancel' = [q \in Pubs |-> cancel[q] \/ q = old]
        /\ user' = IF old = None THEN Idle ELSE [Idle EXCEPT !.op = "replacing", !.pub = old]
  /\ fresh' = fresh \ {p}
  /\ UNCHANGED <<running, pending, queueVars, subs, value, active, array, pc,
                 batchVars, future, thread, excelVars>>

\* IRtdServer::drop -> dropPublisher, up to publisher->stop(). A record without
\* a publisher makes that call dereference a null pointer.
DropPublisher(t) ==
  /\ "drop" \in UserCalls
  /\ user = Idle
  /\ ~RecordsLocked
  /\ t \in known
  /\ pub' = [pub EXCEPT ![t] = None]
  /\ cancel' = [q \in Pubs |-> cancel[q] \/ q = pub[t]]
  /\ user' = IF pub[t] = None THEN [Idle EXCEPT !.op = "crashed"]
             ELSE [op |-> "dropping", pub |-> pub[t], topic |-> t]
  /\ UNCHANGED <<running, pending, queueVars, known, subs, value, active, array,
                 cancelled, pc, batchVars, future, thread, fresh, excelVars>>

\* The reference of addPublisher or dropPublisher is the last: ~RtdPublisher.
UserStopLast ==
  /\ UserHoldsLast
  /\ ~cancel[user.pub]
  /\ cancel' = [cancel EXCEPT ![user.pub] = TRUE]
  /\ UNCHANGED <<running, pending, queueVars, recordVars, active, array, cancelled, pc,
                 batchVars, future, thread, fresh, user, excelVars>>

FinishReplace ==
  /\ user.op = "replacing"
  /\ UserHoldsLast => Ended(user.pub)
  /\ user' = Idle
  /\ UNCHANGED <<running, pending, queueVars, recordVars, active, array, cancelled, pc,
                 batchVars, taskVars, fresh, excelVars>>

\* update() by the user thread, up to notify(): nothing is queued once the
\* server has stopped.
SetValue(t, v) ==
  IF running THEN ~ValuesLocked /\ newValues' = [newValues EXCEPT ![t] = v]
             ELSE UNCHANGED newValues

\* The rest of dropPublisher: an empty value is published.
FinishDrop ==
  /\ user.op = "dropping"
  /\ UserHoldsLast => Ended(user.pub)
  /\ SetValue(user.topic, None)
  /\ user' = IF running THEN [Idle EXCEPT !.op = "appended"] ELSE Idle
  /\ UNCHANGED <<running, pending, toConnect, toDisconnect, recordVars, active, array,
                 cancelled, pc, batchVars, taskVars, fresh, excelVars>>

\* IRtdServer::publish -> update, called by anyone.
UserPublish(t, v) ==
  /\ "publish" \in UserCalls
  /\ user = Idle
  /\ running
  /\ SetValue(t, v)
  /\ user' = [Idle EXCEPT !.op = "appended"]
  /\ UNCHANGED <<running, pending, toConnect, toDisconnect, recordVars, active, array,
                 cancelled, pc, batchVars, taskVars, fresh, excelVars>>

UserNotify ==
  /\ user.op = "appended"
  /\ Notify
  /\ user' = Idle
  /\ UNCHANGED <<running, queueVars, recordVars, active, array, cancelled, batchVars,
                 taskVars, fresh, excelVars>>

\* IRtdServer::clear -> quit(), whilst Excel's session goes on.
Quit ==
  /\ "quit" \in UserCalls
  /\ user = Idle
  /\ running
  /\ running' = FALSE
  /\ Notify
  /\ UNCHANGED <<queueVars, recordVars, active, array, cancelled, batchVars, taskVars,
                 fresh, user, excelVars>>

-----------------------------------------------------------------------------
(***************************************************************************)
(* The task of publisher p. RtdNotifier::publish tests the cancel flag and *)
(* update() tests _isRunning, then appends the value, then notifies.       *)
(***************************************************************************)
TaskCheck(p) ==
  /\ future[p] = "running"
  /\ thread[p] = "idle"
  /\ ~cancel[p]
  /\ running
  /\ thread' = [thread EXCEPT ![p] = "checked"]
  /\ UNCHANGED <<running, pending, queueVars, recordVars, active, array, cancelled, pc,
                 batchVars, future, cancel, fresh, user, excelVars>>

TaskAppend(p, v) ==
  /\ thread[p] = "checked"
  /\ ~ValuesLocked
  /\ newValues' = [newValues EXCEPT ![TopicOf[p]] = v]
  /\ thread' = [thread EXCEPT ![p] = "appended"]
  /\ UNCHANGED <<running, pending, toConnect, toDisconnect, recordVars, active, array,
                 cancelled, pc, batchVars, future, cancel, fresh, user, excelVars>>

TaskNotify(p) ==
  /\ thread[p] = "appended"
  /\ Notify
  /\ thread' = [thread EXCEPT ![p] = "idle"]
  /\ UNCHANGED <<running, queueVars, recordVars, active, array, cancelled, batchVars,
                 future, cancel, fresh, user, excelVars>>

\* The task ends, because it was cancelled or of its own accord.
TaskFinish(p) ==
  /\ future[p] = "running"
  /\ thread[p] = "idle"
  /\ future' = [future EXCEPT ![p] = "ready"]
  /\ UNCHANGED <<running, pending, queueVars, recordVars, active, array, cancelled, pc,
                 batchVars, cancel, thread, fresh, user, excelVars>>
-----------------------------------------------------------------------------
(***************************************************************************)
(* The worker thread: waiting for work, and sending updates.               *)
(***************************************************************************)
\* while (isServerRunning()), then lock _mutexNewValues.
Loop ==
  /\ pc = "loop"
  /\ pc' = IF running THEN "test" ELSE "exit"
  /\ UNCHANGED <<running, pending, queueVars, recordVars, active, array, cancelled,
                 batchVars, taskVars, fresh, user, excelVars>>

\* The predicate is false: the worker is about to block, still holding the
\* mutex, which notify() does not take.
SeesNoWork ==
  /\ pc = "test"
  /\ ~pending
  /\ pc' = "gap"
  /\ UNCHANGED <<running, pending, queueVars, recordVars, active, array, cancelled,
                 batchVars, taskVars, fresh, user, excelVars>>

\* It releases the mutex and blocks on the condition variable ...
Block ==
  /\ pc = "gap"
  /\ pc' = "blocked"
  /\ UNCHANGED <<running, pending, queueVars, recordVars, active, array, cancelled,
                 batchVars, taskVars, fresh, user, excelVars>>

\* ... from which it may wake for no reason, to test the predicate again.
SpuriousWake ==
  /\ pc = "blocked"
  /\ pc' = "test"
  /\ UNCHANGED <<running, pending, queueVars, recordVars, active, array, cancelled,
                 batchVars, taskVars, fresh, user, excelVars>>

\* There is work: reset the flag and check for quit.
Wake ==
  /\ pc = "test"
  /\ pending
  /\ pending' = FALSE
  /\ pc' = IF running THEN "apply" ELSE "exit"
  /\ UNCHANGED <<running, queueVars, recordVars, active, array, cancelled, batchVars,
                 taskVars, fresh, user, excelVars>>

Updated == {t \in known : newValues[t] # NoUpdate}

\* Take all the new values and write those which have a record.
ApplyValues ==
  /\ pc = "apply"
  /\ newValues' = [t \in Topics |-> NoUpdate]
  /\ value' = [t \in Topics |-> IF t \in Updated THEN newValues[t] ELSE value[t]]
  /\ ready' = ready \union UNION {subs[t] : t \in Updated}
  /\ pc' = "send"
  /\ UNCHANGED <<running, pending, toConnect, toDisconnect, known, pub, subs, active,
                 array, cancelled, joins, leaves, cur, doomed, taskVars, fresh, user,
                 excelVars>>

\* Fault: _readyUpdates is not tested.
CanSendAgain == ready # {}
\* Fault: readyTopicIds is not tested.
CanSendEmpty == array = {}

\* There are ids to send and Excel has taken the last array.
CanSend == ready # {} /\ array = {}

\* Store an array of the ready ids.
StoreArray ==
  /\ pc = "send"
  /\ IF CanSend
     THEN array' = ready /\ pc' = "notify"
     ELSE UNCHANGED array /\ pc' = "take"
  /\ UNCHANGED <<running, pending, queueVars, recordVars, active, cancelled, batchVars,
                 taskVars, fresh, user, excelVars>>

\* Fault: no message is queued.
MessageUnsent == notify

\* _updateNotify() queues a message for the main thread.
Message == IF notify = "none" THEN "queued" ELSE notify

SendNotify ==
  /\ pc = "notify"
  /\ notify' = Message
  /\ ready' = {}
  /\ pc' = "take"
  /\ UNCHANGED <<running, pending, queueVars, recordVars, active, array, cancelled,
                 joins, leaves, cur, doomed, taskVars, fresh, user, conn, session,
                 sessions>>

-----------------------------------------------------------------------------
(***************************************************************************)
(* The worker thread: one batch of connect and disconnect requests.        *)
(***************************************************************************)
Disconnecting == {toDisconnect[k] : k \in DOMAIN toDisconnect}

\* Fault: the entries are not erased.
DelinkedNever == active

\* _activeTopicIds without the ids to be disconnected.
Delinked == [i \in Ids |-> IF i \in Disconnecting THEN None ELSE active[i]]

\* Take both queues, then look up and forget the topic of each id to be
\* disconnected. An id with no entry is skipped with a warning.
TakeRequests ==
  /\ pc = "take"
  /\ toConnect' = <<>>
  /\ toDisconnect' = <<>>
  /\ joins' = toConnect
  /\ leaves' = {[id |-> i, topic |-> active[i]] : i \in {i \in Disconnecting : active[i] # None}}
  /\ active' = Delinked
  /\ pc' = IF toConnect = <<>> /\ toDisconnect = <<>> THEN "loop" ELSE "batch"
  /\ UNCHANGED <<running, pending, newValues, recordVars, array, cancelled, ready, cur,
                 doomed, taskVars, fresh, user, excelVars>>

RemoveAt(s, k) == SubSeq(s, 1, k - 1) \o SubSeq(s, k + 1, Len(s))

\* The connects are sorted by id; the order of those with one id is not defined.
NextJoin(k) == k \in DOMAIN joins /\ \A l \in DOMAIN joins : joins[k].id <= joins[l].id

\* The same id leaves the topic in this batch: skip both requests.
CancelOut(k) ==
  /\ pc = "batch"
  /\ NextJoin(k)
  /\ joins[k] \in leaves
  /\ joins' = RemoveAt(joins, k)
  /\ leaves' = leaves \ {joins[k]}
  /\ UNCHANGED <<running, pending, queueVars, recordVars, active, array, cancelled, pc,
                 ready, cur, doomed, taskVars, fresh, user, excelVars>>

\* connectTopic: add the subscriber and get hold of the publisher.
JoinTopic(k) ==
  /\ pc = "batch"
  /\ NextJoin(k)
  /\ joins[k] \notin leaves
  /\ LET i == joins[k].id
         t == joins[k].topic
     IN /\ known' = known \union {t}
        /\ subs' = [subs EXCEPT ![t] = @ \union {i}]
        /\ cur' = [Nobody EXCEPT !.pub = pub[t], !.id = i, !.topic = t,
                                 !.count = Count(subs[t] \union {i})]
  /\ joins' = RemoveAt(joins, k)
  /\ pc' = "joinCall"
  /\ UNCHANGED <<running, pending, queueVars, pub, value, active, array, cancelled, ready,
                 leaves, doomed, taskVars, fresh, user, excelVars>>

\* The first subscriber makes RtdPublisher::connect start the task.
Starts == cur.pub # None /\ cur.count = 1

\* publisher->connect() and then _activeTopicIds.emplace(), which leaves an
\* entry alone if there is one. RtdTaskBase::start waits for an earlier run of
\* the task.
CallConnect ==
  /\ pc = "joinCall"
  /\ IF Starts
     THEN /\ future[cur.pub] # "running"
          /\ future' = [future EXCEPT ![cur.pub] = "running"]
          /\ cancel' = [cancel EXCEPT ![cur.pub] = FALSE]
     ELSE UNCHANGED <<future, cancel>>
  /\ active' = [active EXCEPT ![cur.id] = IF @ = None THEN cur.topic ELSE @]
  /\ pc' = "release"
  /\ UNCHANGED <<running, pending, queueVars, recordVars, array, cancelled, batchVars,
                 thread, fresh, user, excelVars>>

\* An exception from the task's start() leaves connectTopic and the worker's loop.
ConnectThrows ==
  /\ StartMayThrow
  /\ pc = "joinCall"
  /\ Starts
  /\ future[cur.pub] # "running"
  /\ cancel' = [cancel EXCEPT ![cur.pub] = FALSE]
  /\ cur' = Nobody
  /\ joins' = <<>>
  /\ leaves' = {}
  /\ pc' = "exit"
  /\ UNCHANGED <<running, pending, queueVars, recordVars, active, array, cancelled,
                 ready, doomed, future, thread, fresh, user, excelVars>>

\* disconnectTopic: remove the subscriber and, if nothing else remains, the
\* record. A request whose id is 0 is taken for one which was cancelled out.
LeaveTopic(r) ==
  /\ pc = "batch"
  /\ joins = <<>>
  /\ r \in leaves
  /\ \A q \in leaves : r.id <= q.id
  /\ leaves' = leaves \ {r}
  /\ IF r.id = 0
     THEN UNCHANGED <<known, subs, value, cur, pc>>
     ELSE LET t    == r.topic
              left == subs[t] \ {r.id}
              gone == pub[t] = None /\ left = {}
          IN /\ known' = IF gone THEN known \ {t} ELSE known \union {t}
             /\ subs' = [subs EXCEPT ![t] = left]
             /\ value' = IF gone THEN [value EXCEPT ![t] = None] ELSE value
             /\ IF pub[t] = None
                THEN UNCHANGED <<cur, pc>>
                ELSE /\ cur' = [Nobody EXCEPT !.pub = pub[t], !.id = r.id, !.topic = t,
                                              !.count = Count(left)]
                     /\ pc' = "leaveCall"
  /\ UNCHANGED <<running, pending, queueVars, pub, active, array, cancelled, ready,
                 joins, doomed, taskVars, fresh, user, excelVars>>

\* publisher->disconnect() stops the task if it is no longer needed: when the
\* last subscriber has left, or always for an AsyncTaskPublisher.
Stops == cur.count = 0 \/ cur.pub \in AsyncPubs

CallDisconnect ==
  /\ pc = "leaveCall"
  /\ IF Stops
     THEN /\ cancel' = [cancel EXCEPT ![cur.pub] = TRUE]
          /\ cur' = [cur EXCEPT !.done = future[cur.pub] # "running"]
          /\ pc' = "erase"
     ELSE /\ UNCHANGED <<cancel, cur>>
          /\ pc' = "release"
  /\ UNCHANGED <<running, pending, queueVars, recordVars, active, array, cancelled, ready,
                 joins, leaves, doomed, future, thread, fresh, user, excelVars>>

\* A publisher whose task has not finished is kept; the record is erased.
EraseRecord ==
  /\ pc = "erase"
  /\ cancelled' = IF cur.done THEN cancelled ELSE cancelled \union {cur.pub}
  /\ known' = known \ {cur.topic}
  /\ pub' = [pub EXCEPT ![cur.topic] = None]
  /\ subs' = [subs EXCEPT ![cur.topic] = {}]
  /\ value' = [value EXCEPT ![cur.topic] = None]
  /\ pc' = "release"
  /\ UNCHANGED <<running, pending, queueVars, active, array, batchVars, taskVars, fresh,
                 user, excelVars>>

\* The worker's reference goes out of scope; if it is the last, ~RtdPublisher.
StopLast ==
  /\ pc = "release"
  /\ WorkerHoldsLast
  /\ ~cancel[cur.pub]
  /\ cancel' = [cancel EXCEPT ![cur.pub] = TRUE]
  /\ UNCHANGED <<running, pending, queueVars, recordVars, active, array, cancelled, pc,
                 batchVars, future, thread, fresh, user, excelVars>>

Release ==
  /\ pc = "release"
  /\ WorkerHoldsLast => Ended(cur.pub)
  /\ cur' = Nobody
  /\ pc' = "batch"
  /\ UNCHANGED <<running, pending, queueVars, recordVars, active, array, cancelled,
                 ready, joins, leaves, doomed, taskVars, fresh, user, excelVars>>

Finished == {p \in cancelled : future[p] # "running"}

\* Destroy finished publishers. The loop steps past the element after each one
\* it removes, and past the end of the list, so it may miss some; it always
\* removes the first.
Reap ==
  /\ pc = "batch"
  /\ joins = <<>>
  /\ leaves = {}
  /\ \E gone \in SUBSET Finished :
       /\ Finished # {} => gone # {}
       /\ cancelled' = cancelled \ gone
  /\ pc' = "loop"
  /\ UNCHANGED <<running, pending, queueVars, recordVars, active, array, batchVars,
                 taskVars, fresh, user, excelVars>>

-----------------------------------------------------------------------------
(***************************************************************************)
(* The worker thread: clear().                                             *)
(***************************************************************************)
\* Take the publishers, clear the records, and begin to destroy the cancelled
\* publishers, whose destructors stop them, with the lock held.
ClearRecords ==
  /\ pc = "exit"
  /\ doomed' = Registered
  /\ known' = {}
  /\ pub' = [t \in Topics |-> None]
  /\ subs' = [t \in Topics |-> {}]
  /\ value' = [t \in Topics |-> None]
  /\ cancel' = [p \in Pubs |-> cancel[p] \/ p \in cancelled]
  /\ pc' = "clearing"
  /\ UNCHANGED <<running, pending, queueVars, active, array, cancelled, ready, joins,
                 leaves, cur, future, thread, fresh, user, excelVars>>

\* Those destructors have waited for their tasks: release the lock, stop the rest.
StopAll ==
  /\ pc = "clearing"
  /\ \A p \in cancelled : user.pub = p \/ Ended(p)
  /\ cancelled' = {}
  /\ cancel' = [p \in Pubs |-> cancel[p] \/ p \in doomed]
  /\ pc' = "finish"
  /\ UNCHANGED <<running, pending, queueVars, recordVars, active, array, batchVars,
                 future, thread, fresh, user, excelVars>>

\* The destructors of the rest wait too, and the thread ends.
Finish ==
  /\ pc = "finish"
  /\ \A p \in doomed : Ended(p)
  /\ doomed' = {}
  /\ ready' = {}
  /\ pc' = "dead"
  /\ UNCHANGED <<running, pending, queueVars, recordVars, active, array, cancelled, joins,
                 leaves, cur, taskVars, fresh, user, excelVars>>

-----------------------------------------------------------------------------
Excel ==
  \/ ServerStart
  \/ \E i \in Ids, t \in Topics : ConnectData(i, t)
  \/ \E i \in Ids : DisconnectData(i)
  \/ UpdateNotify
  \/ RefreshData
  \/ ServerTerminate
  \/ Joined

User ==
  \/ \E p \in Pubs : AddPublisher(p)
  \/ \E t \in Topics : DropPublisher(t)
  \/ UserStopLast \/ FinishReplace \/ FinishDrop
  \/ \E t \in Topics, v \in Values : UserPublish(t, v)
  \/ UserNotify
  \/ Quit

Task(p) ==
  \/ TaskCheck(p)
  \/ \E v \in Values : TaskAppend(p, v)
  \/ TaskNotify(p)
  \/ TaskFinish(p)

\* What the worker thread does unless it is blocked.
Work ==
  \/ Loop \/ SeesNoWork \/ Block \/ Wake
  \/ ApplyValues \/ StoreArray \/ SendNotify
  \/ TakeRequests
  \/ \E k \in DOMAIN joins : CancelOut(k) \/ JoinTopic(k)
  \/ CallConnect \/ ConnectThrows
  \/ \E r \in leaves : LeaveTopic(r)
  \/ CallDisconnect \/ EraseRecord
  \/ StopLast \/ Release \/ Reap
  \/ ClearRecords \/ StopAll \/ Finish

Next == Excel \/ User \/ (\E p \in Pubs : Task(p)) \/ Work \/ SpuriousWake

Spec == Init /\ [][Next]_vars

(***************************************************************************)
(* Fairness: the scheduler lets every thread proceed which is not blocked, *)
(* Excel answers an UpdateNotify, and tasks end. Nobody is obliged to      *)
(* connect, publish, drop or terminate.                                    *)
(***************************************************************************)
Fairness ==
  /\ WF_vars(Work)
  /\ WF_vars(UpdateNotify \/ RefreshData \/ Joined)
  /\ WF_vars(UserStopLast \/ FinishReplace \/ FinishDrop \/ UserNotify)
  /\ \A p \in Pubs : WF_vars((\E v \in Values : TaskAppend(p, v)) \/ TaskNotify(p))
  /\ \A p \in Pubs : WF_vars(TaskFinish(p))

FairSpec == Spec /\ Fairness

\* Somebody publishes again and again, whatever the topic.
BusySpec == FairSpec /\ WF_vars(\E t \in Topics, v \in Values : UserPublish(t, v))

-----------------------------------------------------------------------------
Place ==
  {"none", "loop", "test", "gap", "blocked", "apply", "send", "notify", "take", "batch",
   "joinCall", "leaveCall", "erase", "release", "exit", "clearing", "finish", "dead"}

Serving == [pub: Pubs \union {None}, id: Ids \union {None}, topic: Topics \union {None},
            count: 0..2, done: BOOLEAN]

UserCall == [op: {"idle", "replacing", "dropping", "appended", "crashed"},
             pub: Pubs \union {None}, topic: Topics \union {None}]

\* The domain of every variable.
TypeOK ==
  /\ running \in BOOLEAN
  /\ pending \in BOOLEAN
  /\ newValues \in [Topics -> MaybeValue \union {NoUpdate}]
  /\ toConnect \in Seq(Request)
  /\ toDisconnect \in Seq(Ids)
  /\ known \in SUBSET Topics
  /\ pub \in [Topics -> Pubs \union {None}]
  /\ subs \in [Topics -> SUBSET Ids]
  /\ value \in [Topics -> MaybeValue]
  /\ active \in [Ids -> Topics \union {None}]
  /\ array \in SUBSET Ids
  /\ cancelled \in SUBSET Pubs
  /\ pc \in Place
  /\ ready \in SUBSET Ids
  /\ joins \in Seq(Request)
  /\ leaves \in SUBSET Request
  /\ cur \in Serving
  /\ doomed \in SUBSET Pubs
  /\ future \in [Pubs -> {"none", "running", "ready"}]
  /\ cancel \in [Pubs -> BOOLEAN]
  /\ thread \in [Pubs -> {"idle", "checked", "appended"}]
  /\ fresh \in SUBSET Pubs
  /\ user \in UserCall
  /\ conn \in [Ids -> Topics \union {None}]
  /\ session \in {"none", "up", "terminating", "down"}
  /\ notify \in {"none", "queued", "told"}
  /\ sessions \in 0..MaxSessions
=============================================================================
