-------------------------- MODULE RtdServerProofs ---------------------------
(***************************************************************************)
(* What is proved of the RTD server: its types; that no running task is    *)
(* abandoned (TaskInv); that it implements the feed (EraseInv), pairs      *)
(* arrays with notifications (SendInv) and keeps its id table (LinkInv),   *)
(* whatever publishers, topics and user calls there are.                   *)
(***************************************************************************)
EXTENDS RtdWorkerProps, SequenceTheorems, TLAPS

-----------------------------------------------------------------------------
(***************************************************************************)
(* Types, with the lemmas on queues with an element removed and on what    *)
(* the other threads leave alone.                                          *)
(***************************************************************************)
\* A sequence without one of its elements.
LEMMA RemoveAtType ==
  ASSUME NEW S, NEW s \in Seq(S), NEW k \in DOMAIN s
  PROVE  RemoveAt(s, k) \in Seq(S)
<1>1. k \in 1..Len(s)
  OBVIOUS
<1>2. SubSeq(s, 1, k - 1) \in Seq(S)
  BY <1>1, SubSeqProperties
<1>3. SubSeq(s, k + 1, Len(s)) \in Seq(S)
  BY <1>1, SubSeqProperties
<1>. QED BY <1>2, <1>3, ConcatProperties DEF RemoveAt

\* The worker thread alone changes the records' subscribers and values, the id
\* table and its own variables; other threads only start it or wake it.
LEMMA OthersFrame ==
  ASSUME Excel \/ User \/ (\E p \in Pubs : Task(p)) \/ SpuriousWake \/ UNCHANGED vars
  PROVE  /\ UNCHANGED <<subs, value, active, ready, joins, leaves, cur, doomed>>
         /\ \/ pc' = pc
            \/ pc = "blocked" /\ pc' = "test"
            \/ pc \in {"none", "dead"} /\ pc' = "loop" /\ sessions < MaxSessions
<1>. USE DEF vars, queueVars, recordVars, batchVars, taskVars, excelVars
<1>1. CASE Excel
  BY <1>1 DEF Excel, ServerStart, ConnectData, DisconnectData, UpdateNotify, RefreshData,
     ServerTerminate, Joined, Notify
<1>2. CASE User
  BY <1>2 DEF User, AddPublisher, DropPublisher, UserStopLast, FinishReplace, FinishDrop,
     UserPublish, UserNotify, Quit, Notify
<1>3. CASE \E p \in Pubs : Task(p)
  BY <1>3 DEF Task, TaskCheck, TaskAppend, TaskNotify, TaskFinish, Notify
<1>4. CASE SpuriousWake
  BY <1>4 DEF SpuriousWake
<1>5. CASE UNCHANGED vars
  BY <1>5
<1>. QED BY <1>1, <1>2, <1>3, <1>4, <1>5

\* Subscribers are counted up to two.
LEMMA CountType == \A S : Count(S) \in 0..2
BY DEF Count

\* While disconnectTopic is in a publisher call, it holds a publisher.
HoldsPublisher == pc \in {"leaveCall", "erase"} => cur.pub \in Pubs

TypeInv == TypeOK /\ HoldsPublisher

\* The types hold in every behaviour.
LEMMA TypeInvHolds == Spec => []TypeInv
<1>1. Init => TypeInv
  <2>1. Idle \in UserCall /\ Nobody \in Serving
    BY DEF Idle, UserCall, Nobody, Serving
  <2>2. <<>> \in Seq(Request) /\ <<>> \in Seq(Ids) /\ "none" \in Place
    BY DEF Place
  <2>3. Init => pub \in [Topics -> Pubs \union {None}] /\ active \in [Ids -> Topics \union {None}]
    BY DEF Init
  <2>4. Init => value \in [Topics -> MaybeValue] /\ newValues \in [Topics -> MaybeValue \union {NoUpdate}]
    BY DEF Init, MaybeValue
  <2>5. Init => /\ subs \in [Topics -> SUBSET Ids] /\ conn \in [Ids -> Topics \union {None}]
                /\ future \in [Pubs -> {"none", "running", "ready"}]
                /\ cancel \in [Pubs -> BOOLEAN]
                /\ thread \in [Pubs -> {"idle", "checked", "appended"}]
    BY DEF Init
  <2>6. Init => sessions \in 0..MaxSessions
    BY RtdConstants DEF RtdConstants, Init
  <2>. QED BY <2>1, <2>2, <2>3, <2>4, <2>5, <2>6 DEF Init, TypeInv, TypeOK, HoldsPublisher
<1>2. TypeInv /\ [Next]_vars => TypeOK'
  <2> SUFFICES ASSUME TypeInv, [Next]_vars PROVE TypeOK'
    OBVIOUS
  <2>. USE RtdConstants DEF RtdConstants, TypeInv, TypeOK, vars, queueVars, recordVars, batchVars, taskVars, excelVars
  <2>1. CASE ServerStart
    BY <2>1 DEF ServerStart, Place
  <2>2. CASE UpdateNotify
    BY <2>2 DEF UpdateNotify
  <2>3. CASE RefreshData
    BY <2>3 DEF RefreshData, Notify, Place
  <2>4. CASE ServerTerminate
    BY <2>4 DEF ServerTerminate, Notify, Place
  <2>5. CASE Joined
    BY <2>5 DEF Joined
  <2>6. CASE UserStopLast
    BY <2>6 DEF UserStopLast
  <2>7. CASE FinishReplace
    BY <2>7 DEF FinishReplace, Idle, UserCall
  <2>8. CASE FinishDrop
    BY <2>8 DEF FinishDrop, SetValue, Idle, MaybeValue, UserCall
  <2>9. CASE UserNotify
    BY <2>9 DEF UserNotify, Notify, Idle, Place, UserCall
  <2>10. CASE Quit
    BY <2>10 DEF Quit, Notify, Place
  <2>11. CASE Loop
    BY <2>11 DEF Loop, Place
  <2>12. CASE SeesNoWork
    BY <2>12 DEF SeesNoWork, Place
  <2>13. CASE Block
    BY <2>13 DEF Block, Place
  <2>14. CASE Wake
    BY <2>14 DEF Wake, Place
  <2>15. CASE ApplyValues
    <3>1. value' \in [Topics -> MaybeValue]
      BY <2>15 DEF ApplyValues, Updated
    <3>2. ready' \subseteq Ids
      <4>1. \A t \in Updated : subs[t] \subseteq Ids
        BY DEF Updated
      <4>2. UNION {subs[t] : t \in Updated} \subseteq Ids
        BY <4>1
      <4>. QED BY <2>15, <4>2 DEF ApplyValues
    <3>. QED BY <2>15, <3>1, <3>2 DEF ApplyValues, Place
  <2>16. CASE StoreArray
    BY <2>16 DEF StoreArray, CanSend, Place
  <2>17. CASE SendNotify
    BY <2>17 DEF SendNotify, Message, Place
  <2>18. CASE TakeRequests
    <3>1. leaves' \subseteq Request
      <4>1. \A i \in Disconnecting : i \in Ids
        BY DEF Disconnecting
      <4>2. \A i \in Disconnecting : active[i] # None => [id |-> i, topic |-> active[i]] \in Request
        BY <4>1 DEF Request
      <4>. QED BY <2>18, <4>2 DEF TakeRequests
    <3>2. active' \in [Ids -> Topics \union {None}]
      BY <2>18 DEF TakeRequests, Delinked
    <3>3. pc' \in Place
      BY <2>18 DEF TakeRequests, Place
    <3>4. toConnect' \in Seq(Request) /\ toDisconnect' \in Seq(Ids)
      BY <2>18 DEF TakeRequests
    <3>. QED BY <2>18, <3>1, <3>2, <3>3, <3>4 DEF TakeRequests
  <2>19. CASE CallConnect
    <3>1. future' \in [Pubs -> {"none", "running", "ready"}] /\ cancel' \in [Pubs -> BOOLEAN]
      BY <2>19 DEF CallConnect
    <3>2. active' \in [Ids -> Topics \union {None}]
      BY <2>19 DEF CallConnect, Serving
    <3>. QED BY <2>19, <3>1, <3>2 DEF CallConnect, Place
  <2>20. CASE ConnectThrows
    BY <2>20 DEF ConnectThrows, Starts, Nobody, Place, Serving
  <2>21. CASE CallDisconnect
    <3>1. cancel' \in [Pubs -> BOOLEAN]
      BY <2>21 DEF CallDisconnect
    <3>2. cur' \in Serving
      <4>1. (future[cur.pub] # "running") \in BOOLEAN
        OBVIOUS
      <4>2. \A b \in BOOLEAN : [cur EXCEPT !.done = b] \in Serving
        BY DEF Serving
      <4>. QED BY <2>21, <4>1, <4>2, Zenon DEF CallDisconnect
    <3>. QED BY <2>21, <3>1, <3>2 DEF CallDisconnect, Place
  <2>22. CASE EraseRecord
    <3>1. cur \in Serving /\ pc' \in Place
      BY <2>22 DEF EraseRecord, Place
    <3>2. cancelled' \subseteq Pubs
      BY <2>22 DEF EraseRecord, HoldsPublisher
    <3>3. pub' \in [Topics -> Pubs \union {None}] /\ subs' \in [Topics -> SUBSET Ids]
      BY <2>22 DEF EraseRecord
    <3>4. value' \in [Topics -> MaybeValue]
      BY <2>22 DEF EraseRecord, MaybeValue
    <3>. QED BY <2>22, <3>1, <3>2, <3>3, <3>4 DEF EraseRecord
  <2>23. CASE StopLast
    BY <2>23 DEF StopLast
  <2>24. CASE Release
    BY <2>24 DEF Release, Nobody, Place, Serving
  <2>25. CASE Reap
    BY <2>25 DEF Reap, Finished, Place
  <2>26. CASE ClearRecords
    BY <2>26 DEF ClearRecords, Registered, MaybeValue, Place
  <2>27. CASE StopAll
    BY <2>27 DEF StopAll, Place
  <2>28. CASE Finish
    BY <2>28 DEF Finish, Place
  <2>29. CASE SpuriousWake
    BY <2>29 DEF SpuriousWake, Place
  <2>30. ASSUME NEW i \in Ids, NEW t \in Topics, ConnectData(i, t) PROVE TypeOK'
    BY <2>30 DEF ConnectData, Notify, Request, Place
  <2>31. ASSUME NEW i \in Ids, DisconnectData(i) PROVE TypeOK'
    BY <2>31 DEF DisconnectData, Notify, Place
  <2>32. ASSUME NEW p \in Pubs, AddPublisher(p) PROVE TypeOK'
    <3>1. pub[TopicOf[p]] \in Pubs \union {None}
      OBVIOUS
    <3>2. user' \in UserCall
      BY <2>32, <3>1 DEF AddPublisher, Idle, UserCall
    <3>3. cancelled' \subseteq Pubs
      BY <2>32, <3>1 DEF AddPublisher, Replaced
    <3>4. pub' \in [Topics -> Pubs \union {None}] /\ cancel' \in [Pubs -> BOOLEAN]
      BY <2>32 DEF AddPublisher
    <3>. QED BY <2>32, <3>2, <3>3, <3>4 DEF AddPublisher
  <2>33. ASSUME NEW t \in Topics, DropPublisher(t) PROVE TypeOK'
    BY <2>33 DEF DropPublisher, Idle, UserCall
  <2>34. ASSUME NEW t \in Topics, NEW v \in Values, UserPublish(t, v) PROVE TypeOK'
    <3>1. newValues' \in [Topics -> MaybeValue \union {NoUpdate}]
      BY <2>34 DEF UserPublish, SetValue, MaybeValue
    <3>2. user' \in UserCall
      BY <2>34 DEF UserPublish, Idle, UserCall
    <3>. QED BY <2>34, <3>1, <3>2 DEF UserPublish
  <2>35. ASSUME NEW p \in Pubs, TaskCheck(p) PROVE TypeOK'
    BY <2>35 DEF TaskCheck
  <2>36. ASSUME NEW p \in Pubs, NEW v \in Values, TaskAppend(p, v) PROVE TypeOK'
    BY <2>36 DEF TaskAppend, MaybeValue
  <2>37. ASSUME NEW p \in Pubs, TaskNotify(p) PROVE TypeOK'
    BY <2>37 DEF TaskNotify, Notify, Place
  <2>38. ASSUME NEW p \in Pubs, TaskFinish(p) PROVE TypeOK'
    BY <2>38 DEF TaskFinish, Place
  <2>39. ASSUME NEW k \in DOMAIN joins, CancelOut(k) PROVE TypeOK'
    BY <2>39, RemoveAtType DEF CancelOut
  <2>40. ASSUME NEW k \in DOMAIN joins, JoinTopic(k) PROVE TypeOK'
    <3>1. joins[k] \in Request
      OBVIOUS
    <3>2. joins' \in Seq(Request)
      BY <2>40, RemoveAtType DEF JoinTopic
    <3>3. cur' \in Serving
      BY <2>40, <3>1, CountType DEF JoinTopic, Request, Nobody, Serving
    <3>4. subs' \in [Topics -> SUBSET Ids] /\ known' \subseteq Topics
      BY <2>40, <3>1 DEF JoinTopic, Request
    <3>. QED BY <2>40, <3>2, <3>3, <3>4 DEF JoinTopic, Place
  <2>41. ASSUME NEW r \in leaves, LeaveTopic(r) PROVE TypeOK'
    <3>1. r.id \in Ids /\ r.topic \in Topics /\ leaves' \subseteq Request
      BY <2>41 DEF LeaveTopic, Request
    <3>2. CASE r.id = 0
      BY <2>41, <3>1, <3>2 DEF LeaveTopic
    <3>3. CASE r.id # 0
      <4> DEFINE left == subs[r.topic] \ {r.id}
                 gone == pub[r.topic] = None /\ left = {}
      <4>1. /\ known' = IF gone THEN known \ {r.topic} ELSE known \union {r.topic}
            /\ subs' = [subs EXCEPT ![r.topic] = left]
            /\ value' = IF gone THEN [value EXCEPT ![r.topic] = None] ELSE value
        BY <2>41, <3>3 DEF LeaveTopic
      <4>2. \/ cur' = cur /\ pc' = pc
            \/ /\ cur' = [Nobody EXCEPT !.pub = pub[r.topic], !.id = r.id, !.topic = r.topic,
                                        !.count = Count(left)]
               /\ pc' = "leaveCall"
        BY <2>41, <3>3 DEF LeaveTopic
      <4>3. cur' \in Serving /\ pc' \in Place
        <5>1. pub[r.topic] \in Pubs \union {None} /\ Count(left) \in 0..2
          BY <3>1, CountType
        <5>2. [Nobody EXCEPT !.pub = pub[r.topic], !.id = r.id, !.topic = r.topic,
                             !.count = Count(left)] \in Serving
          BY <3>1, <5>1 DEF Nobody, Serving
        <5>. QED BY <4>2, <5>2 DEF Place
      <4>4. subs' \in [Topics -> SUBSET Ids] /\ known' \subseteq Topics
        BY <3>1, <4>1
      <4>5. value' \in [Topics -> MaybeValue]
        BY <3>1, <4>1 DEF MaybeValue
      <4>. QED BY <2>41, <3>1, <4>3, <4>4, <4>5 DEF LeaveTopic
    <3>. QED BY <3>2, <3>3
  <2>42. CASE UNCHANGED vars
    BY <2>42
  <2>. QED BY <2>1, <2>2, <2>3, <2>4, <2>5, <2>6, <2>7, <2>8, <2>9, <2>10, <2>11, <2>12, <2>13, <2>14, <2>15, <2>16, <2>17, <2>18, <2>19, <2>20, <2>21, <2>22, <2>23, <2>24, <2>25, <2>26, <2>27, <2>28, <2>29, <2>30, <2>31, <2>32, <2>33, <2>34, <2>35, <2>36, <2>37, <2>38, <2>39, <2>40, <2>41, <2>42 DEF Next, Excel, User, Task, Work
<1>3. TypeInv /\ [Next]_vars => HoldsPublisher'
  <2> SUFFICES ASSUME TypeInv, [Next]_vars PROVE HoldsPublisher'
    OBVIOUS
  <2>. USE DEF HoldsPublisher
  <2>1. CASE pc' \notin {"leaveCall", "erase"}
    BY <2>1
  <2>2. ASSUME NEW r \in leaves, LeaveTopic(r), pc' = "leaveCall" PROVE HoldsPublisher'
    <3>1. r.topic \in Topics /\ pc = "batch"
      BY <2>2 DEF TypeInv, TypeOK, Request, LeaveTopic
    <3>2. pub[r.topic] \in Pubs /\ cur'.pub = pub[r.topic]
      BY <2>2, <3>1 DEF TypeInv, TypeOK, LeaveTopic, Nobody
    <3>. QED BY <3>2
  <2>3. CASE CallDisconnect
    BY <2>3 DEF CallDisconnect, TypeInv, TypeOK, Serving
  <2>4. CASE Excel \/ User \/ (\E p \in Pubs : Task(p)) \/ SpuriousWake \/ UNCHANGED vars
    BY <2>4, OthersFrame DEF TypeInv
  <2>5. CASE Work
    BY <2>1, <2>2, <2>3, <2>5 DEF Work, Loop, SeesNoWork, Block, Wake, ApplyValues, StoreArray,
       SendNotify, TakeRequests, CancelOut, JoinTopic, CallConnect, ConnectThrows, LeaveTopic,
       EraseRecord, StopLast, Release, Reap, ClearRecords, StopAll, Finish, batchVars
  <2>. QED BY <2>4, <2>5 DEF Next
<1>. QED BY <1>1, <1>2, <1>3, PTL DEF Spec, TypeInv

\* Every variable stays within its domain, whatever the threads do.
THEOREM TypeCorrect == Spec => []TypeOK
<1>1. TypeInv => TypeOK
  BY DEF TypeInv
<1>. QED BY <1>1, TypeInvHolds, PTL

-----------------------------------------------------------------------------
(***************************************************************************)
(* Tasks.                                                                  *)
(***************************************************************************)
\* A publisher is registered if a record holds it.
LEMMA RegisteredDef == \A p : p \in Registered <=> p # None /\ \E t \in Topics : pub[t] = p
BY DEF Registered

\* A step which leaves the publishers and their tasks alone, and wakes the worker
\* at most, preserves TaskInv.
LEMMA TaskFrame ==
  ASSUME TaskInv, TypeOK,
         UNCHANGED <<pub, cancelled, doomed, cur, future, fresh>>,
         pc' = pc \/ (pc = "blocked" /\ pc' = "test"),
         UserHolds',
         \/ user'.pub = user.pub
         \/ user'.pub = None /\ \/ user.pub \notin Pubs \/ future[user.pub] # "running"
                                \/ user.pub \in Registered \union cancelled \union {cur.pub}
  PROVE  TaskInv'
<1>1. Registered' = Registered
  BY DEF Registered
<1>2. CurIdle' /\ DoomedIdle' /\ ErasedNotRunning' /\ DoneStays'
  BY DEF TaskInv, CurIdle, DoomedIdle, ErasedNotRunning, DoneStays
<1>3. FreshUnused'
  BY <1>1, RtdConstants DEF RtdConstants, TaskInv, TypeOK, FreshUnused
<1>4. NoOrphanTask'
  BY <1>1 DEF TaskInv, NoOrphanTask
<1>5. ClearWaits'
  BY <1>1 DEF TaskInv, ClearWaits, CurIdle, Nobody
<1>. QED BY <1>2, <1>3, <1>4, <1>5 DEF TaskInv

\* Every step keeps the invariant of tasks.
LEMMA TaskStep == TypeInv /\ TypeInv' /\ TaskInv /\ [Next]_vars => TaskInv'
<1> SUFFICES ASSUME TypeInv, TypeInv', TaskInv, [Next]_vars PROVE TaskInv'
    OBVIOUS
<1>. USE DEF vars, queueVars, recordVars, batchVars, taskVars, excelVars
<1>1. CASE UpdateNotify
  BY <1>1, TaskFrame DEF UpdateNotify, TypeInv, TaskInv, UserHolds
<1>2. CASE RefreshData
  BY <1>2, TaskFrame DEF RefreshData, Notify, TypeInv, TaskInv, UserHolds
<1>3. CASE ServerTerminate
  BY <1>3, TaskFrame DEF ServerTerminate, Notify, TypeInv, TaskInv, UserHolds
<1>4. CASE UserStopLast
  BY <1>4, TaskFrame DEF UserStopLast, UserHoldsLast, TypeInv, TaskInv, UserHolds
<1>5. CASE FinishReplace
  BY <1>5, TaskFrame, RtdConstants DEF RtdConstants, FinishReplace, Idle, UserHoldsLast, Ended, TypeInv,
     TaskInv, UserHolds
<1>6. CASE FinishDrop
  BY <1>6, TaskFrame, RtdConstants DEF RtdConstants, FinishDrop, Idle, UserHoldsLast, Ended, TypeInv,
     TaskInv, UserHolds
<1>7. CASE UserNotify
  BY <1>7, TaskFrame DEF UserNotify, Notify, Idle, TypeInv, TaskInv, UserHolds
<1>8. CASE Quit
  BY <1>8, TaskFrame DEF Quit, Notify, TypeInv, TaskInv, UserHolds
<1>9. ASSUME NEW i \in Ids, NEW t \in Topics, ConnectData(i, t) PROVE TaskInv'
  BY <1>9, TaskFrame DEF ConnectData, Notify, TypeInv, TaskInv, UserHolds
<1>10. ASSUME NEW i \in Ids, DisconnectData(i) PROVE TaskInv'
  BY <1>10, TaskFrame DEF DisconnectData, Notify, TypeInv, TaskInv, UserHolds
<1>11. ASSUME NEW t \in Topics, NEW v \in Values, UserPublish(t, v) PROVE TaskInv'
  BY <1>11, TaskFrame DEF UserPublish, SetValue, Idle, TypeInv, TaskInv, UserHolds
<1>12. ASSUME NEW p \in Pubs, TaskCheck(p) PROVE TaskInv'
  BY <1>12, TaskFrame DEF TaskCheck, TypeInv, TaskInv, UserHolds
<1>13. ASSUME NEW p \in Pubs, NEW v \in Values, TaskAppend(p, v) PROVE TaskInv'
  BY <1>13, TaskFrame DEF TaskAppend, TypeInv, TaskInv, UserHolds
<1>14. ASSUME NEW p \in Pubs, TaskNotify(p) PROVE TaskInv'
  BY <1>14, TaskFrame DEF TaskNotify, Notify, TypeInv, TaskInv, UserHolds
<1>15. CASE UNCHANGED vars
  BY <1>15, TaskFrame DEF TypeInv, TaskInv, UserHolds
<1>. USE RtdConstants DEF RtdConstants, TypeInv, TypeOK, HoldsPublisher, Serving, UserCall, TaskInv,
      CurIdle, DoomedIdle, FreshUnused, ErasedNotRunning, DoneStays, UserHolds, ClearWaits,
      NoOrphanTask, Registered, Nobody
<1>16. CASE ServerStart
  BY <1>16 DEF ServerStart
<1>17. CASE Joined
  BY <1>17 DEF Joined
<1>18. CASE Loop
  BY <1>18 DEF Loop
<1>19. CASE SeesNoWork
  BY <1>19 DEF SeesNoWork
<1>20. CASE Block
  BY <1>20 DEF Block
<1>21. CASE Wake
  BY <1>21 DEF Wake
<1>22. CASE ApplyValues
  BY <1>22 DEF ApplyValues
<1>23. CASE StoreArray
  BY <1>23 DEF StoreArray
<1>24. CASE SendNotify
  BY <1>24 DEF SendNotify
<1>25. CASE TakeRequests
  BY <1>25 DEF TakeRequests
<1>26. CASE CallConnect
  BY <1>26 DEF CallConnect, Starts
<1>27. CASE ConnectThrows
  <2>1. Registered' = Registered /\ future[cur.pub] # "running" /\ cur' = Nobody
    BY <1>27 DEF ConnectThrows, Starts, Registered
  <2>2. CurIdle' /\ DoomedIdle' /\ FreshUnused' /\ ErasedNotRunning' /\ DoneStays' /\ UserHolds'
    BY <1>27, <2>1 DEF ConnectThrows
  <2>3. NoOrphanTask' /\ ClearWaits'
    BY <1>27, <2>1 DEF ConnectThrows
  <2>. QED BY <2>2, <2>3
<1>28. CASE CallDisconnect
  BY <1>28 DEF CallDisconnect, Stops
<1>29. CASE EraseRecord
  BY <1>29 DEF EraseRecord
<1>30. CASE StopLast
  BY <1>30 DEF StopLast, WorkerHoldsLast
<1>31. CASE Release
  BY <1>31 DEF Release, WorkerHoldsLast, Ended
<1>32. CASE Reap
  BY <1>32 DEF Reap, Finished
<1>33. CASE ClearRecords
  <2>1. Registered' = {} /\ doomed' = Registered /\ cur = Nobody /\ doomed = {}
    BY <1>33 DEF ClearRecords, Registered
  <2>2. CurIdle' /\ DoomedIdle' /\ ErasedNotRunning' /\ DoneStays' /\ UserHolds'
    BY <1>33 DEF ClearRecords
  <2>3. FreshUnused'
    BY <1>33, <2>1 DEF ClearRecords
  <2>4. NoOrphanTask' /\ ClearWaits'
    BY <1>33, <2>1 DEF ClearRecords
  <2>. QED BY <2>2, <2>3, <2>4
<1>34. CASE StopAll
  <2>1. Registered = {} /\ Registered' = {} /\ cur = Nobody
    <3>1. pc = "clearing" /\ pub' = pub
      BY <1>34 DEF StopAll
    <3>2. Registered = {} /\ cur = Nobody
      BY <3>1
    <3>3. Registered' = Registered
      BY <3>1
    <3>. QED BY <3>2, <3>3
  <2>2. CurIdle' /\ DoomedIdle' /\ ErasedNotRunning' /\ DoneStays' /\ UserHolds'
    BY <1>34 DEF StopAll
  <2>3. FreshUnused'
    BY <1>34, <2>1 DEF StopAll
  <2>4. NoOrphanTask' /\ ClearWaits'
    BY <1>34, <2>1 DEF StopAll, Ended
  <2>. QED BY <2>2, <2>3, <2>4
<1>35. CASE Finish
  BY <1>35 DEF Finish, Ended
<1>36. CASE SpuriousWake
  BY <1>36 DEF SpuriousWake
<1>37. ASSUME NEW p \in Pubs, AddPublisher(p) PROVE TaskInv'
  <2> DEFINE t == TopicOf[p]
             old == pub[t]
  <2>1. /\ p \in fresh /\ t \in Topics /\ pub' = [pub EXCEPT ![t] = p]
        /\ cancelled' = cancelled \union ({old} \ {None})
        /\ user.pub = None /\ user'.pub = old /\ fresh' = fresh \ {p}
        /\ UNCHANGED <<pc, future, doomed, cur>>
    BY <1>37 DEF AddPublisher, Replaced, Idle
  <2>2. Registered' \subseteq Registered \union {p}
    BY <2>1
  <2>3. Registered \subseteq Registered' \union ({old} \ {None})
    BY <2>1
  <2>4. p # None /\ (old # None => old \in Registered)
    BY <2>1
  <2>5. CurIdle' /\ DoomedIdle' /\ DoneStays'
    BY <2>1
  <2>6. ErasedNotRunning'
    BY <2>1
  <2>7. FreshUnused'
    BY <2>1, <2>2, <2>4
  <2>8. NoOrphanTask'
    BY <2>1, <2>3
  <2>9. UserHolds'
    BY <1>37 DEF AddPublisher, Idle
  <2>10. ClearWaits'
    BY <1>37, <2>1, <2>2, <2>4 DEF AddPublisher, RecordsLocked
  <2>. QED BY <2>5, <2>6, <2>7, <2>8, <2>9, <2>10
<1>38. ASSUME NEW t \in Topics, DropPublisher(t) PROVE TaskInv'
  <2>1. /\ pub' = [pub EXCEPT ![t] = None]
        /\ user.pub = None /\ user'.pub = pub[t]
        /\ UNCHANGED <<pc, future, doomed, cur, cancelled, fresh>>
    BY <1>38 DEF DropPublisher, Idle
  <2>2. Registered' \subseteq Registered /\ Registered \subseteq Registered' \union {pub[t]}
    BY <2>1
  <2>3. pub[t] # None => pub[t] \in Registered
    OBVIOUS
  <2>4. CurIdle' /\ DoomedIdle' /\ DoneStays' /\ ErasedNotRunning'
    BY <2>1
  <2>5. FreshUnused' /\ NoOrphanTask'
    BY <2>1, <2>2, <2>3
  <2>6. UserHolds'
    BY <1>38 DEF DropPublisher, Idle
  <2>7. ClearWaits'
    BY <1>38, <2>1, <2>2, <2>3 DEF DropPublisher, RecordsLocked
  <2>. QED BY <2>4, <2>5, <2>6, <2>7
<1>39. ASSUME NEW p \in Pubs, TaskFinish(p) PROVE TaskInv'
  <2>1. Registered' = Registered /\ UNCHANGED <<pub, cancelled, doomed, cur, fresh, user, pc>>
    BY <1>39 DEF TaskFinish, Registered
  <2>2. \A q \in Pubs : (future'[q] = "running" => future[q] = "running") /\ (future[q] = "none" => future'[q] = "none")
    BY <1>39 DEF TaskFinish
  <2>3. CurIdle' /\ DoomedIdle' /\ UserHolds' /\ DoneStays'
    BY <2>1, <2>2
  <2>4. ErasedNotRunning'
    BY <2>1, <2>2, <1>39 DEF TaskFinish
  <2>5. FreshUnused' /\ NoOrphanTask' /\ ClearWaits'
    BY <2>1, <2>2
  <2>. QED BY <2>3, <2>4, <2>5
<1>40. ASSUME NEW k \in DOMAIN joins, CancelOut(k) PROVE TaskInv'
  BY <1>40 DEF CancelOut
<1>41. ASSUME NEW k \in DOMAIN joins, JoinTopic(k) PROVE TaskInv'
  BY <1>41 DEF JoinTopic
<1>42. ASSUME NEW r \in leaves, LeaveTopic(r) PROVE TaskInv'
  <2>1. /\ pc = "batch" /\ cur = Nobody /\ Registered' = Registered
        /\ UNCHANGED <<pub, cancelled, doomed, fresh, user, future>>
    BY <1>42 DEF LeaveTopic, Registered
  <2>2. CASE cur' = cur /\ pc' = pc
    BY <2>1, <2>2
  <2>3. CASE cur'.pub = pub[r.topic] /\ cur'.topic = r.topic /\ pc' = "leaveCall"
    <3>1. r.topic \in Topics /\ (pub[r.topic] # None => pub[r.topic] \in Registered)
      BY DEF Request
    <3>2. CurIdle' /\ DoomedIdle' /\ DoneStays' /\ UserHolds'
      BY <2>1, <2>3
    <3>3. ErasedNotRunning'
      BY <2>1, <2>3
    <3>4. FreshUnused' /\ NoOrphanTask' /\ ClearWaits'
      BY <2>1, <2>3, <3>1
    <3>. QED BY <3>2, <3>3, <3>4
  <2>4. CASE r.id = 0 \/ pub[r.topic] = None
    BY <1>42, <2>2, <2>4 DEF LeaveTopic
  <2>5. CASE r.id # 0 /\ pub[r.topic] # None
    <3>1. pc' = "leaveCall" /\ \E n : cur' = [Nobody EXCEPT !.pub = pub[r.topic], !.id = r.id,
                                                           !.topic = r.topic, !.count = n]
      BY <1>42, <2>5 DEF LeaveTopic
    <3>. QED BY <2>3, <3>1
  <2>. QED BY <2>4, <2>5
<1>. QED
  BY <1>1, <1>2, <1>3, <1>4, <1>5, <1>6, <1>7, <1>8, <1>9, <1>10, <1>11, <1>12, <1>13, <1>14, <1>15, <1>16, <1>17, <1>18, <1>19, <1>20, <1>21, <1>22, <1>23, <1>24, <1>25, <1>26, <1>27, <1>28, <1>29, <1>30, <1>31, <1>32, <1>33, <1>34, <1>35, <1>36, <1>37, <1>38, <1>39, <1>40, <1>41, <1>42
  DEF Next, Excel, User, Task, Work

\* The invariant of tasks holds at first.
LEMMA TaskInit == Init => TaskInv
<1>. SUFFICES ASSUME Init PROVE TaskInv
  OBVIOUS
<1>1. Registered = {}
  BY DEF Init, Registered
<1>. QED BY <1>1, RtdConstants DEF RtdConstants, Init, TaskInv, CurIdle, DoomedIdle, FreshUnused,
     ErasedNotRunning, DoneStays, UserHolds, ClearWaits, NoOrphanTask, Nobody, Idle

\* The invariant of tasks holds in every behaviour.
LEMMA TaskInvHolds == Spec => []TaskInv
<1>. QED BY TaskInit, TaskStep, TypeInvHolds, PTL DEF Spec

\* Whoever drops a publisher last has stopped its task and waited for it: no
\* running task is left without an owner.
THEOREM NoOrphans == Spec => []NoOrphanTask
<1>1. TaskInv => NoOrphanTask
  BY DEF TaskInv
<1>. QED BY <1>1, TaskInvHolds, PTL

\* When the worker thread has ended, so have the tasks of all publishers but the
\* one for which a caller of start() or drop() is waiting.
THEOREM ThreadEndsLast == Spec => []AllStopped
<1>1. TaskInv => AllStopped
  BY DEF TaskInv, ClearWaits, DoomedIdle, AllStopped
<1>. QED BY <1>1, TaskInvHolds, PTL

-----------------------------------------------------------------------------
\* Nobody counts as none.
LEMMA CountZero == \A S : Count(S) = 0 <=> S = {}
BY DEF Count

-----------------------------------------------------------------------------
\* The invariant of erasing holds at first.
LEMMA EraseInit == Init => EraseInv
BY DEF Init, EraseInv, ErasedUnsubscribed, ClearedRecords

\* Every step keeps the invariant of erasing.
LEMMA EraseStep ==
  ASSUME AsyncPubs = {}, TypeInv, EraseInv, [Next]_vars
  PROVE  EraseInv'
<1>. USE DEF EraseInv, ErasedUnsubscribed, ClearedRecords
<1>1. CASE Excel \/ User \/ (\E p \in Pubs : Task(p)) \/ SpuriousWake \/ UNCHANGED vars
  BY <1>1, OthersFrame
<1>2. CASE Loop \/ SeesNoWork \/ Block \/ Wake \/ StoreArray \/ SendNotify \/ TakeRequests
  BY <1>2 DEF Loop, SeesNoWork, Block, Wake, StoreArray, SendNotify, TakeRequests, CanSend
<1>3. CASE ApplyValues
  BY <1>3 DEF ApplyValues
<1>4. ASSUME NEW k \in DOMAIN joins, CancelOut(k) \/ JoinTopic(k) PROVE EraseInv'
  BY <1>4 DEF CancelOut, JoinTopic
<1>5. CASE CallConnect \/ ConnectThrows
  BY <1>5 DEF CallConnect, ConnectThrows
<1>6. ASSUME NEW r \in leaves, LeaveTopic(r) PROVE EraseInv'
  <2>1. CASE r.id = 0 \/ pub[r.topic] = None
    BY <1>6, <2>1 DEF LeaveTopic
  <2>2. CASE r.id # 0 /\ pub[r.topic] # None
    <3>1. r.topic \in Topics
      BY DEF TypeInv, TypeOK, Request
    <3> DEFINE left == subs[r.topic] \ {r.id}
    <3>2. /\ subs' = [subs EXCEPT ![r.topic] = left] /\ pc' = "leaveCall"
          /\ cur' = [Nobody EXCEPT !.pub = pub[r.topic], !.id = r.id, !.topic = r.topic,
                                   !.count = Count(left)]
      BY <1>6, <2>2 DEF LeaveTopic
    <3>3. cur'.count = Count(left) /\ cur'.topic = r.topic
      BY <3>2 DEF Nobody
    <3>. QED BY <3>1, <3>2, <3>3, CountZero DEF TypeInv, TypeOK
  <2>. QED BY <2>1, <2>2
<1>7. CASE CallDisconnect
  <2>1. cur'.topic = cur.topic /\ cur'.count = cur.count /\ subs' = subs
    BY <1>7 DEF CallDisconnect, TypeInv, TypeOK, Serving, recordVars
  <2>. QED BY <1>7, <2>1 DEF CallDisconnect, Stops
<1>8. CASE EraseRecord
  BY <1>8 DEF EraseRecord
<1>9. CASE StopLast \/ Release \/ Reap \/ ClearRecords \/ StopAll \/ Finish
  BY <1>9 DEF StopLast, Release, Reap, ClearRecords, StopAll, Finish, recordVars
<1>. QED BY <1>1, <1>2, <1>3, <1>4, <1>5, <1>6, <1>7, <1>8, <1>9 DEF Next, Work

\* A record is erased only when nobody subscribes.
LEMMA EraseInvHolds == ASSUME AsyncPubs = {} PROVE Spec => []EraseInv
<1>1. TypeInv /\ EraseInv /\ [Next]_vars => EraseInv'
  BY EraseStep
<1>. QED BY <1>1, EraseInit, TypeInvHolds, PTL DEF Spec

-----------------------------------------------------------------------------
\* Initial states are the feed's.
LEMMA FeedInit == Init => Feed!Init
BY DEF Init, Feed!Init

\* Every step of the threads is a step of the feed, or none.
LEMMA FeedStep ==
  ASSUME AsyncPubs = {}, TypeInv, EraseInv, [Next]_vars
  PROVE  [Feed!Next]_(Feed!feedVars)
<1> DEFINE dirty == IF pc = "notify" THEN {} ELSE ready
<1>. USE DEF Feed!Next, Feed!feedVars
<1>1. CASE Excel \/ User \/ (\E p \in Pubs : Task(p)) \/ SpuriousWake \/ UNCHANGED vars
  <2>1. UNCHANGED <<subs, value>> /\ dirty' = dirty
    BY <1>1, OthersFrame
  <2>2. array' = array \/ array' = {}
    BY <1>1 DEF Excel, User, Task, ServerStart, ConnectData, DisconnectData, UpdateNotify, RefreshData,
       ServerTerminate, Joined, AddPublisher, DropPublisher, UserStopLast, FinishReplace, FinishDrop,
       UserPublish, UserNotify, Quit, TaskCheck, TaskAppend, TaskNotify, TaskFinish, SpuriousWake, vars
  <2>. QED BY <2>1, <2>2 DEF Feed!Fetch
<1>2. CASE Loop \/ SeesNoWork \/ Block \/ Wake \/ SendNotify \/ TakeRequests
  BY <1>2 DEF Loop, SeesNoWork, Block, Wake, SendNotify, TakeRequests, recordVars, batchVars
<1>3. CASE ApplyValues
  <2> DEFINE w == [t \in Topics |-> IF t \in Updated THEN newValues[t] ELSE None]
  <2>1. Updated \in SUBSET Topics
    BY DEF Updated, TypeInv, TypeOK
  <2>2. w \in [Topics -> Values \union {None}]
    BY DEF Updated, TypeInv, TypeOK, MaybeValue
  <2>3. value' = [t \in Topics |-> IF t \in Updated THEN w[t] ELSE value[t]]
    BY <1>3, <2>1 DEF ApplyValues
  <2>4. dirty' = dirty \union UNION {subs[t] : t \in Updated} /\ UNCHANGED <<subs, array>>
    BY <1>3 DEF ApplyValues
  <2>5. Feed!Update(Updated, w)
    BY <2>3, <2>4 DEF Feed!Update
  <2>. QED BY <2>1, <2>2, <2>5
<1>4. CASE StoreArray
  BY <1>4 DEF StoreArray, CanSend, Feed!Post, recordVars, batchVars
<1>5. ASSUME NEW k \in DOMAIN joins, CancelOut(k) PROVE [Feed!Next]_(Feed!feedVars)
  BY <1>5 DEF CancelOut, recordVars
<1>6. ASSUME NEW k \in DOMAIN joins, JoinTopic(k) PROVE [Feed!Next]_(Feed!feedVars)
  <2>1. joins[k].id \in Ids /\ joins[k].topic \in Topics
    <3>1. joins[k] \in Request
      BY DEF TypeInv, TypeOK
    <3>. QED BY <3>1 DEF Request
  <2>2. Feed!Join(joins[k].id, joins[k].topic)
    BY <1>6 DEF JoinTopic, Feed!Join
  <2>. QED BY <2>1, <2>2
<1>7. CASE CallConnect \/ ConnectThrows
  BY <1>7 DEF CallConnect, ConnectThrows, recordVars, batchVars
<1>8. ASSUME NEW r \in leaves, LeaveTopic(r) PROVE [Feed!Next]_(Feed!feedVars)
  <2>1. r.id \in Ids /\ r.topic \in Topics
    BY DEF TypeInv, TypeOK, Request
  <2>2. CASE r.id = 0
    BY <1>8, <2>2 DEF LeaveTopic
  <2>3. CASE r.id # 0
    BY <1>8, <2>1, <2>3 DEF LeaveTopic, Feed!Leave
  <2>. QED BY <2>2, <2>3
<1>9. CASE EraseRecord
  <2>1. cur.topic \in Topics /\ subs[cur.topic] = {}
    BY <1>9 DEF EraseRecord, EraseInv, ErasedUnsubscribed
  <2>2. subs' = subs
    BY <1>9, <2>1 DEF EraseRecord, TypeInv, TypeOK
  <2>3. Feed!Erase(cur.topic)
    BY <1>9, <2>1, <2>2 DEF EraseRecord, Feed!Erase, batchVars
  <2>. QED BY <2>1, <2>3
<1>10. CASE CallDisconnect \/ StopLast \/ Release \/ Reap \/ StopAll
  BY <1>10 DEF CallDisconnect, StopLast, Release, Reap, StopAll, recordVars, batchVars
<1>11. CASE ClearRecords
  BY <1>11 DEF ClearRecords, Feed!Stop
<1>12. CASE Finish
  <2>1. subs = [t \in Topics |-> {}] /\ value = [t \in Topics |-> None]
    BY <1>12 DEF Finish, EraseInv, ClearedRecords, TypeInv, TypeOK
  <2>. QED BY <1>12, <2>1 DEF Finish, Feed!Stop, recordVars
<1>. QED
  BY <1>1, <1>2, <1>3, <1>4, <1>5, <1>6, <1>7, <1>8, <1>9, <1>10, <1>11, <1>12 DEF Next, Work

\* RtdServerThreadedWorker keeps the promise of RtdFeed to its subscribers.
THEOREM ImplementsFeed == ASSUME AsyncPubs = {} PROVE Spec => FeedSpec
<1>1. TypeInv /\ EraseInv /\ [Next]_vars => [Feed!Next]_(Feed!feedVars)
  BY FeedStep
<1>. QED BY <1>1, FeedInit, EraseInvHolds, TypeInvHolds, PTL DEF Spec, FeedSpec, Feed!Spec

-----------------------------------------------------------------------------
\* The invariant of sending holds at first.
LEMMA SendInit == Init => SendInv
BY DEF Init, SendInv, OneSession, NotifyPending, Handshake

\* Every step keeps the invariant of sending.
LEMMA SendStep ==
  ASSUME MaxSessions <= 1, TypeInv, SendInv, [Next]_vars
  PROVE  SendInv'
<1>. USE DEF SendInv, OneSession, NotifyPending, Handshake, TypeInv, TypeOK
<1>1. CASE Excel
  <2>1. CASE ServerStart
    <3>1. sessions = 0
      BY <2>1, RtdConstants DEF RtdConstants, ServerStart
    <3>. QED BY <2>1, <3>1 DEF ServerStart
  <2>2. CASE (\E i \in Ids, t \in Topics : ConnectData(i, t)) \/ (\E i \in Ids : DisconnectData(i))
    BY <2>2 DEF ConnectData, DisconnectData, Notify
  <2>3. CASE UpdateNotify
    BY <2>3 DEF UpdateNotify
  <2>4. CASE RefreshData
    BY <2>4 DEF RefreshData, Notify
  <2>5. CASE ServerTerminate
    BY <2>5 DEF ServerTerminate, Notify
  <2>6. CASE Joined
    BY <2>6 DEF Joined
  <2>. QED BY <1>1, <2>1, <2>2, <2>3, <2>4, <2>5, <2>6 DEF Excel
<1>2. CASE User
  BY <1>2 DEF User, AddPublisher, DropPublisher, UserStopLast, FinishReplace, FinishDrop,
     UserPublish, UserNotify, Quit, Notify, excelVars
<1>3. CASE \E p \in Pubs : Task(p)
  BY <1>3 DEF Task, TaskCheck, TaskAppend, TaskNotify, TaskFinish, Notify, excelVars
<1>4. CASE Loop \/ SeesNoWork \/ Block \/ Wake \/ ApplyValues \/ TakeRequests \/ SpuriousWake
  BY <1>4 DEF Loop, SeesNoWork, Block, Wake, ApplyValues, TakeRequests, SpuriousWake, excelVars
<1>5. CASE StoreArray \/ SendNotify
  BY <1>5 DEF StoreArray, CanSend, SendNotify, Message, excelVars
<1>6. CASE \/ \E k \in DOMAIN joins : CancelOut(k) \/ JoinTopic(k)
           \/ CallConnect \/ ConnectThrows
           \/ \E r \in leaves : LeaveTopic(r)
           \/ CallDisconnect \/ EraseRecord \/ StopLast \/ Release \/ Reap
  BY <1>6 DEF CancelOut, JoinTopic, CallConnect, ConnectThrows, LeaveTopic, CallDisconnect,
     EraseRecord, StopLast, Release, Reap, excelVars
<1>7. CASE ClearRecords \/ StopAll \/ Finish
  BY <1>7 DEF ClearRecords, StopAll, Finish, excelVars
<1>8. CASE UNCHANGED vars
  BY <1>8 DEF vars, excelVars
<1>. QED BY <1>1, <1>2, <1>3, <1>4, <1>5, <1>6, <1>7, <1>8 DEF Next, Work

\* Array and notification are paired in every behaviour of one session.
LEMMA SendInvHolds == ASSUME MaxSessions <= 1 PROVE Spec => []SendInv
<1>1. TypeInv /\ SendInv /\ [Next]_vars => SendInv'
  BY SendStep
<1>. QED BY <1>1, SendInit, TypeInvHolds, PTL DEF Spec

\* The array and the notification belong together: no array waits unannounced,
\* and Excel never fetches an array which is not there.
THEOREM ArrayAndNotification == ASSUME MaxSessions <= 1 PROVE Spec => []Handshake
<1>1. SendInv => Handshake
  BY DEF SendInv
<1>. QED BY <1>1, SendInvHolds, PTL

-----------------------------------------------------------------------------
\* The invariant of the id table holds at first.
LEMMA LinkInit == Init => LinkInv
BY DEF Init, LinkInv, LeavesDelinked, ActiveSubscribed

\* Every step keeps the invariant of the id table.
LEMMA LinkStep ==
  ASSUME MaxSessions <= 1, TypeInv, SendInv, EraseInv, LinkInv, [Next]_vars
  PROVE  LinkInv'
<1>. USE DEF LinkInv, LeavesDelinked, ActiveSubscribed
<1>1. CASE Excel \/ User \/ (\E p \in Pubs : Task(p)) \/ SpuriousWake \/ UNCHANGED vars
  <2>1. /\ UNCHANGED <<subs, active, leaves, cur>>
        /\ pc' = pc \/ (pc = "blocked" /\ pc' = "test") \/ (pc = "none" /\ pc' = "loop")
    BY <1>1, OthersFrame, RtdConstants DEF RtdConstants, SendInv, OneSession, TypeInv, TypeOK
  <2>. QED BY <2>1
<1>2. CASE Loop \/ SeesNoWork \/ Block \/ Wake \/ ApplyValues \/ StoreArray \/ SendNotify
  BY <1>2 DEF Loop, SeesNoWork, Block, Wake, ApplyValues, StoreArray, CanSend, SendNotify, recordVars,
     batchVars
<1>3. CASE TakeRequests
  <2>1. /\ leaves' = {[id |-> i, topic |-> active[i]] : i \in {i \in Disconnecting : active[i] # None}}
        /\ active' = [i \in Ids |-> IF i \in Disconnecting THEN None ELSE active[i]]
        /\ subs' = subs
        /\ pc' = IF toConnect = <<>> /\ toDisconnect = <<>> THEN "loop" ELSE "batch"
    BY <1>3 DEF TakeRequests, Delinked, recordVars
  <2>2. Disconnecting \subseteq Ids
    BY DEF Disconnecting, TypeInv, TypeOK
  <2>3. \A r \in leaves' : active'[r.id] # r.topic
    BY <2>1, <2>2
  <2>4. ActiveSubscribed'
    BY <1>3, <2>1 DEF TakeRequests
  <2>5. toDisconnect = <<>> => leaves' = {}
    BY <2>1 DEF Disconnecting
  <2>. QED BY <2>1, <2>3, <2>4, <2>5
<1>4. ASSUME NEW k \in DOMAIN joins, CancelOut(k) PROVE LinkInv'
  BY <1>4 DEF CancelOut, recordVars
<1>5. ASSUME NEW k \in DOMAIN joins, JoinTopic(k) PROVE LinkInv'
  <2>1. joins[k] \in Request
    BY DEF TypeInv, TypeOK
  <2>2. /\ cur'.id = joins[k].id /\ cur'.topic = joins[k].topic
        /\ subs' = [subs EXCEPT ![joins[k].topic] = @ \union {joins[k].id}]
        /\ joins[k] \notin leaves /\ pc' = "joinCall" /\ UNCHANGED <<leaves, active>>
    BY <1>5 DEF JoinTopic, Nobody
  <2>3. joins[k] = [id |-> cur'.id, topic |-> cur'.topic]
    BY <2>1, <2>2 DEF Request
  <2>. QED BY <1>5, <2>1, <2>2, <2>3 DEF JoinTopic, Request, TypeInv, TypeOK
<1>6. CASE CallConnect
  BY <1>6 DEF CallConnect, recordVars, batchVars, TypeInv, TypeOK, Request
<1>7. CASE ConnectThrows
  BY <1>7 DEF ConnectThrows, recordVars
<1>8. ASSUME NEW r \in leaves, LeaveTopic(r) PROVE LinkInv'
  <2>1. r.id \in Ids /\ r.topic \in Topics /\ leaves' = leaves \ {r} /\ active' = active /\ pc = "batch"
    BY <1>8 DEF LeaveTopic, TypeInv, TypeOK, Request
  <2>2. pc' \in {"batch", "leaveCall"}
    BY <1>8, <2>1 DEF LeaveTopic
  <2>3. CASE r.id = 0
    BY <1>8, <2>1, <2>2, <2>3 DEF LeaveTopic
  <2>4. CASE r.id # 0
    <3>1. subs' = [subs EXCEPT ![r.topic] = @ \ {r.id}]
      BY <1>8, <2>4 DEF LeaveTopic
    <3>2. active[r.id] # r.topic
      OBVIOUS
    <3>. QED BY <2>1, <2>2, <3>1, <3>2 DEF TypeInv, TypeOK
  <2>. QED BY <2>3, <2>4
<1>9. CASE CallDisconnect
  BY <1>9 DEF CallDisconnect, recordVars
<1>10. CASE EraseRecord
  <2>1. cur.topic \in Topics /\ subs[cur.topic] = {}
    BY <1>10 DEF EraseRecord, EraseInv, ErasedUnsubscribed
  <2>2. subs' = subs
    BY <1>10, <2>1 DEF EraseRecord, TypeInv, TypeOK
  <2>. QED BY <1>10, <2>2 DEF EraseRecord, batchVars
<1>11. CASE StopLast \/ Release \/ Reap
  BY <1>11 DEF StopLast, Release, Reap, recordVars, batchVars
<1>12. CASE ClearRecords \/ StopAll \/ Finish
  BY <1>12 DEF ClearRecords, StopAll, Finish, recordVars, batchVars
<1>. QED
  BY <1>1, <1>2, <1>3, <1>4, <1>5, <1>6, <1>7, <1>8, <1>9, <1>10, <1>11, <1>12 DEF Next, Work

\* Disconnecting an id always finds the subscription it has to undo, so long as
\* the table names the id at all.
THEOREM TableNamesSubscribers ==
  ASSUME AsyncPubs = {}, MaxSessions <= 1 PROVE Spec => []ActiveSubscribed
<1>1. TypeInv /\ SendInv /\ EraseInv /\ LinkInv /\ [Next]_vars => LinkInv'
  BY LinkStep
<1>2. LinkInv => ActiveSubscribed
  BY DEF LinkInv
<1>. QED BY <1>1, <1>2, LinkInit, EraseInvHolds, SendInvHolds, TypeInvHolds, PTL DEF Spec
=============================================================================
