-------------------------- MODULE MainQueueProofs ---------------------------
(***************************************************************************)
(* MainQueue, however many threads submit jobs and however deep callbacks  *)
(* nest: its types; Prompt by way of QueueInv: no job without a wait is    *)
(* left to the timer; OnePlace: none is lost or runs twice; and InOrder:   *)
(* the jobs of a thread are tried in its order.                            *)
(***************************************************************************)
EXTENDS MainQueueProps, SequenceTheorems, FiniteSetTheorems, TLAPS

\* emplace() puts one entry in the queue, after those due no later.
EmplacedAfter(k, j, ms) ==
  /\ \A i \in 1..k : queue[i].left <= ms /\ queue'[i] = queue[i]
  /\ \A i \in k + 1..Len(queue) : queue[i].left > ms
  /\ queue'[k + 1] = [job |-> j, left |-> ms]
  /\ \A i \in k + 2..Len(queue) + 1 : queue'[i] = queue[i - 1]

\* Where the entry is put.
LEMMA EmplacedAt ==
  ASSUME MaxTime \in Nat, queue \in Seq(Entry), NEW j \in Jobs, NEW ms \in Time, Emplace(j, ms)
  PROVE  /\ queue' \in Seq(Entry) /\ Len(queue') = Len(queue) + 1
         /\ \E k \in 0..Len(queue) : EmplacedAfter(k, j, ms)
<1>. DEFINE e == [job |-> j, left |-> ms]
<1>1. e \in Entry
  BY DEF Entry
<1>2. PICK k \in 0..Len(queue) :
        /\ \A i \in 1..k : queue[i].left <= ms
        /\ \A i \in k + 1..Len(queue) : queue[i].left > ms
        /\ queue' = SubSeq(queue, 1, k) \o <<e>> \o SubSeq(queue, k + 1, Len(queue))
  BY DEF Emplace
<1>. HIDE DEF e
<1>3. /\ queue' \in Seq(Entry)
      /\ Len(queue') = Len(queue) + 1
      /\ \A i \in 1..k : queue'[i] = queue[i]
      /\ queue'[k + 1] = e
      /\ \A i \in k + 2..Len(queue) + 1 : queue'[i] = queue[i - 1]
  <2>. DEFINE a == SubSeq(queue, 1, k) 
              b == a \o <<e>>
              c == SubSeq(queue, k + 1, Len(queue))
  <2>1. a \in Seq(Entry) /\ Len(a) = k /\ \A i \in 1..k : a[i] = queue[i]
    BY SubSeqProperties
  <2>2. c \in Seq(Entry) /\ Len(c) = Len(queue) - k /\ \A i \in 1..Len(queue) - k : c[i] = queue[k + i]
    OBVIOUS
  <2>. HIDE DEF a, c
  <2>3. b \in Seq(Entry) /\ Len(b) = k + 1
    BY <1>1, <2>1
  <2>4. \A i \in 1..k : b[i] = queue[i]
    BY <2>1
  <2>5. b[k + 1] = e
    BY <2>1
  <2>. HIDE DEF b
  <2>. DEFINE d == b \o c
  <2>6. d \in Seq(Entry) /\ Len(d) = Len(b) + Len(c)
    BY <2>2, <2>3, ConcatProperties
  <2>7. \A i \in 1..k + 1 : d[i] = b[i]
    BY <2>2, <2>3
  <2>8. \A i \in 1..Len(b) + Len(c) : i > Len(b) => d[i] = c[i - Len(b)]
    BY <2>2, <2>3, ConcatProperties
  <2>9. queue' = d
    BY <1>2 DEF a, b, c, d
  <2>. HIDE DEF b, d
  <2>10. Len(d) = Len(queue) + 1
    BY <2>2, <2>3, <2>6
  <2>11. \A i \in 1..k : d[i] = queue[i]
    BY <2>4, <2>7
  <2>12. d[k + 1] = e
    <3>1. k + 1 \in 1..k + 1
      OBVIOUS
    <3>. QED BY <2>5, <2>7, <3>1
  <2>13. ASSUME NEW i \in k + 2..Len(queue) + 1 PROVE d[i] = queue[i - 1]
    <3>1. i \in 1..Len(b) + Len(c) /\ i > Len(b) /\ i - Len(b) = i - (k + 1)
      BY <2>2, <2>3
    <3>2. i - (k + 1) \in 1..Len(queue) - k /\ k + (i - (k + 1)) = i - 1
      OBVIOUS
    <3>. QED BY <2>2, <2>8, <3>1, <3>2
  <2>. QED BY <2>6, <2>9, <2>10, <2>11, <2>12, <2>13
<1>. QED BY <1>2, <1>3 DEF EmplacedAfter, e

\* The queue keeps its order.
LEMMA Emplaced ==
  ASSUME MaxTime \in Nat, queue \in Seq(Entry), NEW j \in Jobs, NEW ms \in Time, Emplace(j, ms)
  PROVE  /\ queue' \in Seq(Entry)
         /\ Len(queue') = Len(queue) + 1
         /\ \A n \in DOMAIN queue' :
              queue'[n] = [job |-> j, left |-> ms] \/ \E i \in DOMAIN queue : queue'[n] = queue[i]
         /\ Sorted => Sorted'
<1>. DEFINE e == [job |-> j, left |-> ms]
<1>1. e \in Entry /\ e.left = ms /\ ms \in Nat
  BY DEF Entry, Time
<1>2. PICK k \in 0..Len(queue) :
        /\ \A i \in 1..k : queue[i].left <= ms
        /\ \A i \in k + 1..Len(queue) : queue[i].left > ms
        /\ EmplacedAfter(k, j, ms)
  BY EmplacedAt DEF EmplacedAfter
<1>3. /\ queue' \in Seq(Entry)
      /\ Len(queue') = Len(queue) + 1
      /\ \A i \in 1..k : queue'[i] = queue[i]
      /\ queue'[k + 1] = e
      /\ \A i \in k + 2..Len(queue) + 1 : queue'[i] = queue[i - 1]
  BY <1>2, EmplacedAt DEF EmplacedAfter
<1>. HIDE DEF e
<1>4. \A n \in DOMAIN queue' : queue'[n] = e \/ \E i \in DOMAIN queue : queue'[n] = queue[i]
  <2> SUFFICES ASSUME NEW n \in 1..Len(queue) + 1
               PROVE  queue'[n] = e \/ \E i \in 1..Len(queue) : queue'[n] = queue[i]
    BY <1>3
  <2>1. CASE n <= k
    BY <1>3, <2>1
  <2>2. CASE n = k + 1
    BY <1>3, <2>2
  <2>3. CASE n > k + 1
    BY <1>3, <2>3
  <2>. QED BY <2>1, <2>2, <2>3
<1>5. ASSUME Sorted PROVE Sorted'
  <2>1. ASSUME NEW n \in 1..Len(queue) PROVE queue[n].left \in Nat
    <3>1. queue[n] \in Entry
      OBVIOUS
    <3>. QED BY <3>1 DEF Entry, Time
  <2>2. e.left = ms /\ ms \in Nat
    BY <1>1
  <2>3. \A i \in 1..k : queue[i].left <= ms
    BY <1>2
  <2>4. \A i \in k + 1..Len(queue) : queue[i].left > ms
    BY <1>2
  <2> SUFFICES ASSUME NEW i \in 1..Len(queue) + 1, NEW n \in 1..Len(queue) + 1, i <= n
               PROVE  queue'[i].left <= queue'[n].left
    BY <1>3 DEF Sorted
  <2>5. CASE n <= k
    <3>1. queue'[i] = queue[i] /\ queue'[n] = queue[n] /\ i \in 1..Len(queue) /\ n \in 1..Len(queue)
      BY <1>3, <2>5
    <3>. QED BY <1>5, <3>1 DEF Sorted
  <2>6. CASE n = k + 1
    <3>1. i <= k => queue'[i] = queue[i]
      BY <1>3
    <3>2. ~(i <= k) => i = k + 1
      BY <2>6
    <3>. QED BY <1>3, <2>2, <2>3, <2>6, <3>1, <3>2
  <2>7. CASE n > k + 1
    <3>1. queue'[n] = queue[n - 1] /\ n - 1 \in k + 1..Len(queue)
      BY <1>3, <2>7
    <3>2. CASE i <= k
      <4>1. queue'[i] = queue[i] /\ i \in 1..Len(queue) /\ i <= n - 1
        BY <1>3, <3>1, <3>2
      <4>. QED BY <1>5, <3>1, <4>1 DEF Sorted
    <3>3. CASE i = k + 1
      BY <1>3, <2>1, <2>2, <2>4, <3>1, <3>3
    <3>4. CASE i > k + 1
      <4>1. queue'[i] = queue[i - 1] /\ i - 1 \in 1..Len(queue) /\ i - 1 <= n - 1
        BY <1>3, <3>4
      <4>. QED BY <1>5, <3>1, <4>1 DEF Sorted
    <3>. QED BY <3>2, <3>3, <3>4
  <2>. QED BY <2>5, <2>6, <2>7
<1>. QED BY <1>3, <1>4, <1>5 DEF e

-----------------------------------------------------------------------------
\* What a step may do to the callbacks: enter one, go on in the innermost, leave it.
LEMMA Entered ==
  ASSUME frames \in Seq(Frame), NEW f \in Frame, frames' = <<f>> \o frames
  PROVE  /\ frames' \in Seq(Frame) /\ frames' # <<>>
         /\ frames'[1] = f
         /\ \A k \in DOMAIN frames' : frames'[k] = f \/ \E i \in DOMAIN frames : frames'[k] = frames[i]
<1>. DEFINE u == <<f>>
<1>1. u \in Seq(Frame) /\ Len(u) = 1 /\ u[1] = f
  OBVIOUS
<1>. HIDE DEF u
<1>2. /\ frames' \in Seq(Frame)
      /\ Len(frames') = Len(u) + Len(frames)
      /\ \A k \in 1..Len(u) + Len(frames) :
           frames'[k] = IF k <= Len(u) THEN u[k] ELSE frames[k - Len(u)]
  <2>1. frames' = u \o frames
    BY DEF u
  <2>. QED BY <1>1, <2>1, ConcatProperties
<1>3. ASSUME NEW k \in 1..Len(frames) + 1
      PROVE  frames'[k] = f \/ \E i \in 1..Len(frames) : frames'[k] = frames[i]
  <2>1. CASE k = 1
    BY <1>1, <1>2, <2>1
  <2>2. CASE k # 1
    <3>1. frames'[k] = frames[k - 1] /\ k - 1 \in 1..Len(frames)
      BY <1>1, <1>2, <2>2
    <3>. QED BY <3>1
  <2>. QED BY <2>1, <2>2
<1>4. frames'[1] = f /\ frames' # <<>>
  BY <1>1, <1>2
<1>. QED BY <1>1, <1>2, <1>3, <1>4

\* A callback which goes on stays the innermost one.
LEMMA WentOn ==
  ASSUME frames \in Seq(Frame), frames # <<>>, NEW f \in Frame, Becomes(f)
  PROVE  /\ frames' \in Seq(Frame) /\ frames' # <<>>
         /\ frames'[1] = f
         /\ \A k \in DOMAIN frames' : frames'[k] = f \/ \E i \in DOMAIN frames : frames'[k] = frames[i]
BY DEF Becomes

\* A callback which ends leaves the others as they were.
LEMMA Left ==
  ASSUME frames \in Seq(Frame), frames # <<>>, frames' = Tail(frames)
  PROVE  /\ frames' \in Seq(Frame)
         /\ \A k \in DOMAIN frames' : \E i \in DOMAIN frames : frames'[k] = frames[i]
BY HeadTailProperties

\* A new callback is at no job yet.
LEMMA CalledType ==
  ASSUME NEW js \in Seq(Jobs), NEW d \in BOOLEAN
  PROVE  /\ Called(js, d) \in Frame
         /\ Called(js, d).at = "check"
         /\ Called(js, d).items = js
         /\ Called(js, d).kept = <<>>
BY DEF Called, Frame

\* TimerCallback takes the jobs which are due, and only those.
LEMMA DueTaken ==
  ASSUME MaxTime \in Nat, queue \in Seq(Entry), frames \in Seq(Frame), TakeDue
  PROVE  /\ queue' \in Seq(Entry)
         /\ \A n \in DOMAIN queue' : \E i \in DOMAIN queue : queue'[n] = queue[i]
         /\ Sorted => Sorted' /\ \A n \in DOMAIN queue' : queue'[n].left > 0
         /\ \/ frames' = frames
            \/ \E js \in Seq(Jobs) :
                 /\ frames' = <<Called(js, FALSE)>> \o frames
                 /\ \A i \in DOMAIN js : \E n \in DOMAIN queue : js[i] = queue[n].job
<1>1. PICK k \in 0..Len(queue) :
        /\ k < Len(queue) => queue[k + 1].left > 0
        /\ queue' = SubSeq(queue, k + 1, Len(queue))
        /\ frames' = IF k = 0 THEN frames
                     ELSE <<Called([i \in 1..k |-> queue[i].job], FALSE)>> \o frames
  BY DEF TakeDue
<1>2. /\ queue' \in Seq(Entry)
      /\ Len(queue') = Len(queue) - k
      /\ \A n \in 1..Len(queue) - k : queue'[n] = queue[k + n]
  BY <1>1
<1>3. ASSUME NEW n \in DOMAIN queue' PROVE queue'[n] = queue[k + n] /\ k + n \in DOMAIN queue
  BY <1>2
<1>4. ASSUME Sorted PROVE Sorted' /\ \A n \in DOMAIN queue' : queue'[n].left > 0
  <2>1. \A i, n \in DOMAIN queue' : i <= n => queue'[i].left <= queue'[n].left
    <3> SUFFICES ASSUME NEW i \in DOMAIN queue', NEW n \in DOMAIN queue', i <= n
                 PROVE  queue'[i].left <= queue'[n].left
      OBVIOUS
    <3>1. k + i <= k + n
      BY <1>2
    <3>. QED BY <1>3, <1>4, <3>1 DEF Sorted
  <2>2. ASSUME NEW n \in DOMAIN queue' PROVE queue'[n].left > 0
    <3>1. k + 1 \in DOMAIN queue /\ k + 1 <= k + n /\ k < Len(queue)
      BY <1>2
    <3>2. queue[k + 1].left <= queue[k + n].left
      BY <1>3, <1>4, <3>1 DEF Sorted
    <3>3. queue[k + 1] \in Entry /\ queue[k + n] \in Entry
      BY <1>3, <3>1
    <3>4. queue[k + 1].left \in Nat /\ queue[k + n].left \in Nat
      BY <3>3 DEF Entry, Time
    <3>5. queue[k + 1].left > 0 /\ queue'[n] = queue[k + n]
      BY <1>1, <1>3, <3>1
    <3>. QED BY <3>2, <3>4, <3>5
  <2>. QED BY <2>1, <2>2 DEF Sorted
<1>5. CASE k = 0
  BY <1>1, <1>2, <1>3, <1>4, <1>5
<1>6. CASE k # 0
  <2>. DEFINE js == [i \in 1..k |-> queue[i].job]
  <2>1. ASSUME NEW i \in 1..k PROVE i \in DOMAIN queue /\ queue[i].job \in Jobs
    <3>1. i \in DOMAIN queue /\ queue[i] \in Entry
      OBVIOUS
    <3>. QED BY <3>1 DEF Entry
  <2>2. js \in Seq(Jobs)
    BY <2>1
  <2>3. frames' = <<Called(js, FALSE)>> \o frames
    BY <1>1, <1>6
  <2>4. \A i \in DOMAIN js : \E n \in DOMAIN queue : js[i] = queue[n].job
    BY <2>1
  <2>. HIDE DEF js
  <2>. QED BY <1>2, <1>3, <1>4, <2>2, <2>3, <2>4
<1>. QED BY <1>5, <1>6

-----------------------------------------------------------------------------
TypeInv == TypeOK /\ BodyHasJob

\* The types of the innermost callback and of the job it is at.
LEMMA TopType ==
  ASSUME TypeInv, frames # <<>>
  PROVE  /\ Top \in Frame
         /\ Top.at \in {"check", "run", "body", "requeue"}
         /\ Top.items \in Seq(Jobs) /\ Top.kept \in Seq(Jobs)
         /\ Top.at = "body" => Top.items # <<>>
         /\ Top.items # <<>> => Job \in Jobs /\ Tail(Top.items) \in Seq(Jobs)
<1>1. Top \in Frame /\ 1 \in DOMAIN frames
  BY DEF TypeInv, TypeOK, Top
<1>2. Top.items \in Seq(Jobs) /\ Top.kept \in Seq(Jobs) /\ Top.at \in {"check", "run", "body", "requeue"}
  BY <1>1 DEF Frame
<1>3. Top.at = "body" => Top.items # <<>>
  BY <1>1 DEF TypeInv, BodyHasJob, Top
<1>. QED BY <1>1, <1>2, <1>3, HeadTailProperties DEF Job

\* The delay for the timer is a time, be the queue empty or not.
LEMMA FirstJobTimeType ==
  ASSUME NEW q \in Seq(Entry)
  PROVE  FirstJobTime(q) \subseteq Time
<1>1. CASE q = <<>>
  BY <1>1 DEF FirstJobTime
<1>2. CASE q # <<>>
  <2>1. q[1] \in Entry
    BY <1>2
  <2>. QED BY <1>2, <2>1 DEF FirstJobTime, Entry
<1>. QED BY <1>1, <1>2

\* The next job of a thread's program.
LEMMA HeadOfTodo ==
  ASSUME TypeInv, NEW h \in Threads, todo[h] # <<>>
  PROVE  /\ Head(todo[h]) \in Jobs /\ Head(todo[h]) = todo[h][1] /\ 1 \in DOMAIN todo[h]
         /\ [todo EXCEPT ![h] = Tail(@)] \in [Threads -> Seq(Jobs)]
<1>1. todo[h] \in Seq(Jobs)
  BY DEF TypeInv, TypeOK
<1>2. Head(todo[h]) \in Jobs /\ Tail(todo[h]) \in Seq(Jobs)
  BY <1>1, HeadTailProperties
<1>. QED BY <1>1, <1>2 DEF TypeInv, TypeOK

\* BodyHasJob is preserved if the callbacks are those of before but for one which
\* is at no job, or has one.
LEMMA BodyKept ==
  ASSUME BodyHasJob, NEW f, f.at = "body" => f.items # <<>>,
         \A k \in DOMAIN frames' : frames'[k] = f \/ \E i \in DOMAIN frames : frames'[k] = frames[i]
  PROVE  BodyHasJob'
BY DEF BodyHasJob

\* Every step keeps the types.
LEMMA TypeStep == TypeInv /\ [Next]_vars => TypeInv'
<1> SUFFICES ASSUME TypeInv, [Next]_vars PROVE TypeInv'
  OBVIOUS
<1>. USE QueueConstants DEF QueueConstants
<1>a. MaxTime \in Nat /\ 0 \in Time /\ Quiet \notin Time
  BY DEF Time, Quiet
<1>b. /\ queue \in Seq(Entry) /\ frames \in Seq(Frame) /\ BodyHasJob
      /\ timer \in [left: Time, period: Time]
      /\ arming \in [Threads -> Time \union {Quiet}]
      /\ outcome \in [Jobs -> Pending \union {"new", "ran", "busy", "dropped"}]
  BY DEF TypeInv, TypeOK
<1>c. \A j \in Jobs : Before[j] \in Time /\ Between[j] \in Time
  BY DEF Time
<1>1. ASSUME NEW j \in Jobs, CallNow(j) PROVE TypeInv'
  <2>. DEFINE js == <<j>>
  <2>0. js \in Seq(Jobs)
    OBVIOUS
  <2>. HIDE DEF js
  <2>1. Called(js, TRUE) \in Frame /\ Called(js, TRUE).at = "check"
    BY <2>0, CalledType
  <2>2. frames' \in Seq(Frame) /\ BodyHasJob'
    <3>1. frames' = <<Called(js, TRUE)>> \o frames
      BY <1>1 DEF CallNow, js
    <3>. QED BY <1>b, <2>1, <3>1, Entered, BodyKept
  <2>3. todo' \in [Threads -> Seq(Jobs)]
    BY <1>1, HeadOfTodo DEF CallNow
  <2>4. outcome' \in [Jobs -> Pending \union {"new", "ran", "busy", "dropped"}]
    BY <1>1, <1>b DEF CallNow, Pending
  <2>. QED BY <1>1, <2>2, <2>3, <2>4 DEF CallNow, TypeInv, TypeOK
<1>2. ASSUME NEW h \in Threads, NEW j \in Jobs, Submit(h, j) PROVE TypeInv'
  <2>1. queue' \in Seq(Entry)
    BY <1>2, <1>a, <1>b, <1>c, Emplaced DEF Submit
  <2>2. arming' \in [Threads -> Time \union {Quiet}]
    <3>1. \A ms \in FirstJobTime(queue') : ms \in Time
      BY <2>1, FirstJobTimeType
    <3>. QED BY <1>2, <1>a, <1>b, <3>1 DEF Submit
  <2>3. todo' \in [Threads -> Seq(Jobs)]
    BY <1>2, HeadOfTodo DEF Submit
  <2>4. outcome' \in [Jobs -> Pending \union {"new", "ran", "busy", "dropped"}]
    BY <1>2, <1>b DEF Submit, Pending
  <2>. QED BY <1>2, <2>1, <2>2, <2>3, <2>4 DEF Submit, TypeInv, TypeOK, BodyHasJob
<1>3. ASSUME NEW h \in Threads, Arm(h) PROVE TypeInv'
  <2>1. arming[h] \in Time
    BY <1>3, <1>b DEF Arm
  <2>2. posted' \in BOOLEAN /\ timer' \in [left: Time, period: Time]
    <3>1. CASE arming[h] = 0
      BY <1>3, <1>b, <3>1 DEF Arm, StartTimer
    <3>2. CASE arming[h] # 0
      BY <1>3, <2>1, <3>2 DEF Arm, StartTimer, TypeInv, TypeOK
    <3>. QED BY <3>1, <3>2
  <2>3. arming' \in [Threads -> Time \union {Quiet}]
    BY <1>3, <1>b DEF Arm
  <2>. QED BY <1>3, <2>2, <2>3 DEF Arm, TypeInv, TypeOK, BodyHasJob
<1>4. ASSUME TakeDue PROVE queue' \in Seq(Entry) /\ frames' \in Seq(Frame) /\ BodyHasJob'
  <2>1. /\ queue' \in Seq(Entry)
        /\ frames' = frames \/ \E js \in Seq(Jobs) : frames' = <<Called(js, FALSE)>> \o frames
    BY <1>4, <1>a, <1>b, DueTaken
  <2>2. CASE frames' = frames
    BY <1>b, <2>1, <2>2 DEF BodyHasJob
  <2>3. ASSUME NEW js \in Seq(Jobs), frames' = <<Called(js, FALSE)>> \o frames
        PROVE  frames' \in Seq(Frame) /\ BodyHasJob'
    <3>1. Called(js, FALSE) \in Frame /\ Called(js, FALSE).at = "check"
      BY CalledType
    <3>. QED BY <1>b, <2>3, <3>1, Entered, BodyKept
  <2>. QED BY <2>1, <2>2, <2>3
<1>5. CASE WindowMessage
  BY <1>4, <1>5 DEF WindowMessage, TypeInv, TypeOK
<1>6. CASE TimerMessage
  BY <1>4, <1>6 DEF TimerMessage, TypeInv, TypeOK
<1>7. CASE Check
  <2>1. Available \in BOOLEAN
    BY DEF Available
  <2>. DEFINE f == [Top EXCEPT !.at = "run", !.com = Available]
  <2>2. f \in Frame /\ f.at = "run"
    BY <1>7, <2>1, TopType DEF Check, Frame
  <2>3. frames' \in Seq(Frame) /\ BodyHasJob'
    BY <1>7, <1>b, <2>2, WentOn, BodyKept DEF Check
  <2>. QED BY <1>7, <2>3 DEF Check, TypeInv, TypeOK
<1>8. CASE Refuse
  <2>. DEFINE f == [Top EXCEPT !.items = Tail(@), !.kept = Append(@, Job)]
  <2>1. Tail(Top.items) \in Seq(Jobs) /\ Append(Top.kept, Job) \in Seq(Jobs)
    BY <1>8, TopType DEF Refuse
  <2>2. f \in Frame /\ f.at = "run"
    BY <1>8, <2>1, TopType DEF Refuse, Frame
  <2>3. frames' \in Seq(Frame) /\ BodyHasJob'
    BY <1>8, <1>b, <2>2, WentOn, BodyKept DEF Refuse
  <2>. QED BY <1>8, <2>3 DEF Refuse, TypeInv, TypeOK
<1>9. CASE Run
  <2>. DEFINE f == [Top EXCEPT !.at = "body"]
  <2>1. f \in Frame /\ f.items = Top.items
    BY <1>9, TopType DEF Run, Frame
  <2>2. frames' \in Seq(Frame) /\ BodyHasJob'
    BY <1>9, <1>b, <2>1, WentOn, BodyKept DEF Run
  <2>. QED BY <1>9, <2>2 DEF Run, TypeInv, TypeOK
<1>. DEFINE Done == [Top EXCEPT !.at = "run", !.items = Tail(@)]
<1>10. ASSUME frames # <<>>, Top.at = "body", Becomes(Done) PROVE frames' \in Seq(Frame) /\ BodyHasJob'
  <2>1. Done \in Frame /\ Done.at = "run"
    BY <1>10, TopType DEF Frame
  <2>. QED BY <1>10, <1>b, <2>1, WentOn, BodyKept
<1>11. CASE Finish
  <2>1. frames' \in Seq(Frame) /\ BodyHasJob'
    BY <1>10, <1>11 DEF Finish, Calm
  <2>2. outcome' \in [Jobs -> Pending \union {"new", "ran", "busy", "dropped"}]
    <3>1. PICK r \in {"ran", "busy"} : outcome' = [outcome EXCEPT ![Job] = r]
      BY <1>11 DEF Finish
    <3>. QED BY <1>b, <3>1
  <2>. QED BY <1>11, <2>1, <2>2 DEF Finish, TypeInv, TypeOK
<1>12. CASE Tried
  <2>. DEFINE f == [Top EXCEPT !.at = "requeue"]
  <2>1. CASE Top.kept = <<>>
    <3>1. frames' \in Seq(Frame) /\ \A k \in DOMAIN frames' : \E i \in DOMAIN frames : frames'[k] = frames[i]
      BY <1>12, <1>b, <2>1, Left DEF Tried
    <3>2. BodyHasJob'
      BY <1>b, <3>1 DEF BodyHasJob
    <3>. QED BY <1>12, <3>1, <3>2 DEF Tried, TypeInv, TypeOK
  <2>2. CASE Top.kept # <<>>
    <3>1. f \in Frame /\ f.at = "requeue"
      BY <1>12, TopType DEF Tried, Frame
    <3>2. frames' \in Seq(Frame) /\ BodyHasJob'
      BY <1>12, <1>b, <2>2, <3>1, WentOn, BodyKept DEF Tried
    <3>. QED BY <1>12, <3>2 DEF Tried, TypeInv, TypeOK
  <2>. QED BY <2>1, <2>2
<1>13. CASE PutBack
  <2>. DEFINE j == Head(Top.kept)
              f == [Top EXCEPT !.kept = Tail(@)]
  <2>1. frames # <<>> /\ Top.at = "requeue" /\ Top.kept # <<>>
    BY <1>13 DEF PutBack, Locked
  <2>2. j \in Jobs /\ Tail(Top.kept) \in Seq(Jobs)
    BY <2>1, TopType, HeadTailProperties
  <2>3. f \in Frame /\ f.at = "requeue"
    BY <2>1, <2>2, TopType DEF Frame
  <2>4. frames' \in Seq(Frame) /\ BodyHasJob'
    <3>1. Becomes(f)
      BY <1>13 DEF PutBack
    <3>. HIDE DEF f
    <3>. QED BY <1>b, <2>1, <2>3, <3>1, WentOn, BodyKept
  <2>. HIDE DEF j
  <2>5. queue' \in Seq(Entry)
    <3>1. ASSUME Emplace(j, IF Top.direct THEN 0 ELSE Between[j]) PROVE queue' \in Seq(Entry)
      <4>1. (IF Top.direct THEN 0 ELSE Between[j]) \in Time
        BY <1>a, <1>c, <2>2
      <4>. QED BY <1>a, <1>b, <2>2, <3>1, <4>1, Emplaced
    <3>. QED BY <1>13, <1>b, <3>1 DEF PutBack, j
  <2>6. outcome' \in [Jobs -> Pending \union {"new", "ran", "busy", "dropped"}]
    <3>1. PICK r \in Pending \union {"new", "ran", "busy", "dropped"} : outcome' = [outcome EXCEPT ![j] = r]
      BY <1>13, <1>b, <2>2 DEF PutBack, Pending, j
    <3>. QED BY <1>b, <3>1
  <2>. QED BY <1>13, <2>4, <2>5, <2>6 DEF PutBack, TypeInv, TypeOK
<1>14. CASE Requeued
  <2>1. frames' \in Seq(Frame) /\ \A k \in DOMAIN frames' : \E i \in DOMAIN frames : frames'[k] = frames[i]
    BY <1>14, <1>b, Left DEF Requeued, Locked
  <2>2. BodyHasJob'
    BY <1>b, <2>1 DEF BodyHasJob
  <2>3. arming' \in [Threads -> Time \union {Quiet}]
    <3>1. \A ms \in FirstJobTime(queue) : ms \in Time
      BY <1>b, FirstJobTimeType
    <3>. QED BY <1>14, <1>a, <1>b, <3>1 DEF Requeued
  <2>. QED BY <1>14, <2>1, <2>2, <2>3 DEF Requeued, TypeInv, TypeOK
<1>15. CASE ConnectFails
  <2>1. frames # <<>> /\ Top.at = "body" /\ Job \in Jobs
    BY <1>15, TopType DEF ConnectFails, Starting, Calm
  <2>2. frames' \in Seq(Frame) /\ BodyHasJob'
    BY <1>10, <1>15, <2>1 DEF ConnectFails
  <2>3. queue' \in Seq(Entry) /\ Len(queue') = Len(queue) + 1
    <3>1. Reconnect \in Time
      BY DEF Time
    <3>. QED BY <1>15, <1>a, <1>b, <2>1, <3>1, Emplaced DEF ConnectFails
  <2>4. queue'[1] \in Entry
    BY <1>b, <2>3
  <2>5. arming' \in [Threads -> Time \union {Quiet}]
    BY <1>15, <1>b, <2>4 DEF ConnectFails, Entry
  <2>. QED BY <1>15, <2>2, <2>3, <2>5 DEF ConnectFails, TypeInv, TypeOK
<1>16. CASE Connect
  <2>1. Job \in Startup /\ FuncOf[Job] \in Jobs
    BY <1>16 DEF Connect, Starting
  <2>. DEFINE js == <<FuncOf[Job]>>
              f == Called(js, TRUE)
  <2>2. f \in Frame /\ f.at = "check"
    <3>1. js \in Seq(Jobs)
      BY <2>1
    <3>. HIDE DEF js
    <3>. QED BY <3>1, CalledType
  <2>3. frames' \in Seq(Frame) /\ BodyHasJob'
    <3>1. frames' = <<f>> \o frames
      BY <1>16 DEF Connect
    <3>. HIDE DEF f
    <3>. QED BY <1>b, <2>2, <3>1, Entered, BodyKept
  <2>4. outcome' \in [Jobs -> Pending \union {"new", "ran", "busy", "dropped"}]
    BY <1>16, <1>b DEF Connect, Pending
  <2>. QED BY <1>16, <2>3, <2>4 DEF Connect, TypeInv, TypeOK
<1>17. CASE Tick
  <2>1. \A n \in Time : Less(n) \in Time
    BY <1>a DEF Less, Time
  <2>2. timer' \in [left: Time, period: Time]
    BY <1>17, <1>b, <2>1 DEF Tick
  <2>3. queue' \in Seq(Entry)
    <3>1. ASSUME NEW k \in DOMAIN queue PROVE [queue[k] EXCEPT !.left = Less(@)] \in Entry
      <4>1. queue[k] \in Entry
        BY <1>b
      <4>. QED BY <2>1, <4>1 DEF Entry
    <3>. DEFINE e(k) == [queue[k] EXCEPT !.left = Less(@)]
    <3>2. queue' = [k \in 1..Len(queue) |-> e(k)] /\ Len(queue) \in Nat
      BY <1>17, <1>b DEF Tick
    <3>3. \A k \in 1..Len(queue) : e(k) \in Entry
      BY <1>b, <3>1
    <3>. HIDE DEF e
    <3>. QED BY <3>2, <3>3
  <2>. QED BY <1>17, <2>2, <2>3 DEF Tick, TypeInv, TypeOK, BodyHasJob
<1>18. CASE Busy
  BY <1>18 DEF Busy, TypeInv, TypeOK, BodyHasJob
<1>19. CASE UNCHANGED vars
  BY <1>19 DEF vars, TypeInv, TypeOK, BodyHasJob
<1>. QED BY <1>1, <1>2, <1>3, <1>5, <1>6, <1>7, <1>8, <1>9, <1>11, <1>12, <1>13, <1>14, <1>15, <1>16, <1>17, <1>18, <1>19 DEF Next, Callback

\* The initial states are typed.
LEMMA TypeInit == Init => TypeInv
<1> SUFFICES ASSUME Init PROVE TypeInv
  OBVIOUS
<1>1. 0 \in Time /\ MaxTime \in Nat
  BY QueueConstants DEF QueueConstants, Time
<1>2. queue \in Seq(Entry) /\ frames \in Seq(Frame) /\ BodyHasJob
  BY DEF Init, BodyHasJob
<1>3. todo \in [Threads -> Seq(Jobs)]
  BY QueueConstants DEF QueueConstants, Init
<1>4. /\ timer \in [left: Time, period: Time]
      /\ arming \in [Threads -> Time \union {Quiet}]
      /\ outcome \in [Jobs -> Pending \union {"new", "ran", "busy", "dropped"}]
  BY <1>1 DEF Init
<1>. QED BY <1>2, <1>3, <1>4 DEF Init, TypeInv, TypeOK

\* Every variable keeps its type, whatever jobs and threads there are.
THEOREM QueueTypeCorrect == Spec => []TypeOK
<1>1. TypeInv => TypeOK
  BY DEF TypeInv
<1>. QED BY <1>1, TypeInit, TypeStep, PTL DEF Spec

-----------------------------------------------------------------------------
\* The queue stays sorted.
LEMMA SortedStep ==
  ASSUME TypeInv, Sorted, [Next]_vars
  PROVE  Sorted'
<1>. USE QueueConstants DEF QueueConstants
<1>a. MaxTime \in Nat /\ queue \in Seq(Entry) /\ frames \in Seq(Frame)
  BY DEF TypeInv, TypeOK
<1>1. CASE UNCHANGED queue
  BY <1>1 DEF Sorted
<1>2. ASSUME NEW j \in Jobs, NEW ms \in 0..MaxTime, Emplace(j, ms) PROVE Sorted'
  BY <1>a, <1>2, Emplaced DEF Time
<1>3. CASE TakeDue
  BY <1>a, <1>3, DueTaken
<1>4. CASE Tick
  <2>1. queue' = [k \in DOMAIN queue |-> [queue[k] EXCEPT !.left = Less(@)]]
    BY <1>4 DEF Tick
  <2>2. ASSUME NEW k \in DOMAIN queue PROVE queue'[k].left = Less(queue[k].left) /\ queue[k].left \in Nat
    <3>1. queue[k] \in Entry
      BY <1>a
    <3>. QED BY <2>1, <3>1 DEF Entry, Time
  <2>3. \A m, n \in Nat : m <= n => Less(m) <= Less(n)
    BY DEF Less
  <2>4. DOMAIN queue' = DOMAIN queue
    BY <2>1
  <2>5. ASSUME NEW i \in DOMAIN queue, NEW k \in DOMAIN queue, i <= k
        PROVE  queue'[i].left <= queue'[k].left
    <3>1. queue[i].left <= queue[k].left
      BY <2>5 DEF Sorted
    <3>. QED BY <2>2, <2>3, <3>1
  <2>. QED BY <2>4, <2>5 DEF Sorted
<1>5. ASSUME NEW h \in Threads, NEW j \in Jobs, Submit(h, j) PROVE Sorted'
  BY <1>2, <1>5 DEF Submit
<1>6. CASE PutBack
  <2>1. frames # <<>> /\ Top.kept # <<>>
    BY <1>6 DEF PutBack, Locked
  <2>2. Head(Top.kept) \in Jobs
    BY <2>1, TopType, HeadTailProperties
  <2>. DEFINE j == Head(Top.kept)
              ms == IF Top.direct THEN 0 ELSE Between[j]
  <2>3. ms \in 0..MaxTime
    BY <2>2
  <2>4. Emplace(j, ms) \/ UNCHANGED queue
    BY <1>6 DEF PutBack
  <2>. HIDE DEF j, ms
  <2>5. j \in Jobs
    BY <2>2 DEF j
  <2>. QED BY <1>1, <1>2, <2>3, <2>4, <2>5
<1>7. CASE ConnectFails
  <2>1. Job \in Jobs /\ Reconnect \in 0..MaxTime
    BY <1>7, TopType DEF ConnectFails, Starting, Calm
  <2>2. Emplace(Job, Reconnect)
    BY <1>7 DEF ConnectFails
  <2>. QED BY <1>2, <2>1, <2>2
<1>8. ASSUME NEW j \in Jobs, CallNow(j) PROVE Sorted'
  BY <1>1, <1>8 DEF CallNow
<1>. QED
  BY <1>1, <1>3, <1>4, <1>5, <1>6, <1>7, <1>8 DEF Next, Callback, Arm, WindowMessage, TimerMessage,
     Check, Refuse, Run, Finish, Tried, Requeued, Connect, Busy, vars

-----------------------------------------------------------------------------
\* The job a callback is at, and the one it is to put back, have been submitted.
LEMMA TopSubmitted ==
  ASSUME TypeInv, Submitted, frames # <<>>
  PROVE  /\ Top.items # <<>> => Job \in Jobs /\ outcome[Job] # "new"
         /\ Top.kept # <<>> => /\ Head(Top.kept) \in Jobs
                               /\ outcome[Head(Top.kept)] # "new"
                               /\ Api[Head(Top.kept)] # "none"
<1>1. 1 \in DOMAIN frames /\ Top = frames[1] /\ Top.items \in Seq(Jobs) /\ Top.kept \in Seq(Jobs)
  BY TopType DEF Top, TypeInv, TypeOK
<1>2. ASSUME Top.items # <<>> PROVE Job \in Jobs /\ outcome[Job] # "new"
  <2>1. Job = Top.items[1] /\ 1 \in DOMAIN Top.items /\ Job \in Jobs
    BY <1>1, <1>2 DEF Job
  <2>. QED BY <1>1, <2>1 DEF Submitted
<1>3. ASSUME Top.kept # <<>>
      PROVE  /\ Head(Top.kept) \in Jobs
             /\ outcome[Head(Top.kept)] # "new"
             /\ Api[Head(Top.kept)] # "none"
  <2>1. Head(Top.kept) = Top.kept[1] /\ 1 \in DOMAIN Top.kept /\ Head(Top.kept) \in Jobs
    BY <1>1, <1>3
  <2>. QED BY <1>1, <2>1 DEF Submitted
<1>. QED BY <1>2, <1>3

\* A job is new until it is the next of its thread's program and that is taken, or
\* until the connection lets it run.
Taken(j) ==
  \E h \in Threads :
    todo[h] # <<>> /\ j = Head(todo[h]) /\ todo' = [todo EXCEPT ![h] = Tail(@)]

\* A job is submitted by the step which takes it from a program, or by the connection.
LEMMA OutcomeStep ==
  ASSUME TypeInv, Submitted, [Next]_vars
  PROVE  /\ \A j \in Jobs : outcome[j] # "new" => outcome'[j] # "new"
         /\ \A j \in Jobs : outcome[j] = "new" /\ outcome'[j] # "new" =>
              Taken(j) \/ (Connect /\ j = FuncOf[Job])
         /\ UNCHANGED todo \/ \E j \in Jobs : Taken(j) /\ outcome' = [outcome EXCEPT ![j] = "queued"]
<1>. USE QueueConstants DEF QueueConstants
<1>a. outcome \in [Jobs -> Pending \union {"new", "ran", "busy", "dropped"}]
  BY DEF TypeInv, TypeOK
<1>. DEFINE Goal ==
              /\ \A j \in Jobs : outcome[j] # "new" => outcome'[j] # "new"
              /\ \A j \in Jobs : outcome[j] = "new" /\ outcome'[j] # "new" =>
                   Taken(j) \/ (Connect /\ j = FuncOf[Job])
              /\ UNCHANGED todo \/ \E j \in Jobs : Taken(j) /\ outcome' = [outcome EXCEPT ![j] = "queued"]
<1>1. ASSUME UNCHANGED <<outcome, todo>> PROVE Goal
  BY <1>1
<1>2. ASSUME NEW j \in Jobs, outcome' = [outcome EXCEPT ![j] = "queued"], Taken(j) PROVE Goal
  BY <1>a, <1>2
<1>3. ASSUME NEW j \in Jobs, outcome[j] # "new", UNCHANGED todo, NEW r, r # "new",
             outcome' = [outcome EXCEPT ![j] = r]
      PROVE  Goal
  BY <1>a, <1>3
<1>4. ASSUME NEW j \in Jobs, CallNow(j) PROVE Goal
  <2>1. Taken(j) /\ outcome' = [outcome EXCEPT ![j] = "queued"]
    BY <1>4 DEF CallNow, Taken
  <2>. QED BY <1>2, <2>1
<1>5. ASSUME NEW h \in Threads, NEW j \in Jobs, Submit(h, j) PROVE Goal
  <2>1. Taken(j) /\ outcome' = [outcome EXCEPT ![j] = "queued"]
    BY <1>5 DEF Submit, Taken
  <2>. QED BY <1>2, <2>1
<1>6. CASE Finish
  <2>1. Job \in Jobs /\ outcome[Job] # "new"
    BY <1>6, TopType, TopSubmitted DEF Finish, Calm
  <2>2. PICK r \in {"ran", "busy"} : outcome' = [outcome EXCEPT ![Job] = r]
    BY <1>6 DEF Finish
  <2>3. UNCHANGED todo
    BY <1>6 DEF Finish
  <2>. QED BY <1>3, <2>1, <2>2, <2>3
<1>7. CASE PutBack
  <2>. DEFINE j == Head(Top.kept)
  <2>1. j \in Jobs /\ outcome[j] # "new"
    BY <1>7, TopSubmitted DEF PutBack, Locked
  <2>2. \E r \in {"retried", "dropped", outcome[j]} : outcome' = [outcome EXCEPT ![j] = r]
    BY <1>7, <1>a, <2>1 DEF PutBack
  <2>3. UNCHANGED todo
    BY <1>7 DEF PutBack
  <2>. HIDE DEF j
  <2>4. PICK r \in {"retried", "dropped", outcome[j]} : outcome' = [outcome EXCEPT ![j] = r]
    BY <2>2
  <2>5. r # "new"
    BY <2>1, <2>4
  <2>. QED BY <1>3, <2>1, <2>3, <2>4, <2>5
<1>8. CASE Connect
  <2>1. Job \in Jobs /\ outcome[Job] # "new"
    BY <1>8, TopType, TopSubmitted DEF Connect, Starting, Calm
  <2>2. /\ UNCHANGED todo
        /\ outcome' = [outcome EXCEPT ![Job] = "ran", ![FuncOf[Job]] = "queued"]
    BY <1>8 DEF Connect
  <2>3. \A j \in Jobs : outcome'[j] = outcome[j] \/ (j = Job /\ outcome'[j] # "new")
                        \/ (j = FuncOf[Job] /\ outcome'[j] # "new")
    BY <1>a, <2>2
  <2>. QED BY <1>8, <2>1, <2>2, <2>3
<1>. QED
  BY <1>1, <1>4, <1>5, <1>6, <1>7, <1>8 DEF Next, Callback, Arm, WindowMessage, TimerMessage,
     Check, Refuse, Run, Tried, Requeued, ConnectFails, Tick, Busy, vars

-----------------------------------------------------------------------------
\* How an entry which is put in the queue comes about.
Fresh(j, ms) ==
  \/ ms = Before[j] /\ \E h \in Threads : Submit(h, j)
  \/ ms = 0 /\ PutBack
  \/ outcome'[j] = "retried"
  \/ j \in Startup

\* An entry of the queue was there before, perhaps with more time left, or has
\* been put there.
EntryFrom(n) ==
  \/ \E i \in DOMAIN queue : /\ queue'[n].job = queue[i].job
                             /\ queue'[n].left \in {queue[i].left, Less(queue[i].left)}
  \/ outcome'[queue'[n].job] # "new" /\ Fresh(queue'[n].job, queue'[n].left)

\* An entry of the queue was there before, later by the same time, or has just been put there.
LEMMA QueueStep ==
  ASSUME TypeInv, Submitted, [Next]_vars
  PROVE  \A n \in DOMAIN queue' : EntryFrom(n)
<1>a. /\ MaxTime \in Nat /\ queue \in Seq(Entry) /\ frames \in Seq(Frame)
      /\ outcome \in [Jobs -> Pending \union {"new", "ran", "busy", "dropped"}]
  BY QueueConstants DEF QueueConstants, TypeInv, TypeOK
<1>b. \A j \in Jobs : Before[j] \in Time /\ Between[j] \in Time
  BY QueueConstants DEF QueueConstants, Time
<1>. DEFINE Goal == \A n \in DOMAIN queue' : EntryFrom(n)
<1>0. ASSUME \A n \in DOMAIN queue' : \E i \in DOMAIN queue : queue'[n] = queue[i] PROVE Goal
  BY <1>0 DEF EntryFrom
<1>1. CASE UNCHANGED queue
  BY <1>0, <1>1
<1>2. ASSUME NEW j \in Jobs, NEW ms \in Time, Emplace(j, ms), outcome'[j] # "new", Fresh(j, ms) PROVE Goal
  <2>. DEFINE e == [job |-> j, left |-> ms]
  <2>1. \A n \in DOMAIN queue' : queue'[n] = e \/ \E i \in DOMAIN queue : queue'[n] = queue[i]
    BY <1>a, <1>2, Emplaced
  <2>2. e.job = j /\ e.left = ms
    OBVIOUS
  <2>. HIDE DEF e
  <2> SUFFICES ASSUME NEW n \in DOMAIN queue' PROVE EntryFrom(n)
    OBVIOUS
  <2>3. CASE queue'[n] = e
    BY <1>2, <2>2, <2>3 DEF EntryFrom
  <2>4. CASE \E i \in DOMAIN queue : queue'[n] = queue[i]
    BY <2>4 DEF EntryFrom
  <2>. QED BY <2>1, <2>3, <2>4
<1>3. CASE TakeDue
  BY <1>a, <1>0, <1>3, DueTaken
<1>4. CASE Tick
  <2>1. DOMAIN queue' = DOMAIN queue
    BY <1>4 DEF Tick
  <2>2. ASSUME NEW k \in DOMAIN queue PROVE queue'[k].job = queue[k].job /\ queue'[k].left = Less(queue[k].left)
    <3>1. queue[k] \in Entry
      BY <1>a
    <3>. QED BY <1>4, <3>1 DEF Tick, Entry
  <2>. QED BY <2>1, <2>2 DEF EntryFrom
<1>5. ASSUME NEW h \in Threads, NEW j \in Jobs, Submit(h, j) PROVE Goal
  <2>1. Emplace(j, Before[j]) /\ outcome' = [outcome EXCEPT ![j] = "queued"]
    BY <1>5 DEF Submit
  <2>2. outcome'[j] # "new"
    BY <1>a, <2>1
  <2>3. Fresh(j, Before[j])
    BY <1>5 DEF Fresh
  <2>. QED BY <1>b, <1>2, <2>1, <2>2, <2>3
<1>6. CASE PutBack
  <2>. DEFINE j == Head(Top.kept)
              ms == IF Top.direct THEN 0 ELSE Between[j]
  <2>1. j \in Jobs /\ outcome[j] # "new"
    BY <1>6, TopSubmitted DEF PutBack, Locked
  <2>2. ms \in Time
    BY <1>a, <1>b, <2>1 DEF Time
  <2>3. \/ UNCHANGED queue
        \/ Emplace(j, ms) /\ (Top.direct \/ outcome' = [outcome EXCEPT ![j] = "retried"])
    BY <1>6 DEF PutBack
  <2>4. Top.direct => ms = 0
    OBVIOUS
  <2>. HIDE DEF j, ms
  <2>5. outcome'[j] # "new"
    BY <2>1, OutcomeStep
  <2>6. CASE Emplace(j, ms) /\ (Top.direct \/ outcome' = [outcome EXCEPT ![j] = "retried"])
    <3>1. Top.direct \/ outcome'[j] = "retried"
      BY <1>a, <2>1, <2>6
    <3>2. Fresh(j, ms)
      BY <1>6, <2>4, <3>1 DEF Fresh
    <3>. QED BY <1>2, <2>1, <2>2, <2>5, <2>6, <3>2
  <2>. QED BY <1>1, <2>3, <2>6
<1>7. CASE ConnectFails
  <2>1. Job \in Jobs /\ outcome[Job] # "new"
    BY <1>7, TopType, TopSubmitted DEF ConnectFails, Starting, Calm
  <2>2. Emplace(Job, Reconnect) /\ outcome' = outcome /\ Job \in Startup
    BY <1>7 DEF ConnectFails, Starting
  <2>3. Reconnect \in Time
    BY QueueConstants DEF QueueConstants, Time
  <2>4. Fresh(Job, Reconnect)
    BY <2>2 DEF Fresh
  <2>. QED BY <1>2, <2>1, <2>2, <2>3, <2>4
<1>8. ASSUME NEW j \in Jobs, CallNow(j) PROVE Goal
  BY <1>1, <1>8 DEF CallNow
<1>. QED
  BY <1>1, <1>3, <1>4, <1>5, <1>6, <1>7, <1>8 DEF Next, Callback, Arm, WindowMessage, TimerMessage,
     Check, Refuse, Run, Finish, Tried, Requeued, Connect, Busy, vars

\* The jobs left when one is taken from a sequence, and when one is added to it.
LEMMA TailJobs ==
  ASSUME NEW s \in Seq(Jobs), s # <<>>
  PROVE  /\ Tail(s) \in Seq(Jobs)
         /\ \A i \in DOMAIN Tail(s) : i + 1 \in DOMAIN s /\ Tail(s)[i] = s[i + 1]
<1>1. /\ Tail(s) \in Seq(Jobs) /\ Len(Tail(s)) = Len(s) - 1
      /\ \A i \in 1..Len(s) - 1 : Tail(s)[i] = s[i + 1]
  BY HeadTailProperties
<1>2. DOMAIN Tail(s) = 1..Len(s) - 1 /\ DOMAIN s = 1..Len(s) /\ Len(s) \in Nat
  BY <1>1
<1>3. ASSUME NEW i \in 1..Len(s) - 1 PROVE i + 1 \in 1..Len(s)
  BY <1>2
<1>. QED BY <1>1, <1>2, <1>3

\* What a list of jobs holds after one has been added.
LEMMA AppendJobs ==
  ASSUME NEW s \in Seq(Jobs), NEW j \in Jobs
  PROVE  /\ Append(s, j) \in Seq(Jobs)
         /\ \A i \in DOMAIN Append(s, j) :
              Append(s, j)[i] = j \/ (i \in DOMAIN s /\ Append(s, j)[i] = s[i])
<1>1. /\ Append(s, j) \in Seq(Jobs) /\ Len(Append(s, j)) = Len(s) + 1
      /\ Append(s, j)[Len(s) + 1] = j
      /\ \A i \in 1..Len(s) : Append(s, j)[i] = s[i]
  BY AppendProperties
<1>2. DOMAIN Append(s, j) = 1..Len(s) + 1 /\ DOMAIN s = 1..Len(s) /\ Len(s) \in Nat
  BY <1>1
<1>. QED BY <1>1, <1>2

\* A callback's jobs have all been submitted, and those it has refused ask for an
\* interface.
Fits(f, oc) ==
  /\ \A i \in DOMAIN f.items : oc[f.items[i]] # "new"
  /\ \A i \in DOMAIN f.kept : oc[f.kept[i]] # "new" /\ Api[f.kept[i]] # "none"

\* A callback's lists hold only jobs which have been submitted.
LEMMA FramesStep ==
  ASSUME TypeInv, Submitted, [Next]_vars
  PROVE  \A k \in DOMAIN frames' :
           (\E i \in DOMAIN frames : frames'[k] = frames[i]) \/ Fits(frames'[k], outcome')
<1>a. /\ MaxTime \in Nat /\ queue \in Seq(Entry) /\ frames \in Seq(Frame)
      /\ outcome \in [Jobs -> Pending \union {"new", "ran", "busy", "dropped"}]
  BY QueueConstants DEF QueueConstants, TypeInv, TypeOK
<1>. DEFINE Goal == \A k \in DOMAIN frames' :
              (\E i \in DOMAIN frames : frames'[k] = frames[i]) \/ Fits(frames'[k], outcome')
<1>1. CASE UNCHANGED frames
  BY <1>1
<1>2. ASSUME NEW f \in Frame, frames # <<>>, Becomes(f), Fits(f, outcome') PROVE Goal
  <2>1. \A k \in DOMAIN frames' : frames'[k] = f \/ \E i \in DOMAIN frames : frames'[k] = frames[i]
    BY <1>a, <1>2, WentOn
  <2>. QED BY <1>2, <2>1
<1>3. ASSUME NEW js \in Seq(Jobs), NEW d \in BOOLEAN, frames' = <<Called(js, d)>> \o frames,
             \A i \in DOMAIN js : outcome'[js[i]] # "new"
      PROVE  Goal
  <2>1. Called(js, d) \in Frame /\ Fits(Called(js, d), outcome')
    BY <1>3, CalledType DEF Fits
  <2>. QED BY <1>a, <1>3, <2>1, Entered
<1>4. ASSUME frames # <<>> PROVE Fits(Top, outcome) /\ Fits(Top, outcome')
  <2>1. 1 \in DOMAIN frames /\ Top = frames[1]
    BY <1>a, <1>4 DEF Top
  <2>2. Fits(Top, outcome)
    BY <2>1 DEF Submitted, Fits
  <2>3. Top.items \in Seq(Jobs) /\ Top.kept \in Seq(Jobs)
    BY <1>4, TopType
  <2>4. \A j \in Jobs : outcome[j] # "new" => outcome'[j] # "new"
    BY OutcomeStep
  <2>5. \A i \in DOMAIN Top.items : Top.items[i] \in Jobs
    BY <2>3
  <2>6. \A i \in DOMAIN Top.kept : Top.kept[i] \in Jobs
    BY <2>3
  <2>. QED BY <2>2, <2>4, <2>5, <2>6 DEF Fits
<1>5. ASSUME frames # <<>>, Top.items # <<>>
      PROVE  /\ Tail(Top.items) \in Seq(Jobs)
             /\ \A i \in DOMAIN Tail(Top.items) : outcome'[Tail(Top.items)[i]] # "new"
  <2>1. Top.items \in Seq(Jobs)
    BY <1>5, TopType
  <2>2. /\ Tail(Top.items) \in Seq(Jobs)
        /\ \A i \in DOMAIN Tail(Top.items) : i + 1 \in DOMAIN Top.items /\ Tail(Top.items)[i] = Top.items[i + 1]
    BY <1>5, <2>1, TailJobs
  <2>3. \A i \in DOMAIN Top.items : outcome'[Top.items[i]] # "new"
    BY <1>4, <1>5 DEF Fits
  <2>. QED BY <2>2, <2>3
<1>6. CASE TakeDue /\ UNCHANGED outcome
  <2>1. CASE frames' = frames
    BY <1>1, <2>1
  <2>2. ASSUME NEW js \in Seq(Jobs), frames' = <<Called(js, FALSE)>> \o frames,
               \A i \in DOMAIN js : \E n \in DOMAIN queue : js[i] = queue[n].job
        PROVE  Goal
    <3>1. \A n \in DOMAIN queue : outcome'[queue[n].job] # "new"
      BY <1>6 DEF Submitted
    <3>2. \A i \in DOMAIN js : outcome'[js[i]] # "new"
      BY <2>2, <3>1
    <3>. QED BY <1>3, <2>2, <3>2
  <2>. QED BY <1>a, <1>6, <2>1, <2>2, DueTaken
<1>7. ASSUME NEW j \in Jobs, CallNow(j) PROVE Goal
  <2>. DEFINE js == <<j>>
  <2>1. js \in Seq(Jobs) /\ \A i \in DOMAIN js : js[i] = j
    OBVIOUS
  <2>. HIDE DEF js
  <2>2. frames' = <<Called(js, TRUE)>> \o frames /\ outcome'[j] = "queued"
    BY <1>a, <1>7 DEF CallNow, js
  <2>. QED BY <1>3, <2>1, <2>2
<1>8. CASE Connect
  <2>. DEFINE j == FuncOf[Job]
              js == <<j>>
  <2>1. j \in Jobs
    BY <1>8, QueueConstants DEF QueueConstants, Connect, Starting
  <2>2. js \in Seq(Jobs) /\ \A i \in DOMAIN js : js[i] = j
    BY <2>1
  <2>3. frames' = <<Called(js, TRUE)>> \o frames /\ outcome'[j] = "queued"
    BY <1>a, <1>8, <2>1 DEF Connect
  <2>. HIDE DEF j, js
  <2>. QED BY <1>3, <2>1, <2>2, <2>3
<1>9. CASE Check
  <2>. DEFINE f == [Top EXCEPT !.at = "run", !.com = Available]
  <2>1. f \in Frame /\ f.items = Top.items /\ f.kept = Top.kept /\ Becomes(f) /\ frames # <<>>
    BY <1>9, TopType DEF Check, Frame, Available
  <2>. HIDE DEF f
  <2>2. Fits(f, outcome')
    BY <1>4, <2>1 DEF Fits
  <2>. QED BY <1>2, <2>1, <2>2
<1>10. CASE Run
  <2>. DEFINE f == [Top EXCEPT !.at = "body"]
  <2>1. f \in Frame /\ f.items = Top.items /\ f.kept = Top.kept /\ Becomes(f) /\ frames # <<>>
    BY <1>10, TopType DEF Run, Frame
  <2>. HIDE DEF f
  <2>2. Fits(f, outcome')
    BY <1>4, <2>1 DEF Fits
  <2>. QED BY <1>2, <2>1, <2>2
<1>11. CASE Refuse
  <2>. DEFINE f == [Top EXCEPT !.items = Tail(@), !.kept = Append(@, Job)]
  <2>1. /\ Job \in Jobs /\ outcome'[Job] # "new" /\ Api[Job] # "none"
        /\ Top.items # <<>> /\ frames # <<>> /\ Becomes(f)
    BY <1>11, TopSubmitted DEF Refuse, Refused
  <2>2. Top.kept \in Seq(Jobs) /\ Tail(Top.items) \in Seq(Jobs)
    BY <2>1, TopType
  <2>3. /\ Append(Top.kept, Job) \in Seq(Jobs)
        /\ \A i \in DOMAIN Append(Top.kept, Job) :
             Append(Top.kept, Job)[i] = Job \/ (i \in DOMAIN Top.kept /\ Append(Top.kept, Job)[i] = Top.kept[i])
    BY <2>1, <2>2, AppendJobs
  <2>4. f \in Frame /\ f.items = Tail(Top.items) /\ f.kept = Append(Top.kept, Job)
    BY <2>1, <2>2, <2>3, TopType DEF Frame
  <2>. HIDE DEF f
  <2>5. Fits(f, outcome')
    BY <1>4, <1>5, <2>1, <2>3, <2>4 DEF Fits
  <2>. QED BY <1>2, <2>1, <2>4, <2>5
<1>12. ASSUME frames # <<>>, Top.at = "body", Becomes([Top EXCEPT !.at = "run", !.items = Tail(@)])
       PROVE  Goal
  <2>. DEFINE f == [Top EXCEPT !.at = "run", !.items = Tail(@)]
  <2>1. Top.items # <<>> /\ Becomes(f)
    BY <1>12, TopType
  <2>2. f \in Frame /\ f.items = Tail(Top.items) /\ f.kept = Top.kept
    BY <1>12, <2>1, TopType DEF Frame
  <2>. HIDE DEF f
  <2>3. Fits(f, outcome')
    BY <1>4, <1>5, <1>12, <2>1, <2>2 DEF Fits
  <2>. QED BY <1>2, <1>12, <2>1, <2>2, <2>3
<1>13. ASSUME frames # <<>>, frames' = Tail(frames) PROVE Goal
  BY <1>a, <1>13, Left
<1>14. CASE Tried
  <2>1. CASE Top.kept = <<>>
    BY <1>13, <1>14, <2>1 DEF Tried
  <2>2. CASE Top.kept # <<>>
    <3>. DEFINE f == [Top EXCEPT !.at = "requeue"]
    <3>1. f \in Frame /\ f.items = Top.items /\ f.kept = Top.kept /\ Becomes(f) /\ frames # <<>>
      BY <1>14, <2>2, TopType DEF Tried, Frame
    <3>. HIDE DEF f
    <3>2. Fits(f, outcome')
      BY <1>4, <3>1 DEF Fits
    <3>. QED BY <1>2, <3>1, <3>2
  <2>. QED BY <2>1, <2>2
<1>15. CASE PutBack
  <2>. DEFINE f == [Top EXCEPT !.kept = Tail(@)]
  <2>1. frames # <<>> /\ Top.kept # <<>> /\ Becomes(f)
    BY <1>15 DEF PutBack, Locked
  <2>2. /\ Top.kept \in Seq(Jobs) /\ Tail(Top.kept) \in Seq(Jobs)
        /\ \A i \in DOMAIN Tail(Top.kept) : i + 1 \in DOMAIN Top.kept /\ Tail(Top.kept)[i] = Top.kept[i + 1]
    BY <2>1, TopType, TailJobs
  <2>3. f \in Frame /\ f.items = Top.items /\ f.kept = Tail(Top.kept)
    BY <2>1, <2>2, TopType DEF Frame
  <2>. HIDE DEF f
  <2>4. Fits(f, outcome')
    BY <1>4, <2>1, <2>2, <2>3 DEF Fits
  <2>. QED BY <1>2, <2>1, <2>3, <2>4
<1>16. CASE Requeued
  BY <1>13, <1>16 DEF Requeued, Locked
<1>17. CASE Finish \/ ConnectFails
  BY <1>12, <1>17 DEF Finish, ConnectFails, Starting, Calm
<1>18. ASSUME NEW h \in Threads, NEW j \in Jobs, Submit(h, j) PROVE Goal
  BY <1>1, <1>18 DEF Submit
<1>. QED
  BY <1>1, <1>6, <1>7, <1>8, <1>9, <1>10, <1>11, <1>14, <1>15, <1>16, <1>17, <1>18
     DEF Next, Callback, Arm, WindowMessage, TimerMessage, Tick, Busy, vars

\* Jobs in the queue and in callbacks stay submitted ones.
LEMMA SubmittedStep ==
  ASSUME TypeInv, TypeInv', Submitted, [Next]_vars
  PROVE  Submitted'
<1>1. ASSUME NEW n \in DOMAIN queue' PROVE outcome'[queue'[n].job] # "new"
  <2>1. ASSUME NEW i \in DOMAIN queue PROVE queue[i].job \in Jobs /\ outcome[queue[i].job] # "new"
    <3>1. queue[i] \in Entry
      BY DEF TypeInv, TypeOK
    <3>. QED BY <3>1 DEF Entry, Submitted
  <2>2. EntryFrom(n)
    BY QueueStep
  <2>. QED BY <2>1, <2>2, OutcomeStep DEF EntryFrom
<1>2. ASSUME NEW k \in DOMAIN frames' PROVE Fits(frames'[k], outcome')
  <2>1. ASSUME NEW i \in DOMAIN frames PROVE Fits(frames[i], outcome')
    <3>1. frames[i] \in Frame
      BY DEF TypeInv, TypeOK
    <3>2. frames[i].items \in Seq(Jobs) /\ frames[i].kept \in Seq(Jobs)
      BY <3>1 DEF Frame
    <3>. QED BY <3>2, OutcomeStep DEF Submitted, Fits
  <2>. QED BY <2>1, FramesStep
<1>. QED BY <1>1, <1>2 DEF Submitted, Fits

-----------------------------------------------------------------------------
\* The programs get shorter, and what is left of them is still to be submitted.
LEMMA TodoStep ==
  ASSUME TypeInv, Submitted, TodoOnce, [Next]_vars
  PROVE  TodoOnce'
<1>a. /\ todo \in [Threads -> Seq(Jobs)]
      /\ outcome \in [Jobs -> Pending \union {"new", "ran", "busy", "dropped"}]
  BY DEF TypeInv, TypeOK
<1>1. CASE UNCHANGED todo
  <2>1. \A j \in Jobs : ~Taken(j)
    <3> SUFFICES ASSUME NEW h \in Threads, todo[h] # <<>>, todo = [todo EXCEPT ![h] = Tail(@)] PROVE FALSE
      BY <1>1 DEF Taken
    <3>1. todo[h] = Tail(todo[h]) /\ todo[h] \in Seq(Jobs)
      BY <1>a
    <3>2. Len(Tail(todo[h])) = Len(todo[h]) - 1 /\ Len(todo[h]) \in Nat
      BY <3>1, HeadTailProperties
    <3>3. Len(Tail(todo[h])) = Len(todo[h])
      BY <3>1
    <3>. QED BY <3>2, <3>3
  <2>2. ASSUME NEW h \in Threads, NEW m \in DOMAIN todo[h] PROVE outcome'[todo[h][m]] = "new"
    <3>1. todo[h][m] \in Jobs
      <4>1. todo[h] \in Seq(Jobs)
        BY <1>a
      <4>. QED BY <4>1
    <3>2. outcome[todo[h][m]] = "new" /\ \A j \in Startup : FuncOf[j] # todo[h][m]
      BY DEF TodoOnce
    <3>3. Connect => Job \in Startup
      BY DEF Connect, Starting
    <3>. QED BY <2>1, <3>1, <3>2, <3>3, OutcomeStep
  <2>. QED BY <1>1, <2>2 DEF TodoOnce
<1>2. ASSUME NEW j \in Jobs, Taken(j), outcome' = [outcome EXCEPT ![j] = "queued"] PROVE TodoOnce'
  <2>1. PICK h \in Threads : /\ todo[h] # <<>> /\ j = Head(todo[h])
                             /\ todo' = [todo EXCEPT ![h] = Tail(@)]
    BY <1>2 DEF Taken
  <2>2. todo[h] \in Seq(Jobs) /\ 1 \in DOMAIN todo[h] /\ j = todo[h][1]
    BY <1>a, <2>1
  <2>. DEFINE was(g, m) == IF g = h THEN m + 1 ELSE m
  <2>3. ASSUME NEW g \in Threads, NEW m \in DOMAIN todo'[g]
        PROVE  m \in Nat /\ was(g, m) \in DOMAIN todo[g] /\ todo'[g][m] = todo[g][was(g, m)]
    <3>1. CASE g = h
      <4>1. todo'[g] = Tail(todo[h])
        BY <1>a, <2>1, <3>1
      <4>2. /\ Tail(todo[h]) \in Seq(Jobs)
            /\ m + 1 \in DOMAIN todo[h] /\ Tail(todo[h])[m] = todo[h][m + 1]
        BY <2>1, <2>2, <4>1, TailJobs
      <4>3. m \in Nat
        BY <4>1, <4>2
      <4>. QED BY <3>1, <4>1, <4>2, <4>3
    <3>2. CASE g # h
      <4>1. todo'[g] = todo[g] /\ todo[g] \in Seq(Jobs)
        BY <1>a, <2>1, <3>2
      <4>. QED BY <3>2, <4>1
    <3>. QED BY <3>1, <3>2
  <2>4. ASSUME NEW g \in Threads, NEW m \in DOMAIN todo'[g]
        PROVE  todo'[g][m] # j /\ todo'[g][m] \in Jobs
    <3>1. g = h => was(g, m) # 1
      <4>1. g = h => m + 1 \in DOMAIN todo[h] /\ m \in DOMAIN Tail(todo[h])
        BY <1>a, <2>1, <2>3
      <4>2. g = h => m \in Nat /\ m # 0
        BY <2>1, <2>2, <4>1, HeadTailProperties
      <4>. QED BY <4>2
    <3>2. todo[g][was(g, m)] \in Jobs
      <4>1. todo[g] \in Seq(Jobs) /\ was(g, m) \in DOMAIN todo[g]
        BY <1>a, <2>3
      <4>. HIDE DEF was
      <4>. QED BY <4>1
    <3>3. todo[g][was(g, m)] = todo[h][1] => g = h /\ was(g, m) = 1
      <4>1. was(g, m) \in DOMAIN todo[g]
        BY <2>3
      <4>. HIDE DEF was
      <4>. QED BY <2>2, <4>1 DEF TodoOnce
    <3>. QED BY <2>2, <2>3, <3>1, <3>2, <3>3
  <2>5. ASSUME NEW g \in Threads, NEW m \in DOMAIN todo'[g]
        PROVE  /\ outcome'[todo'[g][m]] = "new"
               /\ \A i \in Startup : FuncOf[i] # todo'[g][m]
               /\ \A f \in Threads : \A l \in DOMAIN todo'[f] : todo'[f][l] = todo'[g][m] => f = g /\ l = m
    <3>1. was(g, m) \in DOMAIN todo[g] /\ todo'[g][m] = todo[g][was(g, m)]
      BY <2>3
    <3>2. ASSUME NEW f \in Threads, NEW l \in DOMAIN todo'[f], todo'[f][l] = todo'[g][m]
          PROVE  f = g /\ l = m
      <4>1. was(f, l) \in DOMAIN todo[f] /\ todo'[f][l] = todo[f][was(f, l)] /\ l \in Nat /\ m \in Nat
        BY <2>3
      <4>2. \A k \in DOMAIN todo[g], n \in DOMAIN todo[f] : todo[f][n] = todo[g][k] => f = g /\ n = k
        BY DEF TodoOnce
      <4>3. f = g /\ was(f, l) = was(g, m)
        <5>. HIDE DEF was
        <5>. QED BY <3>1, <3>2, <4>1, <4>2
      <4>. QED BY <4>1, <4>3
    <3>. HIDE DEF was
    <3>3. outcome[todo'[g][m]] = "new" /\ \A i \in Startup : FuncOf[i] # todo'[g][m]
      BY <3>1 DEF TodoOnce
    <3>4. outcome'[todo'[g][m]] = outcome[todo'[g][m]]
      BY <1>a, <1>2, <2>4
    <3>. QED BY <3>2, <3>3, <3>4
  <2>. HIDE DEF was
  <2>. QED BY <2>5 DEF TodoOnce
<1>. QED BY <1>1, <1>2, OutcomeStep

\* Only a job which is new comes to be queued, and a RetryAtStartup which has
\* connected has done so for good.
LEMMA QueuedStep ==
  ASSUME TypeInv, Submitted, TodoOnce, FuncWaits, [Next]_vars
  PROVE  /\ \A j \in Jobs : outcome'[j] = "queued" => outcome[j] \in {"new", "queued"}
         /\ \A j \in Startup : outcome[j] = "ran" => outcome'[j] = "ran"
<1>. DEFINE Goal == /\ \A j \in Jobs : outcome'[j] = "queued" => outcome[j] \in {"new", "queued"}
                    /\ \A j \in Startup : outcome[j] = "ran" => outcome'[j] = "ran"
<1>a. outcome \in [Jobs -> Pending \union {"new", "ran", "busy", "dropped"}]
  BY DEF TypeInv, TypeOK
<1>b. Startup \subseteq Jobs /\ \A j \in Startup : Api[j] = "none" /\ FuncOf[j] \in Jobs \ Startup
  BY QueueConstants DEF QueueConstants
<1>1. CASE UNCHANGED outcome
  BY <1>1
<1>2. ASSUME NEW j \in Jobs, outcome[j] = "new", outcome' = [outcome EXCEPT ![j] = "queued"] PROVE Goal
  BY <1>a, <1>b, <1>2
<1>3. ASSUME NEW j \in Jobs, NEW r, r # "queued", j \in Startup => r = "ran",
             outcome' = [outcome EXCEPT ![j] = r]
      PROVE  Goal
  BY <1>a, <1>b, <1>3
<1>4. ASSUME NEW h \in Threads, NEW j \in Jobs, todo[h] # <<>>, j = Head(todo[h]) PROVE outcome[j] = "new"
  <2>1. 1 \in DOMAIN todo[h] /\ j = todo[h][1]
    BY <1>4, HeadOfTodo
  <2>. QED BY <2>1 DEF TodoOnce
<1>5. ASSUME NEW j \in Jobs, CallNow(j) PROVE Goal
  <2>1. Main \in Threads
    BY QueueConstants DEF QueueConstants
  <2>2. todo[Main] # <<>> /\ j = Head(todo[Main]) /\ outcome' = [outcome EXCEPT ![j] = "queued"]
    BY <1>5 DEF CallNow
  <2>. QED BY <1>2, <1>4, <2>1, <2>2
<1>6. ASSUME NEW h \in Threads, NEW j \in Jobs, Submit(h, j) PROVE Goal
  <2>1. todo[h] # <<>> /\ j = Head(todo[h]) /\ outcome' = [outcome EXCEPT ![j] = "queued"]
    BY <1>6 DEF Submit
  <2>. QED BY <1>2, <1>4, <2>1
<1>7. CASE Finish
  <2>1. Job \in Jobs
    BY <1>7, TopType DEF Finish, Calm
  <2>2. PICK r \in {"ran", "busy"} : /\ outcome' = [outcome EXCEPT ![Job] = r]
                                     /\ Api[Job] # "com" => r = "ran"
    BY <1>7 DEF Finish
  <2>3. Job \in Startup => r = "ran"
    BY <1>b, <2>2
  <2>. QED BY <1>3, <2>1, <2>2, <2>3
<1>8. CASE PutBack
  <2>. DEFINE j == Head(Top.kept)
  <2>1. j \in Jobs /\ Api[j] # "none"
    BY <1>8, TopSubmitted DEF PutBack, Locked
  <2>2. \/ outcome' = [outcome EXCEPT ![j] = outcome[j]]
        \/ \E r \in {"retried", "dropped"} : outcome' = [outcome EXCEPT ![j] = r]
    BY <1>8, <1>a, <2>1 DEF PutBack
  <2>3. j \notin Startup
    BY <1>b, <2>1
  <2>. HIDE DEF j
  <2>4. CASE outcome' = [outcome EXCEPT ![j] = outcome[j]]
    BY <1>a, <1>1, <2>1, <2>4
  <2>5. ASSUME NEW r \in {"retried", "dropped"}, outcome' = [outcome EXCEPT ![j] = r] PROVE Goal
    BY <1>3, <2>1, <2>3, <2>5
  <2>. QED BY <2>2, <2>4, <2>5
<1>9. CASE Connect
  <2>1. Job \in Startup /\ outcome[Job] # "ran"
    BY <1>9 DEF Connect, Starting
  <2>2. outcome' = [outcome EXCEPT ![Job] = "ran", ![FuncOf[Job]] = "queued"]
    BY <1>9 DEF Connect
  <2>3. outcome[FuncOf[Job]] = "new"
    BY <2>1 DEF FuncWaits
  <2>4. Job # FuncOf[Job] /\ Job \in Jobs /\ FuncOf[Job] \in Jobs \ Startup
    BY <1>b, <2>1
  <2>. QED BY <1>a, <1>b, <2>2, <2>3, <2>4
<1>. QED
  BY <1>1, <1>5, <1>6, <1>7, <1>8, <1>9 DEF Next, Callback, Arm, WindowMessage, TimerMessage,
     Check, Refuse, Run, Tried, Requeued, ConnectFails, Tick, Busy, vars

\* Nobody but the connection submits a start-up's function.
LEMMA FuncWaitsStep ==
  ASSUME TypeInv, Submitted, TodoOnce, FuncWaits, [Next]_vars
  PROVE  FuncWaits'
<1> SUFFICES ASSUME NEW j \in Startup, outcome'[j] # "ran", outcome'[FuncOf[j]] # "new" PROVE FALSE
  BY DEF FuncWaits
<1>1. /\ j \in Jobs /\ FuncOf[j] \in Jobs \ Startup
      /\ \A i \in Startup : FuncOf[i] = FuncOf[j] => i = j
  BY QueueConstants DEF QueueConstants
<1>2. outcome[FuncOf[j]] = "new"
  BY QueuedStep DEF FuncWaits
<1>3. CASE Taken(FuncOf[j])
  <2>1. PICK h \in Threads : todo[h] # <<>> /\ FuncOf[j] = Head(todo[h])
    BY <1>3 DEF Taken
  <2>2. 1 \in DOMAIN todo[h] /\ FuncOf[j] = todo[h][1]
    BY <2>1, HeadOfTodo
  <2>. QED BY <2>2 DEF TodoOnce
<1>4. CASE Connect /\ FuncOf[j] = FuncOf[Job]
  <2>1. Job = j /\ outcome' = [outcome EXCEPT ![Job] = "ran", ![FuncOf[Job]] = "queued"]
    BY <1>1, <1>4 DEF Connect, Starting
  <2>2. outcome \in [Jobs -> Pending \union {"new", "ran", "busy", "dropped"}]
    BY DEF TypeInv, TypeOK
  <2>. QED BY <1>1, <2>1, <2>2
<1>. QED BY <1>1, <1>2, <1>3, <1>4, OutcomeStep

-----------------------------------------------------------------------------
\* A job which Prompt speaks of was in the queue before, or is put there to be run
\* as soon as possible.
LEMMA PromptFrom ==
  ASSUME TypeInv, TypeInv', Submitted, TodoOnce, FuncWaits, [Next]_vars,
         NEW n \in DOMAIN queue', IsPrompt(queue[n].job)'
  PROVE  \/ \E i \in DOMAIN queue : /\ IsPrompt(queue[i].job)
                                    /\ queue'[n].left \in {queue[i].left, Less(queue[i].left)}
         \/ /\ queue'[n].left = 0
            /\ PutBack \/ \E h \in Threads, j \in Jobs : Before[j] = 0 /\ Submit(h, j)
<1>. DEFINE j == queue'[n].job
<1>1. j \in Jobs
  <2>1. queue'[n] \in Entry
    BY DEF TypeInv, TypeOK
  <2>. QED BY <2>1 DEF Entry
<1>2. Before[j] = 0 /\ outcome'[j] = "queued" /\ j \notin Startup
  BY DEF IsPrompt
<1>3. EntryFrom(n)
  BY QueueStep
<1>4. ASSUME NEW i \in DOMAIN queue, j = queue[i].job PROVE IsPrompt(queue[i].job)
  <2>1. outcome[j] # "new"
    BY <1>4 DEF Submitted
  <2>. QED BY <1>1, <1>2, <1>4, <2>1, QueuedStep DEF IsPrompt
<1>5. CASE Fresh(j, queue'[n].left)
  BY <1>1, <1>2, <1>5 DEF Fresh
<1>. QED BY <1>3, <1>4, <1>5 DEF EntryFrom

\* Jobs without a wait stay due.
LEMMA DueNowStep ==
  ASSUME TypeInv, TypeInv', Submitted, TodoOnce, FuncWaits, DueNow, [Next]_vars
  PROVE  DueNow'
<1> SUFFICES ASSUME NEW n \in DOMAIN queue', IsPrompt(queue[n].job)' PROVE queue'[n].left = 0
  BY DEF DueNow
<1>1. Less(0) = 0
  BY DEF Less
<1>. QED BY <1>1, PromptFrom DEF DueNow

\* Something is going to wake the main thread.
Woken == posted \/ Locked \/ \E h \in Threads : arming[h] = 0

\* Each step keeps the message which such a job waits for, or sees to another. The
\* message takes the job, as it is due and the queue is sorted.
LEMMA PromptStep ==
  ASSUME TypeInv, TypeInv', QueueInv, DueNow', [Next]_vars
  PROVE  Prompt'
<1> SUFFICES ASSUME NEW n \in DOMAIN queue', IsPrompt(queue[n].job)' PROVE Woken'
  BY DEF Prompt, IsPrompt, Woken
<1>a. /\ MaxTime \in Nat /\ Main \in Threads /\ queue \in Seq(Entry) /\ frames \in Seq(Frame)
      /\ arming \in [Threads -> Time \union {Quiet}]
      /\ Sorted /\ Submitted /\ TodoOnce /\ FuncWaits /\ DueNow
      /\ Quiet # 0
  BY QueueConstants DEF QueueConstants, TypeInv, TypeOK, QueueInv, Quiet
<1>b. queue'[n].left = 0
  BY DEF DueNow
<1>1. CASE PutBack
  <2>. DEFINE f == [Top EXCEPT !.kept = Tail(@)]
  <2>1. frames # <<>> /\ Becomes(f) /\ Top.at = "requeue" /\ Top.kept # <<>>
    BY <1>1 DEF PutBack, Locked
  <2>2. Top.kept \in Seq(Jobs) /\ Tail(Top.kept) \in Seq(Jobs)
    BY <2>1, TopType, TailJobs
  <2>3. f \in Frame /\ f.at = "requeue"
    BY <2>1, <2>2, TopType DEF Frame
  <2>. HIDE DEF f
  <2>4. frames' # <<>> /\ frames'[1] = f
    BY <1>a, <2>1, <2>3, WentOn
  <2>. QED BY <2>3, <2>4 DEF Woken, Locked, Top
<1>2. ASSUME NEW h \in Threads, NEW j \in Jobs, Before[j] = 0, Submit(h, j) PROVE Woken'
  <2>1. arming' = [arming EXCEPT ![h] = 0]
    BY <1>2 DEF Submit
  <2>. QED BY <1>a, <2>1 DEF Woken
<1>3. CASE \E i \in DOMAIN queue : IsPrompt(queue[i].job)
  <2>1. Woken
    BY <1>3 DEF QueueInv, Prompt, IsPrompt, Woken
  <2>2. ASSUME ~Locked, posted => posted', \A h \in Threads : arming[h] = 0 => arming'[h] = 0
        PROVE  Woken'
    BY <2>1, <2>2 DEF Woken
  <2>3. Calm => ~Locked
    BY DEF Calm, Locked
  <2>4. CASE UNCHANGED <<posted, frames, arming>>
    BY <2>1, <2>4 DEF Woken, Locked, Top
  <2>5. CASE ~Locked /\ UNCHANGED <<posted, arming>>
    BY <2>2, <2>5
  <2>6. ASSUME TakeDue PROVE FALSE
    <3>1. queue'[n].left > 0
      BY <1>a, <2>6, DueTaken
    <3>. QED BY <1>b, <3>1
  <2>7. ASSUME NEW j \in Jobs, CallNow(j) PROVE Woken'
    BY <2>3, <2>5, <2>7 DEF CallNow
  <2>8. ASSUME NEW h \in Threads, NEW j \in Jobs, Submit(h, j) PROVE Woken'
    <3>1. arming[h] # 0 /\ ~Locked /\ UNCHANGED posted
      BY <1>a, <2>8 DEF Submit
    <3>2. \E ms : arming' = [arming EXCEPT ![h] = ms]
      BY <2>8 DEF Submit
    <3>3. \A g \in Threads : arming[g] = 0 => arming'[g] = 0
      BY <1>a, <3>1, <3>2
    <3>. QED BY <2>2, <3>1, <3>3
  <2>9. ASSUME NEW h \in Threads, Arm(h) PROVE Woken'
    <3>1. CASE arming[h] = 0
      BY <2>9, <3>1 DEF Arm, StartTimer, Woken
    <3>2. CASE arming[h] # 0
      <4>1. UNCHANGED <<posted, frames>> /\ arming' = [arming EXCEPT ![h] = Quiet]
        BY <2>9, <3>2 DEF Arm, StartTimer
      <4>2. \A g \in Threads : arming[g] = 0 => arming'[g] = 0
        BY <1>a, <3>2, <4>1
      <4>. QED BY <2>1, <4>1, <4>2 DEF Woken, Locked, Top
    <3>. QED BY <3>1, <3>2
  <2>10. CASE WindowMessage \/ TimerMessage
    BY <2>6, <2>10 DEF WindowMessage, TimerMessage
  <2>11. CASE Check \/ Refuse \/ Run \/ Tried
    BY <2>5, <2>11 DEF Check, Refuse, Run, Tried, Locked
  <2>12. CASE Requeued
    <3>1. PICK ms \in FirstJobTime(queue) : arming' = [arming EXCEPT ![Main] = IF Top.direct THEN 0 ELSE ms]
      BY <2>12 DEF Requeued
    <3>2. PICK i \in DOMAIN queue : queue[i].left = 0
      BY <1>a, <1>3 DEF DueNow
    <3>3. 1 \in DOMAIN queue /\ queue # <<>> /\ 1 <= i /\ queue[1] \in Entry
      BY <1>a
    <3>4. queue[1].left = 0
      <4>1. queue[1].left <= queue[i].left
        BY <1>a, <3>3 DEF Sorted
      <4>2. queue[1].left \in Nat
        BY <3>3 DEF Entry, Time
      <4>. QED BY <3>2, <4>1, <4>2
    <3>5. ms = 0
      BY <3>3, <3>4 DEF FirstJobTime
    <3>. QED BY <1>a, <3>1, <3>5 DEF Woken
  <2>13. CASE Finish \/ Connect
    BY <2>3, <2>5, <2>13 DEF Finish, Connect, Starting
  <2>14. CASE ConnectFails
    <3>1. arming[Main] = Quiet /\ ~Locked /\ UNCHANGED posted
      BY <2>3, <2>14 DEF ConnectFails, Starting, Calm
    <3>2. arming' = [arming EXCEPT ![Main] = queue'[1].left]
      BY <2>14 DEF ConnectFails
    <3>3. \A g \in Threads : arming[g] = 0 => arming'[g] = 0
      BY <1>a, <3>1, <3>2
    <3>. QED BY <2>2, <3>1, <3>3
  <2>15. CASE Tick \/ Busy \/ UNCHANGED vars
    BY <2>4, <2>15 DEF Tick, Busy, vars
  <2>. QED BY <1>1, <2>7, <2>8, <2>9, <2>10, <2>11, <2>12, <2>13, <2>14, <2>15 DEF Next, Callback
<1>. QED BY <1>1, <1>2, <1>3, <1>a, PromptFrom

\* The invariant holds at first.
LEMMA QueueInit == Init => QueueInv
<1> SUFFICES ASSUME Init PROVE QueueInv
  OBVIOUS
<1>1. BodyHasJob /\ Sorted /\ Submitted /\ DueNow /\ Prompt
  BY DEF Init, BodyHasJob, Sorted, Submitted, DueNow, Prompt
<1>2. TodoOnce
  <2>1. \A h \in Threads : \A m \in DOMAIN Program[h] : Program[h][m] \in Jobs
    <3>1. \A h \in Threads : Program[h] \in Seq(Jobs)
      BY QueueConstants DEF QueueConstants
    <3>. QED BY <3>1
  <2>2. \A h \in Threads : \A m \in DOMAIN todo[h] : outcome[todo[h][m]] = "new"
    BY <2>1 DEF Init
  <2>. QED BY <2>2, QueueConstants DEF QueueConstants, Init, TodoOnce
<1>3. FuncWaits
  BY QueueConstants DEF QueueConstants, Init, FuncWaits
<1>. QED BY <1>1, <1>2, <1>3 DEF QueueInv

\* Every step keeps the invariant.
LEMMA QueueInvStep == TypeInv /\ QueueInv /\ [Next]_vars => TypeInv' /\ QueueInv'
<1> SUFFICES ASSUME TypeInv, QueueInv, [Next]_vars PROVE TypeInv' /\ QueueInv'
  OBVIOUS
<1>1. TypeInv'
  BY TypeStep
<1>2. BodyHasJob'
  BY <1>1 DEF TypeInv
<1>3. Sorted' /\ Submitted' /\ TodoOnce' /\ FuncWaits'
  BY <1>1, SortedStep, SubmittedStep, TodoStep, FuncWaitsStep DEF QueueInv
<1>4. DueNow'
  BY <1>1, DueNowStep DEF QueueInv
<1>5. Prompt'
  BY <1>1, <1>4, PromptStep
<1>. QED BY <1>1, <1>2, <1>3, <1>4, <1>5 DEF QueueInv

\* However threads and nested callbacks interleave, a job which was submitted with
\* no wait is in the queue only as long as a message for it is on its way.
THEOREM NeverLeftToTimer == Spec => []Prompt
<1>1. Init => TypeInv /\ QueueInv
  <2>1. (Init => QueueInv) /\ (QueueInv => Prompt)
    BY QueueInit DEF QueueInv
  <2>. QED BY <2>1, TypeInit
<1>2. QueueInv => Prompt
  BY DEF QueueInv
<1>. QED BY <1>1, <1>2, QueueInvStep, PTL DEF Spec

-----------------------------------------------------------------------------
(***************************************************************************)
(* OnePlace. The queue and the jobs with each callback, those to be tried  *)
(* before those refused, are taken as one family of lists; a step puts a   *)
(* job in a list, takes one out, or moves lists.                           *)
(***************************************************************************)
Held(f) == f.items \o f.kept
ListsOf(q, fs) == [k \in 0..Len(fs) |-> IF k = 0 THEN [n \in 1..Len(q) |-> q[n].job]
                                       ELSE Held(fs[k])]

\* Job j is the n-th of the k-th of the lists S.
At(S, j, k, n) == k \in DOMAIN S /\ n \in DOMAIN S[k] /\ S[k][n] = j
Nowhere(S, j) == \A k, n \in Nat : ~At(S, j, k, n)
Once(S, j) ==
  \E k, n \in Nat : At(S, j, k, n) /\ \A l, m \in Nat : At(S, j, l, m) => l = k /\ m = n

\* T holds j as often as S does, if S does so once or not at all.
AsOften(S, T, j) == (Nowhere(S, j) => Nowhere(T, j)) /\ (Once(S, j) => Once(T, j))

\* t is s with x put in it after its first k jobs.
PutIn(s, t, k, x) ==
  \E len \in Nat :
    /\ k <= len /\ DOMAIN s = 1..len /\ DOMAIN t = 1..len + 1
    /\ \A i \in 1..k : t[i] = s[i]
    /\ t[k + 1] = x
    /\ \A i \in k + 1..len : t[i + 1] = s[i]

\* The m-th of the lists S has x put in it.
Inserted(S, T, m, k, x) ==
  /\ DOMAIN T = DOMAIN S /\ m \in DOMAIN S /\ m \in Nat /\ k \in Nat
  /\ PutIn(S[m], T[m], k, x)
  /\ \A l \in DOMAIN S : l # m => T[l] = S[l]

\* Where a job is found after another has been put in a list.
LEMMA InsertedAt ==
  ASSUME NEW S, NEW T, NEW m, NEW k, NEW x, Inserted(S, T, m, k, x), NEW j
  PROVE  /\ At(T, x, m, k + 1)
         /\ \A l, n \in Nat : At(S, j, l, n) =>
              IF l = m /\ n > k THEN At(T, j, l, n + 1) ELSE At(T, j, l, n)
         /\ \A l, n \in Nat : At(T, j, l, n) =>
              \/ l = m /\ n = k + 1 /\ j = x
              \/ (l # m \/ n <= k) /\ At(S, j, l, n)
              \/ l = m /\ n > k + 1 /\ n - 1 \in Nat /\ At(S, j, l, n - 1)
<1>1. PICK len \in Nat :
        /\ k <= len /\ DOMAIN S[m] = 1..len /\ DOMAIN T[m] = 1..len + 1
        /\ \A i \in 1..k : T[m][i] = S[m][i]
        /\ T[m][k + 1] = x
        /\ \A i \in k + 1..len : T[m][i + 1] = S[m][i]
  BY DEF Inserted, PutIn
<1>2. /\ DOMAIN T = DOMAIN S /\ m \in DOMAIN S /\ m \in Nat /\ k \in Nat
      /\ \A l \in DOMAIN S : l # m => T[l] = S[l]
  BY DEF Inserted
<1>3. At(T, x, m, k + 1)
  BY <1>1, <1>2 DEF At
<1>4. ASSUME NEW l \in Nat, NEW n \in Nat, At(S, j, l, n)
      PROVE  IF l = m /\ n > k THEN At(T, j, l, n + 1) ELSE At(T, j, l, n)
  <2>1. CASE l # m
    BY <1>2, <1>4, <2>1 DEF At
  <2>2. CASE l = m /\ n > k
    <3>1. n \in k + 1..len
      BY <1>1, <1>2, <1>4, <2>2 DEF At
    <3>2. T[m][n + 1] = j /\ n + 1 \in 1..len + 1
      BY <1>1, <1>2, <1>4, <2>2, <3>1 DEF At
    <3>. QED BY <1>1, <1>2, <2>2, <3>2 DEF At
  <2>3. CASE l = m /\ n <= k
    <3>1. n \in 1..k
      BY <1>1, <1>2, <1>4, <2>3 DEF At
    <3>. QED BY <1>1, <1>2, <1>4, <2>3, <3>1 DEF At
  <2>. QED BY <1>2, <2>1, <2>2, <2>3
<1>5. ASSUME NEW l \in Nat, NEW n \in Nat, At(T, j, l, n)
      PROVE  \/ l = m /\ n = k + 1 /\ j = x
             \/ (l # m \/ n <= k) /\ At(S, j, l, n)
             \/ l = m /\ n > k + 1 /\ n - 1 \in Nat /\ At(S, j, l, n - 1)
  <2>1. CASE l # m
    BY <1>2, <1>5, <2>1 DEF At
  <2>2. CASE l = m /\ n = k + 1
    BY <1>1, <1>5, <2>2 DEF At
  <2>3. CASE l = m /\ n <= k
    <3>1. n \in 1..k
      BY <1>1, <1>2, <1>5, <2>3 DEF At
    <3>. QED BY <1>1, <1>2, <1>5, <2>3, <3>1 DEF At
  <2>4. CASE l = m /\ n > k + 1
    <3>1. n - 1 \in k + 1..len /\ n - 1 \in 1..len /\ n - 1 \in Nat /\ (n - 1) + 1 = n
      BY <1>1, <1>2, <1>5, <2>4 DEF At
    <3>2. T[m][(n - 1) + 1] = S[m][n - 1]
      BY <1>1, <3>1
    <3>. QED BY <1>1, <1>2, <1>5, <2>4, <3>1, <3>2 DEF At
  <2>. QED BY <1>2, <2>1, <2>2, <2>3, <2>4
<1>. QED BY <1>3, <1>4, <1>5

\* A list which gains or loses x holds the others as often as before.
LEMMA InsertedPlaces ==
  ASSUME NEW S, NEW T, NEW m, NEW k, NEW x, Inserted(S, T, m, k, x)
  PROVE  /\ \A j : j # x => AsOften(S, T, j) /\ AsOften(T, S, j)
         /\ Nowhere(S, x) => Once(T, x)
         /\ Once(T, x) => Nowhere(S, x)
<1>0. At(T, x, m, k + 1)
  BY InsertedAt
<1>1. m \in Nat /\ k \in Nat /\ k + 1 \in Nat /\ At(T, x, m, k + 1)
  BY <1>0 DEF Inserted
<1>2. ASSUME NEW j, NEW l \in Nat, NEW n \in Nat, At(S, j, l, n)
      PROVE  IF l = m /\ n > k THEN At(T, j, l, n + 1) ELSE At(T, j, l, n)
  BY <1>2, InsertedAt
<1>3. ASSUME NEW j, NEW l \in Nat, NEW n \in Nat, At(T, j, l, n)
      PROVE  \/ l = m /\ n = k + 1 /\ j = x
             \/ (l # m \/ n <= k) /\ At(S, j, l, n)
             \/ l = m /\ n > k + 1 /\ n - 1 \in Nat /\ At(S, j, l, n - 1)
  BY <1>3, InsertedAt
<1>4. ASSUME NEW j, j # x PROVE AsOften(S, T, j)
  <2>1. ASSUME Nowhere(S, j) PROVE Nowhere(T, j)
    BY <1>3, <1>4, <2>1 DEF Nowhere
  <2>2. ASSUME Once(S, j) PROVE Once(T, j)
    <3>1. PICK l, n \in Nat : At(S, j, l, n) /\ \A h, i \in Nat : At(S, j, h, i) => h = l /\ i = n
      BY <2>2 DEF Once
    <3>. DEFINE o == IF l = m /\ n > k THEN n + 1 ELSE n
    <3>2. o \in Nat /\ At(T, j, l, o)
      BY <1>2, <3>1
    <3>3. ASSUME NEW h \in Nat, NEW i \in Nat, At(T, j, h, i) PROVE h = l /\ i = o
      <4>1. CASE (h # m \/ i <= k) /\ At(S, j, h, i)
        BY <1>1, <3>1, <4>1
      <4>2. CASE h = m /\ i > k + 1 /\ i - 1 \in Nat /\ At(S, j, h, i - 1)
        <5>1. h = l /\ i - 1 = n
          BY <3>1, <4>2
        <5>. QED BY <1>1, <4>2, <5>1
      <4>. QED BY <1>3, <1>4, <3>3, <4>1, <4>2
    <3>. HIDE DEF o
    <3>. QED BY <3>2, <3>3 DEF Once
  <2>. QED BY <2>1, <2>2 DEF AsOften
<1>5. ASSUME NEW j, j # x PROVE AsOften(T, S, j)
  <2>1. ASSUME Nowhere(T, j) PROVE Nowhere(S, j)
    BY <1>2, <2>1 DEF Nowhere
  <2>2. ASSUME Once(T, j) PROVE Once(S, j)
    <3>1. PICK l, n \in Nat : At(T, j, l, n) /\ \A h, i \in Nat : At(T, j, h, i) => h = l /\ i = n
      BY <2>2 DEF Once
    <3>2. PICK o \in Nat : At(S, j, l, o)
      BY <1>3, <1>5, <3>1
    <3>3. ASSUME NEW h \in Nat, NEW i \in Nat, At(S, j, h, i)
          PROVE  h = l /\ n = IF h = m /\ i > k THEN i + 1 ELSE i
      BY <1>2, <3>1, <3>3
    <3>4. \A h, i \in Nat : At(S, j, h, i) => h = l /\ i = o
      <4>1. n = IF l = m /\ o > k THEN o + 1 ELSE o
        BY <3>2, <3>3
      <4>2. ASSUME NEW h \in Nat, NEW i \in Nat, At(S, j, h, i) PROVE h = l /\ i = o
        <5>1. h = l /\ n = IF h = m /\ i > k THEN i + 1 ELSE i
          BY <3>3, <4>2
        <5>. QED BY <1>1, <4>1, <5>1
      <4>. QED BY <4>2
    <3>. QED BY <3>2, <3>4 DEF Once
  <2>. QED BY <2>1, <2>2 DEF AsOften
<1>6. ASSUME Nowhere(S, x) PROVE Once(T, x)
  <2>1. \A l, n \in Nat : At(T, x, l, n) => l = m /\ n = k + 1
    BY <1>3, <1>6 DEF Nowhere
  <2>. QED BY <1>1, <2>1 DEF Once
<1>7. ASSUME Once(T, x), NEW l \in Nat, NEW n \in Nat, At(S, x, l, n) PROVE FALSE
  <2>1. \A h, i \in Nat : At(T, x, h, i) => h = m /\ i = k + 1
    BY <1>1, <1>7 DEF Once
  <2>2. IF l = m /\ n > k THEN At(T, x, l, n + 1) ELSE At(T, x, l, n)
    BY <1>2, <1>7
  <2>. QED BY <1>1, <2>1, <2>2
<1>. QED BY <1>4, <1>5, <1>6, <1>7 DEF Nowhere

\* Moving lists, and cutting one in two, keeps the jobs.
LEMMA Transitive ==
  ASSUME NEW S, NEW T, NEW U, NEW j, AsOften(S, T, j), AsOften(T, U, j)
  PROVE  AsOften(S, U, j)
BY DEF AsOften

\* T has one list more than S: the first c jobs of list 0, as list 1.
Cut(S, T, c) ==
  \E len, top \in Nat :
    /\ c \in 0..len
    /\ DOMAIN S = 0..top /\ DOMAIN S[0] = 1..len
    /\ DOMAIN T = 0..top + 1 /\ DOMAIN T[0] = 1..len - c /\ DOMAIN T[1] = 1..c
    /\ \A i \in 1..len - c : T[0][i] = S[0][c + i]
    /\ \A i \in 1..c : T[1][i] = S[0][i]
    /\ \A l \in 1..top : T[l + 1] = S[l]

\* The batch which a callback takes is no longer in the queue; nothing else moves.
LEMMA CutPlaces ==
  ASSUME NEW S, NEW T, NEW c, Cut(S, T, c), NEW j
  PROVE  AsOften(S, T, j) /\ AsOften(T, S, j)
<1>1. PICK len, top \in Nat :
        /\ c \in 0..len
        /\ DOMAIN S = 0..top /\ DOMAIN S[0] = 1..len
        /\ DOMAIN T = 0..top + 1 /\ DOMAIN T[0] = 1..len - c /\ DOMAIN T[1] = 1..c
        /\ \A i \in 1..len - c : T[0][i] = S[0][c + i]
        /\ \A i \in 1..c : T[1][i] = S[0][i]
        /\ \A l \in 1..top : T[l + 1] = S[l]
  BY DEF Cut
<1>. DEFINE list(l, n) == IF l > 0 THEN l + 1 ELSE IF n <= c THEN 1 ELSE 0
            place(l, n) == IF l = 0 /\ n > c THEN n - c ELSE n
<1>2. ASSUME NEW l \in Nat, NEW n \in Nat, At(S, j, l, n)
      PROVE  list(l, n) \in Nat /\ place(l, n) \in Nat /\ At(T, j, list(l, n), place(l, n))
  <2>1. CASE l > 0
    <3>1. l \in 1..top /\ T[l + 1] = S[l] /\ l + 1 \in DOMAIN T
      BY <1>1, <1>2, <2>1 DEF At
    <3>. QED BY <1>2, <2>1, <3>1 DEF At
  <2>2. CASE l = 0 /\ n <= c
    <3>1. n \in 1..c /\ T[1][n] = j /\ 1 \in DOMAIN T
      BY <1>1, <1>2, <2>2 DEF At
    <3>. QED BY <1>1, <2>2, <3>1 DEF At
  <2>3. CASE l = 0 /\ n > c
    <3>1. n - c \in 1..len - c /\ n - c \in Nat /\ c + (n - c) = n /\ S[0][n] = j
      BY <1>1, <1>2, <2>3 DEF At
    <3>2. T[0][n - c] = S[0][c + (n - c)]
      BY <1>1, <3>1
    <3>. QED BY <1>1, <2>3, <3>1, <3>2 DEF At
  <2>. QED BY <1>1, <2>1, <2>2, <2>3
<1>3. ASSUME NEW l \in Nat, NEW n \in Nat, At(T, j, l, n)
      PROVE  \E h, i \in Nat : At(S, j, h, i) /\ l = list(h, i) /\ n = place(h, i)
  <2>1. CASE l = 0
    <3>1. n \in 1..len - c /\ T[0][n] = S[0][c + n] /\ c + n \in 1..len /\ c + n \in Nat
      BY <1>1, <1>3, <2>1 DEF At
    <3>2. At(S, j, 0, c + n)
      BY <1>1, <1>3, <2>1, <3>1 DEF At
    <3>3. list(0, c + n) = 0 /\ place(0, c + n) = n
      BY <1>1, <3>1
    <3>. HIDE DEF list, place
    <3>. QED BY <2>1, <3>1, <3>2, <3>3
  <2>2. CASE l = 1
    <3>1. n \in 1..c /\ T[1][n] = S[0][n]
      BY <1>1, <1>3, <2>2 DEF At
    <3>2. At(S, j, 0, n)
      BY <1>1, <1>3, <2>2, <3>1 DEF At
    <3>3. list(0, n) = 1 /\ place(0, n) = n
      BY <1>1, <3>1
    <3>. HIDE DEF list, place
    <3>. QED BY <2>2, <3>2, <3>3
  <2>3. CASE l > 1
    <3>1. l - 1 \in 1..top /\ l - 1 \in Nat /\ (l - 1) + 1 = l
      BY <1>1, <1>3, <2>3 DEF At
    <3>2. T[(l - 1) + 1] = S[l - 1]
      BY <1>1, <3>1
    <3>3. At(S, j, l - 1, n)
      BY <1>1, <1>3, <3>1, <3>2 DEF At
    <3>4. list(l - 1, n) = l /\ place(l - 1, n) = n
      BY <3>1
    <3>. HIDE DEF list, place
    <3>. QED BY <3>1, <3>3, <3>4
  <2>. HIDE DEF list, place
  <2>. QED BY <2>1, <2>2, <2>3
<1>4. ASSUME NEW l \in Nat, NEW n \in Nat, At(S, j, l, n), NEW h \in Nat, NEW i \in Nat, At(S, j, h, i),
             list(l, n) = list(h, i), place(l, n) = place(h, i)
      PROVE  l = h /\ n = i
  <2>1. c \in Nat
    BY <1>1
  <2>2. CASE l > 0
    BY <1>4, <2>1, <2>2
  <2>3. CASE l = 0 /\ n <= c
    BY <1>4, <2>1, <2>3
  <2>4. CASE l = 0 /\ n > c
    BY <1>4, <2>1, <2>4
  <2>. QED BY <2>1, <2>2, <2>3, <2>4
<1>. HIDE DEF list, place
<1>5. AsOften(S, T, j)
  <2>1. ASSUME Nowhere(S, j) PROVE Nowhere(T, j)
    BY <1>3, <2>1 DEF Nowhere
  <2>2. ASSUME Once(S, j) PROVE Once(T, j)
    <3>1. PICK l, n \in Nat : At(S, j, l, n) /\ \A h, i \in Nat : At(S, j, h, i) => h = l /\ i = n
      BY <2>2 DEF Once
    <3>2. \A h, i \in Nat : At(T, j, h, i) => h = list(l, n) /\ i = place(l, n)
      BY <1>3, <3>1
    <3>. QED BY <1>2, <3>1, <3>2 DEF Once
  <2>. QED BY <2>1, <2>2 DEF AsOften
<1>6. AsOften(T, S, j)
  <2>1. ASSUME Nowhere(T, j) PROVE Nowhere(S, j)
    BY <1>2, <2>1 DEF Nowhere
  <2>2. ASSUME Once(T, j) PROVE Once(S, j)
    <3>1. PICK h, i \in Nat : At(T, j, h, i) /\ \A x, y \in Nat : At(T, j, x, y) => x = h /\ y = i
      BY <2>2 DEF Once
    <3>2. PICK l, n \in Nat : At(S, j, l, n)
      BY <1>3, <3>1
    <3>3. \A x, y \in Nat : At(S, j, x, y) => list(x, y) = h /\ place(x, y) = i
      BY <1>2, <3>1
    <3>4. \A x, y \in Nat : At(S, j, x, y) => x = l /\ y = n
      BY <1>4, <3>2, <3>3
    <3>. QED BY <3>2, <3>4 DEF Once
  <2>. QED BY <2>1, <2>2 DEF AsOften
<1>. QED BY <1>5, <1>6

-----------------------------------------------------------------------------
\* The lists S hold each job which is pending once, and no other. The job of a
\* RetryAtStartup, which is submitted again by its own body, is not spoken of.
Fit(oc, S) ==
  \A j \in Jobs \ Startup : IF oc[j] \in Pending THEN Once(S, j) ELSE Nowhere(S, j)

LEMMA FitSame ==
  ASSUME NEW oc, NEW S, NEW T, Fit(oc, S), \A j \in Jobs : AsOften(S, T, j)
  PROVE  Fit(oc, T)
BY DEF Fit, AsOften

\* A job which is in no list is put in one and becomes pending.
LEMMA FitGain ==
  ASSUME NEW oc, NEW S, NEW T, Fit(oc, S), NEW m, NEW k, NEW x \in Jobs, Inserted(S, T, m, k, x),
         x \in Startup \/ oc[x] \notin Pending,
         NEW r, x \in Startup \/ r \in Pending,
         DOMAIN oc = Jobs
  PROVE  Fit([oc EXCEPT ![x] = r], T)
<1> SUFFICES ASSUME NEW j \in Jobs \ Startup
             PROVE  IF [oc EXCEPT ![x] = r][j] \in Pending THEN Once(T, j) ELSE Nowhere(T, j)
  BY DEF Fit
<1>1. CASE j = x
  <2>1. Nowhere(S, x)
    BY <1>1 DEF Fit
  <2>. QED BY <1>1, <2>1, InsertedPlaces
<1>2. CASE j # x
  <2>1. AsOften(S, T, j)
    BY <1>2, InsertedPlaces
  <2>2. [oc EXCEPT ![x] = r][j] = oc[j]
    BY <1>2
  <2>. QED BY <2>1, <2>2 DEF Fit, AsOften
<1>. QED BY <1>1, <1>2

\* A job is taken out of a list: it was pending, and is no more.
LEMMA FitLoss ==
  ASSUME NEW oc, NEW S, NEW T, Fit(oc, T), NEW m, NEW k, NEW x \in Jobs, Inserted(S, T, m, k, x),
         NEW r, x \in Startup \/ r \notin Pending,
         DOMAIN oc = Jobs
  PROVE  /\ Fit([oc EXCEPT ![x] = r], S)
         /\ x \in Startup \/ oc[x] \in Pending
<1>1. x \in Startup \/ (oc[x] \in Pending /\ Once(T, x))
  <2>1. At(T, x, m, k + 1) /\ m \in Nat /\ k + 1 \in Nat
    <3>1. At(T, x, m, k + 1)
      BY InsertedAt
    <3>. QED BY <3>1 DEF Inserted
  <2>2. ~Nowhere(T, x)
    BY <2>1 DEF Nowhere
  <2>. QED BY <2>2 DEF Fit
<1>2. ASSUME NEW j \in Jobs \ Startup
      PROVE  IF [oc EXCEPT ![x] = r][j] \in Pending THEN Once(S, j) ELSE Nowhere(S, j)
  <2>1. CASE j = x
    BY <1>1, <2>1, InsertedPlaces
  <2>2. CASE j # x
    <3>1. AsOften(T, S, j)
      BY <2>2, InsertedPlaces
    <3>2. [oc EXCEPT ![x] = r][j] = oc[j]
      BY <2>2
    <3>. QED BY <3>1, <3>2 DEF Fit, AsOften
  <2>. QED BY <2>1, <2>2
<1>. QED BY <1>1, <1>2 DEF Fit

-----------------------------------------------------------------------------
\* A callback's jobs, those to be tried before those refused.
LEMMA HeldIs ==
  ASSUME NEW f \in Frame
  PROVE  /\ f.items \in Seq(Jobs) /\ f.kept \in Seq(Jobs)
         /\ Held(f) \in Seq(Jobs) /\ DOMAIN Held(f) = 1..Len(f.items) + Len(f.kept)
         /\ Len(f.items) \in Nat /\ Len(f.kept) \in Nat
         /\ \A i \in 1..Len(f.items) : Held(f)[i] = f.items[i]
         /\ \A i \in 1..Len(f.kept) : Held(f)[Len(f.items) + i] = f.kept[i]
<1>1. f.items \in Seq(Jobs) /\ f.kept \in Seq(Jobs)
  BY DEF Frame
<1>2. /\ Held(f) \in Seq(Jobs) /\ Len(Held(f)) = Len(f.items) + Len(f.kept)
      /\ \A i \in 1..Len(f.items) + Len(f.kept) :
           Held(f)[i] = IF i <= Len(f.items) THEN f.items[i] ELSE f.kept[i - Len(f.items)]
  BY <1>1, ConcatProperties DEF Held
<1>3. Len(f.items) \in Nat /\ Len(f.kept) \in Nat
  BY <1>1
<1>4. DOMAIN Held(f) = 1..Len(f.items) + Len(f.kept)
  BY <1>2
<1>5. ASSUME NEW i \in 1..Len(f.items) PROVE Held(f)[i] = f.items[i]
  <2>. DEFINE a == Len(f.items)  b == Len(f.kept)
  <2>1. a \in Nat /\ b \in Nat /\ i \in 1..a
    BY <1>3
  <2>. HIDE DEF a, b
  <2>2. i \in 1..a + b /\ i <= a
    BY <2>1
  <2>. QED BY <1>2, <2>2 DEF a, b
<1>6. ASSUME NEW i \in 1..Len(f.kept) PROVE Held(f)[Len(f.items) + i] = f.kept[i]
  <2>. DEFINE a == Len(f.items)  b == Len(f.kept)
  <2>1. a \in Nat /\ b \in Nat /\ i \in 1..b
    BY <1>3
  <2>. HIDE DEF a, b
  <2>2. a + i \in 1..a + b /\ ~(a + i <= a) /\ (a + i) - a = i
    BY <2>1
  <2>. QED BY <1>2, <2>2 DEF a, b
<1>. QED BY <1>1, <1>2, <1>3, <1>4, <1>5, <1>6

\* The first job to be tried goes.
LEMMA HeldTail ==
  ASSUME NEW f \in Frame, NEW g \in Frame, f.items # <<>>, g.items = Tail(f.items), g.kept = f.kept
  PROVE  PutIn(Held(g), Held(f), 0, Head(f.items))
<1>. DEFINE a == Len(f.items)  b == Len(f.kept)
<1>1. /\ Len(g.items) = a - 1 /\ \A i \in 1..a - 1 : g.items[i] = f.items[i + 1]
      /\ Head(f.items) = f.items[1] /\ a \in Nat /\ a >= 1 /\ b \in Nat /\ Len(g.kept) = b
  BY HeldIs, HeadTailProperties
<1>2. DOMAIN Held(f) = 1..(a - 1 + b) + 1 /\ DOMAIN Held(g) = 1..a - 1 + b
  <2>1. DOMAIN Held(f) = 1..a + b /\ DOMAIN Held(g) = 1..Len(g.items) + Len(g.kept)
    BY HeldIs
  <2>. HIDE DEF a, b
  <2>2. a + b = (a - 1 + b) + 1
    BY <1>1
  <2>. QED BY <1>1, <2>1, <2>2
<1>3. Held(f)[0 + 1] = Head(f.items)
  <2>1. 1 \in 1..Len(f.items) /\ 0 + 1 = 1
    BY <1>1
  <2>2. Held(f)[1] = f.items[1]
    BY <2>1, HeldIs
  <2>. QED BY <1>1, <2>1, <2>2
<1>. HIDE DEF a, b
<1>4. ASSUME NEW i \in 0 + 1..a - 1 + b PROVE Held(f)[i + 1] = Held(g)[i]
  <2>1. CASE i <= a - 1
    <3>1. i \in 1..a - 1 /\ i + 1 \in 1..a
      BY <1>1, <2>1
    <3>2. Held(f)[i + 1] = f.items[i + 1]
      BY <3>1, HeldIs DEF a
    <3>3. Held(g)[i] = g.items[i]
      BY <1>1, <3>1, HeldIs
    <3>. QED BY <1>1, <3>1, <3>2, <3>3
  <2>2. CASE i > a - 1
    <3>. DEFINE n == i - (a - 1)
    <3>1. n \in 1..b /\ i + 1 = a + n /\ i = (a - 1) + n
      BY <1>1, <2>2
    <3>. HIDE DEF n
    <3>2. Held(f)[a + n] = f.kept[n]
      BY <3>1, HeldIs DEF a, b
    <3>3. Held(g)[(a - 1) + n] = g.kept[n]
      BY <1>1, <3>1, HeldIs
    <3>. QED BY <3>1, <3>2, <3>3
  <2>. QED BY <1>1, <2>1, <2>2
<1>5. a - 1 + b \in Nat /\ 0 <= a - 1 + b
  BY <1>1
<1>. QED BY <1>2, <1>3, <1>4, <1>5 DEF PutIn

\* A job which is refused is put last.
LEMMA HeldKept ==
  ASSUME NEW f \in Frame, NEW g \in Frame, NEW x \in Jobs, g.items = f.items, g.kept = Append(f.kept, x)
  PROVE  PutIn(Held(f), Held(g), Len(f.items) + Len(f.kept), x)
<1>. DEFINE a == Len(f.items)  b == Len(f.kept)
<1>1. /\ a \in Nat /\ b \in Nat /\ Len(g.items) = a /\ Len(g.kept) = b + 1
      /\ g.kept[b + 1] = x /\ \A i \in 1..b : g.kept[i] = f.kept[i]
  BY HeldIs, AppendProperties
<1>2. DOMAIN Held(f) = 1..a + b /\ DOMAIN Held(g) = 1..(a + b) + 1
  <2>1. DOMAIN Held(f) = 1..a + b /\ DOMAIN Held(g) = 1..Len(g.items) + Len(g.kept)
    BY HeldIs
  <2>. HIDE DEF a, b
  <2>2. a + (b + 1) = (a + b) + 1
    BY <1>1
  <2>. QED BY <1>1, <2>1, <2>2
<1>. HIDE DEF a, b
<1>3. Held(g)[(a + b) + 1] = x
  <2>1. b + 1 \in 1..b + 1 /\ a + (b + 1) = (a + b) + 1
    BY <1>1
  <2>2. Held(g)[a + (b + 1)] = g.kept[b + 1]
    BY <1>1, <2>1, HeldIs
  <2>. QED BY <1>1, <2>1, <2>2
<1>4. ASSUME NEW i \in 1..a + b PROVE Held(g)[i] = Held(f)[i]
  <2>1. CASE i <= a
    <3>1. i \in 1..a
      BY <1>1, <2>1
    <3>2. Held(f)[i] = f.items[i]
      BY <3>1, HeldIs DEF a
    <3>3. Held(g)[i] = g.items[i]
      BY <1>1, <3>1, HeldIs
    <3>. QED BY <3>2, <3>3
  <2>2. CASE i > a
    <3>. DEFINE n == i - a
    <3>1. n \in 1..b /\ n \in 1..b + 1 /\ i = a + n
      BY <1>1, <2>2
    <3>. HIDE DEF n
    <3>2. Held(f)[a + n] = f.kept[n]
      BY <3>1, HeldIs DEF a, b
    <3>3. Held(g)[a + n] = g.kept[n]
      BY <1>1, <3>1, HeldIs
    <3>. QED BY <1>1, <3>1, <3>2, <3>3
  <2>. QED BY <1>1, <2>1, <2>2
<1>5. a + b \in Nat /\ \A i \in (a + b) + 1..a + b : FALSE
  BY <1>1
<1>6. \E len \in Nat :
        /\ a + b <= len /\ DOMAIN Held(f) = 1..len /\ DOMAIN Held(g) = 1..len + 1
        /\ \A i \in 1..a + b : Held(g)[i] = Held(f)[i]
        /\ Held(g)[(a + b) + 1] = x
        /\ \A i \in (a + b) + 1..len : Held(g)[i + 1] = Held(f)[i]
  BY <1>2, <1>3, <1>4, <1>5
<1>. QED BY <1>6 DEF PutIn, a, b

\* The first of the refused jobs goes.
LEMMA HeldBack ==
  ASSUME NEW f \in Frame, NEW g \in Frame, f.items = <<>>, f.kept # <<>>,
         g.items = f.items, g.kept = Tail(f.kept)
  PROVE  PutIn(Held(g), Held(f), 0, Head(f.kept))
<1>. DEFINE b == Len(f.kept)
<1>1. /\ Len(g.kept) = b - 1 /\ \A i \in 1..b - 1 : g.kept[i] = f.kept[i + 1]
      /\ Head(f.kept) = f.kept[1] /\ b \in Nat /\ b >= 1 /\ Len(f.items) = 0 /\ Len(g.items) = 0
  BY HeldIs, HeadTailProperties
<1>2. DOMAIN Held(f) = 1..(b - 1) + 1 /\ DOMAIN Held(g) = 1..b - 1
  <2>1. DOMAIN Held(f) = 1..Len(f.items) + b /\ DOMAIN Held(g) = 1..Len(g.items) + Len(g.kept)
    BY HeldIs
  <2>. HIDE DEF b
  <2>2. 0 + b = (b - 1) + 1 /\ 0 + (b - 1) = b - 1
    BY <1>1
  <2>. QED BY <1>1, <2>1, <2>2
<1>3. \A i \in 1..b : Held(f)[0 + i] = f.kept[i]
  BY <1>1, HeldIs
<1>4. \A i \in 1..b - 1 : Held(g)[0 + i] = g.kept[i]
  BY <1>1, HeldIs
<1>. HIDE DEF b
<1>5. ASSUME NEW i \in 0 + 1..b - 1 PROVE Held(f)[i + 1] = Held(g)[i]
  <2>1. i \in 1..b - 1 /\ i + 1 \in 1..b /\ 0 + i = i /\ 0 + (i + 1) = i + 1
    BY <1>1
  <2>. QED BY <1>1, <1>3, <1>4, <2>1
<1>6. Held(f)[0 + 1] = Head(f.kept)
  BY <1>1, <1>3
<1>7. b - 1 \in Nat /\ 0 <= b - 1
  BY <1>1
<1>. QED BY <1>2, <1>5, <1>6, <1>7 DEF PutIn

-----------------------------------------------------------------------------
\* The lists are the queue's jobs and those of each callback.
LEMMA ListsAre ==
  ASSUME NEW q \in Seq(Entry), NEW fs \in Seq(Frame)
  PROVE  /\ DOMAIN ListsOf(q, fs) = 0..Len(fs) /\ Len(fs) \in Nat
         /\ DOMAIN ListsOf(q, fs)[0] = 1..Len(q) /\ Len(q) \in Nat
         /\ \A n \in 1..Len(q) : ListsOf(q, fs)[0][n] = q[n].job
         /\ \A k \in 1..Len(fs) : ListsOf(q, fs)[k] = Held(fs[k])
<1>1. Len(fs) \in Nat /\ Len(q) \in Nat /\ 0 \in 0..Len(fs)
  OBVIOUS
<1>2. ListsOf(q, fs)[0] = [n \in 1..Len(q) |-> q[n].job]
  BY <1>1 DEF ListsOf
<1>3. ASSUME NEW k \in 1..Len(fs) PROVE ListsOf(q, fs)[k] = Held(fs[k])
  BY <1>1 DEF ListsOf
<1>. QED BY <1>1, <1>2, <1>3 DEF ListsOf

\* emplace() puts a job in the queue's list.
LEMMA EmplacedList ==
  ASSUME MaxTime \in Nat, queue \in Seq(Entry), NEW j \in Jobs, NEW ms \in Time, Emplace(j, ms),
         NEW fs \in Seq(Frame)
  PROVE  \E k \in Nat : Inserted(ListsOf(queue, fs), ListsOf(queue', fs), 0, k, j)
<1>1. PICK k \in 0..Len(queue) : EmplacedAfter(k, j, ms)
  BY EmplacedAt
<1>2. queue' \in Seq(Entry) /\ Len(queue') = Len(queue) + 1 /\ Len(queue) \in Nat /\ k \in Nat
  BY EmplacedAt
<1>. DEFINE S == ListsOf(queue, fs)  T == ListsOf(queue', fs)
<1>3. /\ DOMAIN S = 0..Len(fs) /\ DOMAIN S[0] = 1..Len(queue)
      /\ DOMAIN T = 0..Len(fs) /\ DOMAIN T[0] = 1..Len(queue) + 1
      /\ \A n \in 1..Len(queue) : S[0][n] = queue[n].job
      /\ \A n \in 1..Len(queue) + 1 : T[0][n] = queue'[n].job
      /\ \A l \in 1..Len(fs) : T[l] = S[l]
      /\ Len(fs) \in Nat
  BY <1>2, ListsAre
<1>. HIDE DEF S, T
<1>4. T[0][k + 1] = j
  BY <1>1, <1>2, <1>3 DEF EmplacedAfter
<1>5. ASSUME NEW i \in 1..k PROVE T[0][i] = S[0][i]
  <2>1. i \in 1..Len(queue) /\ i \in 1..Len(queue) + 1
    BY <1>2
  <2>2. queue'[i] = queue[i]
    BY <1>1 DEF EmplacedAfter
  <2>. QED BY <1>3, <2>1, <2>2
<1>6. ASSUME NEW i \in k + 1..Len(queue) PROVE T[0][i + 1] = S[0][i]
  <2>1. i + 1 \in k + 2..Len(queue) + 1 /\ (i + 1) - 1 = i /\ i \in 1..Len(queue) /\ i + 1 \in 1..Len(queue) + 1
    BY <1>2
  <2>2. queue'[i + 1] = queue[(i + 1) - 1]
    BY <1>1, <2>1 DEF EmplacedAfter
  <2>. QED BY <1>3, <2>1, <2>2
<1>7. PutIn(S[0], T[0], k, j)
  BY <1>2, <1>3, <1>4, <1>5, <1>6 DEF PutIn
<1>8. \A l \in DOMAIN S : l # 0 => T[l] = S[l]
  BY <1>3
<1>. QED BY <1>2, <1>3, <1>7, <1>8 DEF Inserted, S, T

\* The innermost callback gains or loses a job.
LEMMA TopList ==
  ASSUME NEW q \in Seq(Entry), NEW fs \in Seq(Frame), fs # <<>>, NEW gs \in Seq(Frame),
         Len(gs) = Len(fs), \A k \in 2..Len(fs) : gs[k] = fs[k],
         NEW k \in Nat, NEW x, PutIn(Held(fs[1]), Held(gs[1]), k, x)
  PROVE  Inserted(ListsOf(q, fs), ListsOf(q, gs), 1, k, x)
<1>. DEFINE S == ListsOf(q, fs)  T == ListsOf(q, gs)
<1>0. Len(fs) \in Nat /\ 1 \in 1..Len(fs) /\ 1 \in 0..Len(fs)
  OBVIOUS
<1>1. /\ DOMAIN S = 0..Len(fs) /\ DOMAIN T = 0..Len(fs)
      /\ \A l \in 1..Len(fs) : S[l] = Held(fs[l]) /\ T[l] = Held(gs[l])
  BY ListsAre
<1>2. S[0] = T[0]
  BY <1>0 DEF ListsOf
<1>. HIDE DEF S, T
<1>3. PutIn(S[1], T[1], k, x)
  BY <1>0, <1>1
<1>4. ASSUME NEW l \in DOMAIN S, l # 1 PROVE T[l] = S[l]
  <2>1. l = 0 \/ l \in 2..Len(fs)
    BY <1>0, <1>1, <1>4
  <2>2. l \in 2..Len(fs) => l \in 1..Len(fs)
    BY <1>0
  <2>. QED BY <1>1, <1>2, <2>1, <2>2
<1>. QED BY <1>0, <1>1, <1>3, <1>4 DEF Inserted, S, T

\* A callback which changes its state only holds the same jobs.
LEMMA TopSame ==
  ASSUME NEW q \in Seq(Entry), NEW fs \in Seq(Frame), fs # <<>>, NEW gs \in Seq(Frame),
         Len(gs) = Len(fs), \A k \in 2..Len(fs) : gs[k] = fs[k], Held(gs[1]) = Held(fs[1])
  PROVE  ListsOf(q, gs) = ListsOf(q, fs)
<1>1. Len(fs) \in Nat
  OBVIOUS
<1>2. ASSUME NEW k \in 0..Len(fs), k # 0 PROVE Held(gs[k]) = Held(fs[k])
  <2>1. k = 1 \/ k \in 2..Len(fs)
    BY <1>1, <1>2
  <2>. QED BY <2>1
<1>. QED BY <1>2 DEF ListsOf

\* A callback which holds nothing may come or go.
LEMMA EmptyList ==
  ASSUME NEW q \in Seq(Entry), NEW fs \in Seq(Frame), NEW gs \in Seq(Frame), Len(gs) = Len(fs) + 1,
         Held(gs[1]) = <<>>, \A k \in 1..Len(fs) : gs[k + 1] = fs[k]
  PROVE  Cut(ListsOf(q, fs), ListsOf(q, gs), 0)
<1>. DEFINE S == ListsOf(q, fs)  T == ListsOf(q, gs)
<1>1. /\ DOMAIN S = 0..Len(fs) /\ DOMAIN T = 0..Len(fs) + 1
      /\ \A l \in 1..Len(fs) : S[l] = Held(fs[l])
      /\ \A l \in 1..Len(fs) + 1 : T[l] = Held(gs[l])
      /\ DOMAIN S[0] = 1..Len(q) /\ DOMAIN T[0] = 1..Len(q) /\ Len(fs) \in Nat /\ Len(q) \in Nat
      /\ \A n \in 1..Len(q) : S[0][n] = q[n].job /\ T[0][n] = q[n].job
  BY ListsAre
<1>. HIDE DEF S, T
<1>2. DOMAIN T[1] = 1..0
  BY <1>1
<1>3. \A l \in 1..Len(fs) : T[l + 1] = S[l]
  BY <1>1
<1>4. /\ \A i \in 1..Len(q) - 0 : T[0][i] = S[0][0 + i]
      /\ \A i \in 1..0 : T[1][i] = S[0][i]
  BY <1>1
<1>. QED BY <1>1, <1>2, <1>3, <1>4 DEF Cut, S, T

\* TimerCallback's jobs are no longer in the queue.
LEMMA TakenList ==
  ASSUME queue \in Seq(Entry), frames \in Seq(Frame), TakeDue, queue' \in Seq(Entry), frames' \in Seq(Frame)
  PROVE  ListsOf(queue', frames') = ListsOf(queue, frames)
         \/ \E c \in Nat : Cut(ListsOf(queue, frames), ListsOf(queue', frames'), c)
<1>1. PICK c \in 0..Len(queue) :
        /\ queue' = SubSeq(queue, c + 1, Len(queue))
        /\ frames' = IF c = 0 THEN frames
                     ELSE <<Called([i \in 1..c |-> queue[i].job], FALSE)>> \o frames
  BY DEF TakeDue
<1>2. /\ Len(queue') = Len(queue) - c /\ Len(queue) \in Nat /\ c \in Nat
      /\ \A n \in 1..Len(queue) - c : queue'[n] = queue[c + n]
  BY <1>1
<1>3. CASE c = 0
  <2>1. queue' = queue
    BY <1>1, <1>3
  <2>. QED BY <1>1, <1>3, <2>1
<1>4. CASE c # 0
  <2>. DEFINE js == [i \in 1..c |-> queue[i].job]
              f == Called(js, FALSE)
  <2>1. js \in Seq(Jobs)
    <3>1. ASSUME NEW i \in 1..c PROVE queue[i].job \in Jobs
      <4>1. i \in DOMAIN queue /\ queue[i] \in Entry
        BY <1>2
      <4>. QED BY <4>1 DEF Entry
    <3>. QED BY <3>1
  <2>2. DOMAIN js = 1..c /\ \A i \in 1..c : js[i] = queue[i].job
    OBVIOUS
  <2>3. frames' = <<f>> \o frames
    BY <1>1, <1>4
  <2>. HIDE DEF js
  <2>4. f \in Frame /\ f.items = js /\ f.kept = <<>>
    BY <2>1, CalledType
  <2>. HIDE DEF f
  <2>5. Held(f) = js
    BY <2>1, <2>4 DEF Held
  <2>6. /\ Len(frames') = Len(frames) + 1 /\ Len(frames) \in Nat
        /\ frames'[1] = f /\ \A k \in 1..Len(frames) : frames'[k + 1] = frames[k]
    BY <2>3
  <2>. DEFINE S == ListsOf(queue, frames)  T == ListsOf(queue', frames')
  <2>7. /\ DOMAIN S = 0..Len(frames) /\ DOMAIN T = 0..Len(frames) + 1
        /\ \A l \in 1..Len(frames) : S[l] = Held(frames[l])
        /\ \A l \in 1..Len(frames) + 1 : T[l] = Held(frames'[l])
        /\ DOMAIN S[0] = 1..Len(queue) /\ DOMAIN T[0] = 1..Len(queue) - c
        /\ \A n \in 1..Len(queue) : S[0][n] = queue[n].job
        /\ \A n \in 1..Len(queue) - c : T[0][n] = queue'[n].job
    BY <1>2, <2>6, ListsAre
  <2>. HIDE DEF S, T
  <2>8. \A l \in 1..Len(frames) : T[l + 1] = S[l]
    BY <2>6, <2>7
  <2>9. T[1] = js
    BY <2>5, <2>6, <2>7
  <2>10. ASSUME NEW i \in 1..Len(queue) - c PROVE T[0][i] = S[0][c + i]
    <3>1. c + i \in 1..Len(queue)
      BY <1>2
    <3>. QED BY <1>2, <2>7, <3>1
  <2>11. ASSUME NEW i \in 1..c PROVE T[1][i] = S[0][i]
    <3>1. i \in 1..Len(queue)
      BY <1>2
    <3>. QED BY <2>2, <2>7, <2>9, <3>1
  <2>12. Cut(S, T, c)
    BY <1>2, <2>2, <2>6, <2>7, <2>8, <2>9, <2>10, <2>11 DEF Cut
  <2>. QED BY <1>2, <2>12 DEF S, T
<1>. QED BY <1>3, <1>4

-----------------------------------------------------------------------------
Lists == ListsOf(queue, frames)
Placed == Fit(outcome, Lists)

\* The innermost callback goes on to f, and the others stay as they are.
LEMMA BecomesOne ==
  ASSUME frames \in Seq(Frame), frames # <<>>, NEW f \in Frame, Becomes(f)
  PROVE  /\ frames' \in Seq(Frame) /\ frames' # <<>> /\ Len(frames') = Len(frames)
         /\ frames'[1] = f /\ \A k \in 2..Len(frames) : frames'[k] = frames[k]
BY DEF Becomes

\* A new callback, and one which ends.
LEMMA PushedOne ==
  ASSUME NEW fs \in Seq(Frame), NEW f \in Frame
  PROVE  /\ <<f>> \o fs \in Seq(Frame) /\ <<f>> \o fs # <<>> /\ Len(<<f>> \o fs) = Len(fs) + 1
         /\ (<<f>> \o fs)[1] = f /\ \A k \in 1..Len(fs) : (<<f>> \o fs)[k + 1] = fs[k]
OBVIOUS

\* A job which is in no list is called at once.
LEMMA FitCall ==
  ASSUME queue \in Seq(Entry), frames \in Seq(Frame), NEW oc, DOMAIN oc = Jobs, Fit(oc, Lists),
         NEW j \in Jobs, j \in Startup \/ oc[j] \notin Pending, frames' = <<Called(<<j>>, TRUE)>> \o frames
  PROVE  Fit([oc EXCEPT ![j] = "queued"], ListsOf(queue, frames'))
<1>. DEFINE none == <<>>  js == <<j>>
<1>1. none \in Seq(Jobs) /\ js \in Seq(Jobs)
  OBVIOUS
<1>2. Len(js) = 1 /\ js[1] = j
  OBVIOUS
<1>3. Len(none) = 0
  OBVIOUS
<1>. HIDE DEF none, js
<1>. DEFINE e == Called(none, TRUE)  f == Called(js, TRUE)
<1>4. e \in Frame /\ e.items = none /\ e.kept = <<>> /\ f \in Frame /\ f.items = js /\ f.kept = <<>>
  BY <1>1, CalledType
<1>. HIDE DEF e, f
<1>5. Held(e) = <<>> /\ Held(f) = js
  BY <1>1, <1>3, <1>4 DEF Held
<1>. DEFINE es == <<e>> \o frames
<1>6. /\ es \in Seq(Frame) /\ es # <<>> /\ Len(es) = Len(frames) + 1 /\ es[1] = e
      /\ \A k \in 1..Len(frames) : es[k + 1] = frames[k]
  BY <1>4, PushedOne
<1>7. /\ frames' \in Seq(Frame) /\ frames' # <<>> /\ Len(frames') = Len(frames) + 1 /\ frames'[1] = f
      /\ \A k \in 1..Len(frames) : frames'[k + 1] = frames[k]
  <2>. DEFINE fs == <<f>> \o frames
  <2>1. /\ fs \in Seq(Frame) /\ fs # <<>> /\ Len(fs) = Len(frames) + 1 /\ fs[1] = f
        /\ \A k \in 1..Len(frames) : fs[k + 1] = frames[k]
    BY <1>4, PushedOne
  <2>2. frames' = fs
    BY DEF f, js
  <2>. HIDE DEF fs
  <2>. QED BY <2>1, <2>2
<1>. HIDE DEF es
<1>8. Fit(oc, ListsOf(queue, es))
  <2>1. Cut(Lists, ListsOf(queue, es), 0)
    BY <1>5, <1>6, EmptyList DEF Lists
  <2>. QED BY <2>1, CutPlaces, FitSame
<1>9. Inserted(ListsOf(queue, es), ListsOf(queue, frames'), 1, 0, j)
  <2>1. ASSUME NEW k \in 2..Len(es) PROVE frames'[k] = es[k]
    <3>1. k - 1 \in 1..Len(frames) /\ (k - 1) + 1 = k
      BY <1>6
    <3>2. frames'[(k - 1) + 1] = frames[k - 1] /\ es[(k - 1) + 1] = frames[k - 1]
      BY <1>6, <1>7, <3>1
    <3>. QED BY <3>1, <3>2
  <2>2. PutIn(Held(es[1]), Held(frames'[1]), 0, j)
    <3>1. js # <<>> /\ Head(js) = j
      BY DEF js
    <3>2. Tail(js) = none
      BY <1>2 DEF js, none
    <3>3. PutIn(Held(e), Held(f), 0, Head(f.items))
      BY <1>4, <3>1, <3>2, HeldTail
    <3>. QED BY <1>4, <1>6, <1>7, <3>1, <3>3
  <2>. QED BY <1>6, <1>7, <2>1, <2>2, TopList
<1>. QED BY <1>8, <1>9, FitGain DEF Pending

\* The innermost callback lets go of the job x.
LEMMA FitRelease ==
  ASSUME queue \in Seq(Entry), frames \in Seq(Frame), frames # <<>>, Placed, DOMAIN outcome = Jobs,
         NEW g \in Frame, Becomes(g), NEW x \in Jobs, PutIn(Held(g), Held(Top), 0, x),
         NEW r, x \in Startup \/ r \notin Pending
  PROVE  /\ Fit([outcome EXCEPT ![x] = r], ListsOf(queue, frames'))
         /\ x \in Startup \/ outcome[x] \in Pending
<1>1. /\ frames' \in Seq(Frame) /\ frames' # <<>> /\ Len(frames') = Len(frames)
      /\ frames'[1] = g /\ \A k \in 2..Len(frames) : frames'[k] = frames[k]
  BY BecomesOne
<1>2. Inserted(ListsOf(queue, frames'), Lists, 1, 0, x)
  BY <1>1, TopList DEF Lists, Top
<1>. QED BY <1>2, FitLoss DEF Placed

-----------------------------------------------------------------------------
\* A job which a thread is to submit, or a connection to run, is in no list.
LEMMA NewIsNowhere ==
  ASSUME TypeInv, TodoOnce, NEW h \in Threads, todo[h] # <<>>
  PROVE  Head(todo[h]) \in Jobs /\ outcome[Head(todo[h])] \notin Pending
<1>1. Head(todo[h]) \in Jobs /\ Head(todo[h]) = todo[h][1] /\ 1 \in DOMAIN todo[h]
  BY HeadOfTodo
<1>. QED BY <1>1 DEF TodoOnce, Pending

\* TypeInv as the proofs below need it.
LEMMA PlaceTypes ==
  ASSUME TypeInv
  PROVE  /\ MaxTime \in Nat /\ queue \in Seq(Entry) /\ frames \in Seq(Frame)
         /\ outcome \in [Jobs -> Pending \union {"new", "ran", "busy", "dropped"}]
         /\ DOMAIN outcome = Jobs
         /\ \A j \in Jobs : Before[j] \in Time /\ Between[j] \in Time
         /\ 0 \in Time /\ Reconnect \in Time /\ Main \in Threads
         /\ Startup \subseteq Jobs /\ \A j \in Startup : FuncOf[j] \in Jobs \ Startup
BY QueueConstants DEF QueueConstants, TypeInv, TypeOK, Time

\* In a step which leaves the lists alone,
LEMMA SameLists ==
  ASSUME Placed, UNCHANGED <<queue, frames, outcome>>
  PROVE  Placed'
BY DEF Placed, Lists

\* in a call of runExcelThread,
LEMMA SubmitPlaced ==
  ASSUME TypeInv, TodoOnce, Placed, NEW h \in Threads, NEW j \in Jobs, CallNow(j) \/ Submit(h, j)
  PROVE  Placed'
<1>1. CASE CallNow(j)
  <2>1. /\ frames' = <<Called(<<j>>, TRUE)>> \o frames /\ UNCHANGED queue
        /\ outcome' = [outcome EXCEPT ![j] = "queued"] /\ j = Head(todo[Main]) /\ todo[Main] # <<>>
    BY <1>1 DEF CallNow
  <2>2. outcome[j] \notin Pending
    BY <2>1, PlaceTypes, NewIsNowhere
  <2>3. Fit(outcome', ListsOf(queue, frames'))
    BY <2>1, <2>2, PlaceTypes, FitCall DEF Placed
  <2>. QED BY <2>1, <2>3 DEF Placed, Lists
<1>2. CASE Submit(h, j)
  <2>1. /\ Emplace(j, Before[j]) /\ UNCHANGED frames
        /\ outcome' = [outcome EXCEPT ![j] = "queued"] /\ j = Head(todo[h]) /\ todo[h] # <<>>
    BY <1>2 DEF Submit
  <2>2. outcome[j] \notin Pending
    BY <2>1, NewIsNowhere
  <2>3. PICK k \in Nat : Inserted(ListsOf(queue, frames), ListsOf(queue', frames), 0, k, j)
    BY <2>1, PlaceTypes, EmplacedList
  <2>4. Fit(outcome', ListsOf(queue', frames))
    BY <2>1, <2>2, <2>3, PlaceTypes, FitGain DEF Placed, Lists, Pending
  <2>. QED BY <2>1, <2>4 DEF Placed, Lists
<1>. QED BY <1>1, <1>2

\* when the main thread takes what is due,
LEMMA TakePlaced ==
  ASSUME TypeInv, TypeInv', Placed, TakeDue, UNCHANGED outcome
  PROVE  Placed'
<1>1. queue \in Seq(Entry) /\ frames \in Seq(Frame) /\ queue' \in Seq(Entry) /\ frames' \in Seq(Frame)
  BY DEF TypeInv, TypeOK
<1>2. CASE ListsOf(queue', frames') = ListsOf(queue, frames)
  BY <1>2 DEF Placed, Lists
<1>3. ASSUME NEW c \in Nat, Cut(ListsOf(queue, frames), ListsOf(queue', frames'), c) PROVE Placed'
  <2>1. Fit(outcome, ListsOf(queue', frames'))
    BY <1>3, CutPlaces, FitSame DEF Placed, Lists
  <2>. QED BY <2>1 DEF Placed, Lists
<1>. QED BY <1>1, <1>2, <1>3, TakenList

\* when a callback asks whether COM is available, is at a job, or has tried all,
LEMMA MovePlaced ==
  ASSUME TypeInv, Placed, UNCHANGED <<queue, outcome>>, frames # <<>>,
         NEW f \in Frame, Becomes(f), f.items = Top.items, f.kept = Top.kept
  PROVE  Placed'
<1>1. queue \in Seq(Entry) /\ frames \in Seq(Frame)
  BY PlaceTypes
<1>2. /\ frames' \in Seq(Frame) /\ frames' # <<>> /\ Len(frames') = Len(frames)
      /\ frames'[1] = f /\ \A k \in 2..Len(frames) : frames'[k] = frames[k]
  BY <1>1, BecomesOne
<1>3. ListsOf(queue, frames') = ListsOf(queue, frames)
  BY <1>1, <1>2, TopSame DEF Held, Top
<1>. QED BY <1>3 DEF Placed, Lists

\* when it returns,
LEMMA ReturnPlaced ==
  ASSUME TypeInv, Placed, UNCHANGED <<queue, outcome>>, frames # <<>>,
         Top.items = <<>>, Top.kept = <<>>, frames' = Tail(frames)
  PROVE  Placed'
<1>1. queue \in Seq(Entry) /\ frames \in Seq(Frame)
  BY PlaceTypes
<1>2. /\ frames' \in Seq(Frame) /\ Len(frames) = Len(frames') + 1
      /\ \A k \in 1..Len(frames') : frames[k + 1] = frames'[k]
  BY <1>1
<1>3. Held(frames[1]) = <<>>
  BY DEF Held, Top
<1>4. Cut(ListsOf(queue, frames'), ListsOf(queue, frames), 0)
  BY <1>1, <1>2, <1>3, EmptyList
<1>5. Fit(outcome, ListsOf(queue, frames'))
  BY <1>4, CutPlaces, FitSame DEF Placed, Lists
<1>. QED BY <1>5 DEF Placed, Lists

\* when the job it is at is refused,
LEMMA RefusePlaced ==
  ASSUME TypeInv, Placed, Refuse
  PROVE  Placed'
<1>1. /\ frames # <<>> /\ Top.items # <<>> /\ UNCHANGED <<queue, outcome>>
      /\ Becomes([Top EXCEPT !.items = Tail(@), !.kept = Append(@, Job)])
  BY DEF Refuse
<1>. DEFINE f == [Top EXCEPT !.items = Tail(@), !.kept = Append(@, Job)]
            g == [Top EXCEPT !.items = Tail(@)]
            gs == [frames EXCEPT ![1] = g]
<1>2. Top \in Frame /\ Job \in Jobs /\ Tail(Top.items) \in Seq(Jobs) /\ Top.kept \in Seq(Jobs)
  BY <1>1, TopType
<1>3. Append(Top.kept, Job) \in Seq(Jobs)
  BY <1>2
<1>4. /\ f \in Frame /\ f.items = Tail(Top.items) /\ f.kept = Append(Top.kept, Job)
      /\ g \in Frame /\ g.items = Tail(Top.items) /\ g.kept = Top.kept
  BY <1>2, <1>3 DEF Frame
<1>5. Becomes(f)
  BY <1>1
<1>. HIDE DEF f, g
<1>6. queue \in Seq(Entry) /\ frames \in Seq(Frame) /\ DOMAIN outcome = Jobs
  BY PlaceTypes
<1>7. /\ gs \in Seq(Frame) /\ gs # <<>> /\ Len(gs) = Len(frames)
      /\ gs[1] = g /\ \A k \in 2..Len(frames) : gs[k] = frames[k]
  BY <1>1, <1>4, <1>6
<1>8. /\ frames' \in Seq(Frame) /\ frames' # <<>> /\ Len(frames') = Len(frames)
      /\ frames'[1] = f /\ \A k \in 2..Len(frames) : frames'[k] = frames[k]
  BY <1>1, <1>4, <1>5, <1>6, BecomesOne
<1>. HIDE DEF gs
<1>9. Inserted(ListsOf(queue, gs), Lists, 1, 0, Job)
  <2>1. PutIn(Held(g), Held(Top), 0, Job)
    BY <1>1, <1>2, <1>4, HeldTail DEF Job
  <2>. QED BY <1>1, <1>6, <1>7, <2>1, TopList DEF Lists, Top
<1>10. /\ Fit([outcome EXCEPT ![Job] = "ran"], ListsOf(queue, gs))
       /\ Job \in Startup \/ outcome[Job] \in Pending
  BY <1>2, <1>6, <1>9, FitLoss DEF Placed, Pending
<1>11. PICK k \in Nat : Inserted(ListsOf(queue, gs), ListsOf(queue, frames'), 1, k, Job)
  <2>1. PutIn(Held(g), Held(f), Len(g.items) + Len(g.kept), Job)
    BY <1>2, <1>4, HeldKept
  <2>2. Len(g.items) + Len(g.kept) \in Nat
    <3>. DEFINE a == Len(g.items)  b == Len(g.kept)
    <3>1. a \in Nat /\ b \in Nat
      BY <1>4, HeldIs
    <3>. HIDE DEF a, b
    <3>2. a + b \in Nat
      BY <3>1
    <3>. QED BY <3>2 DEF a, b
  <2>. QED BY <1>6, <1>7, <1>8, <2>1, <2>2, TopList
<1>. DEFINE oc == [outcome EXCEPT ![Job] = "ran"]
<1>12. /\ DOMAIN oc = Jobs /\ oc[Job] = "ran"
       /\ [oc EXCEPT ![Job] = outcome[Job]] = outcome
  BY <1>2, PlaceTypes
<1>13. Fit(oc, ListsOf(queue, gs))
  BY <1>10
<1>. HIDE DEF oc
<1>14. Fit([oc EXCEPT ![Job] = outcome[Job]], ListsOf(queue, frames'))
  BY <1>2, <1>10, <1>11, <1>12, <1>13, FitGain DEF Pending
<1>. QED BY <1>1, <1>12, <1>14 DEF Placed, Lists

\* when the job returns, or has submitted itself again as it could not connect,
LEMMA FinishPlaced ==
  ASSUME TypeInv, Placed, Finish \/ ConnectFails
  PROVE  Placed'
<1>1. frames # <<>> /\ Top.at = "body" /\ Becomes([Top EXCEPT !.at = "run", !.items = Tail(@)])
  BY DEF Finish, ConnectFails, Starting, Calm
<1>. DEFINE g == [Top EXCEPT !.at = "run", !.items = Tail(@)]
<1>2. /\ Top \in Frame /\ Top.items # <<>> /\ Job \in Jobs /\ Tail(Top.items) \in Seq(Jobs)
  BY <1>1, TopType
<1>3. g \in Frame /\ g.items = Tail(Top.items) /\ g.kept = Top.kept /\ Becomes(g)
  BY <1>1, <1>2 DEF Frame
<1>. HIDE DEF g
<1>4. PutIn(Held(g), Held(Top), 0, Job)
  BY <1>2, <1>3, HeldTail DEF Job
<1>5. queue \in Seq(Entry) /\ frames \in Seq(Frame) /\ DOMAIN outcome = Jobs
  BY PlaceTypes
<1>6. CASE Finish
  <2>1. PICK r \in {"ran", "busy"} : outcome' = [outcome EXCEPT ![Job] = r]
    BY <1>6 DEF Finish
  <2>2. UNCHANGED queue
    BY <1>6 DEF Finish
  <2>3. Fit([outcome EXCEPT ![Job] = r], ListsOf(queue, frames'))
    BY <1>1, <1>2, <1>3, <1>4, <1>5, FitRelease DEF Pending
  <2>. QED BY <2>1, <2>2, <2>3 DEF Placed, Lists
<1>7. CASE ConnectFails
  <2>1. Job \in Startup /\ Emplace(Job, Reconnect) /\ UNCHANGED outcome
    BY <1>7 DEF ConnectFails, Starting
  <2>2. [outcome EXCEPT ![Job] = outcome[Job]] = outcome
    BY PlaceTypes
  <2>3. Fit(outcome, ListsOf(queue, frames'))
    <3>1. Fit([outcome EXCEPT ![Job] = outcome[Job]], ListsOf(queue, frames'))
      BY <1>1, <1>2, <1>3, <1>4, <1>5, <2>1, FitRelease
    <3>. QED BY <2>2, <3>1
  <2>4. frames' \in Seq(Frame)
    BY <1>1, <1>3, <1>5, BecomesOne
  <2>5. PICK k \in Nat : Inserted(ListsOf(queue, frames'), ListsOf(queue', frames'), 0, k, Job)
    BY <1>2, <1>5, <2>1, <2>4, PlaceTypes, EmplacedList
  <2>6. Fit([outcome EXCEPT ![Job] = outcome[Job]], ListsOf(queue', frames'))
    BY <1>2, <1>5, <2>1, <2>3, <2>5, FitGain
  <2>. QED BY <2>1, <2>2, <2>6 DEF Placed, Lists
<1>. QED BY <1>6, <1>7

\* when a refused job is put back or given up,
LEMMA PutBackPlaced ==
  ASSUME TypeInv, DoneTrying, Placed, PutBack
  PROVE  Placed'
<1>1. frames # <<>> /\ Top.at = "requeue" /\ Top.kept # <<>> /\ Becomes([Top EXCEPT !.kept = Tail(@)])
  BY DEF PutBack, Locked
<1>. DEFINE g == [Top EXCEPT !.kept = Tail(@)]
            j == Head(Top.kept)
            ms == IF Top.direct THEN 0 ELSE Between[j]
<1>2. /\ Top \in Frame /\ Top.kept \in Seq(Jobs) /\ j \in Jobs /\ Tail(Top.kept) \in Seq(Jobs)
  BY <1>1, TopType, HeadTailProperties
<1>3. g \in Frame /\ g.items = Top.items /\ g.kept = Tail(Top.kept) /\ Becomes(g)
  BY <1>1, <1>2 DEF Frame
<1>4. Top.items = <<>>
  <2>1. 1 \in DOMAIN frames
    BY <1>1, PlaceTypes
  <2>. QED BY <1>1, <2>1 DEF DoneTrying, Top
<1>5. queue \in Seq(Entry) /\ frames \in Seq(Frame) /\ DOMAIN outcome = Jobs
  BY PlaceTypes
<1>6. /\ ms \in Time
      /\ \/ Emplace(j, ms) /\ outcome' = [outcome EXCEPT ![j] = IF Top.direct THEN outcome[j] ELSE "retried"]
         \/ UNCHANGED queue /\ outcome' = [outcome EXCEPT ![j] = "dropped"]
  BY <1>2, PlaceTypes DEF PutBack
<1>. HIDE DEF g, ms
<1>7. PutIn(Held(g), Held(Top), 0, j)
  BY <1>1, <1>2, <1>3, <1>4, HeldBack
<1>. HIDE DEF j
<1>8. frames' \in Seq(Frame)
  BY <1>1, <1>3, <1>5, BecomesOne
<1>. DEFINE oc == [outcome EXCEPT ![j] = "dropped"]
<1>9. /\ Fit(oc, ListsOf(queue, frames'))
      /\ j \in Startup \/ outcome[j] \in Pending
  BY <1>1, <1>2, <1>3, <1>5, <1>7, FitRelease DEF Pending
<1>10. DOMAIN oc = Jobs /\ oc[j] = "dropped" /\ \A r : [oc EXCEPT ![j] = r] = [outcome EXCEPT ![j] = r]
  BY <1>2, <1>5
<1>11. CASE UNCHANGED queue /\ outcome' = oc
  BY <1>9, <1>11 DEF Placed, Lists
<1>. HIDE DEF oc
<1>12. CASE Emplace(j, ms) /\ outcome' = [outcome EXCEPT ![j] = IF Top.direct THEN outcome[j] ELSE "retried"]
  <2>. DEFINE r == IF Top.direct THEN outcome[j] ELSE "retried"
  <2>1. j \in Startup \/ r \in Pending
    BY <1>9 DEF Pending
  <2>2. outcome' = [oc EXCEPT ![j] = r]
    BY <1>10, <1>12
  <2>. HIDE DEF r
  <2>3. PICK k \in Nat : Inserted(ListsOf(queue, frames'), ListsOf(queue', frames'), 0, k, j)
    BY <1>2, <1>5, <1>6, <1>8, <1>12, PlaceTypes, EmplacedList
  <2>4. Fit([oc EXCEPT ![j] = r], ListsOf(queue', frames'))
    BY <1>2, <1>9, <1>10, <2>1, <2>3, FitGain DEF Pending
  <2>. QED BY <2>2, <2>4 DEF Placed, Lists
<1>. QED BY <1>6, <1>11, <1>12 DEF oc

\* when the connection runs its function,
LEMMA ConnectPlaced ==
  ASSUME TypeInv, FuncWaits, Placed, Connect
  PROVE  Placed'
<1>1. /\ Job \in Startup /\ outcome[Job] # "ran" /\ UNCHANGED queue
      /\ outcome' = [outcome EXCEPT ![Job] = "ran", ![FuncOf[Job]] = "queued"]
      /\ frames' = <<Called(<<FuncOf[Job]>>, TRUE)>> \o frames
  BY DEF Connect, Starting
<1>. DEFINE oc == [outcome EXCEPT ![Job] = "ran"]
<1>2. FuncOf[Job] \in Jobs \ Startup /\ Job \in Jobs /\ Job # FuncOf[Job]
  BY <1>1, PlaceTypes
<1>3. outcome[FuncOf[Job]] = "new"
  BY <1>1 DEF FuncWaits
<1>4. DOMAIN oc = Jobs /\ oc[FuncOf[Job]] \notin Pending /\ \A j \in Jobs \ Startup : oc[j] = outcome[j]
  BY <1>1, <1>2, <1>3, PlaceTypes DEF Pending
<1>. DEFINE x == FuncOf[Job]
<1>5. /\ outcome' = [oc EXCEPT ![x] = "queued"] /\ x \in Jobs /\ oc[x] \notin Pending
      /\ frames' = <<Called(<<x>>, TRUE)>> \o frames
  BY <1>1, <1>2, <1>4
<1>. HIDE DEF oc
<1>6. Fit(oc, Lists)
  BY <1>4 DEF Placed, Fit
<1>. HIDE DEF x
<1>7. Fit(outcome', ListsOf(queue, frames'))
  BY <1>4, <1>5, <1>6, PlaceTypes, FitCall
<1>. QED BY <1>1, <1>7 DEF Placed, Lists

\* and when time passes.
LEMMA TickPlaced ==
  ASSUME TypeInv, Placed, Tick
  PROVE  Placed'
<1>1. DOMAIN queue' = DOMAIN queue /\ UNCHANGED <<frames, outcome>>
  BY DEF Tick
<1>2. ASSUME NEW k \in DOMAIN queue PROVE queue'[k].job = queue[k].job
  <2>1. queue[k] \in Entry
    BY PlaceTypes
  <2>. QED BY <2>1 DEF Tick, Entry
<1>3. Len(queue') = Len(queue) /\ DOMAIN queue = 1..Len(queue)
  <2>1. queue' = [k \in 1..Len(queue) |-> [queue[k] EXCEPT !.left = Less(@)]] /\ Len(queue) \in Nat
    BY PlaceTypes DEF Tick
  <2>. QED BY <2>1, PlaceTypes
<1>4. [n \in 1..Len(queue') |-> queue'[n].job] = [n \in 1..Len(queue) |-> queue[n].job]
  BY <1>2, <1>3
<1>5. ListsOf(queue', frames') = ListsOf(queue, frames)
  BY <1>1, <1>4 DEF ListsOf
<1>. QED BY <1>1, <1>5 DEF Placed, Lists

\* A callback comes to put jobs back only when it has tried them all.
LEMMA DoneTryingStep ==
  ASSUME TypeInv, DoneTrying, [Next]_vars
  PROVE  DoneTrying'
<1>a. frames \in Seq(Frame)
  BY PlaceTypes
<1>1. ASSUME NEW f \in Frame, f.at = "requeue" => f.items = <<>>,
             \A k \in DOMAIN frames' : frames'[k] = f \/ \E i \in DOMAIN frames : frames'[k] = frames[i]
      PROVE  DoneTrying'
  BY <1>1 DEF DoneTrying
<1>2. ASSUME frames' = Tail(frames), frames # <<>> PROVE DoneTrying'
  BY <1>a, <1>2, Left DEF DoneTrying
<1>3. CASE UNCHANGED frames
  BY <1>3 DEF DoneTrying
<1>4. ASSUME NEW js \in Seq(Jobs), NEW d \in BOOLEAN, frames' = <<Called(js, d)>> \o frames PROVE DoneTrying'
  <2>1. Called(js, d) \in Frame /\ Called(js, d).at = "check"
    BY CalledType
  <2>. QED BY <1>a, <1>1, <1>4, <2>1, Entered
<1>5. ASSUME NEW f \in Frame, frames # <<>>, Becomes(f), f.at = "requeue" => f.items = <<>> PROVE DoneTrying'
  BY <1>a, <1>1, <1>5, WentOn
<1>6. ASSUME frames # <<>> PROVE /\ Top \in Frame /\ Top.items \in Seq(Jobs) /\ Top.kept \in Seq(Jobs)
                                 /\ Top.items # <<>> => Job \in Jobs /\ Tail(Top.items) \in Seq(Jobs)
                                 /\ Top.at = "requeue" => Top.items = <<>>
  <2>1. 1 \in DOMAIN frames
    BY <1>a, <1>6
  <2>. QED BY <1>6, <2>1, TopType DEF DoneTrying, Top
<1>7. ASSUME NEW j \in Jobs, CallNow(j) PROVE DoneTrying'
  <2>1. <<j>> \in Seq(Jobs)
    OBVIOUS
  <2>. QED BY <1>4, <1>7, <2>1 DEF CallNow
<1>8. CASE TakeDue
  BY <1>a, <1>3, <1>4, <1>8, PlaceTypes, DueTaken
<1>9. CASE Check
  <2>. DEFINE f == [Top EXCEPT !.at = "run", !.com = Available]
  <2>1. frames # <<>> /\ Becomes(f)
    BY <1>9 DEF Check
  <2>2. f \in Frame /\ f.at = "run"
    BY <1>6, <2>1 DEF Frame, Available, TypeInv, TypeOK
  <2>. HIDE DEF f
  <2>. QED BY <1>5, <2>1, <2>2
<1>10. CASE Refuse
  <2>. DEFINE f == [Top EXCEPT !.items = Tail(@), !.kept = Append(@, Job)]
  <2>1. frames # <<>> /\ Top.at = "run" /\ Top.items # <<>> /\ Becomes(f)
    BY <1>10 DEF Refuse
  <2>2. Append(Top.kept, Job) \in Seq(Jobs)
    BY <1>6, <2>1
  <2>3. f \in Frame /\ f.at = "run"
    BY <1>6, <2>1, <2>2 DEF Frame
  <2>. HIDE DEF f
  <2>. QED BY <1>5, <2>1, <2>3
<1>11. CASE Run
  <2>. DEFINE f == [Top EXCEPT !.at = "body"]
  <2>1. frames # <<>> /\ Becomes(f)
    BY <1>11 DEF Run
  <2>2. f \in Frame /\ f.at = "body"
    BY <1>6, <2>1 DEF Frame
  <2>. HIDE DEF f
  <2>. QED BY <1>5, <2>1, <2>2
<1>12. CASE Tried
  <2>. DEFINE f == [Top EXCEPT !.at = "requeue"]
  <2>1. frames # <<>> /\ Top.items = <<>> /\ (frames' = Tail(frames) \/ Becomes(f))
    BY <1>12 DEF Tried
  <2>2. f \in Frame /\ f.items = <<>>
    BY <1>6, <2>1 DEF Frame
  <2>. HIDE DEF f
  <2>. QED BY <1>2, <1>5, <2>1, <2>2
<1>13. CASE PutBack
  <2>. DEFINE f == [Top EXCEPT !.kept = Tail(@)]
  <2>1. frames # <<>> /\ Top.at = "requeue" /\ Top.kept # <<>> /\ Becomes(f)
    BY <1>13 DEF PutBack, Locked
  <2>2. Tail(Top.kept) \in Seq(Jobs)
    BY <1>6, <2>1, HeadTailProperties
  <2>3. f \in Frame /\ f.items = <<>>
    BY <1>6, <2>1, <2>2 DEF Frame
  <2>. HIDE DEF f
  <2>. QED BY <1>5, <2>1, <2>3
<1>14. CASE Requeued
  BY <1>2, <1>14 DEF Requeued, Locked
<1>15. CASE Finish \/ ConnectFails
  <2>. DEFINE f == [Top EXCEPT !.at = "run", !.items = Tail(@)]
  <2>1. frames # <<>> /\ Top.at = "body" /\ Becomes(f)
    BY <1>15 DEF Finish, ConnectFails, Starting, Calm
  <2>2. f \in Frame /\ f.at = "run"
    BY <1>6, <2>1, TopType DEF Frame
  <2>. HIDE DEF f
  <2>. QED BY <1>5, <2>1, <2>2
<1>16. CASE Connect
  <2>1. Job \in Startup /\ frames' = <<Called(<<FuncOf[Job]>>, TRUE)>> \o frames
    BY <1>16 DEF Connect, Starting
  <2>2. FuncOf[Job] \in Jobs
    BY <2>1, PlaceTypes
  <2>3. <<FuncOf[Job]>> \in Seq(Jobs)
    BY <2>2
  <2>. QED BY <1>4, <2>1, <2>3
<1>. QED
  BY <1>3, <1>7, <1>8, <1>9, <1>10, <1>11, <1>12, <1>13, <1>14, <1>15, <1>16
  DEF Next, Callback, Submit, Arm, WindowMessage, TimerMessage, Tick, Busy, vars

\* No step loses or doubles a job.
LEMMA PlacedStep ==
  ASSUME TypeInv, TypeInv', QueueInv, DoneTrying, Placed, [Next]_vars
  PROVE  Placed'
<1>a. TodoOnce /\ FuncWaits /\ frames \in Seq(Frame)
  BY PlaceTypes DEF QueueInv
<1>b. Main \in Threads
  BY PlaceTypes
<1>1. ASSUME NEW j \in Jobs, CallNow(j) PROVE Placed'
  BY <1>a, <1>b, <1>1, SubmitPlaced
<1>2. ASSUME NEW h \in Threads, NEW j \in Jobs, Submit(h, j) PROVE Placed'
  BY <1>a, <1>2, SubmitPlaced
<1>3. CASE WindowMessage \/ TimerMessage
  BY <1>3, TakePlaced DEF WindowMessage, TimerMessage
<1>4. CASE Check
  <2>. DEFINE f == [Top EXCEPT !.at = "run", !.com = Available]
  <2>1. frames # <<>> /\ Becomes(f) /\ UNCHANGED <<queue, outcome>>
    BY <1>4 DEF Check
  <2>2. f \in Frame /\ f.items = Top.items /\ f.kept = Top.kept
    BY <2>1, TopType DEF Frame, Available, TypeInv, TypeOK
  <2>. HIDE DEF f
  <2>. QED BY <2>1, <2>2, MovePlaced
<1>5. CASE Run
  <2>. DEFINE f == [Top EXCEPT !.at = "body"]
  <2>1. frames # <<>> /\ Becomes(f) /\ UNCHANGED <<queue, outcome>>
    BY <1>5 DEF Run
  <2>2. f \in Frame /\ f.items = Top.items /\ f.kept = Top.kept
    BY <2>1, TopType DEF Frame
  <2>. HIDE DEF f
  <2>. QED BY <2>1, <2>2, MovePlaced
<1>6. CASE Tried
  <2>. DEFINE f == [Top EXCEPT !.at = "requeue"]
  <2>1. /\ frames # <<>> /\ Top.items = <<>> /\ UNCHANGED <<queue, outcome>>
        /\ (Top.kept = <<>> /\ frames' = Tail(frames)) \/ Becomes(f)
    BY <1>6 DEF Tried
  <2>2. f \in Frame /\ f.items = Top.items /\ f.kept = Top.kept
    BY <2>1, TopType DEF Frame
  <2>. HIDE DEF f
  <2>. QED BY <2>1, <2>2, MovePlaced, ReturnPlaced
<1>7. CASE Requeued
  <2>1. /\ frames # <<>> /\ Top.at = "requeue" /\ Top.kept = <<>> /\ frames' = Tail(frames)
        /\ UNCHANGED <<queue, outcome>>
    BY <1>7 DEF Requeued, Locked
  <2>2. 1 \in DOMAIN frames
    BY <1>a, <2>1
  <2>3. Top.items = <<>>
    BY <2>1, <2>2 DEF DoneTrying, Top
  <2>. QED BY <2>1, <2>3, ReturnPlaced
<1>8. CASE Refuse \/ Finish \/ ConnectFails \/ PutBack \/ Connect \/ Tick
  BY <1>a, <1>8, RefusePlaced, FinishPlaced, PutBackPlaced, ConnectPlaced, TickPlaced
<1>9. ASSUME NEW h \in Threads, Arm(h) PROVE Placed'
  BY <1>9, SameLists DEF Arm
<1>10. CASE Busy \/ UNCHANGED vars
  BY <1>10, SameLists DEF Busy, vars
<1>. QED BY <1>1, <1>2, <1>3, <1>4, <1>5, <1>6, <1>7, <1>8, <1>9, <1>10 DEF Next, Callback

-----------------------------------------------------------------------------
\* A set of which it is known what it has at most one of.
LEMMA OfOne ==
  ASSUME NEW A, NEW a, \A x \in A : x = a, a \in A
  PROVE  Cardinality(A) = 1
<1>1. A = {a}
  OBVIOUS
<1>. QED BY <1>1, FS_Singleton

LEMMA OfNone ==
  ASSUME NEW A, \A x \in A : FALSE
  PROVE  Cardinality(A) = 0
<1>1. A = {}
  OBVIOUS
<1>. QED BY <1>1, FS_EmptySet

\* The places of OnePlace are those of the lists.
LEMMA PlacesAt ==
  ASSUME queue \in Seq(Entry), frames \in Seq(Frame), NEW j
  PROVE  /\ \A n \in Nat : n \in InQueue(j) <=> At(Lists, j, 0, n)
         /\ \A p \in InFrames(j) : \E k, n \in Nat : p = <<k, n>> /\ k # 0 /\ At(Lists, j, k, n)
         /\ \A k, n \in Nat : k # 0 /\ At(Lists, j, k, n) => <<k, n>> \in InFrames(j)
         /\ InQueue(j) \subseteq Nat
<1>1. /\ DOMAIN Lists = 0..Len(frames) /\ Len(frames) \in Nat
      /\ DOMAIN Lists[0] = 1..Len(queue) /\ Len(queue) \in Nat
      /\ \A n \in 1..Len(queue) : Lists[0][n] = queue[n].job
      /\ \A k \in 1..Len(frames) : Lists[k] = Held(frames[k])
      /\ DOMAIN queue = 1..Len(queue) /\ DOMAIN frames = 1..Len(frames)
  BY ListsAre DEF Lists
<1>2. ASSUME NEW k \in 1..Len(frames)
      PROVE  \A n : n \in InFrame(j, frames[k]) <=> n \in DOMAIN Lists[k] /\ Lists[k][n] = j
  <2>. DEFINE f == frames[k]  a == Len(f.items)  b == Len(f.kept)
  <2>1. f \in Frame
    BY <1>1
  <2>. HIDE DEF f
  <2>2. /\ DOMAIN Held(f) = 1..a + b /\ a \in Nat /\ b \in Nat
        /\ DOMAIN f.items = 1..a /\ DOMAIN f.kept = 1..b
        /\ \A i \in 1..a : Held(f)[i] = f.items[i]
        /\ \A i \in 1..b : Held(f)[a + i] = f.kept[i]
    <3>1. f.items \in Seq(Jobs) /\ f.kept \in Seq(Jobs)
      BY <2>1, HeldIs
    <3>2. a \in Nat /\ b \in Nat /\ DOMAIN f.items = 1..a /\ DOMAIN f.kept = 1..b
      BY <3>1
    <3>3. DOMAIN Held(f) = 1..a + b /\ \A i \in 1..a : Held(f)[i] = f.items[i]
      BY <2>1, HeldIs
    <3>4. \A i \in 1..b : Held(f)[a + i] = f.kept[i]
      BY <2>1, HeldIs
    <3>. HIDE DEF a, b
    <3>. QED BY <3>2, <3>3, <3>4
  <2>3. InFrame(j, f) = {i \in 1..a : f.items[i] = j} \union {a + i : i \in {i \in 1..b : f.kept[i] = j}}
    BY <2>2 DEF InFrame
  <2>. HIDE DEF a, b
  <2>4. ASSUME NEW n \in InFrame(j, f) PROVE n \in DOMAIN Held(f) /\ Held(f)[n] = j
    <3>1. CASE n \in 1..a /\ f.items[n] = j
      BY <2>2, <3>1
    <3>2. ASSUME NEW i \in 1..b, n = a + i, f.kept[i] = j PROVE n \in DOMAIN Held(f) /\ Held(f)[n] = j
      BY <2>2, <3>2
    <3>. QED BY <2>3, <3>1, <3>2
  <2>5. ASSUME NEW n \in DOMAIN Held(f), Held(f)[n] = j PROVE n \in InFrame(j, f)
    <3>1. CASE n <= a
      <4>1. n \in 1..a
        BY <2>2, <3>1
      <4>. QED BY <2>2, <2>3, <2>5, <4>1
    <3>2. CASE n > a
      <4>. DEFINE i == n - a
      <4>1. i \in 1..b /\ n = a + i
        BY <2>2, <3>2
      <4>. HIDE DEF i
      <4>2. f.kept[i] = j
        BY <2>2, <2>5, <4>1
      <4>. QED BY <2>3, <4>1, <4>2
    <3>. QED BY <2>2, <3>1, <3>2
  <2>6. Lists[k] = Held(f)
    BY <1>1 DEF f
  <2>. QED BY <2>4, <2>5, <2>6 DEF f
<1>3. ASSUME NEW n \in Nat PROVE n \in InQueue(j) <=> At(Lists, j, 0, n)
  BY <1>1 DEF InQueue, At
<1>4. ASSUME NEW p \in InFrames(j)
      PROVE  \E k, n \in Nat : p = <<k, n>> /\ k # 0 /\ At(Lists, j, k, n)
  <2>1. PICK k \in 1..Len(frames) : p \in {k} \X InFrame(j, frames[k])
    BY <1>1 DEF InFrames
  <2>2. PICK n \in InFrame(j, frames[k]) : p = <<k, n>>
    BY <2>1
  <2>3. n \in DOMAIN Lists[k] /\ Lists[k][n] = j
    BY <1>2
  <2>4. n \in Nat
    <3>1. frames[k] \in Frame
      BY <1>1
    <3>2. DOMAIN Lists[k] = 1..Len(Held(frames[k])) /\ Len(Held(frames[k])) \in Nat
      BY <1>1, <3>1, HeldIs
    <3>. QED BY <2>3, <3>2
  <2>5. k \in Nat /\ k # 0 /\ k \in DOMAIN Lists
    BY <1>1
  <2>. QED BY <2>2, <2>3, <2>4, <2>5 DEF At
<1>5. ASSUME NEW k \in Nat, NEW n \in Nat, k # 0, At(Lists, j, k, n) PROVE <<k, n>> \in InFrames(j)
  <2>1. k \in 1..Len(frames)
    BY <1>1, <1>5 DEF At
  <2>2. n \in InFrame(j, frames[k])
    BY <1>2, <1>5, <2>1 DEF At
  <2>. QED BY <1>1, <2>1, <2>2 DEF InFrames
<1>6. InQueue(j) \subseteq Nat
  BY <1>1 DEF InQueue
<1>. QED BY <1>3, <1>4, <1>5, <1>6

\* What Placed says of the lists, OnePlace says with cardinalities.
LEMMA PlacedOne ==
  ASSUME TypeInv, Placed
  PROVE  OnePlace
<1> SUFFICES ASSUME NEW j \in Jobs \ Startup
             PROVE  Cardinality(InQueue(j)) + Cardinality(InFrames(j)) = IF outcome[j] \in Pending THEN 1 ELSE 0
  BY DEF OnePlace
<1>1. queue \in Seq(Entry) /\ frames \in Seq(Frame)
  BY PlaceTypes
<1>2. /\ \A n \in Nat : n \in InQueue(j) <=> At(Lists, j, 0, n)
      /\ \A p \in InFrames(j) : \E k, n \in Nat : p = <<k, n>> /\ k # 0 /\ At(Lists, j, k, n)
      /\ \A k, n \in Nat : k # 0 /\ At(Lists, j, k, n) => <<k, n>> \in InFrames(j)
      /\ InQueue(j) \subseteq Nat
  BY <1>1, PlacesAt
<1>3. CASE outcome[j] \notin Pending
  <2>1. Nowhere(Lists, j)
    BY <1>3 DEF Placed, Fit
  <2>2. \A n \in InQueue(j) : FALSE
    BY <1>2, <2>1 DEF Nowhere
  <2>3. \A p \in InFrames(j) : FALSE
    BY <1>2, <2>1 DEF Nowhere
  <2>4. Cardinality(InQueue(j)) = 0 /\ Cardinality(InFrames(j)) = 0
    BY <2>2, <2>3, OfNone
  <2>. QED BY <1>3, <2>4
<1>4. CASE outcome[j] \in Pending
  <2>1. PICK k, n \in Nat : At(Lists, j, k, n) /\ \A l, m \in Nat : At(Lists, j, l, m) => l = k /\ m = n
    BY <1>4 DEF Placed, Fit, Once
  <2>2. CASE k = 0
    <3>1. n \in InQueue(j) /\ \A m \in InQueue(j) : m = n
      BY <1>2, <2>1, <2>2
    <3>2. \A p \in InFrames(j) : FALSE
      BY <1>2, <2>1, <2>2
    <3>3. Cardinality(InQueue(j)) = 1 /\ Cardinality(InFrames(j)) = 0
      BY <3>1, <3>2, OfOne, OfNone
    <3>. QED BY <1>4, <3>3
  <2>3. CASE k # 0
    <3>1. \A m \in InQueue(j) : FALSE
      BY <1>2, <2>1, <2>3
    <3>2. <<k, n>> \in InFrames(j) /\ \A p \in InFrames(j) : p = <<k, n>>
      BY <1>2, <2>1, <2>3
    <3>3. Cardinality(InQueue(j)) = 0 /\ Cardinality(InFrames(j)) = 1
      BY <3>1, <3>2, OfOne, OfNone
    <3>. QED BY <1>4, <3>3
  <2>. QED BY <2>2, <2>3
<1>. QED BY <1>3, <1>4

\* At first every list is empty.
LEMMA PlacedInit == Init => DoneTrying /\ Placed
<1> SUFFICES ASSUME Init PROVE DoneTrying /\ Placed
  OBVIOUS
<1>1. queue = <<>> /\ frames = <<>> /\ \A j \in Jobs : outcome[j] = "new"
  BY DEF Init
<1>2. DoneTrying
  BY <1>1 DEF DoneTrying
<1>3. DOMAIN Lists = 0..0 /\ DOMAIN Lists[0] = 1..0
  BY <1>1 DEF Lists, ListsOf
<1>4. \A j : Nowhere(Lists, j)
  BY <1>3 DEF Nowhere, At
<1>. QED BY <1>1, <1>2, <1>4 DEF Placed, Fit, Pending

\* With the types and QueueInv, Placed is inductive.
PlaceInv == TypeInv /\ QueueInv /\ DoneTrying /\ Placed

LEMMA PlaceInvStep == PlaceInv /\ [Next]_vars => PlaceInv'
<1> SUFFICES ASSUME PlaceInv, [Next]_vars PROVE PlaceInv'
  OBVIOUS
<1>1. TypeInv' /\ QueueInv'
  BY QueueInvStep DEF PlaceInv
<1>2. DoneTrying' /\ Placed'
  BY <1>1, DoneTryingStep, PlacedStep DEF PlaceInv
<1>. QED BY <1>1, <1>2 DEF PlaceInv

\* However callbacks nest and whatever Excel refuses, a job which has been submitted
\* is in the queue or with one callback, once, until it has run or is given up: no
\* batch that is put back, interrupted or run at once loses it or runs it twice.
THEOREM NoJobLost == Spec => []OnePlace
<1>1. Init => PlaceInv
  BY TypeInit, QueueInit, PlacedInit DEF PlaceInv
<1>2. PlaceInv => OnePlace
  BY PlacedOne DEF PlaceInv
<1>. QED BY <1>1, <1>2, PlaceInvStep, PTL DEF Spec

-----------------------------------------------------------------------------
(***************************************************************************)
(* InOrder. A job of another thread enters the queue once, behind those    *)
(* its thread submitted before it, and a batch is taken from the front.    *)
(***************************************************************************)
\* Job j is with callback f, to be tried or refused.
Holds(f, j) ==
  (\E i \in DOMAIN f.items : f.items[i] = j) \/ (\E i \in DOMAIN f.kept : f.kept[i] = j)

\* That is: it has a place there.
LEMMA HoldsPlace ==
  ASSUME NEW f \in Frame, NEW j
  PROVE  InFrame(j, f) = {} <=> ~Holds(f, j)
<1>1. f.kept \in Seq(Jobs)
  BY DEF Frame
<1>2. InFrame(j, f) = {} <=> /\ {i \in DOMAIN f.items : f.items[i] = j} = {}
                             /\ {Len(f.items) + i : i \in {i \in DOMAIN f.kept : f.kept[i] = j}} = {}
  BY DEF InFrame
<1>3. {Len(f.items) + i : i \in {i \in DOMAIN f.kept : f.kept[i] = j}} = {}
        <=> ~\E i \in DOMAIN f.kept : f.kept[i] = j
  OBVIOUS
<1>. QED BY <1>2, <1>3 DEF Holds

LEMMA HoldsPlaces ==
  ASSUME NEW fs \in Seq(Frame), NEW j
  PROVE  UNION {{k} \X InFrame(j, fs[k]) : k \in DOMAIN fs} = {}
           <=> \A k \in DOMAIN fs : ~Holds(fs[k], j)
<1>1. \A k \in DOMAIN fs : InFrame(j, fs[k]) = {} <=> ~Holds(fs[k], j)
  BY HoldsPlace
<1>2. UNION {{k} \X InFrame(j, fs[k]) : k \in DOMAIN fs} = {}
        <=> \A k \in DOMAIN fs : {k} \X InFrame(j, fs[k]) = {}
  OBVIOUS
<1>3. ASSUME NEW k \in DOMAIN fs PROVE {k} \X InFrame(j, fs[k]) = {} <=> InFrame(j, fs[k]) = {}
  <2>1. \A n \in InFrame(j, fs[k]) : <<k, n>> \in {k} \X InFrame(j, fs[k])
    OBVIOUS
  <2>2. \A p \in {k} \X InFrame(j, fs[k]) : p[2] \in InFrame(j, fs[k])
    OBVIOUS
  <2>. QED BY <2>1, <2>2
<1>. QED BY <1>1, <1>2, <1>3

\* What becomes of a callback: it keeps its jobs, puts one aside or loses one.
Within(f, g) ==
  /\ f.direct = g.direct
  /\ \A j : Holds(f, j) => Holds(g, j)
  /\ f.items = g.items \/ (g.items # <<>> /\ f.items = Tail(g.items))

\* A callback of one job which is run at once, or of the jobs which are due.
AtOnce(f) ==
  \E j \in Jobs : f = Called(<<j>>, TRUE) /\ (CallNow(j) \/ (Connect /\ j = FuncOf[Job]))
Batch(f) ==
  \E k \in 0..Len(queue) :
    /\ k # 0
    /\ f = Called([i \in 1..k |-> queue[i].job], FALSE)
    /\ queue' = SubSeq(queue, k + 1, Len(queue))

\* A list's jobs are its first and those of its tail.
LEMMA TailHolds ==
  ASSUME NEW s \in Seq(Jobs), s # <<>>, NEW j
  PROVE  (\E i \in DOMAIN s : s[i] = j) <=> j = Head(s) \/ \E i \in DOMAIN Tail(s) : Tail(s)[i] = j
<1>1. /\ Tail(s) \in Seq(Jobs) /\ Len(Tail(s)) = Len(s) - 1 /\ Head(s) = s[1]
      /\ \A i \in 1..Len(s) - 1 : Tail(s)[i] = s[i + 1]
      /\ Len(s) \in Nat /\ Len(s) >= 1
  BY HeadTailProperties
<1>2. ASSUME NEW i \in 1..Len(s), s[i] = j, i # 1 PROVE \E k \in DOMAIN Tail(s) : Tail(s)[k] = j
  <2>1. i - 1 \in 1..Len(s) - 1 /\ (i - 1) + 1 = i
    BY <1>1, <1>2
  <2>2. i - 1 \in DOMAIN Tail(s) /\ Tail(s)[i - 1] = j
    BY <1>1, <1>2, <2>1
  <2>. QED BY <2>2
<1>3. ASSUME NEW i \in DOMAIN Tail(s), Tail(s)[i] = j PROVE \E k \in DOMAIN s : s[k] = j
  <2>1. i + 1 \in DOMAIN s /\ s[i + 1] = j
    BY <1>3, TailJobs
  <2>. QED BY <2>1
<1>4. 1 \in DOMAIN s /\ DOMAIN s = 1..Len(s)
  BY <1>1
<1>. QED BY <1>1, <1>2, <1>3, <1>4

\* A callback comes from one there was before, or is new.
LEMMA CallbackStep ==
  ASSUME TypeInv, [Next]_vars
  PROVE  \A k \in DOMAIN frames' :
           (\E i \in DOMAIN frames : Within(frames'[k], frames[i])) \/ AtOnce(frames'[k]) \/ Batch(frames'[k])
<1>a. frames \in Seq(Frame)
  BY PlaceTypes
<1>. DEFINE Old(f) == \E i \in DOMAIN frames : Within(f, frames[i])
            Goal == \A k \in DOMAIN frames' : Old(frames'[k]) \/ AtOnce(frames'[k]) \/ Batch(frames'[k])
<1>b. \A i \in DOMAIN frames : Old(frames[i])
  BY DEF Within
<1>0. ASSUME NEW f, Old(f) \/ AtOnce(f) \/ Batch(f),
             \A k \in DOMAIN frames' : frames'[k] = f \/ \E i \in DOMAIN frames : frames'[k] = frames[i]
      PROVE  Goal
  <2>. HIDE DEF Old
  <2>. QED BY <1>0, <1>b
<1>1. ASSUME UNCHANGED frames PROVE Goal
  <2>1. \A k \in DOMAIN frames' : \E i \in DOMAIN frames : frames'[k] = frames[i]
    BY <1>1
  <2>. HIDE DEF Old
  <2>. QED BY <2>1, <1>b
<1>2. ASSUME frames # <<>>, NEW f \in Frame, Becomes(f), Within(f, Top) PROVE Goal
  <2>1. 1 \in DOMAIN frames /\ Top = frames[1]
    BY <1>a, <1>2 DEF Top
  <2>2. Old(f)
    BY <1>2, <2>1
  <2>. HIDE DEF Old, Goal
  <2>. QED BY <1>0, <1>2, <1>a, <2>2, WentOn
<1>3. ASSUME frames # <<>>, frames' = Tail(frames) PROVE Goal
  <2>1. \A k \in DOMAIN frames' : \E i \in DOMAIN frames : frames'[k] = frames[i]
    BY <1>3, <1>a, Left
  <2>. HIDE DEF Old
  <2>. QED BY <2>1, <1>b
<1>4. ASSUME NEW f, frames' = <<f>> \o frames, AtOnce(f) \/ Batch(f) PROVE Goal
  <2>1. \A k \in DOMAIN frames' : frames'[k] = f \/ \E i \in DOMAIN frames : frames'[k] = frames[i]
    BY <1>4, <1>a
  <2>. HIDE DEF Old, Goal
  <2>. QED BY <1>0, <1>4, <2>1
<1>5. ASSUME TakeDue PROVE Goal
  <2>1. PICK k \in 0..Len(queue) :
          /\ queue' = SubSeq(queue, k + 1, Len(queue))
          /\ frames' = IF k = 0 THEN frames
                       ELSE <<Called([i \in 1..k |-> queue[i].job], FALSE)>> \o frames
    BY <1>5 DEF TakeDue
  <2>2. ASSUME k # 0 PROVE Goal
    <3>. DEFINE f == Called([i \in 1..k |-> queue[i].job], FALSE)
    <3>1. frames' = <<f>> \o frames
      BY <2>1, <2>2
    <3>2. AtOnce(f) \/ Batch(f)
      BY <2>1, <2>2 DEF Batch
    <3>. HIDE DEF f, Goal
    <3>. QED BY <1>4, <3>1, <3>2
  <2>. HIDE DEF Goal
  <2>. QED BY <1>1, <2>1, <2>2
<1>6. ASSUME frames # <<>>, NEW x \in {"run", "body", "requeue"}, NEW c \in BOOLEAN,
             Becomes([Top EXCEPT !.at = x, !.com = c])
      PROVE  Goal
  <2>. DEFINE f == [Top EXCEPT !.at = x, !.com = c]
  <2>1. f \in Frame /\ f.items = Top.items /\ f.kept = Top.kept /\ f.direct = Top.direct
    BY <1>6, TopType DEF Frame
  <2>2. Within(f, Top)
    BY <2>1 DEF Within, Holds
  <2>3. Becomes(f)
    BY <1>6
  <2>. HIDE DEF f, Goal
  <2>. QED BY <1>2, <1>6, <2>1, <2>2, <2>3
<1>7. ASSUME Check PROVE Goal
  <2>1. Becomes([Top EXCEPT !.at = "run", !.com = Available]) /\ frames # <<>>
    BY <1>7 DEF Check
  <2>2. Available \in BOOLEAN
    BY DEF TypeInv, TypeOK, Available
  <2>. QED BY <1>6, <2>1, <2>2
<1>8. ASSUME frames # <<>>, NEW x \in {"run", "body", "requeue"}, Becomes([Top EXCEPT !.at = x]) PROVE Goal
  <2>1. Top \in Frame /\ Top.com \in BOOLEAN
    BY <1>8, TopType DEF Frame
  <2>2. [Top EXCEPT !.at = x] = [Top EXCEPT !.at = x, !.com = Top.com]
    BY <2>1 DEF Frame
  <2>. HIDE DEF Goal
  <2>. QED BY <1>6, <1>8, <2>1, <2>2
<1>9. ASSUME Refuse PROVE Goal
  <2>. DEFINE f == [Top EXCEPT !.items = Tail(@), !.kept = Append(@, Job)]
  <2>1. frames # <<>> /\ Top.items # <<>> /\ Becomes(f)
    BY <1>9 DEF Refuse
  <2>2. /\ Top \in Frame /\ Top.items \in Seq(Jobs) /\ Top.kept \in Seq(Jobs)
        /\ Job \in Jobs /\ Tail(Top.items) \in Seq(Jobs) /\ Append(Top.kept, Job) \in Seq(Jobs)
    BY <2>1, TopType
  <2>3. /\ f \in Frame /\ f.items = Tail(Top.items) /\ f.kept = Append(Top.kept, Job)
        /\ f.direct = Top.direct
    BY <2>2 DEF Frame
  <2>. HIDE DEF f
  <2>4. \A j : Holds(f, j) => Holds(Top, j)
    BY <2>1, <2>2, <2>3, TailHolds, AppendJobs DEF Holds, Job
  <2>5. Within(f, Top)
    BY <2>1, <2>3, <2>4 DEF Within
  <2>. HIDE DEF Goal
  <2>. QED BY <1>2, <2>1, <2>3, <2>5
<1>10. ASSUME Finish \/ ConnectFails PROVE Goal
  <2>. DEFINE f == [Top EXCEPT !.at = "run", !.items = Tail(@)]
  <2>1. frames # <<>> /\ Top.items # <<>> /\ Becomes(f)
    BY <1>10, TopType DEF Finish, ConnectFails, Starting, Calm
  <2>2. Top \in Frame /\ Top.items \in Seq(Jobs) /\ Tail(Top.items) \in Seq(Jobs)
    BY <2>1, TopType
  <2>3. f \in Frame /\ f.items = Tail(Top.items) /\ f.kept = Top.kept /\ f.direct = Top.direct
    BY <2>2 DEF Frame
  <2>. HIDE DEF f
  <2>4. \A j : Holds(f, j) => Holds(Top, j)
    BY <2>1, <2>2, <2>3, TailHolds DEF Holds
  <2>5. Within(f, Top)
    BY <2>1, <2>3, <2>4 DEF Within
  <2>. HIDE DEF Goal
  <2>. QED BY <1>2, <2>1, <2>3, <2>5
<1>11. ASSUME PutBack PROVE Goal
  <2>. DEFINE f == [Top EXCEPT !.kept = Tail(@)]
  <2>1. frames # <<>> /\ Top.kept # <<>> /\ Becomes(f)
    BY <1>11 DEF PutBack, Locked
  <2>2. Top \in Frame /\ Top.kept \in Seq(Jobs) /\ Tail(Top.kept) \in Seq(Jobs)
    BY <2>1, TopType, HeadTailProperties
  <2>3. f \in Frame /\ f.kept = Tail(Top.kept) /\ f.items = Top.items /\ f.direct = Top.direct
    BY <2>2 DEF Frame
  <2>. HIDE DEF f
  <2>4. \A j : Holds(f, j) => Holds(Top, j)
    BY <2>1, <2>2, <2>3, TailHolds DEF Holds
  <2>5. Within(f, Top)
    BY <2>3, <2>4 DEF Within
  <2>. HIDE DEF Goal
  <2>. QED BY <1>2, <2>1, <2>3, <2>5
<1>12. ASSUME Tried PROVE Goal
  <2>1. frames # <<>> /\ (frames' = Tail(frames) \/ Becomes([Top EXCEPT !.at = "requeue"]))
    BY <1>12 DEF Tried
  <2>. HIDE DEF Goal
  <2>. QED BY <1>3, <1>8, <2>1
<1>13. ASSUME Run PROVE Goal
  <2>. HIDE DEF Goal
  <2>. QED BY <1>8, <1>13 DEF Run
<1>14. ASSUME Requeued PROVE Goal
  <2>. HIDE DEF Goal
  <2>. QED BY <1>3, <1>14 DEF Requeued, Locked
<1>15. ASSUME NEW j \in Jobs, CallNow(j) PROVE Goal
  <2>. DEFINE f == Called(<<j>>, TRUE)
  <2>1. frames' = <<f>> \o frames
    BY <1>15 DEF CallNow
  <2>2. AtOnce(f) \/ Batch(f)
    BY <1>15 DEF AtOnce
  <2>. HIDE DEF f, Goal
  <2>. QED BY <1>4, <2>1, <2>2
<1>16. ASSUME Connect PROVE Goal
  <2>. DEFINE f == Called(<<FuncOf[Job]>>, TRUE)
  <2>1. frames' = <<f>> \o frames /\ FuncOf[Job] \in Jobs
    BY <1>16, QueueConstants DEF Connect, Starting, QueueConstants
  <2>2. AtOnce(f) \/ Batch(f)
    BY <1>16, <2>1 DEF AtOnce
  <2>. HIDE DEF f, Goal
  <2>. QED BY <1>4, <2>1, <2>2
<1>17. ASSUME NEW h \in Threads, NEW j \in Jobs, Submit(h, j) PROVE UNCHANGED frames
  BY <1>17 DEF Submit
<1>. HIDE DEF Goal
<1>18. Goal
  BY <1>1, <1>5, <1>7, <1>9, <1>10, <1>11, <1>12, <1>13, <1>14, <1>15, <1>16, <1>17
  DEF Next, Callback, Arm, WindowMessage, TimerMessage, Tick, Busy, vars
<1>. QED BY <1>18 DEF Goal

-----------------------------------------------------------------------------
\* An earlier job is another one, of a thread's program, and due at once.
LEMMA EarlierIs ==
  ASSUME NEW h \in Threads \ {Main}, NEW j \in Jobs, NEW i \in Earlier(h, j)
  PROVE  /\ i \in Jobs \ Startup /\ i # j /\ Before[i] = 0
         /\ \E m \in DOMAIN Program[h] : j = Program[h][m]
         /\ \E l, m \in DOMAIN Program[h] : l < m /\ i = Program[h][l] /\ j = Program[h][m]
<1>1. PICK l, m \in DOMAIN Program[h] : /\ l < m /\ Program[h][l] = i /\ Program[h][m] = j
                                        /\ Before[i] = 0 /\ i \in Jobs
  BY DEF Earlier
<1>2. Program[h] \in Seq(Jobs)
  BY QueueConstants DEF QueueConstants
<1>3. l # m
  BY <1>1, <1>2
<1>4. i # j
  BY <1>1, <1>3, QueueConstants DEF QueueConstants
<1>5. i \notin Startup
  BY <1>1, QueueConstants DEF QueueConstants
<1>. QED BY <1>1, <1>4, <1>5

\* What is left of a thread's program is of its program.
LEMMA HeadOfRest ==
  ASSUME TypeInv, RestOfProgram, NEW h \in Threads, todo[h] # <<>>
  PROVE  /\ Len(Program[h]) - Len(todo[h]) + 1 \in DOMAIN Program[h]
         /\ Head(todo[h]) = Program[h][Len(Program[h]) - Len(todo[h]) + 1]
<1>1. Program[h] \in Seq(Jobs) /\ todo[h] \in Seq(Jobs)
  BY QueueConstants DEF QueueConstants, TypeInv, TypeOK
<1>2. 1 \in DOMAIN todo[h] /\ Head(todo[h]) = todo[h][1]
  BY HeadOfTodo
<1>3. Len(todo[h]) <= Len(Program[h])
  BY DEF RestOfProgram
<1>. DEFINE p == Len(Program[h])  t == Len(todo[h])
<1>4. p \in Nat /\ t \in Nat /\ t >= 1 /\ t <= p /\ DOMAIN Program[h] = 1..p
  BY <1>1, <1>2, <1>3
<1>5. Head(todo[h]) = Program[h][p - t + 1]
  BY <1>2 DEF RestOfProgram
<1>. HIDE DEF p, t
<1>6. p - t + 1 \in 1..p
  BY <1>4
<1>. QED BY <1>4, <1>5, <1>6 DEF p, t

\* The jobs of other threads are not run at once, nor those of a RetryAtStartup.
LEMMA OfOtherThread ==
  ASSUME TypeInv, RestOfProgram, NEW h \in Threads \ {Main}, NEW m \in DOMAIN Program[h]
  PROVE  /\ ~CallNow(Program[h][m])
         /\ Connect => Program[h][m] # FuncOf[Job]
<1>. USE QueueConstants DEF QueueConstants
<1>1. ASSUME CallNow(Program[h][m]) PROVE FALSE
  <2>1. Main \in Threads /\ todo[Main] # <<>> /\ Program[h][m] = Head(todo[Main])
    BY <1>1 DEF CallNow
  <2>2. \E n \in DOMAIN Program[Main] : Program[h][m] = Program[Main][n]
    BY <2>1, HeadOfRest
  <2>. QED BY <2>1, <2>2
<1>2. Connect => Job \in Startup
  BY DEF Connect, Starting
<1>. QED BY <1>1, <1>2

\* A thread submits its jobs in order.
LEMMA LaterNew ==
  ASSUME TypeInv, Submitted, TodoOnce, RestOfProgram, [Next]_vars,
         NEW h \in Threads \ {Main}, NEW j \in Jobs, NEW i \in Earlier(h, j),
         outcome[i] = "new", outcome'[i] # "new"
  PROVE  outcome'[j] = "new"
<1>1. i \in Jobs /\ i # j /\ h \in Threads
  BY EarlierIs
<1>2. PICK l, m \in DOMAIN Program[h] : l < m /\ i = Program[h][l] /\ j = Program[h][m]
  BY EarlierIs
<1>3. PICK g \in Threads : todo[g] # <<>> /\ i = Head(todo[g])
  <2>1. ~(Connect /\ i = FuncOf[Job])
    BY <1>2, OfOtherThread
  <2>. QED BY <1>1, <2>1, OutcomeStep DEF Taken
<1>. DEFINE p == Len(Program[g])  t == Len(todo[g])
<1>4. p - t + 1 \in DOMAIN Program[g] /\ i = Program[g][p - t + 1]
  BY <1>3, HeadOfRest
<1>. DEFINE q == p - t + 1
<1>5. g = h /\ l = q
  <2>1. \A x \in DOMAIN Program[g], y \in DOMAIN Program[h] : Program[g][x] = Program[h][y] => g = h /\ x = y
    BY QueueConstants DEF QueueConstants
  <2>. HIDE DEF q
  <2>2. q \in DOMAIN Program[g] /\ i = Program[g][q]
    BY <1>4 DEF q
  <2>. QED BY <1>2, <2>1, <2>2
<1>6. Program[h] \in Seq(Jobs) /\ todo[h] \in Seq(Jobs)
  BY QueueConstants DEF QueueConstants, TypeInv, TypeOK
<1>7. p \in Nat /\ t \in Nat /\ m \in 1..p /\ l \in 1..p /\ DOMAIN todo[h] = 1..t
  <2>1. DOMAIN Program[h] = 1..Len(Program[h]) /\ DOMAIN todo[h] = 1..Len(todo[h])
        /\ Len(Program[h]) \in Nat /\ Len(todo[h]) \in Nat
    BY <1>6
  <2>. QED BY <1>2, <1>5, <2>1
<1>8. \A n \in DOMAIN todo[h] : todo[h][n] = Program[h][p - t + n]
  BY <1>5 DEF RestOfProgram
<1>. HIDE DEF p, t
<1>. DEFINE n == m - (p - t)
<1>9. n \in 1..t /\ n # 1 /\ p - t + n = m
  BY <1>2, <1>5, <1>7
<1>. HIDE DEF n
<1>10. n \in DOMAIN todo[h] /\ todo[h][n] = j
  BY <1>2, <1>7, <1>8, <1>9
<1>11. outcome[j] = "new" /\ \A k \in Startup : FuncOf[k] # j
  BY <1>10 DEF TodoOnce
<1>12. ~Taken(j)
  <2> SUFFICES ASSUME NEW f \in Threads, todo[f] # <<>>, j = Head(todo[f]) PROVE FALSE
    BY DEF Taken
  <2>1. 1 \in DOMAIN todo[f] /\ todo[f][1] = todo[h][n]
    BY <1>10, HeadOfTodo
  <2>2. 1 = n
    BY <1>10, <2>1 DEF TodoOnce
  <2>. QED BY <1>9, <2>2
<1>13. ~(Connect /\ j = FuncOf[Job])
  BY <1>2, OfOtherThread
<1>. QED BY <1>11, <1>12, <1>13, OutcomeStep

\* A program is shortened from the front.
LEMMA RestStep ==
  ASSUME TypeInv, Submitted, RestOfProgram, [Next]_vars
  PROVE  RestOfProgram'
<1>1. CASE UNCHANGED todo
  BY <1>1 DEF RestOfProgram
<1>2. ASSUME NEW g \in Threads, todo[g] # <<>>, todo' = [todo EXCEPT ![g] = Tail(@)] PROVE RestOfProgram'
  <2> SUFFICES ASSUME NEW h \in Threads
               PROVE  /\ Len(todo'[h]) <= Len(Program[h])
                      /\ \A m \in DOMAIN todo'[h] :
                           todo'[h][m] = Program[h][Len(Program[h]) - Len(todo'[h]) + m]
    BY DEF RestOfProgram
  <2>1. todo \in [Threads -> Seq(Jobs)] /\ Program \in [Threads -> Seq(Jobs)]
    BY QueueConstants DEF QueueConstants, TypeInv, TypeOK
  <2>2. CASE h # g
    BY <1>2, <2>1, <2>2 DEF RestOfProgram
  <2>3. CASE h = g
    <3>. DEFINE p == Len(Program[h])  t == Len(todo[h])
    <3>1. /\ todo'[h] = Tail(todo[h]) /\ Len(todo'[h]) = t - 1 /\ DOMAIN todo'[h] = 1..t - 1
          /\ \A m \in 1..t - 1 : todo'[h][m] = todo[h][m + 1]
      BY <1>2, <2>1, <2>3, HeadTailProperties
    <3>2. p \in Nat /\ t \in Nat /\ t >= 1 /\ DOMAIN todo[h] = 1..t
      BY <1>2, <2>1, <2>3
    <3>3. t <= p /\ \A m \in DOMAIN todo[h] : todo[h][m] = Program[h][p - t + m]
      BY DEF RestOfProgram
    <3>. HIDE DEF p, t
    <3>4. ASSUME NEW m \in 1..t - 1 PROVE todo'[h][m] = Program[h][p - (t - 1) + m]
      <4>1. m + 1 \in 1..t /\ p - t + (m + 1) = p - (t - 1) + m
        BY <3>2
      <4>. QED BY <3>1, <3>2, <3>3, <4>1
    <3>5. t - 1 <= p
      BY <3>2, <3>3
    <3>. QED BY <3>1, <3>4, <3>5 DEF p
  <2>. QED BY <2>2, <2>3
<1>. QED BY <1>1, <1>2, OutcomeStep DEF Taken

\* A callback which was called at once is of the main thread.
LEMMA DirectStep ==
  ASSUME TypeInv, TypeInv', RestOfProgram, DirectOfMain, [Next]_vars
  PROVE  DirectOfMain'
<1> SUFFICES ASSUME NEW k \in DOMAIN frames', frames'[k].direct, NEW h \in Threads \ {Main},
                    NEW m \in DOMAIN Program[h], Holds(frames'[k], Program[h][m])
             PROVE  FALSE
  <2>1. \A k \in DOMAIN frames' : frames'[k] \in Frame
    BY DEF TypeInv, TypeOK
  <2>. QED BY <2>1, HoldsPlace DEF DirectOfMain
<1>. DEFINE j == Program[h][m]
<1>1. ASSUME NEW i \in DOMAIN frames, Within(frames'[k], frames[i]) PROVE FALSE
  <2>1. frames[i] \in Frame /\ frames[i].direct /\ Holds(frames[i], j)
    BY <1>1 DEF Within, TypeInv, TypeOK
  <2>. QED BY <2>1, HoldsPlace DEF DirectOfMain
<1>2. ~AtOnce(frames'[k])
  <2> SUFFICES ASSUME NEW x \in Jobs, frames'[k] = Called(<<x>>, TRUE),
                      CallNow(x) \/ (Connect /\ x = FuncOf[Job])
               PROVE  FALSE
    BY DEF AtOnce
  <2>1. x = j
    BY DEF Holds, Called
  <2>. QED BY <2>1, OfOtherThread
<1>3. ~Batch(frames'[k])
  BY DEF Batch, Called
<1>. QED BY <1>1, <1>2, <1>3, CallbackStep

-----------------------------------------------------------------------------
\* Job j is behind place n of the queue.
Behind(n, j) == \A m \in DOMAIN queue : queue[m].job = j => n < m

\* Job i, which is at place n after a step, was in the queue and is before job j.
StaysBefore(i, n, j) ==
  /\ \E p \in DOMAIN queue : queue[p].job = i
  /\ \A m \in DOMAIN queue' : queue'[m].job = j => n < m

\* emplace() keeps the order, and a job which it puts in the queue is behind those
\* which are due now.
LEMMA EmplacedInOrder ==
  ASSUME MaxTime \in Nat, queue \in Seq(Entry), NEW x \in Jobs, NEW ms \in Time, Emplace(x, ms),
         NEW i, i # x, NEW j, NEW n \in DOMAIN queue', queue'[n].job = i,
         \A p \in DOMAIN queue : queue[p].job = i => queue[p].left = 0 /\ Behind(p, j)
  PROVE  StaysBefore(i, n, j)
<1>1. PICK k \in 0..Len(queue) : EmplacedAfter(k, x, ms)
  BY EmplacedAt
<1>2. /\ queue' \in Seq(Entry) /\ Len(queue') = Len(queue) + 1 /\ Len(queue) \in Nat /\ k \in Nat
      /\ DOMAIN queue = 1..Len(queue) /\ DOMAIN queue' = 1..Len(queue) + 1
  BY EmplacedAt
<1>. DEFINE was(m) == IF m <= k THEN m ELSE m - 1
<1>3. ASSUME NEW m \in DOMAIN queue', m # k + 1
      PROVE  m \in Nat /\ was(m) \in DOMAIN queue /\ queue'[m] = queue[was(m)]
  <2>1. CASE m <= k
    BY <1>1, <1>2, <2>1 DEF EmplacedAfter
  <2>2. CASE m > k
    <3>1. m \in k + 2..Len(queue) + 1 /\ ~(m <= k)
      BY <1>2, <1>3, <2>2
    <3>. QED BY <1>1, <1>2, <3>1 DEF EmplacedAfter
  <2>. QED BY <1>2, <2>1, <2>2
<1>4. queue'[k + 1].job = x
  BY <1>1 DEF EmplacedAfter
<1>5. n # k + 1
  BY <1>4
<1>6. was(n) \in DOMAIN queue /\ queue[was(n)].job = i /\ queue[was(n)].left = 0 /\ Behind(was(n), j)
  BY <1>3, <1>5
<1>7. n <= k
  <2>1. CASE n > k
    <3>1. was(n) = n - 1 /\ n - 1 \in k + 1..Len(queue)
      BY <1>2, <1>5, <2>1
    <3>2. queue[n - 1].left > ms
      BY <1>1, <3>1 DEF EmplacedAfter
    <3>. QED BY <1>6, <3>1, <3>2 DEF Time
  <2>. QED BY <1>2, <2>1
<1>8. ASSUME NEW m \in DOMAIN queue', queue'[m].job = j PROVE n < m
  <2>1. CASE m = k + 1
    BY <1>2, <1>7, <2>1
  <2>2. CASE m # k + 1
    <3>1. was(m) \in DOMAIN queue /\ queue[was(m)].job = j
      BY <1>3, <1>8, <2>2
    <3>2. was(n) < was(m)
      <4>. HIDE DEF was
      <4>. QED BY <1>6, <3>1 DEF Behind
    <3>. QED BY <1>2, <1>7, <3>2
  <2>. QED BY <2>1, <2>2
<1>. HIDE DEF was
<1>. QED BY <1>6, <1>8 DEF StaysBefore

\* The queue keeps its order, but for an entry, or loses its front.
EntryOf(x) ==
  \/ \E h \in Threads : Submit(h, x)
  \/ PutBack /\ x = Head(Top.kept) /\ (Top.direct \/ outcome' = [outcome EXCEPT ![x] = "retried"])
  \/ x \in Startup

LEMMA QueueChange ==
  ASSUME TypeInv, [Next]_vars
  PROVE  \/ DOMAIN queue' = DOMAIN queue /\ \A n \in DOMAIN queue : queue'[n].job = queue[n].job
         \/ \E x \in Jobs, ms \in Time : Emplace(x, ms) /\ EntryOf(x)
         \/ \E k \in 0..Len(queue) : queue' = SubSeq(queue, k + 1, Len(queue))
<1>. DEFINE Goal ==
         \/ DOMAIN queue' = DOMAIN queue /\ \A n \in DOMAIN queue : queue'[n].job = queue[n].job
         \/ \E x \in Jobs, ms \in Time : Emplace(x, ms) /\ EntryOf(x)
         \/ \E k \in 0..Len(queue) : queue' = SubSeq(queue, k + 1, Len(queue))
<1>a. /\ MaxTime \in Nat /\ queue \in Seq(Entry) /\ 0 \in Time /\ Reconnect \in Time
      /\ \A j \in Jobs : Before[j] \in Time /\ Between[j] \in Time
  BY PlaceTypes
<1>1. ASSUME UNCHANGED queue PROVE Goal
  BY <1>1
<1>2. ASSUME TakeDue PROVE Goal
  BY <1>2 DEF TakeDue
<1>3. ASSUME NEW h \in Threads, NEW j \in Jobs, Submit(h, j) PROVE Goal
  <2>1. Emplace(j, Before[j]) /\ EntryOf(j)
    BY <1>3 DEF Submit, EntryOf
  <2>. QED BY <1>a, <2>1
<1>4. ASSUME PutBack PROVE Goal
  <2>. DEFINE x == Head(Top.kept)
              ms == IF Top.direct THEN 0 ELSE Between[x]
  <2>1. x \in Jobs
    BY <1>4, TopType, HeadTailProperties DEF PutBack, Locked
  <2>2. ms \in Time
    BY <1>a, <2>1
  <2>3. \/ UNCHANGED queue
        \/ Emplace(x, ms) /\ (Top.direct \/ outcome' = [outcome EXCEPT ![x] = "retried"])
    BY <1>4 DEF PutBack
  <2>4. UNCHANGED queue \/ (Emplace(x, ms) /\ EntryOf(x))
    BY <1>4, <2>3 DEF EntryOf
  <2>. HIDE DEF x, ms
  <2>. QED BY <1>1, <2>1, <2>2, <2>4
<1>5. ASSUME ConnectFails PROVE Goal
  <2>1. Job \in Jobs /\ Emplace(Job, Reconnect) /\ EntryOf(Job)
    BY <1>5, QueueConstants DEF ConnectFails, Starting, EntryOf, QueueConstants
  <2>. QED BY <1>a, <2>1
<1>6. ASSUME Tick PROVE Goal
  <2>1. DOMAIN queue' = DOMAIN queue
    BY <1>6 DEF Tick
  <2>2. ASSUME NEW n \in DOMAIN queue PROVE queue'[n].job = queue[n].job
    <3>1. queue[n] \in Entry
      BY <1>a
    <3>. QED BY <1>6, <3>1 DEF Tick, Entry
  <2>. QED BY <2>1, <2>2
<1>7. ASSUME NEW j \in Jobs, CallNow(j) PROVE UNCHANGED queue
  BY <1>7 DEF CallNow
<1>. HIDE DEF Goal
<1>8. Goal
  BY <1>1, <1>2, <1>3, <1>4, <1>5, <1>6, <1>7
  DEF Next, Callback, Arm, WindowMessage, TimerMessage, Check, Refuse, Run, Finish, Tried, Requeued,
      Connect, Busy, vars
<1>. QED BY <1>8 DEF Goal

-----------------------------------------------------------------------------
\* A job of another thread is put in the queue by its submission, or when it has
\* been refused and is no longer untried.
LEMMA NotEntered ==
  ASSUME TypeInv, TodoOnce, DirectOfMain, NEW h \in Threads \ {Main}, NEW j \in Jobs,
         NEW i \in Earlier(h, j), outcome[i] # "new", outcome'[i] = "queued"
  PROVE  ~EntryOf(i)
<1>1. i \in Jobs \ Startup /\ \E m \in DOMAIN Program[h] : i = Program[h][m]
  BY EarlierIs
<1>2. ASSUME NEW g \in Threads, Submit(g, i) PROVE FALSE
  <2>1. todo[g] # <<>> /\ i = Head(todo[g])
    BY <1>2 DEF Submit
  <2>2. 1 \in DOMAIN todo[g] /\ i = todo[g][1]
    BY <2>1, HeadOfTodo
  <2>. QED BY <2>2 DEF TodoOnce
<1>3. ASSUME PutBack, i = Head(Top.kept), Top.direct PROVE FALSE
  <2>1. frames # <<>> /\ Top.kept # <<>> /\ Top \in Frame /\ Top.kept \in Seq(Jobs)
    BY <1>3, TopType DEF PutBack, Locked
  <2>2. 1 \in DOMAIN Top.kept /\ Top.kept[1] = i
    BY <1>3, <2>1
  <2>3. 1 \in DOMAIN frames /\ Top = frames[1]
    BY <2>1 DEF Top, TypeInv, TypeOK
  <2>4. InFrame(i, Top) # {}
    BY <2>1, <2>2, HoldsPlace DEF Holds
  <2>. QED BY <1>1, <1>3, <2>3, <2>4 DEF DirectOfMain
<1>4. ASSUME outcome' = [outcome EXCEPT ![i] = "retried"] PROVE FALSE
  BY <1>1, <1>4, PlaceTypes
<1>. QED BY <1>1, <1>2, <1>3, <1>4 DEF EntryOf

\* An earlier job which is in the queue was there before, and is before the later.
LEMMA BehindStep ==
  ASSUME TypeInv, QueueInv, DirectOfMain, [Next]_vars,
         NEW h \in Threads \ {Main}, NEW j \in Jobs, NEW i \in Earlier(h, j),
         outcome[i] = "queued", outcome'[i] = "queued",
         \A p \in DOMAIN queue : queue[p].job = i => Behind(p, j),
         NEW n \in DOMAIN queue', queue'[n].job = i
  PROVE  StaysBefore(i, n, j)
<1>a. queue \in Seq(Entry) /\ MaxTime \in Nat
  BY PlaceTypes
<1>b. TodoOnce /\ Submitted /\ DueNow
  BY DEF QueueInv
<1>c. i \in Jobs \ Startup /\ Before[i] = 0
  BY EarlierIs
<1>1. ASSUME DOMAIN queue' = DOMAIN queue, \A m \in DOMAIN queue : queue'[m].job = queue[m].job PROVE StaysBefore(i, n, j)
  BY <1>1 DEF Behind, StaysBefore
<1>2. ASSUME NEW x \in Jobs, NEW ms \in Time, Emplace(x, ms), EntryOf(x) PROVE StaysBefore(i, n, j)
  <2>1. i # x
    BY <1>b, <1>2, NotEntered
  <2>2. \A p \in DOMAIN queue : queue[p].job = i => queue[p].left = 0 /\ Behind(p, j)
    <3> SUFFICES ASSUME NEW p \in DOMAIN queue, queue[p].job = i PROVE queue[p].left = 0
      OBVIOUS
    <3>1. IsPrompt(queue[p].job)
      BY <1>c DEF IsPrompt
    <3>. QED BY <1>b, <3>1 DEF DueNow
  <2>. QED BY <1>a, <1>2, <2>1, <2>2, EmplacedInOrder
<1>3. ASSUME NEW k \in 0..Len(queue), queue' = SubSeq(queue, k + 1, Len(queue)) PROVE StaysBefore(i, n, j)
  <2>1. /\ Len(queue) \in Nat /\ DOMAIN queue = 1..Len(queue)
        /\ DOMAIN queue' = 1..Len(queue) - k
        /\ \A m \in 1..Len(queue) - k : queue'[m] = queue[k + m]
    BY <1>3, <1>a
  <2>2. k + n \in DOMAIN queue /\ queue[k + n].job = i
    BY <1>3, <2>1
  <2>3. ASSUME NEW m \in DOMAIN queue', queue'[m].job = j PROVE n < m
    <3>1. k + m \in DOMAIN queue /\ queue[k + m].job = j
      BY <1>3, <2>1, <2>3
    <3>2. k + n < k + m
      BY <2>2, <3>1 DEF Behind
    <3>. QED BY <1>3, <2>1, <3>2
  <2>. QED BY <2>2, <2>3 DEF StaysBefore
<1>. QED BY <1>1, <1>2, <1>3, QueueChange

\* Nor is the later with a callback.
LEMMA NotTakenStep ==
  ASSUME TypeInv, RestOfProgram, [Next]_vars,
         NEW h \in Threads \ {Main}, NEW j \in Jobs, NEW i \in Earlier(h, j),
         \A p \in DOMAIN queue : queue[p].job = i => Behind(p, j) /\ InFrames(j) = {},
         NEW q \in DOMAIN queue, queue[q].job = i,
         NEW n \in DOMAIN queue', queue'[n].job = i,
         NEW k \in DOMAIN frames'
  PROVE  ~Holds(frames'[k], j)
<1>1. ASSUME NEW f \in DOMAIN frames, Within(frames'[k], frames[f]) PROVE ~Holds(frames'[k], j)
  <2>1. frames \in Seq(Frame) /\ InFrames(j) = {}
    BY PlaceTypes
  <2>2. ~Holds(frames[f], j)
    BY <2>1, HoldsPlaces DEF InFrames
  <2>. QED BY <1>1, <2>2 DEF Within
<1>2. ASSUME AtOnce(frames'[k]) PROVE ~Holds(frames'[k], j)
  <2>1. PICK x \in Jobs : /\ frames'[k] = Called(<<x>>, TRUE)
                          /\ CallNow(x) \/ (Connect /\ x = FuncOf[Job])
    BY <1>2 DEF AtOnce
  <2>2. x # j
    BY <2>1, EarlierIs, OfOtherThread
  <2>. QED BY <2>1, <2>2 DEF Holds, Called
<1>3. ASSUME Batch(frames'[k]) PROVE ~Holds(frames'[k], j)
  <2> SUFFICES ASSUME Holds(frames'[k], j) PROVE FALSE
    OBVIOUS
  <2>1. PICK c \in 0..Len(queue) :
          /\ frames'[k] = Called([p \in 1..c |-> queue[p].job], FALSE)
          /\ queue' = SubSeq(queue, c + 1, Len(queue))
    BY <1>3 DEF Batch
  <2>2. PICK p \in 1..c : queue[p].job = j
    BY <2>1 DEF Holds, Called
  <2>3. queue \in Seq(Entry)
    BY PlaceTypes
  <2>4. c + n \in DOMAIN queue /\ queue[c + n].job = i /\ p \in DOMAIN queue /\ p < c + n
    BY <2>1, <2>2, <2>3
  <2>5. c + n < p
    BY <2>2, <2>4 DEF Behind
  <2>. QED BY <2>1, <2>2, <2>3, <2>4, <2>5
<1>. QED BY <1>1, <1>2, <1>3, CallbackStep

\* In the queue an earlier job stays before the later.
LEMMA QueuedInOrderStep ==
  ASSUME TypeInv, TypeInv', QueueInv, QueueInv', RestOfProgram, DirectOfMain, QueuedInOrder, [Next]_vars
  PROVE  QueuedInOrder'
<1> SUFFICES ASSUME NEW h \in Threads \ {Main}, NEW j \in Jobs, NEW i \in Earlier(h, j),
                    outcome'[i] = "queued", NEW n \in DOMAIN queue', queue'[n].job = i
             PROVE  /\ \A m \in DOMAIN queue' : queue'[m].job = j => n < m
                    /\ \A k \in DOMAIN frames' : ~Holds(frames'[k], j)
  <2>1. frames' \in Seq(Frame)
    BY DEF TypeInv, TypeOK
  <2>2. \A j \in Jobs : InFrames(j)' = {} <=> \A k \in DOMAIN frames' : ~Holds(frames'[k], j)
    BY <2>1, HoldsPlaces DEF InFrames
  <2>. QED BY <2>2 DEF QueuedInOrder
<1>a. Submitted /\ TodoOnce /\ FuncWaits /\ Submitted'
  BY DEF QueueInv
<1>b. i \in Jobs
  BY EarlierIs
<1>1. CASE outcome[i] = "new"
  <2>1. outcome'[j] = "new"
    BY <1>a, <1>1, LaterNew
  <2>. QED BY <1>a, <2>1 DEF Submitted, Holds
<1>2. CASE outcome[i] = "queued"
  <2>1. \A p \in DOMAIN queue : queue[p].job = i => Behind(p, j) /\ InFrames(j) = {}
    BY <1>2 DEF QueuedInOrder, Behind
  <2>2. PICK q \in DOMAIN queue : queue[q].job = i
    BY <1>2, <2>1, BehindStep DEF StaysBefore
  <2>3. \A m \in DOMAIN queue' : queue'[m].job = j => n < m
    BY <1>2, <2>1, BehindStep DEF StaysBefore
  <2>4. \A k \in DOMAIN frames' : ~Holds(frames'[k], j)
    BY <2>1, <2>2, NotTakenStep
  <2>. QED BY <2>3, <2>4
<1>. QED BY <1>1, <1>2, <1>a, <1>b, QueuedStep

\* A batch stays in order as its jobs are tried.
LEMMA TakenInOrderStep ==
  ASSUME TypeInv, TypeInv', QueueInv, QueueInv', RestOfProgram, QueuedInOrder, TakenInOrder, [Next]_vars
  PROVE  TakenInOrder'
<1> SUFFICES ASSUME NEW h \in Threads \ {Main}, NEW j \in Jobs, NEW i \in Earlier(h, j),
                    outcome'[i] = "queued", NEW k \in DOMAIN frames',
                    NEW n \in DOMAIN frames'[k].items, NEW m \in DOMAIN frames'[k].items,
                    frames'[k].items[n] = i, frames'[k].items[m] = j
             PROVE  n < m
  BY DEF TakenInOrder
<1>a. Submitted /\ TodoOnce /\ FuncWaits /\ Submitted'
  BY DEF QueueInv
<1>b. i \in Jobs /\ i # j
  BY EarlierIs
<1>c. frames'[k] \in Frame /\ frames \in Seq(Frame) /\ queue \in Seq(Entry)
  BY PlaceTypes DEF TypeInv, TypeOK
<1>d. frames'[k].items \in Seq(Jobs)
  BY <1>c DEF Frame
<1>1. CASE outcome[i] = "new"
  <2>1. outcome'[j] = "new"
    BY <1>a, <1>1, LaterNew
  <2>. QED BY <1>a, <2>1 DEF Submitted
<1>2. CASE outcome[i] = "queued"
  <2>1. ASSUME NEW f \in DOMAIN frames, Within(frames'[k], frames[f]) PROVE n < m
    <3>1. frames[f].items \in Seq(Jobs)
      <4>1. frames[f] \in Frame
        BY <1>c
      <4>. QED BY <4>1 DEF Frame
    <3>2. CASE frames'[k].items = frames[f].items
      BY <1>2, <3>2 DEF TakenInOrder
    <3>3. CASE frames[f].items # <<>> /\ frames'[k].items = Tail(frames[f].items)
      <4>1. /\ n + 1 \in DOMAIN frames[f].items /\ frames[f].items[n + 1] = i
            /\ m + 1 \in DOMAIN frames[f].items /\ frames[f].items[m + 1] = j
        BY <3>1, <3>3, TailJobs
      <4>2. n + 1 < m + 1
        BY <1>2, <4>1 DEF TakenInOrder
      <4>. QED BY <1>d, <4>2
    <3>. QED BY <2>1, <3>2, <3>3 DEF Within
  <2>2. ~AtOnce(frames'[k])
    BY <1>b DEF AtOnce, Called
  <2>3. ASSUME Batch(frames'[k]) PROVE n < m
    <3>1. PICK c \in 0..Len(queue) : frames'[k].items = [p \in 1..c |-> queue[p].job]
      BY <2>3 DEF Batch, Called
    <3>2. n \in DOMAIN queue /\ m \in DOMAIN queue /\ queue[n].job = i /\ queue[m].job = j
      BY <1>c, <3>1
    <3>. QED BY <1>2, <3>2 DEF QueuedInOrder
  <2>. QED BY <2>1, <2>2, <2>3, CallbackStep
<1>. QED BY <1>1, <1>2, <1>a, <1>b, QueuedStep

-----------------------------------------------------------------------------
\* With what OnePlace takes, the order is inductive.
OrderedInv == PlaceInv /\ RestOfProgram /\ DirectOfMain /\ QueuedInOrder /\ TakenInOrder

LEMMA OrderInit == Init => RestOfProgram /\ DirectOfMain /\ QueuedInOrder /\ TakenInOrder
<1> SUFFICES ASSUME Init PROVE RestOfProgram /\ DirectOfMain /\ QueuedInOrder /\ TakenInOrder
  OBVIOUS
<1>1. DOMAIN queue = {} /\ DOMAIN frames = {} /\ todo = Program
  BY DEF Init
<1>2. RestOfProgram
  <2> SUFFICES ASSUME NEW h \in Threads
               PROVE  /\ Len(Program[h]) <= Len(Program[h])
                      /\ \A m \in DOMAIN Program[h] :
                           Program[h][m] = Program[h][Len(Program[h]) - Len(Program[h]) + m]
    BY <1>1 DEF RestOfProgram
  <2>1. Program[h] \in Seq(Jobs)
    BY QueueConstants DEF QueueConstants
  <2>2. Len(Program[h]) \in Nat /\ DOMAIN Program[h] = 1..Len(Program[h])
    BY <2>1
  <2>. QED BY <2>2
<1>. QED BY <1>1, <1>2 DEF DirectOfMain, QueuedInOrder, TakenInOrder

LEMMA OrderedStep == OrderedInv /\ [Next]_vars => OrderedInv'
<1> SUFFICES ASSUME OrderedInv, [Next]_vars PROVE OrderedInv'
  OBVIOUS
<1>1. PlaceInv'
  BY PlaceInvStep DEF OrderedInv
<1>2. TypeInv /\ TypeInv' /\ QueueInv /\ QueueInv' /\ Submitted
  BY <1>1 DEF OrderedInv, PlaceInv, QueueInv
<1>3. RestOfProgram' /\ DirectOfMain'
  BY <1>2, RestStep, DirectStep DEF OrderedInv
<1>4. QueuedInOrder' /\ TakenInOrder'
  BY <1>2, QueuedInOrderStep, TakenInOrderStep DEF OrderedInv
<1>. QED BY <1>1, <1>3, <1>4 DEF OrderedInv

\* So that a job which runs is behind none that is untried.
LEMMA OrderedRuns ==
  ASSUME TypeInv, QueuedInOrder, TakenInOrder
  PROVE  InOrder
<1> SUFFICES ASSUME frames # <<>>, Top.at = "body", NEW h \in Threads \ {Main},
                    NEW i \in Earlier(h, Job), outcome[i] = "queued"
             PROVE  InQueue(i) = {} /\ \A k \in DOMAIN Top.items : Top.items[k] # i
  BY DEF InOrder
<1>1. /\ Job \in Jobs /\ 1 \in DOMAIN Top.items /\ Top.items[1] = Job /\ Top.items \in Seq(Jobs)
      /\ frames \in Seq(Frame) /\ 1 \in DOMAIN frames /\ frames[1] = Top
  <2>1. Top.items \in Seq(Jobs) /\ Top.items # <<>> /\ Job \in Jobs /\ frames \in Seq(Frame)
    BY TopType, PlaceTypes
  <2>. QED BY <2>1 DEF Top, Job
<1>2. ASSUME NEW n \in InQueue(i) PROVE FALSE
  <2>1. InFrames(Job) = {}
    BY <1>1, <1>2 DEF QueuedInOrder, InQueue
  <2>2. ~Holds(Top, Job)
    BY <1>1, <2>1, HoldsPlaces DEF InFrames
  <2>. QED BY <1>1, <2>2 DEF Holds
<1>3. ASSUME NEW k \in DOMAIN Top.items, Top.items[k] = i PROVE FALSE
  <2>1. k < 1
    BY <1>1, <1>3 DEF TakenInOrder
  <2>. QED BY <1>1, <2>1
<1>. QED BY <1>2, <1>3

\* Whichever threads submit, callbacks nest and refused jobs are put back, when a job
\* of another thread runs, those which that thread submitted before it with no wait
\* have been tried, or are with a callback which it interrupts.
THEOREM RunInOrder == Spec => []InOrder
<1>1. Init => OrderedInv
  BY TypeInit, QueueInit, PlacedInit, OrderInit DEF OrderedInv, PlaceInv
<1>2. OrderedInv => InOrder
  BY OrderedRuns DEF OrderedInv, PlaceInv
<1>. QED BY <1>1, <1>2, OrderedStep, PTL DEF Spec
=============================================================================
