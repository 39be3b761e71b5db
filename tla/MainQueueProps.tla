--------------------------- MODULE MainQueueProps ---------------------------
(***************************************************************************)
(* What MainQueue is expected to guarantee.                                *)
(***************************************************************************)
EXTENDS MainQueue, FiniteSets

\* The domain of every variable.
TypeOK ==
  /\ queue \in Seq(Entry)
  /\ posted \in BOOLEAN
  /\ timer \in [left: Time, period: Time]
  /\ frames \in Seq(Frame)
  /\ arming \in [Threads -> Time \union {Quiet}]
  /\ todo \in [Threads -> Seq(Jobs)]
  /\ outcome \in [Jobs -> Pending \union {"new", "ran", "busy", "dropped"}]
  /\ connected \in BOOLEAN
  /\ busy \in BOOLEAN

\* A job submitted with no wait is not left to the timer, which may be set for
\* much later: a message is waiting or about to be posted.
Prompt ==
  \A k \in DOMAIN queue :
    Before[queue[k].job] = 0 /\ outcome[queue[k].job] = "queued" /\ queue[k].job \notin Startup
      => posted \/ Locked \/ \E h \in Threads : arming[h] = 0

\* Where a job can be found: in the queue, or with one of the nested callbacks.
InQueue(j) == {k \in DOMAIN queue : queue[k].job = j}
InFrame(j, f) == {i \in DOMAIN f.items : f.items[i] = j} \union
                 {Len(f.items) + i : i \in {i \in DOMAIN f.kept : f.kept[i] = j}}
InFrames(j) == UNION {{k} \X InFrame(j, frames[k]) : k \in DOMAIN frames}

\* A job which has neither run nor been given up is in exactly one place, however
\* callbacks nest, and one which has is in none: none is lost or runs twice.
OnePlace ==
  \A j \in Jobs \ Startup :
    Cardinality(InQueue(j)) + Cardinality(InFrames(j)) = IF outcome[j] \in Pending THEN 1 ELSE 0

\* The jobs which thread h submits before job j, all without a wait.
Earlier(h, j) ==
  {i \in Jobs : \E l, m \in DOMAIN Program[h] :
     l < m /\ Program[h][l] = i /\ Program[h][m] = j /\ Before[i] = 0 /\ Before[j] = 0}

\* When a job runs, those which its thread submitted before it have been tried, or
\* a callback which a dialog interrupts holds them: only a refused job, put aside or
\* queued again, is overtaken.
InOrder ==
  frames # <<>> /\ Top.at = "body" =>
    \A h \in Threads \ {Main} : \A i \in Earlier(h, Job) :
      outcome[i] = "queued" => InQueue(i) = {} /\ \A k \in DOMAIN Top.items : Top.items[k] # i

\* Jobs submitted with no wait are tried, whatever the timer does: again and again
\* none of them has not been.
TriedSoon ==
  []<>(\A j \in Jobs \ Startup : Before[j] = 0 => outcome[j] # "queued")

\* Once the timer, which is periodic and never killed, has been set, every job is
\* settled in the end if COM is available from some time on.
Settled ==
  <>[](Available /\ timer.period > 0) => <>[](\A j \in Jobs : outcome[j] \notin Pending)

-----------------------------------------------------------------------------
\* ExcelThread.h:30: "Functions requiring COM are continually retried until COM is
\* available". TimerCallback starts no timer for them if another job is due first.
RetriedUntilAvailable ==
  <>[]Available => <>[](\A j \in Jobs : outcome[j] # "retried")

-----------------------------------------------------------------------------
(***************************************************************************)
(* The inductive strengthening of Prompt.                                  *)
(***************************************************************************)
\* A callback which is at a job has one.
BodyHasJob == \A k \in DOMAIN frames : frames[k].at = "body" => frames[k].items # <<>>

\* _timerQueue is a multimap: sorted by due time.
Sorted == \A i, k \in DOMAIN queue : i <= k => queue[i].left <= queue[k].left

\* A job in the queue or with a callback has been submitted, and a refused one
\* asks for an interface.
Submitted ==
  /\ \A k \in DOMAIN queue : outcome[queue[k].job] # "new"
  /\ \A k \in DOMAIN frames :
       /\ \A i \in DOMAIN frames[k].items : outcome[frames[k].items[i]] # "new"
       /\ \A i \in DOMAIN frames[k].kept :
            outcome[frames[k].kept[i]] # "new" /\ Api[frames[k].kept[i]] # "none"

\* A job which is yet to be submitted is nowhere else.
TodoOnce ==
  \A h \in Threads : \A m \in DOMAIN todo[h] :
    /\ outcome[todo[h][m]] = "new"
    /\ \A j \in Startup : FuncOf[j] # todo[h][m]
    /\ \A g \in Threads : \A l \in DOMAIN todo[g] : todo[g][l] = todo[h][m] => g = h /\ l = m

\* The function of a RetryAtStartup waits for its connection.
FuncWaits == \A j \in Startup : outcome[j] # "ran" => outcome[FuncOf[j]] = "new"

\* The jobs which Prompt speaks of.
IsPrompt(j) == Before[j] = 0 /\ outcome[j] = "queued" /\ j \notin Startup

\* They are due; so the callback which a message causes takes them all.
DueNow == \A k \in DOMAIN queue : IsPrompt(queue[k].job) => queue[k].left = 0

QueueInv ==
  BodyHasJob /\ Sorted /\ Submitted /\ TodoOnce /\ FuncWaits /\ DueNow /\ Prompt

-----------------------------------------------------------------------------
(***************************************************************************)
(* With OnePlace, the inductive strengthening of InOrder.                  *)
(***************************************************************************)
\* Jobs are put back once all have been tried, so that a callback ends with none.
DoneTrying == \A k \in DOMAIN frames : frames[k].at = "requeue" => frames[k].items = <<>>

\* What is left of a thread's program is its end.
RestOfProgram ==
  \A h \in Threads :
    /\ Len(todo[h]) <= Len(Program[h])
    /\ \A m \in DOMAIN todo[h] : todo[h][m] = Program[h][Len(Program[h]) - Len(todo[h]) + m]

\* The jobs which are run at once, and given to enqueue() if refused, are not those
\* of other threads.
DirectOfMain ==
  \A k \in DOMAIN frames : frames[k].direct =>
    \A h \in Threads \ {Main} : \A m \in DOMAIN Program[h] : InFrame(Program[h][m], frames[k]) = {}

\* Whilst an earlier job which has not been tried is in the queue, a later one is
\* behind it.
QueuedInOrder ==
  \A h \in Threads \ {Main} : \A j \in Jobs : \A i \in Earlier(h, j) :
    outcome[i] = "queued" =>
      \A n \in DOMAIN queue : queue[n].job = i =>
        /\ \A m \in DOMAIN queue : queue[m].job = j => n < m
        /\ InFrames(j) = {}

\* A batch which holds both has them in order.
TakenInOrder ==
  \A h \in Threads \ {Main} : \A j \in Jobs : \A i \in Earlier(h, j) :
    outcome[i] = "queued" =>
      \A k \in DOMAIN frames : \A n, m \in DOMAIN frames[k].items :
        frames[k].items[n] = i /\ frames[k].items[m] = j => n < m

OrderInv == DoneTrying /\ OnePlace /\ RestOfProgram /\ DirectOfMain /\ QueuedInOrder /\ TakenInOrder
=============================================================================
