---------------------------- MODULE SessionProps ----------------------------
(***************************************************************************)
(* What a session promises about workbooks and the objects of their cells. *)
(***************************************************************************)
EXTENDS Session

\* Every variable holds what the code may put there.
TypeOK ==
  /\ CacheTypeOK
  /\ open \subseteq Books /\ known \subseteq Books /\ closing \subseteq open
  /\ checks \in 0..MaxChecks /\ timer \in BOOLEAN
  /\ \A i \in DOMAIN frames :
       frames[i].open \subseteq Books /\ frames[i].closed \subseteq Books /\ frames[i].fired \in BOOLEAN
  /\ events \in BOOLEAN /\ opened \in 0..MaxOpened
  /\ missed \subseteq Books

Unconfused(w) == \A v \in Books \ {w} : <<v, w>> \notin Starts

\* ObjectCache.h:135-139: the reference which a function has just returned fetches
\* the object it has added, for as long as its workbook is open, unless there are
\* more objects of its cell than positions (line 243), or the name of another
\* workbook is how its workbook's begins (line 281).
LatestResolves ==
  \A k \in DOMAIN latest :
    \/ k \in DOMAIN cache /\ Len(cache[k].objs) > Span
    \/ k[1] \in missed \/ ~Unconfused(k[1])
    \/ Fetched(k, latest[k].pos) = latest[k].obj

\* ComEventSink.cpp:20: outside check(), the monitor knows of every open workbook
\* whose events it has seen, whatever it has missed of the others.
KnowsOpen == frames = <<>> => open \ missed \subseteq known

\* PyEvents.cpp:244: once a workbook has closed, that is reported and its objects
\* are let go, unless it has been opened again, or the check waits in a queue whose
\* timer was never set, because another job was first (ExcelThread.cpp:147-151).
ClosedReaped ==
  \A w \in Books :
    w \notin open ~> \/ w \in open \union missed
                     \/ checks > 0 /\ ~timer
                     \/ \A k \in DOMAIN cache : k[1] # w

\* The same without exceptions, which does not hold: see the README.
EveryLatestResolves ==
  \A k \in DOMAIN latest : Fetched(k, latest[k].pos) = latest[k].obj
KnowsEveryOpen == frames = <<>> => open \subseteq known
EveryClosedReaped ==
  \A w \in Books : w \notin open ~> w \in open \/ \A k \in DOMAIN cache : k[1] # w
=============================================================================
