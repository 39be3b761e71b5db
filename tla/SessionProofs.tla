--------------------------- MODULE SessionProofs ---------------------------
(***************************************************************************)
(* Proofs about the object cache and the workbook monitor, for every set   *)
(* of workbooks and cells: the types, that no entry mixes calculation      *)
(* cycles, that the monitor knows of every workbook it could know of, and  *)
(* that a reference just returned fetches its object.                      *)
(***************************************************************************)
EXTENDS SessionProps, TLAPS

-----------------------------------------------------------------------------
(* The functions on which the cache is built, and sequences.               *)

\* What With changes and what it keeps.
LEMMA WithIs ==
  ASSUME NEW f, NEW k, NEW v
  PROVE  /\ DOMAIN With(f, k, v) = DOMAIN f \union {k}
         /\ With(f, k, v)[k] = v
         /\ \A x \in DOMAIN f : x # k => With(f, k, v)[x] = f[x]
BY DEF With

\* What Only keeps.
LEMMA OnlyIs ==
  ASSUME NEW f, NEW S
  PROVE  /\ DOMAIN Only(f, S) = DOMAIN f \intersect S
         /\ \A x \in DOMAIN f \intersect S : Only(f, S)[x] = f[x]
BY DEF Only

\* A sequence to which an element has been added.
LEMMA AppendIs ==
  ASSUME NEW T, NEW s \in Seq(T), NEW e \in T
  PROVE  /\ Append(s, e) \in Seq(T)
         /\ Append(s, e) # <<>>
         /\ Len(Append(s, e)) = Len(s) + 1
         /\ DOMAIN s = 1..Len(s)
         /\ DOMAIN Append(s, e) = 1..(Len(s) + 1)
         /\ Append(s, e)[Len(s) + 1] = e
         /\ \A i \in 1..Len(s) : Append(s, e)[i] = s[i]
OBVIOUS

\* A sequence of one element.
LEMMA OneIs ==
  ASSUME NEW T, NEW e \in T
  PROVE  /\ <<e>> \in Seq(T) /\ <<e>> # <<>> /\ Len(<<e>>) = 1
         /\ DOMAIN <<e>> = {1} /\ <<e>>[1] = e
OBVIOUS

\* A sequence with an element before it.
LEMMA PushIs ==
  ASSUME NEW T, NEW s \in Seq(T), NEW e \in T
  PROVE  /\ <<e>> \o s \in Seq(T)
         /\ <<e>> \o s # <<>>
         /\ \A i \in DOMAIN (<<e>> \o s) :
              (<<e>> \o s)[i] = e \/ \E j \in DOMAIN s : (<<e>> \o s)[i] = s[j]
<1>1. <<e>> \o s \in Seq(T) /\ Len(<<e>> \o s) = Len(s) + 1
  OBVIOUS
<1>2. \A i \in 1..(Len(s) + 1) : (<<e>> \o s)[i] = IF i = 1 THEN e ELSE s[i - 1]
  OBVIOUS
<1>3. \A i \in 1..(Len(s) + 1) : i = 1 \/ i - 1 \in 1..Len(s)
  OBVIOUS
<1>4. DOMAIN (<<e>> \o s) = 1..(Len(s) + 1) /\ DOMAIN s = 1..Len(s)
  BY <1>1
<1>. QED BY <1>1, <1>2, <1>3, <1>4

\* A sequence without its first element.
LEMMA TailIs ==
  ASSUME NEW T, NEW s \in Seq(T), s # <<>>
  PROVE  /\ Tail(s) \in Seq(T)
         /\ Head(s) \in T
         /\ 1 \in DOMAIN s /\ Head(s) = s[1]
         /\ \A i \in DOMAIN Tail(s) : i + 1 \in DOMAIN s /\ Tail(s)[i] = s[i + 1]
OBVIOUS

-----------------------------------------------------------------------------
(* The cache alone.                                                        *)

EntryOK(e) == e.calc \in 1..calcId /\ e.objs \in Seq(Object) /\ e.objs # <<>>

\* The entry of a cell after an object has been added.
LEMMA EntryTyped ==
  ASSUME CacheTypeOK, NEW k \in Keys, NEW o \in Object
  PROVE  /\ Entry(k, o).calc = calcId /\ Entry(k, o).calc \in 1..calcId
         /\ Entry(k, o).objs \in Seq(Object)
         /\ Entry(k, o).objs # <<>>
<1>1. calcId \in 1..calcId
  BY CacheConstants DEF CacheTypeOK
<1>2. CASE StartsAgain(k)
  BY <1>1, <1>2, OneIs DEF Entry
<1>3. CASE ~StartsAgain(k)
  <2>1. cache[k].objs \in Seq(Object)
    BY <1>3 DEF CacheTypeOK, StartsAgain
  <2>. QED BY <1>1, <1>3, <2>1, AppendIs DEF Entry
<1>. QED BY <1>2, <1>3

\* An object's position fits in its bits.
LEMMA PositionTyped ==
  ASSUME CacheTypeOK, NEW k \in Keys
  PROVE  Position(k) \in 0..Span - 1
<1>1. CASE StartsAgain(k)
  BY <1>1, CacheConstants DEF Position
<1>2. CASE ~StartsAgain(k)
  <2>1. cache[k].objs \in Seq(Object)
    BY <1>2 DEF CacheTypeOK, StartsAgain
  <2>2. Len(cache[k].objs) \in Nat
    BY <2>1
  <2>3. \A n \in Nat : n % Span \in 0..Span - 1
    BY CacheConstants
  <2>. QED BY <1>2, <2>2, <2>3 DEF Position
<1>. QED BY <1>1, <1>2

\* Adding an object keeps the cache typed.
LEMMA AddTyped ==
  ASSUME CacheTypeOK, NEW k \in Keys, Add(k)
  PROVE  CacheTypeOK'
<1> DEFINE o == [no |-> added + 1, cycle |-> calcId]
           e == Entry(k, o)
           r == [pos |-> Position(k), obj |-> o]
<1>1. /\ added \in Nat /\ added < MaxObjects /\ added' = added + 1
      /\ calcId' = calcId /\ calcId \in Nat
      /\ cache' = With(cache, k, e)
      /\ latest' = With(latest, k, r)
  BY CacheConstants DEF Add, CacheTypeOK
<1>2. o \in Object
  BY <1>1 DEF Object
<1>3. EntryOK(e)
  BY <1>2, EntryTyped DEF EntryOK
<1>4. r.pos \in 0..Span - 1 /\ r.obj \in Object
  BY <1>2, PositionTyped
<1> HIDE DEF o, e, r
<1>5. DOMAIN cache' \subseteq Keys /\ \A x \in DOMAIN cache' : EntryOK(cache'[x])
  <2>1. /\ DOMAIN cache' = DOMAIN cache \union {k}
        /\ cache'[k] = e
        /\ \A x \in DOMAIN cache : x # k => cache'[x] = cache[x]
    BY <1>1 DEF With
  <2>2. DOMAIN cache \subseteq Keys /\ \A x \in DOMAIN cache : EntryOK(cache[x])
    BY DEF CacheTypeOK, EntryOK
  <2>. QED BY <1>3, <2>1, <2>2
<1>6. /\ DOMAIN latest' \subseteq Keys
      /\ \A x \in DOMAIN latest' : latest'[x].pos \in 0..Span - 1 /\ latest'[x].obj \in Object
  <2>1. /\ DOMAIN latest' = DOMAIN latest \union {k}
        /\ latest'[k] = r
        /\ \A x \in DOMAIN latest : x # k => latest'[x] = latest[x]
    BY <1>1 DEF With
  <2>. QED BY <1>4, <2>1 DEF CacheTypeOK
<1>7. added' \in 0..MaxObjects
  BY <1>1, CacheConstants
<1>. QED BY <1>1, <1>5, <1>6, <1>7 DEF CacheTypeOK, EntryOK

\* Entries and references are taken away, or neither.
Shrinks(f, g) ==
  DOMAIN g \subseteq DOMAIN f /\ \A x \in DOMAIN g : g[x] = f[x]

\* Restricting a function takes entries away only.
LEMMA OnlyShrinks == ASSUME NEW f, NEW S PROVE Shrinks(f, Only(f, S))
BY OnlyIs DEF Shrinks

\* Taking entries away keeps the cache typed.
LEMMA ShrinksTyped ==
  ASSUME CacheTypeOK, Shrinks(cache, cache'), Shrinks(latest, latest'),
         UNCHANGED <<calcId, added>>
  PROVE  CacheTypeOK'
<1>1. DOMAIN cache' \subseteq Keys /\ \A x \in DOMAIN cache' : EntryOK(cache'[x])
  BY DEF CacheTypeOK, Shrinks, EntryOK
<1>2. /\ DOMAIN latest' \subseteq Keys
      /\ \A x \in DOMAIN latest' : latest'[x].pos \in 0..Span - 1 /\ latest'[x].obj \in Object
  BY DEF CacheTypeOK, Shrinks
<1>. QED BY <1>1, <1>2 DEF CacheTypeOK, EntryOK

\* Taking entries away keeps cells' cycles apart.
LEMMA ShrinksKeepsCycle ==
  ASSUME OneCycle, Shrinks(cache, cache')
  PROVE  OneCycle'
BY DEF OneCycle, Shrinks

\* A new calculation keeps the cache typed.
LEMMA CycleTyped ==
  ASSUME CacheTypeOK, NextCycle
  PROVE  CacheTypeOK'
<1>1. calcId \in Nat /\ calcId' = calcId + 1 /\ calcId' \in 1..MaxCycles + 1
  BY CacheConstants DEF CacheTypeOK, NextCycle
<1>2. 1..calcId \subseteq 1..calcId'
  BY <1>1
<1>. QED BY <1>1, <1>2 DEF CacheTypeOK, NextCycle

\* Adding an object keeps cells' cycles apart.
LEMMA AddKeepsCycle ==
  ASSUME CacheTypeOK, OneCycle, NEW k \in Keys, Add(k)
  PROVE  OneCycle'
<1> DEFINE o == [no |-> added + 1, cycle |-> calcId]
<1>1. cache' = With(cache, k, Entry(k, o)) /\ o \in Object /\ o.cycle = calcId
  BY CacheConstants DEF Add, CacheTypeOK, Object
<1>2. Entry(k, o).calc = calcId
  BY DEF Entry
<1> HIDE DEF o
<1>3. \A i \in DOMAIN Entry(k, o).objs : Entry(k, o).objs[i].cycle = calcId
  <2>1. CASE StartsAgain(k)
    BY <1>1, <2>1, OneIs DEF Entry
  <2>2. CASE ~StartsAgain(k)
    <3>1. k \in DOMAIN cache /\ cache[k].calc = calcId /\ cache[k].objs \in Seq(Object)
      BY <2>2 DEF CacheTypeOK, StartsAgain
    <3>2. Entry(k, o).objs = Append(cache[k].objs, o)
      BY <2>2 DEF Entry
    <3>3. \A i \in DOMAIN cache[k].objs : cache[k].objs[i].cycle = calcId
      BY <3>1 DEF OneCycle
    <3> DEFINE s == cache[k].objs
    <3>4. s \in Seq(Object) /\ \A i \in DOMAIN s : s[i].cycle = calcId
      BY <3>1, <3>3
    <3> HIDE DEF s
    <3>5. \A i \in DOMAIN Append(s, o) : Append(s, o)[i].cycle = calcId
      <4>1. \A i \in 1..(Len(s) + 1) : i \in 1..Len(s) \/ i = Len(s) + 1
        BY <3>4
      <4>. QED BY <1>1, <3>4, <4>1, AppendIs
    <3>. QED BY <3>2, <3>5 DEF s
  <2>. QED BY <2>1, <2>2
<1>4. /\ DOMAIN cache' = DOMAIN cache \union {k}
      /\ cache'[k] = Entry(k, o)
      /\ \A x \in DOMAIN cache : x # k => cache'[x] = cache[x]
  BY <1>1 DEF With
<1>. QED BY <1>2, <1>3, <1>4 DEF OneCycle

-----------------------------------------------------------------------------
(* The monitor.                                                            *)

Frame == [open : SUBSET Books, closed : SUBSET Books, fired : BOOLEAN]

BookTypes ==
  /\ open \subseteq Books /\ known \subseteq Books /\ closing \subseteq open
  /\ checks \in 0..MaxChecks
  /\ frames \in Seq(Frame)
  /\ events \in BOOLEAN /\ opened \in 0..MaxOpened
  /\ missed \subseteq Books

\* No open workbook whose events have been seen will be forgotten at the end of a
\* loop, and none is taken for closed.
FramesKnow ==
  \A i \in DOMAIN frames :
    /\ open \ missed \subseteq frames[i].open
    /\ frames[i].closed \intersect open \subseteq missed

BookInv == BookTypes /\ KnowsOpen /\ FramesKnow

NewFrame(now) == [open |-> now, closed |-> known \ now, fired |-> FALSE]

\* What a new frame needs, whatever has been missed.
LEMMA CheckKeeps ==
  ASSUME BookTypes, NEW now \in SUBSET Books, Check(now), open' = now,
         \A i \in DOMAIN frames :
           /\ open' \ missed' \subseteq frames[i].open
           /\ frames[i].closed \intersect open' \subseteq missed'
  PROVE  frames' \in Seq(Frame) /\ KnowsOpen' /\ FramesKnow'
<1> DEFINE e == NewFrame(now)
<1>1. frames' = <<e>> \o frames /\ frames \in Seq(Frame)
  BY DEF Check, BookTypes, NewFrame
<1>2. e \in Frame /\ e.open = now /\ e.closed = known \ now
  BY DEF BookTypes, NewFrame, Frame
<1> HIDE DEF e
<1>3. /\ frames' \in Seq(Frame) /\ frames' # <<>>
      /\ \A i \in DOMAIN frames' : frames'[i] = e \/ \E j \in DOMAIN frames : frames'[i] = frames[j]
  BY <1>1, <1>2, PushIs
<1>. QED BY <1>2, <1>3 DEF KnowsOpen, FramesKnow

\* Opening a workbook keeps the monitor's invariant.
LEMMA OpenKeeps ==
  ASSUME BookInv, NEW w \in Books, OpenBook(w)
  PROVE  BookInv'
<1>1. /\ open' = open \union {w} /\ opened' = opened + 1
      /\ opened < MaxOpened
      /\ UNCHANGED <<closing, checks, events>>
      /\ \/ events /\ CheckOnOpen(w, open')
         \/ ~events /\ UNCHANGED <<known, frames>>
  BY DEF OpenBook, Open
<1>2. missed' = IF events /\ ~InCheck THEN missed \ {w} ELSE missed \union {w}
  BY DEF OpenBook
<1>3. \A i \in DOMAIN frames :
        /\ open' \ missed' \subseteq frames[i].open
        /\ frames[i].closed \intersect open' \subseteq missed'
  <2>1. CASE frames = <<>>
    BY <2>1
  <2>2. CASE frames # <<>>
    BY <1>1, <1>2, <2>2 DEF BookInv, FramesKnow, InCheck
  <2>. QED BY <2>1, <2>2
<1>4. frames' \in Seq(Frame) /\ KnowsOpen' /\ FramesKnow' /\ known' \subseteq Books
  <2>1. CASE events /\ Check(open')
    BY <2>1, <1>1, <1>3, CheckKeeps DEF BookInv, BookTypes, Check
  <2>2. CASE events /\ known' = known \union {w} /\ UNCHANGED frames
    BY <2>2, <1>1, <1>2, <1>3 DEF BookInv, BookTypes, KnowsOpen, FramesKnow, InCheck
  <2>3. CASE ~events /\ UNCHANGED <<known, frames>>
    BY <2>3, <1>1, <1>2, <1>3 DEF BookInv, BookTypes, KnowsOpen, FramesKnow
  <2>. QED BY <1>1, <2>1, <2>2, <2>3 DEF CheckOnOpen
<1>5. /\ open' \subseteq Books /\ closing' \subseteq open' /\ checks' \in 0..MaxChecks
      /\ events' \in BOOLEAN /\ opened' \in 0..MaxOpened /\ missed' \subseteq Books
  BY <1>1, <1>2, SessionConstants DEF BookInv, BookTypes
<1>. QED BY <1>4, <1>5 DEF BookInv, BookTypes

\* The end of a check keeps the monitor's invariant.
LEMMA EndCheckKeeps ==
  ASSUME BookInv, LeaveCheck
  PROVE  BookInv'
<1>1. /\ frames # <<>> /\ known' = Head(frames).open /\ frames' = Tail(frames)
      /\ UNCHANGED <<open, closing, checks, events, opened, missed>>
  BY DEF LeaveCheck, EndCheck, Know, InCheck
<1>2. /\ frames' \in Seq(Frame) /\ Head(frames) \in Frame
      /\ 1 \in DOMAIN frames /\ Head(frames) = frames[1]
      /\ \A i \in DOMAIN frames' : i + 1 \in DOMAIN frames /\ frames'[i] = frames[i + 1]
  BY <1>1, TailIs DEF BookInv, BookTypes
<1>3. known' \subseteq Books /\ open \ missed \subseteq known'
  BY <1>1, <1>2 DEF BookInv, FramesKnow, Frame
<1>4. KnowsOpen' /\ FramesKnow'
  BY <1>1, <1>2, <1>3 DEF BookInv, KnowsOpen, FramesKnow
<1>. QED BY <1>1, <1>2, <1>3, <1>4 DEF BookInv, BookTypes

\* Reporting a close keeps the monitor's invariant.
LEMMA ReportKeeps ==
  ASSUME BookInv, NEW w \in Books, ReportBook(w)
  PROVE  BookInv'
<1>1. /\ frames # <<>>
      /\ frames' = [frames EXCEPT ![1].closed = @ \ {w}, ![1].fired = TRUE]
      /\ UNCHANGED <<open, known, closing, checks, events, opened, missed>>
  BY DEF ReportBook, Report, InCheck
<1>2. /\ frames \in Seq(Frame) /\ 1 \in DOMAIN frames
  BY <1>1, TailIs DEF BookInv, BookTypes
<1>3. /\ frames' \in Seq(Frame) /\ DOMAIN frames' = DOMAIN frames
      /\ \A i \in DOMAIN frames : frames'[i].open = frames[i].open
                                /\ frames'[i].closed \subseteq frames[i].closed
  <2> DEFINE e == [frames[1] EXCEPT !.closed = @ \ {w}, !.fired = TRUE]
  <2>1. frames[1] \in Frame
    BY <1>2
  <2>2. e \in Frame /\ e.open = frames[1].open /\ e.closed = frames[1].closed \ {w}
    BY <2>1 DEF Frame
  <2>3. frames' = [frames EXCEPT ![1] = e]
    BY <1>1, <1>2, <2>1 DEF Frame
  <2> HIDE DEF e
  <2>4. frames' \in Seq(Frame) /\ DOMAIN frames' = DOMAIN frames
    BY <1>2, <2>2, <2>3
  <2>5. \A i \in DOMAIN frames : frames'[i] = IF i = 1 THEN e ELSE frames[i]
    BY <1>2, <2>3
  <2>. QED BY <2>2, <2>4, <2>5
<1>4. KnowsOpen' /\ FramesKnow'
  <2>1. frames' # <<>>
    BY <1>2, <1>3
  <2>. QED BY <1>1, <1>3, <2>1 DEF BookInv, KnowsOpen, FramesKnow
<1>. QED BY <1>1, <1>3, <1>4 DEF BookInv, BookTypes

\* The start of a check keeps the monitor's invariant.
LEMMA StartCheckKeeps ==
  ASSUME BookInv, StartCheck
  PROVE  BookInv'
<1>1. /\ frames = <<>> /\ checks > 0 /\ checks' = checks - 1 /\ Check(open)
      /\ UNCHANGED <<open, closing, events, opened, missed>>
  BY DEF StartCheck, RunCheck, InCheck
<1>2. known' = known
  BY <1>1 DEF Check
<1>3. frames' \in Seq(Frame) /\ KnowsOpen' /\ FramesKnow'
  BY <1>1, CheckKeeps DEF BookInv, BookTypes
<1>4. checks' \in 0..MaxChecks
  BY <1>1, SessionConstants DEF BookInv, BookTypes
<1>. QED BY <1>1, <1>2, <1>3, <1>4 DEF BookInv, BookTypes

\* What neither opens a workbook nor touches the loops.
LEMMA QuietKeeps ==
  ASSUME BookInv, UNCHANGED <<known, frames, opened>>,
         open' \ missed' \subseteq open \ missed, missed \subseteq missed',
         open' \subseteq Books, closing' \subseteq open', missed' \subseteq Books,
         checks' \in 0..MaxChecks, events' \in BOOLEAN,
         open' \intersect (Books \ missed') \subseteq open
  PROVE  BookInv'
<1>1. KnowsOpen'
  BY DEF BookInv, KnowsOpen
<1>2. FramesKnow'
  BY DEF BookInv, BookTypes, FramesKnow, Frame
<1>. QED BY <1>1, <1>2 DEF BookInv, BookTypes

\* Every step keeps the monitor's invariant.
LEMMA BookStep ==
  ASSUME BookInv, [Next]_vars
  PROVE  BookInv'
<1> USE DEF BookInv, BookTypes
<1>1. ASSUME NEW k \in Keys, AddObject(k) PROVE BookInv'
  <2>1. k[1] \in Books /\ missed' = missed \union ({k[1]} \ open) /\ UNCHANGED bookVars
    BY <1>1 DEF AddObject, Misses, Keys
  <2>. QED BY <2>1, QuietKeeps DEF bookVars
<1>2. ASSUME NEW k \in Keys, RemoveObject(k) PROVE BookInv'
  BY <1>2, QuietKeeps DEF RemoveObject, bookVars
<1>3. CASE AfterCalculate
  BY <1>3, QuietKeeps DEF AfterCalculate, bookVars
<1>4. ASSUME NEW w \in Books, OpenBook(w) PROVE BookInv'
  BY <1>4, OpenKeeps
<1>5. ASSUME NEW w \in Books, NEW cancel \in BOOLEAN, BeforeCloseBook(w, cancel) PROVE BookInv'
  <2>1. /\ w \in open /\ checks < MaxChecks
        /\ closing' \subseteq {w}
        /\ checks' = checks \/ checks' = checks + 1
        /\ UNCHANGED <<open, known, frames, events, opened>>
        /\ missed' = missed \/ missed' = missed \union {w}
    BY <1>5 DEF BeforeCloseBook, BeforeClose, Queued, Misses, NoWorkbook
  <2>2. checks' \in 0..MaxChecks
    BY <2>1, SessionConstants
  <2>. QED BY <2>1, <2>2, QuietKeeps
<1>6. ASSUME NEW w \in Books, NEW v \in Books, SaveBookAs(w, v) PROVE BookInv'
  <2>1. /\ closing = {} /\ open' = (open \ {w}) \union {v} /\ missed' = missed \union {w, v}
        /\ UNCHANGED <<known, closing, checks, frames, events, opened>>
    BY <1>6 DEF SaveBookAs, SaveAs, Misses, NoWorkbook
  <2>. QED BY <2>1, QuietKeeps
<1>7. CASE Silence
  <2>1. /\ events' \in BOOLEAN
        /\ UNCHANGED <<open, known, closing, checks, frames, opened, missed>>
    BY <1>7 DEF Silence, AllowEvents
  <2>. QED BY <2>1, QuietKeeps
<1>8. CASE StartCheck
  BY <1>8, StartCheckKeeps
<1>9. CASE LeaveCheck
  BY <1>9, EndCheckKeeps
<1>10. ASSUME NEW w \in Books, ReportBook(w) PROVE BookInv'
  BY <1>10, ReportKeeps
<1>11. CASE Leave
  <2>1. /\ closing' = {}
        /\ UNCHANGED <<open, known, checks, frames, events, opened, missed>>
    BY <1>11 DEF Leave, StayOpen, NoWorkbook
  <2>. QED BY <2>1, QuietKeeps
<1>12. ASSUME NEW w \in Books, CloseBook(w) PROVE BookInv'
  <2>1. /\ open' = open \ {w} /\ closing' = {}
        /\ UNCHANGED <<known, checks, frames, events, opened, missed>>
    BY <1>12 DEF CloseBook, Close, NoWorkbook
  <2>. QED BY <2>1, QuietKeeps
<1>13. CASE UNCHANGED vars
  BY <1>13, QuietKeeps DEF vars, bookVars
<1>14. CASE PutBack
  <2>1. UNCHANGED <<open, known, closing, checks, frames, events, opened, missed>>
    BY <1>14 DEF PutBack, Refuse
  <2>. QED BY <2>1, QuietKeeps
<1>. QED BY <1>1, <1>2, <1>3, <1>4, <1>5, <1>6, <1>7, <1>8, <1>9, <1>10, <1>11, <1>12, <1>13,
            <1>14
     DEF Next, Reporting, Decide

-----------------------------------------------------------------------------
(* The cache with its monitor. A reference is dropped with its workbook, so *)
(* that one which is left belongs to a workbook which is open, or of which  *)
(* something has been missed: none that check() may report as closed.       *)

Held == \A k \in DOMAIN latest : k[1] \in open \union missed

CacheInv == CacheTypeOK /\ OneCycle /\ Held /\ LatestResolves

SessionInv == BookInv /\ CacheInv

Finds(k) ==
  \/ k \in DOMAIN cache /\ Len(cache[k].objs) > Span
  \/ Fetched(k, latest[k].pos) = latest[k].obj

\* The object just added is found by its reference.
LEMMA AddFinds ==
  ASSUME CacheTypeOK, NEW k \in Keys, Add(k)
  PROVE  Finds(k)'
<1> DEFINE o == [no |-> added + 1, cycle |-> calcId]
<1>1. /\ cache' = With(cache, k, Entry(k, o))
      /\ latest' = With(latest, k, [pos |-> Position(k), obj |-> o])
      /\ o \in Object
  BY CacheConstants DEF Add, CacheTypeOK, Object
<1>2. /\ k \in DOMAIN cache' /\ cache'[k] = Entry(k, o)
      /\ latest'[k] = [pos |-> Position(k), obj |-> o]
  BY <1>1 DEF With
<1> HIDE DEF o
<1> SUFFICES \/ Len(Entry(k, o).objs) > Span
             \/ /\ Position(k) < Len(Entry(k, o).objs)
                /\ Entry(k, o).objs[Position(k) + 1] = o
  BY <1>2 DEF Finds, Fetched
<1>3. CASE StartsAgain(k)
  BY <1>1, <1>3, OneIs DEF Entry, Position
<1>4. CASE ~StartsAgain(k)
  <2> DEFINE s == cache[k].objs
  <2>1. s \in Seq(Object)
    BY <1>4 DEF CacheTypeOK, StartsAgain
  <2>2. Entry(k, o).objs = Append(s, o) /\ Position(k) = Len(s) % Span
    BY <1>4 DEF Entry, Position
  <2> HIDE DEF s
  <2>3. Len(s) \in Nat /\ Len(Append(s, o)) = Len(s) + 1 /\ Append(s, o)[Len(s) + 1] = o
    BY <1>1, <2>1, AppendIs
  <2>4. CASE Len(s) < Span
    <3>1. Len(s) % Span = Len(s)
      BY <2>3, <2>4, CacheConstants
    <3>. QED BY <2>2, <2>3, <3>1
  <2>5. CASE Len(s) >= Span
    BY <2>2, <2>3, <2>5, CacheConstants
  <2>. QED BY <2>3, <2>4, <2>5, CacheConstants
<1>. QED BY <1>3, <1>4

\* Adding an object keeps the cache's invariant.
LEMMA AddKeeps ==
  ASSUME BookInv, CacheInv, NEW k \in Keys, AddObject(k)
  PROVE  CacheInv'
<1>1. Add(k) /\ missed' = missed \union ({k[1]} \ open) /\ UNCHANGED open
  BY DEF AddObject, Misses, bookVars
<1>2. PICK e, r : cache' = With(cache, k, e) /\ latest' = With(latest, k, r)
  BY <1>1 DEF Add
<1>3. /\ DOMAIN latest' = DOMAIN latest \union {k}
      /\ DOMAIN cache' = DOMAIN cache \union {k}
      /\ \A x \in DOMAIN latest : x # k => latest'[x] = latest[x]
      /\ \A x \in DOMAIN cache : x # k => cache'[x] = cache[x]
  BY <1>2 DEF With
<1>4. Held'
  BY <1>1, <1>3 DEF CacheInv, Held
<1>5. Finds(k)'
  BY <1>1, AddFinds DEF CacheInv
<1>6. \A x \in DOMAIN latest \ {k} : Finds(x) => Finds(x)'
  BY <1>3 DEF Finds, Fetched
<1>7. LatestResolves'
  BY <1>1, <1>3, <1>5, <1>6 DEF CacheInv, LatestResolves, Finds
<1>. QED BY <1>1, <1>4, <1>7, AddTyped, AddKeepsCycle DEF CacheInv

\* Entries go only with references, or of workbooks of which something was missed.
LEMMA DropKeeps ==
  ASSUME CacheInv, Shrinks(cache, cache'), Shrinks(latest, latest'), UNCHANGED <<calcId, added>>,
         \A k \in DOMAIN latest' :
           /\ k[1] \in open \union missed => k[1] \in open' \union missed'
           /\ k[1] \in missed => k[1] \in missed'
           /\ k \in DOMAIN cache \ DOMAIN cache' => k[1] \in missed' \/ ~Unconfused(k[1])
  PROVE  CacheInv'
<1>1. CacheTypeOK' /\ OneCycle'
  BY ShrinksTyped, ShrinksKeepsCycle DEF CacheInv
<1>2. Held'
  BY DEF CacheInv, Held, Shrinks
<1>3. ASSUME NEW k \in DOMAIN latest', Finds(k), ~(k \in DOMAIN cache \ DOMAIN cache')
      PROVE  Finds(k)'
  BY <1>3 DEF Finds, Fetched, Shrinks
<1>4. LatestResolves'
  <2> SUFFICES ASSUME NEW k \in DOMAIN latest', k[1] \notin missed', Unconfused(k[1])
               PROVE  Finds(k)'
    BY DEF LatestResolves, Finds
  <2>1. k \in DOMAIN latest /\ k[1] \notin missed
    BY DEF Shrinks
  <2>2. Finds(k)
    BY <2>1 DEF CacheInv, LatestResolves, Finds
  <2>. QED BY <1>3, <2>2
<1>. QED BY <1>1, <1>2, <1>4 DEF CacheInv

\* A function which has not changed has lost nothing else.
LEMMA SameShrinks == ASSUME NEW f PROVE Shrinks(f, f)
BY DEF Shrinks

\* Every step keeps the cache's invariant.
LEMMA CacheStep ==
  ASSUME SessionInv, [Next]_vars
  PROVE  CacheInv'
<1> USE DEF SessionInv
<1>1. ASSUME NEW k \in Keys, AddObject(k) PROVE CacheInv'
  BY <1>1, AddKeeps
<1>2. ASSUME NEW k \in Keys, RemoveObject(k) PROVE CacheInv'
  <2>1. /\ cache' = Only(cache, Keys \ {k}) /\ latest' = Only(latest, Keys \ {k})
        /\ UNCHANGED <<calcId, added, open, missed>>
    BY <1>2 DEF RemoveObject, Erase, bookVars
  <2>2. /\ k \notin DOMAIN latest' /\ DOMAIN cache' = DOMAIN cache \ {k}
    BY <2>1 DEF Only, CacheInv, CacheTypeOK
  <2>3. Shrinks(cache, cache') /\ Shrinks(latest, latest')
    BY <2>1, OnlyShrinks
  <2>. QED BY <2>1, <2>2, <2>3, DropKeeps
<1>3. CASE AfterCalculate
  <2>1. NextCycle /\ UNCHANGED <<cache, added, latest, open, missed>>
    BY <1>3 DEF AfterCalculate, NextCycle, bookVars
  <2>2. CacheTypeOK'
    BY <2>1, CycleTyped DEF CacheInv
  <2>. QED BY <2>1, <2>2 DEF CacheInv, OneCycle, Held, LatestResolves, Fetched
<1>4. ASSUME NEW w \in Books, OpenBook(w) PROVE CacheInv'
  <2>1. /\ latest' = Only(latest, {k \in Keys : k[1] # w})
        /\ UNCHANGED <<cache, calcId, added>>
        /\ open' = open \union {w} /\ missed \ {w} \subseteq missed'
    BY <1>4 DEF OpenBook, Open, Forget
  <2>2. \A k \in DOMAIN latest' : k[1] # w
    BY <2>1 DEF Only
  <2>3. Shrinks(cache, cache') /\ Shrinks(latest, latest')
    BY <2>1, OnlyShrinks, SameShrinks
  <2>. QED BY <2>1, <2>2, <2>3, DropKeeps
<1>5. ASSUME NEW w \in Books, CloseBook(w) PROVE CacheInv'
  <2>1. /\ latest' = Only(latest, {k \in Keys : k[1] # w})
        /\ open' = open \ {w}
        /\ UNCHANGED <<cache, calcId, added, missed>>
    BY <1>5 DEF CloseBook, Close, Forget
  <2>2. \A k \in DOMAIN latest' : k[1] # w
    BY <2>1 DEF Only
  <2>3. Shrinks(cache, cache') /\ Shrinks(latest, latest')
    BY <2>1, OnlyShrinks, SameShrinks
  <2>. QED BY <2>1, <2>2, <2>3, DropKeeps
<1>6. ASSUME NEW w \in Books, ReportBook(w) PROVE CacheInv'
  <2>1. /\ frames # <<>> /\ w \in Head(frames).closed
        /\ cache' = Only(cache, Keys \ Reaped(w))
        /\ UNCHANGED <<calcId, added, latest, open, missed>>
    BY <1>6 DEF ReportBook, Report, Reap, InCheck
  <2>2. w \in open => w \in missed
    BY <2>1, TailIs DEF BookInv, BookTypes, FramesKnow
  <2>3. \A k \in DOMAIN cache \ DOMAIN cache' : <<w, k[1]>> \in Starts
    BY <2>1 DEF Only, Reaped, CacheInv, CacheTypeOK
  <2>4. ASSUME NEW k \in DOMAIN latest, k \in DOMAIN cache \ DOMAIN cache'
        PROVE  k[1] \in missed \/ ~Unconfused(k[1])
    BY <2>2, <2>3, <2>4 DEF CacheInv, Held, Unconfused
  <2>5. Shrinks(cache, cache') /\ Shrinks(latest, latest')
    BY <2>1, OnlyShrinks, SameShrinks
  <2>. QED BY <2>1, <2>4, <2>5, DropKeeps
<1>7. ASSUME UNCHANGED cacheVars, missed \subseteq missed', open \subseteq open' \union missed'
      PROVE  CacheInv'
  <2>1. UNCHANGED <<cache, calcId, added, latest>>
    BY <1>7 DEF cacheVars
  <2>2. Shrinks(cache, cache') /\ Shrinks(latest, latest')
    BY <2>1, SameShrinks
  <2>. QED BY <1>7, <2>1, <2>2, DropKeeps
<1>8. ASSUME NEW w \in Books, NEW cancel \in BOOLEAN, BeforeCloseBook(w, cancel) PROVE CacheInv'
  BY <1>8, <1>7 DEF BeforeCloseBook, BeforeClose, Misses, Unheard
<1>9. ASSUME NEW w \in Books, NEW v \in Books, SaveBookAs(w, v) PROVE CacheInv'
  BY <1>9, <1>7 DEF SaveBookAs, SaveAs, Misses, Unheard
<1>10. CASE Silence \/ StartCheck \/ PutBack \/ LeaveCheck \/ Leave
  BY <1>10, <1>7 DEF Silence, AllowEvents, StartCheck, RunCheck, PutBack, Refuse, Check, LeaveCheck, EndCheck,
                     Leave, StayOpen, Unheard
<1>11. CASE UNCHANGED vars
  BY <1>11, <1>7 DEF vars, bookVars
<1>. QED BY <1>1, <1>2, <1>3, <1>4, <1>5, <1>6, <1>8, <1>9, <1>10, <1>11
     DEF Next, Reporting, Decide

\* The timer is set, or left as it is.
LEMMA TimerStep ==
  ASSUME timer \in BOOLEAN, [Next]_vars
  PROVE  timer' \in BOOLEAN
<1>1. ASSUME NEW k \in Keys, AddObject(k) \/ RemoveObject(k) PROVE timer' = timer
  BY <1>1 DEF AddObject, RemoveObject, bookVars
<1>2. ASSUME NEW w \in Books, NEW cancel \in BOOLEAN, BeforeCloseBook(w, cancel)
      PROVE  timer' \in BOOLEAN
  BY <1>2 DEF BeforeCloseBook, BeforeClose, SetTimer
<1>3. ASSUME NEW w \in Books,
             OpenBook(w) \/ ReportBook(w) \/ CloseBook(w) \/ \E v \in Books : SaveBookAs(w, v)
      PROVE  timer' = timer
  BY <1>3 DEF OpenBook, Open, ReportBook, Report, CloseBook, Close, SaveBookAs, SaveAs
<1>4. CASE AfterCalculate \/ Silence \/ StartCheck \/ LeaveCheck \/ Leave \/ UNCHANGED vars
  BY <1>4 DEF AfterCalculate, Silence, AllowEvents, StartCheck, RunCheck, LeaveCheck, EndCheck,
              Leave, StayOpen, vars, bookVars
<1>5. CASE PutBack
  BY <1>5 DEF PutBack, Refuse, SetTimer
<1>. QED BY <1>1, <1>2, <1>3, <1>4, <1>5 DEF Next, Reporting, Decide

\* The invariant holds at first.
LEMMA SessionStart == SessionInit => SessionInv
<1> SUFFICES ASSUME SessionInit PROVE SessionInv
  OBVIOUS
<1>1. CacheTypeOK
  BY CacheConstants DEF SessionInit, CacheInit, CacheTypeOK
<1>2. OneCycle /\ Held /\ LatestResolves
  BY DEF SessionInit, CacheInit, OneCycle, Held, LatestResolves
<1>3. BookTypes
  BY SessionConstants DEF SessionInit, MonitorInit, BookTypes, NoWorkbook
<1>4. KnowsOpen /\ FramesKnow
  BY DEF SessionInit, MonitorInit, KnowsOpen, FramesKnow
<1>. QED BY <1>1, <1>2, <1>3, <1>4 DEF SessionInv, BookInv, CacheInv

\* The invariant holds in every behaviour.
LEMMA SessionKept == Spec => []SessionInv
<1>1. SessionInit => SessionInv
  BY SessionStart
<1>2. SessionInv /\ [Next]_vars => SessionInv'
  BY BookStep, CacheStep DEF SessionInv
<1>. QED BY <1>1, <1>2, PTL DEF Spec

-----------------------------------------------------------------------------
\* Every variable of a session keeps its type.
THEOREM SessionTypeCorrect == Spec => []TypeOK
<1>1. SessionInv /\ timer \in BOOLEAN => TypeOK
  <2> SUFFICES ASSUME SessionInv, timer \in BOOLEAN PROVE TypeOK
    OBVIOUS
  <2>1. \A i \in DOMAIN frames : frames[i] \in Frame
    BY DEF SessionInv, BookInv, BookTypes
  <2>2. \A i \in DOMAIN frames :
          frames[i].open \subseteq Books /\ frames[i].closed \subseteq Books /\ frames[i].fired \in BOOLEAN
    BY <2>1 DEF Frame
  <2>. QED BY <2>2 DEF SessionInv, BookInv, BookTypes, CacheInv, TypeOK
<1>2. SessionInit => timer \in BOOLEAN
  BY DEF SessionInit, MonitorInit
<1>3. timer \in BOOLEAN /\ [Next]_vars => (timer \in BOOLEAN)'
  BY TimerStep
<1>. QED BY <1>1, <1>2, <1>3, SessionKept, PTL DEF Spec

\* An entry of the cache never mixes objects of two calculation cycles
\* (CellCache::add, ObjectCache.h:103-120).
THEOREM CyclesApart == Spec => []OneCycle
<1>1. SessionInv => OneCycle
  BY DEF SessionInv, CacheInv
<1>. QED BY <1>1, SessionKept, PTL

\* However workbooks are opened, closed and renamed, and whatever handlers do, the
\* monitor knows of each open workbook of which it has missed no event
\* (WorkbookMonitor::check, ComEventSink.cpp).
THEOREM MonitorKnows == Spec => []KnowsOpen
<1>1. SessionInv => KnowsOpen
  BY DEF SessionInv, BookInv
<1>. QED BY <1>1, SessionKept, PTL

\* The reference which add() has just returned for a key fetches the object added,
\* with the exceptions which LatestResolves names.
THEOREM ReferencesResolve == Spec => []LatestResolves
<1>1. SessionInv => LatestResolves
  BY DEF SessionInv, CacheInv
<1>. QED BY <1>1, SessionKept, PTL
=============================================================================
