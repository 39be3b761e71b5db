---------------------------- MODULE AddinProofs -----------------------------
(***************************************************************************)
(* What is proved of an add-in: of its functions, of when it is loaded and *)
(* let go, and of the memory of its functions' thunks, in three parts.     *)
(*                                                                         *)
(* The first part is about the sources of functions and the registry.  A   *)
(* step changes the sources, their functions and the jobs which wait, and  *)
(* then lets go of the sources nothing holds any more: so what every step  *)
(* does is stated of the world it makes, WorldOK, and that settling keeps  *)
(* it is proved once.  In such a world each name in the registry is that   *)
(* of a function which is registered, every registration is that of a      *)
(* function which a source holds, or which a job is about to drop, two     *)
(* sources never hold one function, and an iterator which was not left     *)
(* dangling by a rebuilt map points where it did.                          *)
(***************************************************************************)
EXTENDS FuncSourcesProps, LoadersProps, FiniteSetTheorems, TLAPS

\* A book is a record of five parts.
Book(b) == IsBook(b) /\ DOMAIN b = {"fn", "registry", "regs", "bound", "refused"}

\* Each function with an id is what Excel's registration of the id points to.
IdsMatch(b) ==
  \A o \in Objs : b.fn[o].id # NoId =>
    b.fn[o].id \in DOMAIN b.regs /\ b.regs[b.fn[o].id] = o

\* Each name in the registry is that of a function which is registered.
Entered(b) ==
  \A n \in DOMAIN b.registry :
    LET f == b.fn[b.registry[n]] IN f # NoFunc /\ f.name = n /\ f.id # NoId /\ n \in DOMAIN b.bound

\* ... and calls it.
CallsOwn(b) == \A n \in DOMAIN b.registry : b.bound[n] = b.fn[b.registry[n]].id

\* Each registration is that of a function in refs, but for those in except.
OwnedBy(b, refs, except) ==
  \A i \in DOMAIN b.regs \ (b.refused \cup except) :
    b.regs[i] \in refs /\ b.fn[b.regs[i]].id = i

Funcs == [name: Names, info: Infos, id: Ids \cup {NoId}]

\* Memory holds a function, with a name and an id, or nothing.
LEMMA FnTyped ==
  ASSUME NEW b, Book(b), NEW o \in Objs
  PROVE  /\ b.fn[o] = NoFunc \/ b.fn[o] \in Funcs
         /\ b.fn[o].id \in Ids \cup {NoId}
         /\ Live(b, o) <=> b.fn[o] \in Funcs
         /\ b.fn[o].id # NoId => Live(b, o)
         /\ Live(b, o) => b.fn[o].name \in Names
<1>1. b.fn \in [Objs -> {NoFunc} \cup Funcs]
  BY DEF Book, IsBook, Funcs
<1>2. b.fn[o] = NoFunc \/ b.fn[o] \in Funcs
  BY <1>1
<1>3. NoFunc.id = NoId /\ NoFunc.name = ""
  BY DEF NoFunc
<1>4. NoFunc \notin Funcs
  BY <1>3, BookConstants DEF Funcs
<1>. QED BY <1>2, <1>3, <1>4 DEF Funcs, Live

\* A book d which differs from b by what goes when os are deregistered.
GoneFrom(b, d, os, gone) ==
  /\ \A o \in Objs : o \notin gone => d.fn[o] = b.fn[o]
  /\ \A o \in gone : d.fn[o] = [b.fn[o] EXCEPT !.id = NoId] /\ Live(d, o)
  /\ DOMAIN d.regs = DOMAIN b.regs \ IdsOf(b, gone)
  /\ \A i \in DOMAIN d.regs : d.regs[i] = b.regs[i]
  /\ DOMAIN d.registry = DOMAIN b.registry \ NamesOf(b, gone)
  /\ \A n \in DOMAIN d.registry : d.registry[n] = b.registry[n]
  /\ DOMAIN d.bound = DOMAIN b.bound \ NamesOf(b, gone)
  /\ \A n \in DOMAIN d.bound : d.bound[n] = b.bound[n]
  /\ d.refused = (b.refused \cup IdsOf(b, os)) \ IdsOf(b, gone)

\* Deregistering does that.
LEMMA DeregisterDoes ==
  ASSUME NEW b, Book(b), NEW os \in SUBSET Objs, NEW refuses
  PROVE  /\ Book(Deregister(b, os, refuses))
         /\ GoneFrom(b, Deregister(b, os, refuses), os, Given(b, os, refuses))
<1> DEFINE gone == Given(b, os, refuses)
           d == Deregister(b, os, refuses)
<1>1. gone \subseteq Objs
  BY DEF Given
<1>2. \A o \in gone : b.fn[o] \in Funcs /\ b.fn[o].id # NoId
  BY <1>1, FnTyped DEF Given, CanDeregister
<1>3. IdsOf(b, os) \subseteq Ids /\ IdsOf(b, gone) \subseteq Ids
  BY <1>1, FnTyped DEF IdsOf
<1> HIDE DEF gone
<1>4. /\ DOMAIN d = DOMAIN b
      /\ d.fn = [o \in Objs |-> IF o \in gone THEN [b.fn[o] EXCEPT !.id = NoId] ELSE b.fn[o]]
      /\ d.registry = [n \in DOMAIN b.registry \ NamesOf(b, gone) |-> b.registry[n]]
      /\ d.regs = [i \in DOMAIN b.regs \ IdsOf(b, gone) |-> b.regs[i]]
      /\ d.bound = [n \in DOMAIN b.bound \ NamesOf(b, gone) |-> b.bound[n]]
      /\ d.refused = (b.refused \cup IdsOf(b, os)) \ IdsOf(b, gone)
  BY DEF Deregister, Unregister, Minus, Book, gone
<1> HIDE DEF d
<1>5. \A o \in gone : d.fn[o] = [b.fn[o] EXCEPT !.id = NoId] /\ d.fn[o] \in Funcs
  BY <1>1, <1>2, <1>4 DEF Funcs
<1>6. \A o \in gone : Live(d, o)
  BY <1>5, BookConstants DEF Live, NoFunc, Funcs
<1>7. d.fn \in [Objs -> {NoFunc} \cup Funcs]
  <2>1. \A o \in Objs : b.fn[o] \in {NoFunc} \cup Funcs
    BY FnTyped
  <2>2. \A o \in Objs : d.fn[o] \in {NoFunc} \cup Funcs
    BY <2>1, <1>4, <1>5
  <2>. QED BY <2>2, <1>4
<1>8. Book(d)
  BY <1>3, <1>4, <1>7 DEF Book, IsBook, Funcs
<1>9. /\ \A o \in Objs : o \notin gone => d.fn[o] = b.fn[o]
      /\ DOMAIN d.regs = DOMAIN b.regs \ IdsOf(b, gone)
      /\ \A i \in DOMAIN d.regs : d.regs[i] = b.regs[i]
      /\ DOMAIN d.registry = DOMAIN b.registry \ NamesOf(b, gone)
      /\ \A n \in DOMAIN d.registry : d.registry[n] = b.registry[n]
      /\ DOMAIN d.bound = DOMAIN b.bound \ NamesOf(b, gone)
      /\ \A n \in DOMAIN d.bound : d.bound[n] = b.bound[n]
      /\ d.refused = (b.refused \cup IdsOf(b, os)) \ IdsOf(b, gone)
  BY <1>4
<1>10. GoneFrom(b, d, os, gone)
  BY <1>5, <1>6, <1>9 DEF GoneFrom
<1>. QED BY <1>8, <1>10 DEF gone, d

\* It keeps what holds of a book.
LEMMA DeregisterKeeps ==
  ASSUME NEW b, Book(b), NEW os \in SUBSET Objs, NEW refuses
  PROVE  LET d == Deregister(b, os, refuses)
         IN /\ \A o \in Objs : Live(b, o) <=> Live(d, o)
            /\ \A o \in Objs : Live(b, o) => d.fn[o].name = b.fn[o].name
            /\ \A refs \in SUBSET Objs : \A except : OwnedBy(b, refs, except) => OwnedBy(d, refs \ os, except)
            /\ IdsMatch(b) => IdsMatch(d)
            /\ Entered(b) => Entered(d)
            /\ Entered(b) /\ CallsOwn(b) => CallsOwn(d)
<1> DEFINE gone == Given(b, os, refuses)
           d == Deregister(b, os, refuses)
<1>1. gone \subseteq os /\ \A o \in gone : b.fn[o].id # NoId
  BY DEF Given, CanDeregister
<1>2. /\ \A o \in Objs : o \notin gone => d.fn[o] = b.fn[o]
      /\ \A o \in gone : d.fn[o] = [b.fn[o] EXCEPT !.id = NoId] /\ Live(d, o)
      /\ DOMAIN d.regs = DOMAIN b.regs \ IdsOf(b, gone)
      /\ \A i \in DOMAIN d.regs : d.regs[i] = b.regs[i]
      /\ DOMAIN d.registry = DOMAIN b.registry \ NamesOf(b, gone)
      /\ \A n \in DOMAIN d.registry : d.registry[n] = b.registry[n]
      /\ DOMAIN d.bound = DOMAIN b.bound \ NamesOf(b, gone)
      /\ \A n \in DOMAIN d.bound : d.bound[n] = b.bound[n]
      /\ d.refused = (b.refused \cup IdsOf(b, os)) \ IdsOf(b, gone)
  BY DeregisterDoes DEF GoneFrom
<1>3. /\ \A o \in gone : b.fn[o].name \in NamesOf(b, gone) /\ b.fn[o].id \in IdsOf(b, gone)
      /\ \A i \in IdsOf(b, gone) : \E o \in gone : b.fn[o].id = i
      /\ \A o \in os : b.fn[o].id # NoId => b.fn[o].id \in IdsOf(b, os)
  BY <1>1 DEF NamesOf, IdsOf
<1>4. \A o \in Objs : Live(b, o) => b.fn[o] \in Funcs
  BY FnTyped
<1>5. \A n \in DOMAIN b.registry : b.registry[n] \in Objs
  BY DEF Book, IsBook
<1>6. DOMAIN b.regs \subseteq Ids /\ NoId \notin Ids
  <2>1. DOMAIN b.regs \subseteq Ids
    BY DEF Book, IsBook
  <2>2. NoId \notin Ids
    BY DEF Ids, NoId
  <2>. QED BY <2>1, <2>2
<1> HIDE DEF gone, d
<1>7. \A o \in Objs : Live(b, o) <=> Live(d, o)
  <2> SUFFICES ASSUME NEW o \in Objs PROVE Live(b, o) <=> Live(d, o)
    OBVIOUS
  <2>1. CASE o \in gone
    <3>1. Live(b, o)
      BY <2>1, <1>1, FnTyped
    <3>. QED BY <3>1, <2>1, <1>2
  <2>2. CASE o \notin gone
    BY <2>2, <1>2 DEF Live
  <2>. QED BY <2>1, <2>2
<1>8. \A o \in Objs : Live(b, o) => d.fn[o].name = b.fn[o].name
  <2> SUFFICES ASSUME NEW o \in Objs, Live(b, o) PROVE d.fn[o].name = b.fn[o].name
    OBVIOUS
  <2>1. b.fn[o] \in Funcs
    BY <1>4
  <2>. QED BY <2>1, <1>2 DEF Funcs
<1>9. ASSUME NEW refs \in SUBSET Objs, NEW except, OwnedBy(b, refs, except) PROVE OwnedBy(d, refs \ os, except)
  <2> SUFFICES ASSUME NEW i \in DOMAIN d.regs \ (d.refused \cup except)
               PROVE  d.regs[i] \in refs \ os /\ d.fn[d.regs[i]].id = i
    BY DEF OwnedBy
  <2>1. i \in DOMAIN b.regs /\ i \notin IdsOf(b, gone) /\ i \notin b.refused /\ i \notin IdsOf(b, os) /\ i # NoId
    BY <1>2, <1>6
  <2>2. b.regs[i] \in refs /\ b.fn[b.regs[i]].id = i
    BY <2>1, <1>9 DEF OwnedBy
  <2>3. b.regs[i] \notin os
    BY <2>1, <2>2, <1>3
  <2>. QED BY <2>1, <2>2, <2>3, <1>1, <1>2
<1>10. IdsMatch(b) => IdsMatch(d)
  <2> SUFFICES ASSUME IdsMatch(b), NEW o \in Objs, d.fn[o].id # NoId
               PROVE  d.fn[o].id \in DOMAIN d.regs /\ d.regs[d.fn[o].id] = o
    BY DEF IdsMatch
  <2>1. o \notin gone
    <3> SUFFICES ASSUME o \in gone PROVE FALSE
      OBVIOUS
    <3>1. b.fn[o] \in Funcs
      BY <1>1, FnTyped
    <3>. QED BY <3>1, <1>2 DEF Funcs
  <2>2. d.fn[o] = b.fn[o] /\ b.fn[o].id \in DOMAIN b.regs /\ b.regs[b.fn[o].id] = o
    BY <2>1, <1>2 DEF IdsMatch
  <2>3. b.fn[o].id \notin IdsOf(b, gone)
    <3> SUFFICES ASSUME NEW g \in gone, b.fn[g].id = b.fn[o].id PROVE FALSE
      BY <1>3
    <3>1. g \in Objs /\ b.fn[g].id # NoId
      BY <1>1
    <3>2. b.regs[b.fn[g].id] = g
      BY <3>1 DEF IdsMatch
    <3>. QED BY <3>2, <2>1, <2>2
  <2>. QED BY <2>2, <2>3, <1>2
<1>11. ASSUME Entered(b), NEW n \in DOMAIN d.registry
       PROVE  /\ n \in DOMAIN b.registry /\ d.registry[n] = b.registry[n]
              /\ b.registry[n] \in Objs
              /\ d.fn[b.registry[n]] = b.fn[b.registry[n]]
              /\ n \in DOMAIN d.bound /\ d.bound[n] = b.bound[n]
  <2>1. n \in DOMAIN b.registry /\ n \notin NamesOf(b, gone) /\ d.registry[n] = b.registry[n]
    BY <1>2
  <2>2. b.fn[b.registry[n]].name = n /\ n \in DOMAIN b.bound
    BY <2>1, <1>11 DEF Entered
  <2>3. b.registry[n] \notin gone
    BY <2>1, <2>2, <1>3
  <2>. QED BY <2>1, <2>2, <2>3, <1>2, <1>5
<1>12. Entered(b) => Entered(d)
  BY <1>11 DEF Entered
<1>13. Entered(b) /\ CallsOwn(b) => CallsOwn(d)
  BY <1>11 DEF CallsOwn
<1>. QED BY <1>7, <1>8, <1>9, <1>10, <1>12, <1>13 DEF d

\* What destroying functions does which the registry does not hold.
LEMMA DestroyDoes ==
  ASSUME NEW b, Book(b), NEW os \in SUBSET Objs, NEW refuses,
         \A n \in DOMAIN b.registry : b.registry[n] \notin os
  PROVE  LET d == Destroy(b, os, refuses)
         IN /\ Book(d)
            /\ \A o \in Objs : d.fn[o] = IF o \in os THEN NoFunc ELSE b.fn[o]
            /\ \A refs \in SUBSET (Objs \ os) : \A except : OwnedBy(b, refs, except) => OwnedBy(d, refs, except)
            /\ IdsMatch(b) => IdsMatch(d)
            /\ Entered(b) => Entered(d)
            /\ Entered(b) /\ CallsOwn(b) => CallsOwn(d)
<1> DEFINE gone == Given(b, os, refuses)
           c == Deregister(b, os, refuses)
           d == Destroy(b, os, refuses)
<1>1. /\ Book(c)
      /\ \A o \in Objs : o \notin os => c.fn[o] = b.fn[o]
      /\ \A n \in DOMAIN c.registry : n \in DOMAIN b.registry /\ c.registry[n] = b.registry[n]
  <2>1. gone \subseteq os
    BY DEF Given
  <2>2. Book(c) /\ GoneFrom(b, c, os, gone)
    BY DeregisterDoes
  <2> HIDE DEF gone, c
  <2>. QED BY <2>1, <2>2 DEF GoneFrom
<1>2. /\ \A refs \in SUBSET Objs : \A except : OwnedBy(b, refs, except) => OwnedBy(c, refs \ os, except)
      /\ IdsMatch(b) => IdsMatch(c)
      /\ Entered(b) => Entered(c)
      /\ Entered(b) /\ CallsOwn(b) => CallsOwn(c)
  BY DeregisterKeeps
<1> HIDE DEF c
<1>3. /\ DOMAIN d = DOMAIN c
      /\ d.fn = [o \in Objs |-> IF o \in os THEN NoFunc ELSE c.fn[o]]
      /\ d.regs = [i \in DOMAIN c.regs |-> IF c.regs[i] \in os THEN Freed ELSE c.regs[i]]
      /\ d.registry = c.registry /\ d.bound = c.bound /\ d.refused = c.refused
  BY <1>1 DEF Destroy, Book, c
<1> HIDE DEF d
<1>4. d.fn \in [Objs -> {NoFunc} \cup Funcs]
  BY <1>1, <1>3, FnTyped
<1>5. Book(d)
  BY <1>1, <1>3, <1>4 DEF Book, IsBook, Funcs
<1>6. \A o \in Objs : d.fn[o] = IF o \in os THEN NoFunc ELSE b.fn[o]
  BY <1>1, <1>3
<1>7. ASSUME NEW refs \in SUBSET (Objs \ os), NEW except, OwnedBy(b, refs, except)
      PROVE  OwnedBy(d, refs, except)
  <2>1. OwnedBy(c, refs, except)
    <3>1. refs \ os = refs
      OBVIOUS
    <3>. QED BY <3>1, <1>2, <1>7
  <2>. QED BY <2>1, <1>3 DEF OwnedBy
<1>8. ASSUME IdsMatch(b) PROVE IdsMatch(d)
  <2>1. NoFunc.id = NoId
    BY DEF NoFunc
  <2>. QED BY <2>1, <1>2, <1>3, <1>8 DEF IdsMatch
<1>9. \A n \in DOMAIN d.registry : n \in DOMAIN c.registry /\ d.registry[n] = c.registry[n]
                                  /\ d.fn[d.registry[n]] = c.fn[c.registry[n]]
  <2> SUFFICES ASSUME NEW n \in DOMAIN d.registry PROVE d.fn[c.registry[n]] = c.fn[c.registry[n]]
    BY <1>3
  <2>1. c.registry[n] \in Objs /\ c.registry[n] \notin os
    BY <1>1, <1>3 DEF Book, IsBook
  <2>. QED BY <2>1, <1>3
<1>10. Entered(b) => Entered(d)
  BY <1>2, <1>3, <1>9 DEF Entered
<1>11. Entered(b) /\ CallsOwn(b) => CallsOwn(d)
  BY <1>2, <1>3, <1>9 DEF CallsOwn
<1>. QED BY <1>5, <1>6, <1>7, <1>8, <1>10, <1>11 DEF d

\* Destroying what nothing holds leaves what refs holds as it is.
LEMMA SweepDoes ==
  ASSUME NEW b, Book(b), NEW refs \in SUBSET Objs, NEW refuses
  PROVE  LET d == Sweep(b, refs, refuses)
         IN /\ Book(d)
            /\ \A o \in refs : d.fn[o] = b.fn[o]
            /\ \A except : OwnedBy(b, refs, except) => OwnedBy(d, refs, except)
            /\ IdsMatch(b) => IdsMatch(d)
            /\ Entered(b) => Entered(d)
            /\ Entered(b) /\ CallsOwn(b) => CallsOwn(d)
<1>1. ASSUME NEW a
      PROVE  /\ Unheld(a, refs) \in SUBSET Objs
             /\ refs \in SUBSET (Objs \ Unheld(a, refs))
             /\ \A n \in DOMAIN a.registry : a.registry[n] \notin Unheld(a, refs)
  BY DEF Unheld
<1> DEFINE once == Destroy(b, Unheld(b, refs), refuses)
           d == Destroy(once, Unheld(once, refs), refuses)
<1>2. /\ Book(once)
      /\ \A o \in refs : once.fn[o] = b.fn[o]
      /\ \A except : OwnedBy(b, refs, except) => OwnedBy(once, refs, except)
      /\ IdsMatch(b) => IdsMatch(once)
      /\ Entered(b) => Entered(once)
      /\ Entered(b) /\ CallsOwn(b) => CallsOwn(once)
  BY <1>1, DestroyDoes
<1> HIDE DEF once
<1>3. /\ Book(d)
      /\ \A o \in refs : d.fn[o] = once.fn[o]
      /\ \A except : OwnedBy(once, refs, except) => OwnedBy(d, refs, except)
      /\ IdsMatch(once) => IdsMatch(d)
      /\ Entered(once) => Entered(d)
      /\ Entered(once) /\ CallsOwn(once) => CallsOwn(d)
  BY <1>1, <1>2, DestroyDoes
<1>4. d = Sweep(b, refs, refuses)
  BY DEF Sweep, once
<1> HIDE DEF d
<1>5. \A o \in refs : d.fn[o] = b.fn[o]
  BY <1>2, <1>3
<1>. QED BY <1>2, <1>3, <1>4, <1>5

\* A book in which only o has changed, and goes on being the function it was.
OnlyChanges(b, d, o) ==
  /\ \A x \in Objs : x # o => d.fn[x] = b.fn[x]
  /\ Live(d, o) /\ d.fn[o].name = b.fn[o].name

\* Registering a function with Excel: it gets an id, and its name calls it.
LEMMA EnterDoes ==
  ASSUME NEW b, Book(b), NEW o \in Objs, Live(b, o), Ids \ DOMAIN b.regs # {}
  PROVE  LET d == EnterExcel(b, o)
         IN /\ Book(d) /\ OnlyChanges(b, d, o) /\ d.fn[o].id # NoId
            /\ d.registry = b.registry /\ b.fn[o].name \in DOMAIN d.bound
            /\ d.bound[b.fn[o].name] = d.fn[o].id
            /\ \A refs \in SUBSET Objs : \A except :
                 OwnedBy(b, refs \ {o}, except) /\ o \in refs => OwnedBy(d, refs, except)
            /\ IdsMatch(b) => IdsMatch(d)
            /\ Entered(b) => Entered(d)
            /\ Entered(b) /\ CallsOwn(b) /\ b.fn[o].name \notin DOMAIN b.registry => CallsOwn(d)
<1> DEFINE i == CHOOSE k \in Ids : k \notin DOMAIN b.regs
           d == EnterExcel(b, o)
<1>1. i \in Ids /\ i \notin DOMAIN b.regs
  OBVIOUS
<1>2. i # NoId
  BY <1>1 DEF Ids, NoId
<1>3. b.fn[o] \in Funcs /\ b.fn[o].name \in Names /\ b.fn \in [Objs -> {NoFunc} \cup Funcs]
  BY FnTyped DEF Funcs, Book, IsBook
<1> HIDE DEF i
<1>4. /\ DOMAIN d = DOMAIN b
      /\ d.fn = [b.fn EXCEPT ![o] = [b.fn[o] EXCEPT !.id = i]]
      /\ d.regs = [x \in DOMAIN b.regs \cup {i} |-> IF x = i THEN o ELSE b.regs[x]]
      /\ d.bound = [x \in DOMAIN b.bound \cup {b.fn[o].name} |-> IF x = b.fn[o].name THEN i ELSE b.bound[x]]
      /\ d.registry = b.registry /\ d.refused = b.refused
  BY DEF EnterExcel, Put, Book, i
<1> HIDE DEF d
<1>5. d.fn[o] \in Funcs /\ d.fn[o].id = i /\ d.fn[o].name = b.fn[o].name
  BY <1>1, <1>3, <1>4 DEF Funcs
<1>6. \A x \in Objs : x # o => d.fn[x] = b.fn[x]
  BY <1>3, <1>4
<1>7. d.fn \in [Objs -> {NoFunc} \cup Funcs]
  BY <1>3, <1>4, <1>5
<1>8. Book(d)
  BY <1>1, <1>3, <1>4, <1>7 DEF Book, IsBook, Funcs
<1>9. OnlyChanges(b, d, o)
  BY <1>5, <1>6, <1>8, FnTyped DEF OnlyChanges
<1>10. ASSUME NEW refs \in SUBSET Objs, NEW except, OwnedBy(b, refs \ {o}, except), o \in refs
       PROVE  OwnedBy(d, refs, except)
  <2> SUFFICES ASSUME NEW x \in DOMAIN d.regs \ (d.refused \cup except)
               PROVE  d.regs[x] \in refs /\ d.fn[d.regs[x]].id = x
    BY DEF OwnedBy
  <2>1. CASE x = i
    BY <2>1, <1>4, <1>5, <1>10
  <2>2. CASE x # i
    <3>1. x \in DOMAIN b.regs \ (b.refused \cup except) /\ d.regs[x] = b.regs[x]
      BY <2>2, <1>4
    <3>2. b.regs[x] \in refs \ {o} /\ b.fn[b.regs[x]].id = x
      BY <3>1, <1>10 DEF OwnedBy
    <3>. QED BY <3>1, <3>2, <1>6
  <2>. QED BY <2>1, <2>2
<1>11. ASSUME IdsMatch(b) PROVE IdsMatch(d)
  <2> SUFFICES ASSUME NEW x \in Objs, d.fn[x].id # NoId
               PROVE  d.fn[x].id \in DOMAIN d.regs /\ d.regs[d.fn[x].id] = x
    BY DEF IdsMatch
  <2>1. CASE x = o
    BY <2>1, <1>4, <1>5
  <2>2. CASE x # o
    <3>1. b.fn[x].id \in DOMAIN b.regs /\ b.regs[b.fn[x].id] = x
      BY <2>2, <1>6, <1>11 DEF IdsMatch
    <3>. QED BY <3>1, <2>2, <1>1, <1>4, <1>6
  <2>. QED BY <2>1, <2>2
<1>12. \A n \in DOMAIN b.registry : b.registry[n] \in Objs
  BY DEF Book, IsBook
<1>13. ASSUME Entered(b) PROVE Entered(d)
  <2> SUFFICES ASSUME NEW n \in DOMAIN b.registry
               PROVE  /\ d.fn[b.registry[n]] # NoFunc /\ d.fn[b.registry[n]].name = n
                      /\ d.fn[b.registry[n]].id # NoId /\ n \in DOMAIN d.bound
    BY <1>4 DEF Entered
  <2>1. /\ b.fn[b.registry[n]] # NoFunc /\ b.fn[b.registry[n]].name = n
        /\ b.fn[b.registry[n]].id # NoId /\ n \in DOMAIN b.bound
    BY <1>13 DEF Entered
  <2>. QED BY <2>1, <1>2, <1>4, <1>5, <1>6, <1>9, <1>12 DEF OnlyChanges, Live
<1>14. ASSUME Entered(b), CallsOwn(b), b.fn[o].name \notin DOMAIN b.registry PROVE CallsOwn(d)
  <2> SUFFICES ASSUME NEW n \in DOMAIN b.registry PROVE d.bound[n] = d.fn[b.registry[n]].id
    BY <1>4 DEF CallsOwn
  <2>1. n # b.fn[o].name /\ b.fn[b.registry[n]].name = n /\ n \in DOMAIN b.bound
    BY <1>14 DEF Entered
  <2>2. d.fn[b.registry[n]] = b.fn[b.registry[n]] /\ d.bound[n] = b.bound[n]
    BY <2>1, <1>4, <1>6, <1>12
  <2>. QED BY <2>2, <1>14 DEF CallsOwn
<1>15. d.fn[o].id # NoId /\ d.registry = b.registry /\ b.fn[o].name \in DOMAIN d.bound
       /\ d.bound[b.fn[o].name] = d.fn[o].id
  BY <1>2, <1>4, <1>5
<1>. QED BY <1>8, <1>9, <1>10, <1>11, <1>13, <1>14, <1>15 DEF d

\* Patching one leaves its registration as it is.
LEMMA PatchedDoes ==
  ASSUME NEW b, Book(b), NEW o \in Objs, Live(b, o), NEW info \in Infos
  PROVE  LET d == Patched(b, o, info)
         IN /\ Book(d) /\ OnlyChanges(b, d, o) /\ d.fn[o].id = b.fn[o].id
            /\ d.registry = b.registry /\ d.regs = b.regs
            /\ \A refs \in SUBSET Objs : \A except : OwnedBy(b, refs, except) => OwnedBy(d, refs, except)
            /\ IdsMatch(b) => IdsMatch(d)
            /\ Entered(b) => Entered(d)
            /\ CallsOwn(b) => CallsOwn(d)
<1> DEFINE d == Patched(b, o, info)
<1>1. b.fn[o] \in Funcs /\ b.fn \in [Objs -> {NoFunc} \cup Funcs]
  BY FnTyped DEF Funcs, Book, IsBook
<1>2. /\ DOMAIN d = DOMAIN b
      /\ d.fn = [b.fn EXCEPT ![o] = [b.fn[o] EXCEPT !.info = info]]
      /\ d.regs = b.regs /\ d.bound = b.bound /\ d.registry = b.registry /\ d.refused = b.refused
  BY DEF Patched, Book
<1> HIDE DEF d
<1>3. d.fn[o] \in Funcs /\ d.fn[o].id = b.fn[o].id /\ d.fn[o].name = b.fn[o].name
  BY <1>1, <1>2 DEF Funcs
<1>4. \A x \in Objs : x # o => d.fn[x] = b.fn[x]
  BY <1>1, <1>2
<1>5. d.fn \in [Objs -> {NoFunc} \cup Funcs]
  BY <1>1, <1>2, <1>3
<1>6. Book(d)
  BY <1>2, <1>5 DEF Book, IsBook, Funcs
<1>7. OnlyChanges(b, d, o)
  BY <1>3, <1>4, <1>6, FnTyped DEF OnlyChanges
<1>8. \A x \in Objs : d.fn[x].id = b.fn[x].id /\ d.fn[x].name = b.fn[x].name
                      /\ (b.fn[x] # NoFunc => d.fn[x] # NoFunc)
  BY <1>3, <1>4, <1>7 DEF OnlyChanges, Live
<1>9. ASSUME NEW refs \in SUBSET Objs, NEW except, OwnedBy(b, refs, except) PROVE OwnedBy(d, refs, except)
  BY <1>2, <1>8, <1>9 DEF OwnedBy
<1>10. IdsMatch(b) => IdsMatch(d)
  BY <1>2, <1>8 DEF IdsMatch
<1>11. \A n \in DOMAIN b.registry : b.registry[n] \in Objs
  BY DEF Book, IsBook
<1>12. Entered(b) => Entered(d)
  BY <1>2, <1>8, <1>11 DEF Entered
<1>13. CallsOwn(b) => CallsOwn(d)
  BY <1>2, <1>8, <1>11 DEF CallsOwn
<1>. QED BY <1>2, <1>3, <1>6, <1>7, <1>9, <1>10, <1>12, <1>13 DEF d

\* Patching one and taking it out of Excel, if Excel gives it up.
LEMMA FailDoes ==
  ASSUME NEW b, Book(b), NEW o \in Objs, Live(b, o), NEW info \in Infos, NEW refuses
  PROVE  LET d == FailReregister(b, o, info, refuses)
         IN /\ Book(d) /\ OnlyChanges(b, d, o) /\ DOMAIN d.regs \subseteq DOMAIN b.regs
            /\ \A refs \in SUBSET Objs : \A except : OwnedBy(b, refs, except) => OwnedBy(d, refs \ {o}, except)
            /\ IdsMatch(b) => IdsMatch(d)
            /\ Entered(b) => Entered(d)
            /\ Entered(b) /\ CallsOwn(b) => CallsOwn(d)
            /\ CanDeregister(b, o, refuses) => d.fn[o].name \notin DOMAIN d.registry
<1> DEFINE c == Patched(b, o, info)
           d == Deregister(c, {o}, refuses)
           gone == Given(c, {o}, refuses)
<1>1. /\ Book(c) /\ OnlyChanges(b, c, o) /\ c.fn[o].id = b.fn[o].id
      /\ c.registry = b.registry /\ c.regs = b.regs
      /\ \A refs \in SUBSET Objs : \A except : OwnedBy(b, refs, except) => OwnedBy(c, refs, except)
      /\ IdsMatch(b) => IdsMatch(c)
      /\ Entered(b) => Entered(c)
      /\ CallsOwn(b) => CallsOwn(c)
  BY PatchedDoes
<1> HIDE DEF c
<1>2. {o} \in SUBSET Objs
  OBVIOUS
<1>3. Book(d) /\ GoneFrom(c, d, {o}, gone)
  BY <1>1, <1>2, DeregisterDoes
<1>4. /\ \A x \in Objs : Live(c, x) <=> Live(d, x)
      /\ \A x \in Objs : Live(c, x) => d.fn[x].name = c.fn[x].name
      /\ \A refs \in SUBSET Objs : \A except : OwnedBy(c, refs, except) => OwnedBy(d, refs \ {o}, except)
      /\ IdsMatch(c) => IdsMatch(d)
      /\ Entered(c) => Entered(d)
      /\ Entered(c) /\ CallsOwn(c) => CallsOwn(d)
  BY <1>1, <1>2, DeregisterKeeps
<1>5. gone \subseteq {o}
  BY DEF Given
<1>6. d = FailReregister(b, o, info, refuses)
  BY DEF FailReregister, c
<1>7. CanDeregister(b, o, refuses) => o \in gone
  BY <1>1 DEF Given, CanDeregister, OnlyChanges
<1>8. o \in gone => c.fn[o].name \in NamesOf(c, gone)
  BY DEF NamesOf
<1> HIDE DEF d, gone
<1>9. OnlyChanges(b, d, o)
  BY <1>1, <1>3, <1>4, <1>5 DEF OnlyChanges, GoneFrom
<1>10. CanDeregister(b, o, refuses) => d.fn[o].name \notin DOMAIN d.registry
  BY <1>1, <1>3, <1>4, <1>7, <1>8 DEF GoneFrom, OnlyChanges
<1>11. DOMAIN d.regs \subseteq DOMAIN b.regs
  BY <1>1, <1>3 DEF GoneFrom
<1>. QED BY <1>1, <1>3, <1>4, <1>6, <1>9, <1>10, <1>11

\* Re-registering one: it ends with an id, and its name calls it.
LEMMA ReregisterDoes ==
  ASSUME NEW b, Book(b), NEW o \in Objs, Live(b, o), Room(b), NEW info \in Infos, NEW refuses
  PROVE  LET d == Reregister(b, o, info, refuses)
         IN /\ Book(d) /\ OnlyChanges(b, d, o) /\ d.fn[o].id # NoId
            /\ \A refs \in SUBSET Objs : \A except :
                 OwnedBy(b, refs, except) /\ o \in refs => OwnedBy(d, refs, except)
            /\ IdsMatch(b) => IdsMatch(d)
            /\ Entered(b) => Entered(d)
            /\ Entered(b) /\ CallsOwn(b) /\ CanDeregister(b, o, refuses) => CallsOwn(d)
<1> DEFINE c == FailReregister(b, o, info, refuses)
           d == EnterExcel(c, o)
<1>1. /\ Book(c) /\ OnlyChanges(b, c, o) /\ DOMAIN c.regs \subseteq DOMAIN b.regs
      /\ \A refs \in SUBSET Objs : \A except : OwnedBy(b, refs, except) => OwnedBy(c, refs \ {o}, except)
      /\ IdsMatch(b) => IdsMatch(c)
      /\ Entered(b) => Entered(c)
      /\ Entered(b) /\ CallsOwn(b) => CallsOwn(c)
      /\ CanDeregister(b, o, refuses) => c.fn[o].name \notin DOMAIN c.registry
  BY FailDoes
<1>2. d = Reregister(b, o, info, refuses)
  BY DEF Reregister
<1> HIDE DEF c
<1>3. Ids \ DOMAIN c.regs # {}
  BY <1>1 DEF Room
<1>4. /\ Book(d) /\ OnlyChanges(c, d, o) /\ d.fn[o].id # NoId
      /\ \A refs \in SUBSET Objs : \A except :
           OwnedBy(c, refs \ {o}, except) /\ o \in refs => OwnedBy(d, refs, except)
      /\ IdsMatch(c) => IdsMatch(d)
      /\ Entered(c) => Entered(d)
      /\ Entered(c) /\ CallsOwn(c) /\ c.fn[o].name \notin DOMAIN c.registry => CallsOwn(d)
  BY <1>1, <1>3, EnterDoes DEF OnlyChanges
<1> HIDE DEF d
<1>5. OnlyChanges(b, d, o)
  BY <1>1, <1>4 DEF OnlyChanges
<1>. QED BY <1>1, <1>2, <1>4, <1>5

\* Adding one to the registry.
LEMMA AddDoes ==
  ASSUME NEW b, Book(b), Room(b), NEW f \in [name: Names, info: Infos], f.name \notin DOMAIN b.registry
  PROVE  LET d == Add(b, f)
             o == NewObj(b)
         IN /\ Book(d) /\ o \in Objs /\ ~Live(b, o)
            /\ \A x \in Objs : x # o => d.fn[x] = b.fn[x]
            /\ Live(d, o) /\ d.fn[o].name = f.name /\ d.fn[o].id # NoId
            /\ \A refs \in SUBSET Objs : \A except :
                 OwnedBy(b, refs, except) /\ o \notin refs => OwnedBy(d, refs \cup {o}, except)
            /\ IdsMatch(b) => IdsMatch(d)
            /\ Entered(b) => Entered(d)
            /\ Entered(b) /\ CallsOwn(b) => CallsOwn(d)
<1> DEFINE o == NewObj(b)
           a == Made(b, f)
           c == EnterExcel(a, o)
           d == Add(b, f)
<1>1. o \in Objs /\ ~Live(b, o)
  BY DEF Room, NewObj
<1>2. b.fn \in [Objs -> {NoFunc} \cup Funcs]
  BY DEF Book, IsBook, Funcs
<1> HIDE DEF o
<1>3. /\ DOMAIN a = DOMAIN b
      /\ a.fn = [b.fn EXCEPT ![o] = [name |-> f.name, info |-> f.info, id |-> NoId]]
      /\ a.regs = b.regs /\ a.bound = b.bound /\ a.registry = b.registry /\ a.refused = b.refused
  BY DEF Made, Book, o
<1> HIDE DEF a
<1>4. a.fn[o] \in Funcs /\ a.fn[o].id = NoId /\ a.fn[o].name = f.name
  BY <1>1, <1>2, <1>3 DEF Funcs
<1>5. \A x \in Objs : x # o => a.fn[x] = b.fn[x]
  BY <1>2, <1>3
<1>6. a.fn \in [Objs -> {NoFunc} \cup Funcs]
  BY <1>2, <1>3, <1>4
<1>7. Book(a)
  BY <1>3, <1>6 DEF Book, IsBook, Funcs
<1>8. Live(a, o)
  BY <1>1, <1>4, <1>7, FnTyped
<1>9. \A n \in DOMAIN b.registry : b.registry[n] \in Objs
  BY DEF Book, IsBook
<1>10. Entered(b) => \A n \in DOMAIN b.registry : b.registry[n] # o
  BY <1>1 DEF Entered, Live
<1>11. Entered(b) => Entered(a)
  BY <1>3, <1>5, <1>9, <1>10 DEF Entered
<1>12. Entered(b) /\ CallsOwn(b) => CallsOwn(a)
  BY <1>3, <1>5, <1>9, <1>10 DEF CallsOwn
<1>13. IdsMatch(b) => IdsMatch(a)
  BY <1>3, <1>4, <1>5 DEF IdsMatch
<1>14. ASSUME NEW refs \in SUBSET Objs, NEW except, OwnedBy(b, refs, except), o \notin refs
       PROVE  OwnedBy(a, refs, except)
  BY <1>3, <1>5, <1>14 DEF OwnedBy
<1>15. Ids \ DOMAIN a.regs # {}
  BY <1>3 DEF Room
<1>16. /\ Book(c) /\ OnlyChanges(a, c, o) /\ c.fn[o].id # NoId
       /\ c.registry = a.registry /\ a.fn[o].name \in DOMAIN c.bound
       /\ c.bound[a.fn[o].name] = c.fn[o].id
       /\ \A refs \in SUBSET Objs : \A except :
            OwnedBy(a, refs \ {o}, except) /\ o \in refs => OwnedBy(c, refs, except)
       /\ IdsMatch(a) => IdsMatch(c)
       /\ Entered(a) => Entered(c)
       /\ Entered(a) /\ CallsOwn(a) /\ a.fn[o].name \notin DOMAIN a.registry => CallsOwn(c)
  BY <1>1, <1>7, <1>8, <1>15, EnterDoes
<1> HIDE DEF c
<1>17. /\ DOMAIN d = DOMAIN c
       /\ d.registry = [n \in DOMAIN c.registry \cup {f.name} |-> IF n = f.name THEN o ELSE c.registry[n]]
       /\ d.fn = c.fn /\ d.regs = c.regs /\ d.bound = c.bound /\ d.refused = c.refused
  BY <1>16 DEF Add, Put, Book, c, a, o
<1> HIDE DEF d
<1>18. Book(d)
  BY <1>1, <1>16, <1>17 DEF Book, IsBook
<1>19. /\ \A x \in Objs : x # o => d.fn[x] = b.fn[x]
       /\ Live(d, o) /\ d.fn[o].name = f.name /\ d.fn[o].id # NoId
  BY <1>4, <1>5, <1>16, <1>17 DEF OnlyChanges, Live
<1>20. ASSUME NEW refs \in SUBSET Objs, NEW except, OwnedBy(b, refs, except), o \notin refs
       PROVE  OwnedBy(d, refs \cup {o}, except)
  <2>1. OwnedBy(a, (refs \cup {o}) \ {o}, except)
    <3>1. (refs \cup {o}) \ {o} = refs
      BY <1>20
    <3>. QED BY <3>1, <1>14, <1>20
  <2>2. refs \cup {o} \in SUBSET Objs
    BY <1>1
  <2>3. OwnedBy(c, refs \cup {o}, except)
    BY <2>1, <2>2, <1>16
  <2>. QED BY <2>3, <1>17 DEF OwnedBy
<1>21. IdsMatch(b) => IdsMatch(d)
  BY <1>13, <1>16, <1>17 DEF IdsMatch
<1>22. ASSUME Entered(b) PROVE Entered(d)
  <2>1. Entered(c)
    BY <1>11, <1>16, <1>22
  <2> SUFFICES ASSUME NEW n \in DOMAIN d.registry
               PROVE  /\ d.fn[d.registry[n]] # NoFunc /\ d.fn[d.registry[n]].name = n
                      /\ d.fn[d.registry[n]].id # NoId /\ n \in DOMAIN d.bound
    BY DEF Entered
  <2>2. CASE n = f.name
    BY <2>2, <1>4, <1>16, <1>17, <1>19 DEF Live
  <2>3. CASE n # f.name
    BY <2>1, <2>3, <1>17 DEF Entered
  <2>. QED BY <2>2, <2>3
<1>23. ASSUME Entered(b), CallsOwn(b) PROVE CallsOwn(d)
  <2>1. CallsOwn(c)
    <3>1. a.fn[o].name \notin DOMAIN a.registry
      BY <1>3, <1>4
    <3>. QED BY <3>1, <1>11, <1>12, <1>16, <1>23
  <2> SUFFICES ASSUME NEW n \in DOMAIN d.registry PROVE d.bound[n] = d.fn[d.registry[n]].id
    BY DEF CallsOwn
  <2>2. CASE n = f.name
    BY <2>2, <1>4, <1>16, <1>17
  <2>3. CASE n # f.name
    BY <2>1, <2>3, <1>17 DEF CallsOwn
  <2>. QED BY <2>2, <2>3
<1>. QED BY <1>1, <1>18, <1>19, <1>20, <1>21, <1>22, <1>23 DEF d, o

\* A stray deregistration takes a registration away, and no more.
LEMMA StrayDoes ==
  ASSUME NEW b, Book(b), NEW i
  PROVE  LET d == Stray(b, i)
         IN /\ Book(d) /\ d.fn = b.fn
            /\ \A refs : \A except : OwnedBy(b, refs, except) => OwnedBy(d, refs, except)
            /\ i = NoId /\ IdsMatch(b) => IdsMatch(d)
            /\ Entered(b) => Entered(d)
            /\ CallsOwn(b) => CallsOwn(d)
<1> DEFINE d == Stray(b, i)
<1>1. /\ DOMAIN d = DOMAIN b
      /\ d.regs = [x \in DOMAIN b.regs \ {i} |-> b.regs[x]]
      /\ d.fn = b.fn /\ d.bound = b.bound /\ d.registry = b.registry /\ d.refused = b.refused
  BY DEF Stray, Minus, Book
<1> HIDE DEF d
<1>2. Book(d)
  BY <1>1 DEF Book, IsBook
<1>3. ASSUME NEW refs, NEW except, OwnedBy(b, refs, except) PROVE OwnedBy(d, refs, except)
  BY <1>1, <1>3 DEF OwnedBy
<1>4. i = NoId /\ IdsMatch(b) => IdsMatch(d)
  BY <1>1 DEF IdsMatch
<1>5. (Entered(b) => Entered(d)) /\ (CallsOwn(b) => CallsOwn(d))
  BY <1>1 DEF Entered, CallsOwn
<1>. QED BY <1>1, <1>2, <1>3, <1>4, <1>5 DEF d

\* A book d in which some functions of os may have been deregistered.
Loosened(b, d, os, gone) ==
  /\ Book(d)
  /\ \A o \in Objs : Live(b, o) <=> Live(d, o)
  /\ \A o \in Objs : Live(b, o) => d.fn[o].name = b.fn[o].name
  /\ \A o \in Objs : o \notin gone => d.fn[o] = b.fn[o]
  /\ \A refs \in SUBSET Objs : \A except : OwnedBy(b, refs, except) => OwnedBy(d, refs \ os, except)
  /\ IdsMatch(b) => IdsMatch(d)
  /\ Entered(b) => Entered(d)
  /\ Entered(b) /\ CallsOwn(b) => CallsOwn(d)

LEMMA DeregisterLoosens ==
  ASSUME NEW b, Book(b), NEW os \in SUBSET Objs, NEW refuses
  PROVE  Loosened(b, Deregister(b, os, refuses), os, Given(b, os, refuses))
<1> DEFINE d == Deregister(b, os, refuses)
           gone == Given(b, os, refuses)
<1>1. Book(d) /\ GoneFrom(b, d, os, gone)
  BY DeregisterDoes
<1>2. /\ \A o \in Objs : Live(b, o) <=> Live(d, o)
      /\ \A o \in Objs : Live(b, o) => d.fn[o].name = b.fn[o].name
      /\ \A refs \in SUBSET Objs : \A except : OwnedBy(b, refs, except) => OwnedBy(d, refs \ os, except)
      /\ IdsMatch(b) => IdsMatch(d)
      /\ Entered(b) => Entered(d)
      /\ Entered(b) /\ CallsOwn(b) => CallsOwn(d)
  BY DeregisterKeeps
<1> HIDE DEF d, gone
<1>3. \A o \in Objs : o \notin gone => d.fn[o] = b.fn[o]
  BY <1>1 DEF GoneFrom
<1>4. Loosened(b, d, os, gone)
  BY <1>1, <1>2, <1>3 DEF Loosened
<1>. QED BY <1>4 DEF d, gone

LEMMA NothingLoosens ==
  ASSUME NEW b, Book(b)
  PROVE  Loosened(b, b, {}, {})
<1>1. \A refs : refs \ {} = refs
  OBVIOUS
<1>. QED BY <1>1 DEF Loosened

-----------------------------------------------------------------------------
(* Sequences of jobs.                                                       *)

Maps == UNION {[names -> Objs] : names \in SUBSET Names}
FuncSpecs == [name: Names, info: Infos]
Jobs == [kind: {"register"}, src: Sources, specs: SpecLists, append: BOOLEAN]
        \cup [kind: {"drop"}, path: Paths, funcs: Maps]
        \cup [kind: {"remove"}, src: Sources, name: Names, obj: Objs, stale: BOOLEAN]
        \cup [kind: {"reload", "delete", "release"}, src: Sources]
Loops == [src: Sources, specs: Seq(FuncSpecs), append: BOOLEAN, new: Maps]

\* What becomes of a job whose iterator may be left dangling.
Staled(k, sources, names) ==
  IF k.kind = "remove" /\ k.src \in sources /\ k.name \in names
  THEN [k EXCEPT !.stale = TRUE] ELSE k

LEMMA IsMap ==
  ASSUME NEW m
  PROVE  /\ m \in Maps => DOMAIN m \subseteq Names /\ ValuesOf(m) \subseteq Objs
         /\ m \in Maps => \A n \in DOMAIN m : m[n] \in Objs /\ n \in Names
         /\ m = [n \in DOMAIN m |-> m[n]] /\ DOMAIN m \subseteq Names /\ (\A n \in DOMAIN m : m[n] \in Objs)
              => m \in Maps
BY DEF Maps, ValuesOf

LEMMA EmptyIsMap == Empty \in Maps /\ ValuesOf(Empty) = {} /\ DOMAIN Empty = {}
<1>1. DOMAIN Empty = {} /\ Empty = [n \in DOMAIN Empty |-> Empty[n]]
  BY DEF Empty
<1>. QED BY <1>1, IsMap DEF ValuesOf

LEMMA MembersOfJoined ==
  ASSUME NEW S, NEW q \in Seq(S), NEW r \in Seq(S)
  PROVE  q \o r \in Seq(S) /\ Members(q \o r) = Members(q) \cup Members(r)
<1>1. /\ Len(q \o r) = Len(q) + Len(r) /\ Len(q) \in Nat /\ Len(r) \in Nat
      /\ DOMAIN q = 1..Len(q) /\ DOMAIN r = 1..Len(r) /\ DOMAIN (q \o r) = 1..(Len(q) + Len(r))
      /\ \A i \in 1..Len(q) : (q \o r)[i] = q[i]
      /\ \A i \in 1..Len(r) : (q \o r)[Len(q) + i] = r[i]
  OBVIOUS
<1>2. ASSUME NEW x \in Members(q \o r) PROVE x \in Members(q) \cup Members(r)
  <2>1. PICK i \in 1..(Len(q) + Len(r)) : x = (q \o r)[i]
    BY <1>1 DEF Members
  <2>2. CASE i <= Len(q)
    BY <2>1, <2>2, <1>1 DEF Members
  <2>3. CASE i > Len(q)
    <3>1. i - Len(q) \in 1..Len(r) /\ i = Len(q) + (i - Len(q))
      BY <2>3, <1>1
    <3>2. x = r[i - Len(q)]
      BY <2>1, <3>1, <1>1
    <3>. QED BY <3>1, <3>2, <1>1 DEF Members
  <2>. QED BY <2>2, <2>3, <1>1
<1>3. Members(q) \subseteq Members(q \o r)
  BY <1>1 DEF Members
<1>4. Members(r) \subseteq Members(q \o r)
  <2> SUFFICES ASSUME NEW i \in 1..Len(r) PROVE r[i] \in Members(q \o r)
    BY <1>1 DEF Members
  <2>1. Len(q) + i \in 1..(Len(q) + Len(r)) /\ (q \o r)[Len(q) + i] = r[i]
    BY <1>1
  <2>. QED BY <2>1, <1>1 DEF Members
<1>. QED BY <1>2, <1>3, <1>4

LEMMA MembersOfAppended ==
  ASSUME NEW S, NEW q \in Seq(S), NEW x \in S
  PROVE  Append(q, x) \in Seq(S) /\ Members(Append(q, x)) = Members(q) \cup {x}
<1>1. DOMAIN q = 1..Len(q) /\ Len(q) \in Nat /\ DOMAIN Append(q, x) = 1..(Len(q) + 1)
      /\ Append(q, x)[Len(q) + 1] = x /\ \A i \in 1..Len(q) : Append(q, x)[i] = q[i]
  OBVIOUS
<1>. QED BY <1>1 DEF Members

LEMMA MembersOfOne ==
  ASSUME NEW S, NEW x \in S
  PROVE  <<x>> \in Seq(S) /\ Members(<<x>>) = {x}
BY DEF Members

LEMMA MembersOfTail ==
  ASSUME NEW S, NEW q \in Seq(S), q # <<>>
  PROVE  /\ Tail(q) \in Seq(S) /\ Head(q) \in S
         /\ Members(q) = Members(Tail(q)) \cup {Head(q)}
<1>1. /\ Len(q) \in Nat \ {0} /\ DOMAIN q = 1..Len(q) /\ DOMAIN Tail(q) = 1..(Len(q) - 1)
      /\ \A i \in 1..(Len(q) - 1) : Tail(q)[i] = q[i + 1]
      /\ Head(q) = q[1]
  OBVIOUS
<1>2. ASSUME NEW i \in 1..Len(q) PROVE q[i] \in Members(Tail(q)) \cup {Head(q)}
  <2>1. CASE i = 1
    BY <2>1, <1>1
  <2>2. CASE i # 1
    <3>1. i - 1 \in 1..(Len(q) - 1) /\ Tail(q)[i - 1] = q[i]
      BY <2>2, <1>1
    <3>. QED BY <3>1, <1>1 DEF Members
  <2>. QED BY <2>1, <2>2
<1>3. Members(Tail(q)) \cup {Head(q)} \subseteq Members(q)
  BY <1>1 DEF Members
<1>4. Members(q) \subseteq Members(Tail(q)) \cup {Head(q)}
  BY <1>1, <1>2 DEF Members
<1>. QED BY <1>3, <1>4

LEMMA MembersOfNone == Members(<<>>) = {}
BY DEF Members

LEMMA MembersTyped ==
  ASSUME NEW S, NEW q \in Seq(S)
  PROVE  Members(q) \subseteq S
BY DEF Members

LEMMA StaledJob ==
  ASSUME NEW k \in Jobs, NEW sources, NEW names
  PROVE  /\ Staled(k, sources, names) \in Jobs
         /\ Staled(k, sources, names).kind = k.kind
         /\ k.kind # "remove" => Staled(k, sources, names) = k
         /\ k.kind = "remove" => Staled(k, sources, names) =
                                   [k EXCEPT !.stale = Staled(k, sources, names).stale]
BY DEF Staled, Jobs

LEMMA MembersOfStales ==
  ASSUME NEW q \in Seq(Jobs), NEW sources, NEW names
  PROVE  /\ Stales(q, sources, names) \in Seq(Jobs)
         /\ Members(Stales(q, sources, names)) = {Staled(k, sources, names) : k \in Members(q)}
<1>1. Stales(q, sources, names) = [i \in 1..Len(q) |-> Staled(q[i], sources, names)]
  BY DEF Stales, Staled
<1>2. \A i \in 1..Len(q) : q[i] \in Jobs
  OBVIOUS
<1>3. \A i \in 1..Len(q) : Staled(q[i], sources, names) \in Jobs
  BY <1>2, StaledJob
<1>. QED BY <1>1, <1>3 DEF Members

\* The jobs of a finite set, one after another.
LEMMA MembersOfSet ==
  ASSUME NEW S, IsFiniteSet(S)
  PROVE  SetToSeq(S) \in Seq(S) /\ Members(SetToSeq(S)) = S
<1>1. /\ Cardinality(S) \in Nat
      /\ ExistsBijection(1..Cardinality(S), S)
  BY FS_CardinalityType
<1> DEFINE n == Cardinality(S)
           q == SetToSeq(S)
<1>2. PICK g \in Bijection(1..n, S) : TRUE
  BY <1>1 DEF ExistsBijection
<1>3. g \in [1..n -> S] /\ IsInjective(g)
  BY <1>2 DEF Bijection, Injection, IsInjective
<1>4. q \in [1..n -> S] /\ IsInjective(q)
  BY <1>3 DEF SetToSeq
<1>5. q \in Injection(1..n, S)
  BY <1>4 DEF Injection, IsInjective
<1>6. IsFiniteSet(1..n) /\ Cardinality(1..n) = n
  BY <1>1, FS_Interval
<1>7. q \in Surjection(1..n, S)
  BY <1>5, <1>6, FS_Injection
<1>8. \A x \in S : \E i \in 1..n : q[i] = x
  BY <1>7 DEF Surjection
<1> HIDE DEF q
<1>9. q \in Seq(S)
  BY <1>1, <1>4
<1>10. Members(q) = S
  BY <1>4, <1>8 DEF Members
<1>. QED BY <1>9, <1>10 DEF q

-----------------------------------------------------------------------------
(* The parts of the invariant, of a state or of what a step makes of one.   *)

State == Now(jobs, stack)

\* What drop jobs refer to, and what a source and its registration do.
Dropped(w) == UNION {ValuesOf(j.funcs) : j \in {k \in Work(w) : k.kind = "drop"}}
Held(w, s) == ValuesOf(w.funcs[s]) \cup (UNION {ValuesOf(l.new) : l \in {m \in w.loop : m.src = s}})

Typed(w) ==
  /\ Book(w.book)
  /\ w.origin \in [Sources -> Paths \cup {NoPath}]
  /\ w.funcs \in [Sources -> Maps]
  /\ w.jobs \in Seq(Jobs) /\ w.stack \in Seq(Jobs)
  /\ w.loop \subseteq Loops /\ \A l, m \in w.loop : l = m

Linked(w) ==
  /\ \A p \in DOMAIN w.listed : p \in Paths /\ w.listed[p] \in Sources /\ w.origin[w.listed[p]] = p
  /\ \A j \in Work(w) : Holds(j) => w.origin[j.src] # NoPath
  /\ \A l \in w.loop : w.origin[l.src] # NoPath
  /\ \A s \in Sources : w.origin[s] = NoPath => w.funcs[s] = Empty

\* What is referred to is in memory, under the name it is referred to by.
InMemory(w) == \A o \in Refs(w) : Live(w.book, o)
NamedAs(b, map) == \A n \in DOMAIN map : b.fn[map[n]].name = n
Named(w) ==
  /\ \A s \in Sources : NamedAs(w.book, w.funcs[s])
  /\ \A l \in w.loop : NamedAs(w.book, l.new)

\* A function has one owner.
Apart(w) ==
  \A s \in Sources : \A o \in Held(w, s) :
    o \notin Dropped(w) /\ \A t \in Sources : o \in Held(w, t) => t = s

\* The iterators which are not stale point to what they did.
Iterators(w) ==
  \A j \in Work(w) : j.kind = "remove" /\ ~j.stale =>
    j.name \in DOMAIN w.funcs[j.src] /\ w.funcs[j.src][j.name] = j.obj

\* No call names a function twice.
NamesOnce(specs) == \A i, j \in DOMAIN specs : specs[i].name = specs[j].name => i = j
NamesApart == \A specs \in SpecLists : NamesOnce(specs)
Fresh(w) ==
  \A l \in w.loop :
    NamesOnce(l.specs) /\ \A i \in DOMAIN l.specs : l.specs[i].name \notin DOMAIN l.new

\* What sources have is registered.
Registered(w) == \A s \in Sources : \A o \in Held(w, s) : w.book.fn[o].id # NoId

WorldOK(w, except, calm) ==
  /\ Typed(w) /\ Linked(w) /\ InMemory(w) /\ Named(w) /\ Apart(w) /\ Iterators(w)
  /\ Entered(w.book)
  /\ ~StrayIds => IdsMatch(w.book)
  /\ NamesApart => /\ Fresh(w)
                   /\ OwnedBy(w.book, Refs(w), except)
                   /\ calm => CallsOwn(w.book) /\ Registered(w)

Sound == refusals = 0 /\ up = "sound"
Counts ==
  /\ up \in {"sound", "astray", "down"} /\ closed \in BOOLEAN /\ replaced \subseteq Ids
  /\ calls \in 0..MaxCalls /\ refusals \in 0..MaxRefusals /\ defers \in 0..MaxDefers
SourcesInv == WorldOK(State, replaced, Sound) /\ Counts

LEMMA RefsAre ==
  ASSUME NEW w, Typed(w)
  PROVE  /\ Refs(w) \subseteq Objs
         /\ \A o : o \in Refs(w) <=> o \in Dropped(w) \/ \E s \in Sources : o \in Held(w, s)
<1>1. \A l \in w.loop : l.src \in Sources /\ l.new \in Maps
  BY DEF Typed, Loops
<1> DEFINE A == UNION {ValuesOf(w.funcs[s]) : s \in Sources}
           C == UNION {ValuesOf(l.new) : l \in w.loop}
<1>2. Refs(w) = A \cup Dropped(w) \cup C
  BY DEF Refs, Dropped
<1>3. \A s \in Sources : \A o : o \in Held(w, s) <=>
        o \in ValuesOf(w.funcs[s]) \/ \E l \in w.loop : l.src = s /\ o \in ValuesOf(l.new)
  BY DEF Held
<1>4. \A o : o \in A <=> \E s \in Sources : o \in ValuesOf(w.funcs[s])
  OBVIOUS
<1>5. \A o : o \in C <=> \E l \in w.loop : o \in ValuesOf(l.new)
  OBVIOUS
<1>6. \A o : o \in Refs(w) <=> o \in Dropped(w) \/ \E s \in Sources : o \in Held(w, s)
  <2> HIDE DEF A, C
  <2>. QED BY <1>1, <1>2, <1>3, <1>4, <1>5
<1>7. \A s \in Sources : ValuesOf(w.funcs[s]) \subseteq Objs
  BY IsMap DEF Typed
<1>8. \A l \in w.loop : ValuesOf(l.new) \subseteq Objs
  BY <1>1, IsMap
<1>9. ASSUME NEW j \in Work(w), j.kind = "drop" PROVE ValuesOf(j.funcs) \subseteq Objs
  <2>1. j \in Jobs
    BY MembersTyped DEF Typed, Work
  <2>2. j.funcs \in Maps
    BY <2>1, <1>9 DEF Jobs
  <2>. QED BY <2>2, IsMap
<1>10. Refs(w) \subseteq Objs
  <2>1. A \subseteq Objs
    BY <1>7, <1>4
  <2>2. C \subseteq Objs
    BY <1>8, <1>5
  <2>3. Dropped(w) \subseteq Objs
    BY <1>9 DEF Dropped
  <2> HIDE DEF A, C
  <2>. QED BY <1>2, <2>1, <2>2, <2>3
<1>. QED BY <1>6, <1>10

\* Every reference to a function, and every id, may be added.
LEMMA OwnedByMore ==
  ASSUME NEW b, NEW refs, NEW more, NEW except, NEW others,
         OwnedBy(b, refs, except), refs \subseteq more, except \subseteq others
  PROVE  OwnedBy(b, more, others)
BY DEF OwnedBy

\* References which are given up leave the ids of their functions.
LEMMA OwnedByLess ==
  ASSUME NEW b, Book(b), NEW refs, NEW less, NEW except, OwnedBy(b, refs, except)
  PROVE  OwnedBy(b, refs \ less, except \cup IdsOf(b, less))
<1>1. DOMAIN b.regs \subseteq Ids /\ NoId \notin Ids
  BY DEF Book, IsBook, Ids, NoId
<1>2. \A o \in less : b.fn[o].id # NoId => b.fn[o].id \in IdsOf(b, less)
  BY DEF IdsOf
<1>. QED BY <1>1, <1>2 DEF OwnedBy

\* A job which is submitted is with the others.
LEMMA SubmitDoes ==
  ASSUME NEW q \in Seq(Jobs), NEW st \in Seq(Jobs), NEW job \in Jobs, NEW now \in BOOLEAN
  PROVE  /\ Submit(now, job, q) \in Seq(Jobs) /\ Stacked(now, job, st) \in Seq(Jobs)
         /\ Members(Submit(now, job, q)) \cup Members(Stacked(now, job, st))
              = Members(q) \cup Members(st) \cup {job}
<1>1. /\ Append(q, job) \in Seq(Jobs) /\ <<job>> \o st \in Seq(Jobs)
      /\ Members(Append(q, job)) = Members(q) \cup {job}
      /\ Members(<<job>> \o st) = {job} \cup Members(st)
  <2>1. Append(q, job) \in Seq(Jobs) /\ Members(Append(q, job)) = Members(q) \cup {job}
    BY MembersOfAppended
  <2>2. <<job>> \in Seq(Jobs) /\ Members(<<job>>) = {job}
    BY MembersOfOne
  <2> DEFINE one == <<job>>
  <2> HIDE DEF one
  <2>3. one \in Seq(Jobs) /\ Members(one) = {job}
    BY <2>2 DEF one
  <2>4. one \o st \in Seq(Jobs) /\ Members(one \o st) = Members(one) \cup Members(st)
    BY <2>3, MembersOfJoined
  <2>. QED BY <2>1, <2>3, <2>4 DEF one
<1>. QED BY <1>1 DEF Submit, Stacked

-----------------------------------------------------------------------------
(* The end of a step keeps it.                                              *)

\* The sources which die submit their jobs, and dangling iterators are stale.
LEMMA DropsDo ==
  ASSUME NEW w, Typed(w), Linked(w)
  PROVE  /\ Drops(w) \in Seq(Jobs)
         /\ Members(Drops(w)) = {DropOf(w, s) : s \in {t \in Dying(w) : w.funcs[t] # Empty}}
<1> DEFINE dying == {t \in Dying(w) : w.funcs[t] # Empty}
           S == {DropOf(w, s) : s \in dying}
<1>1. dying \subseteq Sources /\ \A s \in dying : w.origin[s] \in Paths
  BY DEF Dying, Typed
<1>2. IsFiniteSet(dying)
  BY <1>1, FS_Subset, SourceConstants
<1>3. IsFiniteSet(S)
  <2> DEFINE f == [s \in dying |-> DropOf(w, s)]
  <2>1. f \in Surjection(dying, S)
    BY DEF Surjection
  <2>. QED BY <1>2, <2>1, FS_Surjection
<1>4. S \subseteq Jobs
  BY <1>1 DEF DropOf, Jobs, Typed
<1>5. Drops(w) = SetToSeq(S)
  BY DEF Drops
<1>6. SetToSeq(S) \in Seq(S) /\ Members(SetToSeq(S)) = S
  BY <1>3, MembersOfSet
<1>7. SetToSeq(S) \in Seq(Jobs)
  BY <1>4, <1>6
<1>. QED BY <1>5, <1>6, <1>7

\* What the end of a step makes of the world w.
Ends(w, v, refuses) ==
  /\ v.origin = [s \in Sources |-> IF s \in Dying(w) THEN NoPath ELSE w.origin[s]]
  /\ v.funcs = [s \in Sources |-> IF s \in Dying(w) THEN Empty ELSE w.funcs[s]]
  /\ v.listed = w.listed /\ v.loop = w.loop
  /\ v.book = Sweep(w.book, Refs(w), refuses)
  /\ v.jobs \in Seq(Jobs) /\ v.stack \in Seq(Jobs)
  /\ Work(v) = {Staled(k, Dying(w), Names) : k \in Work(w) \cup Members(Drops(w))}

LEMMA SettleDoes ==
  ASSUME NEW w, Typed(w), Linked(w), NEW refuses, NEW leftover, Settle(w, refuses, leftover)
  PROVE  Ends(w, State', refuses)
<1> DEFINE dying == Dying(w)
<1>1. /\ Drops(w) \in Seq(Jobs) /\ w.jobs \in Seq(Jobs) /\ w.stack \in Seq(Jobs)
  BY DropsDo DEF Typed
<1>2. PICK now \in BOOLEAN :
        /\ stack' = Stales(IF now THEN Drops(w) \o w.stack ELSE w.stack, dying, Names)
        /\ jobs' = Stales(IF now THEN w.jobs ELSE w.jobs \o Drops(w), dying, Names)
  BY DEF Settle
<1> DEFINE st == IF now THEN Drops(w) \o w.stack ELSE w.stack
           q == IF now THEN w.jobs ELSE w.jobs \o Drops(w)
<1>3. /\ st \in Seq(Jobs) /\ q \in Seq(Jobs)
      /\ Members(st) \cup Members(q) = Work(w) \cup Members(Drops(w))
  BY <1>1, MembersOfJoined DEF Work
<1> HIDE DEF st, q, dying
<1>4. /\ stack' \in Seq(Jobs) /\ jobs' \in Seq(Jobs)
      /\ Members(stack') = {Staled(k, dying, Names) : k \in Members(st)}
      /\ Members(jobs') = {Staled(k, dying, Names) : k \in Members(q)}
  BY <1>2, <1>3, MembersOfStales DEF st, q
<1>5. Members(stack') \cup Members(jobs') = {Staled(k, dying, Names) : k \in Work(w) \cup Members(Drops(w))}
  BY <1>3, <1>4
<1>6. /\ State'.book = book' /\ State'.origin = origin' /\ State'.funcs = funcs'
      /\ State'.listed = listed' /\ State'.loop = loop'
      /\ State'.jobs = jobs' /\ State'.stack = stack'
  BY DEF State, Now
<1>7. Work(State') = {Staled(k, dying, Names) : k \in Work(w) \cup Members(Drops(w))}
  BY <1>5, <1>6 DEF Work
<1>8. /\ origin' = [s \in Sources |-> IF s \in dying THEN NoPath ELSE w.origin[s]]
      /\ funcs' = [s \in Sources |-> IF s \in dying THEN Empty ELSE w.funcs[s]]
      /\ listed' = w.listed /\ loop' = w.loop
      /\ book' = Sweep(w.book, Refs(w), refuses)
  BY DEF Settle, dying
<1>. QED BY <1>4, <1>6, <1>7, <1>8 DEF Ends, dying

\* Who refers to what, at the end of a step.
LEMMA EndsRefs ==
  ASSUME NEW w, Typed(w), Linked(w), NEW v, NEW refuses, Ends(w, v, refuses)
  PROVE  /\ Typed(v)
         /\ \A s \in Sources : v.funcs[s] # Empty => s \notin Dying(w) /\ v.funcs[s] = w.funcs[s]
         /\ \A s \in Sources : Held(v, s) = IF s \in Dying(w) THEN {} ELSE Held(w, s)
         /\ Dropped(v) = Dropped(w) \cup (UNION {ValuesOf(w.funcs[s]) : s \in Dying(w)})
         /\ Refs(v) = Refs(w)
         /\ \A o \in Refs(w) : v.book.fn[o] = w.book.fn[o]
<1> DEFINE dying == Dying(w)
<1>1. dying \subseteq Sources /\ \A s \in dying : s \notin Holders(w)
  BY DEF Dying
<1>2. \A l \in w.loop : l \in Loops /\ l.src \notin dying /\ l.src \in Sources
  BY <1>1 DEF Holders, Typed, Loops
<1>3. Book(v.book) /\ \A o \in Refs(w) : v.book.fn[o] = w.book.fn[o]
  <2>1. Book(w.book) /\ Refs(w) \in SUBSET Objs
    BY RefsAre DEF Typed
  <2>2. v.book = Sweep(w.book, Refs(w), refuses)
    BY DEF Ends
  <2>. QED BY <2>1, <2>2, SweepDoes
<1> HIDE DEF dying
<1>4. /\ v.origin = [s \in Sources |-> IF s \in dying THEN NoPath ELSE w.origin[s]]
      /\ v.funcs = [s \in Sources |-> IF s \in dying THEN Empty ELSE w.funcs[s]]
      /\ v.loop = w.loop /\ v.jobs \in Seq(Jobs) /\ v.stack \in Seq(Jobs)
      /\ Work(v) = {Staled(k, dying, Names) : k \in Work(w) \cup Members(Drops(w))}
  BY DEF Ends, dying
<1>5. Typed(v)
  BY <1>3, <1>4, EmptyIsMap DEF Typed
<1>6. \A s \in Sources : Held(v, s) = IF s \in dying THEN {} ELSE Held(w, s)
  <2>1. \A s \in dying : {m \in w.loop : m.src = s} = {}
    BY <1>2
  <2>2. \A s \in dying : Held(v, s) = {}
    BY <2>1, <1>1, <1>4, EmptyIsMap DEF Held
  <2>. QED BY <2>2, <1>4 DEF Held
<1>7. Dropped(v) = Dropped(w) \cup (UNION {ValuesOf(w.funcs[s]) : s \in dying})
  <2> DEFINE D == {DropOf(w, s) : s \in {t \in dying : w.funcs[t] # Empty}}
             all == Work(w) \cup D
  <2>1. Members(Drops(w)) = D /\ D \subseteq Jobs
    BY DropsDo, MembersTyped DEF dying
  <2>2. Work(w) \subseteq Jobs
    BY MembersTyped DEF Work, Typed
  <2>3. \A k \in all : /\ Staled(k, dying, Names).kind = k.kind
                       /\ k.kind # "remove" => Staled(k, dying, Names) = k
    BY <2>1, <2>2, StaledJob
  <2>4. {k \in Work(v) : k.kind = "drop"} = {k \in all : k.kind = "drop"}
    <3> HIDE DEF D
    <3>. QED BY <2>1, <2>3, <1>4
  <2>5. \A k \in D : k.kind = "drop"
    BY DEF DropOf
  <2>6. {k \in all : k.kind = "drop"} = {k \in Work(w) : k.kind = "drop"} \cup D
    <3> HIDE DEF D
    <3>. QED BY <2>5
  <2>7. UNION {ValuesOf(k.funcs) : k \in D} = UNION {ValuesOf(w.funcs[s]) : s \in dying}
    <3>1. \A o : o \in UNION {ValuesOf(k.funcs) : k \in D} <=> \E k \in D : o \in ValuesOf(k.funcs)
      OBVIOUS
    <3>2. \A s : DropOf(w, s).funcs = w.funcs[s]
      BY DEF DropOf
    <3>3. \A o : (\E k \in D : o \in ValuesOf(k.funcs))
                   <=> \E s \in dying : w.funcs[s] # Empty /\ o \in ValuesOf(w.funcs[s])
      BY <3>2
    <3>4. \A o : (\E s \in dying : w.funcs[s] # Empty /\ o \in ValuesOf(w.funcs[s]))
                   <=> \E s \in dying : o \in ValuesOf(w.funcs[s])
      BY EmptyIsMap
    <3> HIDE DEF D
    <3>. QED BY <3>1, <3>3, <3>4
  <2> HIDE DEF D
  <2>8. Dropped(v) = Dropped(w) \cup (UNION {ValuesOf(k.funcs) : k \in D})
    BY <2>4, <2>6 DEF Dropped
  <2>. QED BY <2>7, <2>8
<1>8. Refs(v) = Refs(w)
  <2>1. \A o : o \in Refs(w) <=> o \in Dropped(w) \/ \E s \in Sources : o \in Held(w, s)
    BY RefsAre
  <2>2. \A o : o \in Refs(v) <=> o \in Dropped(v) \/ \E s \in Sources : o \in Held(v, s)
    BY <1>5, RefsAre
  <2>3. \A s \in dying : Held(w, s) = ValuesOf(w.funcs[s])
    <3>1. \A s \in dying : {m \in w.loop : m.src = s} = {}
      BY <1>2
    <3>. QED BY <3>1 DEF Held
  <2>. QED BY <2>1, <2>2, <2>3, <1>1, <1>6, <1>7
<1>9. \A s \in Sources : v.funcs[s] # Empty => s \notin dying /\ v.funcs[s] = w.funcs[s]
  BY <1>4
<1>. QED BY <1>3, <1>5, <1>6, <1>7, <1>8, <1>9 DEF dying

LEMMA EndsLinked ==
  ASSUME NEW w, Typed(w), Linked(w), Iterators(w), NEW v, NEW refuses, Ends(w, v, refuses)
  PROVE  Linked(v) /\ Iterators(v)
<1> DEFINE dying == Dying(w)
<1>1. /\ \A s \in Sources : s \in dying <=> w.origin[s] # NoPath /\ s \notin Holders(w)
      /\ dying \subseteq Sources
  BY DEF Dying
<1>2. /\ \A p \in DOMAIN w.listed : w.listed[p] \in Holders(w)
      /\ \A j \in Work(w) : Holds(j) => j.src \in Holders(w)
      /\ \A l \in w.loop : l.src \in Holders(w)
  BY DEF Holders, ValuesOf
<1>3. /\ Work(w) \subseteq Jobs /\ Members(Drops(w)) \subseteq Jobs
      /\ \A k \in Members(Drops(w)) : k.kind = "drop"
  BY MembersTyped, DropsDo DEF Work, Typed, DropOf
<1>4. \A k \in Jobs : k.kind # "drop" => k.src \in Sources
  BY DEF Jobs
<1> HIDE DEF dying
<1>5. /\ v.origin = [s \in Sources |-> IF s \in dying THEN NoPath ELSE w.origin[s]]
      /\ v.funcs = [s \in Sources |-> IF s \in dying THEN Empty ELSE w.funcs[s]]
      /\ v.listed = w.listed /\ v.loop = w.loop
      /\ Work(v) = {Staled(k, dying, Names) : k \in Work(w) \cup Members(Drops(w))}
  BY DEF Ends, dying
<1>6. \A p \in DOMAIN v.listed : p \in Paths /\ v.listed[p] \in Sources /\ v.origin[v.listed[p]] = p
  BY <1>1, <1>2, <1>5 DEF Linked
<1>7. \A l \in v.loop : v.origin[l.src] # NoPath
  <2>1. \A l \in w.loop : l.src \in Sources
    BY DEF Typed, Loops
  <2>. QED BY <2>1, <1>1, <1>2, <1>5 DEF Linked
<1>8. \A s \in Sources : v.origin[s] = NoPath => v.funcs[s] = Empty
  BY <1>5 DEF Linked
<1>9. ASSUME NEW j \in Work(v) PROVE Holds(j) => v.origin[j.src] # NoPath
  <2>1. PICK k \in Work(w) \cup Members(Drops(w)) : j = Staled(k, dying, Names)
    BY <1>5
  <2>2. j.kind = k.kind /\ (k.kind # "remove" => j = k)
    BY <2>1, <1>3, StaledJob
  <2>3. Holds(j) => j = k /\ k \in Work(w) /\ k.src \in Sources /\ w.origin[k.src] # NoPath /\ k.src \notin dying
    BY <2>1, <2>2, <1>1, <1>2, <1>3, <1>4 DEF Holds, Linked
  <2>. QED BY <2>3, <1>5
<1>10. ASSUME NEW j \in Work(v), j.kind = "remove", ~j.stale
       PROVE  j.name \in DOMAIN v.funcs[j.src] /\ v.funcs[j.src][j.name] = j.obj
  <2>1. PICK k \in Work(w) \cup Members(Drops(w)) : j = Staled(k, dying, Names)
    BY <1>5
  <2>2. k \in Work(w) /\ k.kind = "remove" /\ k \in Jobs
    BY <2>1, <1>3, <1>10, StaledJob
  <2>3. k.src \in Sources /\ k.name \in Names
    BY <2>2 DEF Jobs
  <2>4. k.src \notin dying
    <3> SUFFICES ASSUME k.src \in dying PROVE FALSE
      OBVIOUS
    <3>1. j = [k EXCEPT !.stale = TRUE]
      BY <2>1, <2>2, <2>3 DEF Staled
    <3>. QED BY <3>1, <2>2, <1>10 DEF Jobs
  <2>5. j = k
    BY <2>1, <2>4 DEF Staled
  <2>. QED BY <2>2, <2>3, <2>4, <2>5, <1>5, <1>10 DEF Iterators
<1>11. Linked(v)
  BY <1>6, <1>7, <1>8, <1>9 DEF Linked
<1>12. Iterators(v)
  BY <1>10 DEF Iterators
<1>. QED BY <1>11, <1>12

LEMMA EndsKeeps ==
  ASSUME NEW w, NEW except, NEW calm, WorldOK(w, except, calm),
         NEW v, NEW refuses, Ends(w, v, refuses),
         NEW others, except \cap DOMAIN v.book.regs \subseteq others
  PROVE  WorldOK(v, others, calm)
<1>1. /\ Typed(w) /\ Linked(w) /\ InMemory(w) /\ Named(w) /\ Apart(w) /\ Iterators(w)
      /\ Entered(w.book)
      /\ ~StrayIds => IdsMatch(w.book)
  BY DEF WorldOK
<1>2. /\ Typed(v)
      /\ \A s \in Sources : v.funcs[s] # Empty => s \notin Dying(w) /\ v.funcs[s] = w.funcs[s]
      /\ \A s \in Sources : Held(v, s) = IF s \in Dying(w) THEN {} ELSE Held(w, s)
      /\ Dropped(v) = Dropped(w) \cup (UNION {ValuesOf(w.funcs[s]) : s \in Dying(w)})
      /\ Refs(v) = Refs(w)
      /\ \A o \in Refs(w) : v.book.fn[o] = w.book.fn[o]
  BY <1>1, EndsRefs
<1>3. Linked(v) /\ Iterators(v)
  BY <1>1, EndsLinked
<1>4. /\ \A x : OwnedBy(w.book, Refs(w), x) => OwnedBy(v.book, Refs(w), x)
      /\ IdsMatch(w.book) => IdsMatch(v.book)
      /\ Entered(w.book) => Entered(v.book)
      /\ Entered(w.book) /\ CallsOwn(w.book) => CallsOwn(v.book)
  <2>1. Book(w.book) /\ Refs(w) \in SUBSET Objs
    BY <1>1, RefsAre DEF Typed
  <2>2. v.book = Sweep(w.book, Refs(w), refuses)
    BY DEF Ends
  <2>. QED BY <2>1, <2>2, SweepDoes
<1>5. InMemory(v)
  BY <1>1, <1>2 DEF InMemory, Live
<1>6. v.loop = w.loop
  BY DEF Ends
<1>7. \A s \in Sources : \A o \in ValuesOf(w.funcs[s]) : o \in Refs(w) /\ o \in Held(w, s)
  BY <1>1, RefsAre DEF Held
<1>8. Named(v)
  <2>1. \A s \in Sources : NamedAs(v.book, v.funcs[s])
    BY <1>1, <1>2, <1>7, EmptyIsMap DEF Named, NamedAs, ValuesOf
  <2>2. \A l \in w.loop : \A n \in DOMAIN l.new : l.new[n] \in Refs(w)
    BY DEF Refs, ValuesOf
  <2>3. \A l \in v.loop : NamedAs(v.book, l.new)
    BY <2>2, <1>1, <1>2, <1>6 DEF Named, NamedAs
  <2>. QED BY <2>1, <2>3 DEF Named
<1>9. Apart(v)
  <2> SUFFICES ASSUME NEW s \in Sources, NEW o \in Held(v, s)
               PROVE  o \notin Dropped(v) /\ \A t \in Sources : o \in Held(v, t) => t = s
    BY DEF Apart
  <2>1. s \notin Dying(w) /\ o \in Held(w, s)
    BY <1>2
  <2>2. o \notin Dropped(w) /\ \A t \in Sources : o \in Held(w, t) => t = s
    BY <2>1, <1>1 DEF Apart
  <2>3. \A t \in Dying(w) : t \in Sources /\ o \notin ValuesOf(w.funcs[t])
    BY <2>1, <2>2, <1>7 DEF Dying
  <2>4. o \notin Dropped(v)
    BY <2>2, <2>3, <1>2
  <2>5. \A t \in Sources : o \in Held(v, t) => t = s
    BY <2>2, <1>2
  <2>. QED BY <2>4, <2>5
<1>10. ASSUME NamesApart PROVE Fresh(v) /\ OwnedBy(v.book, Refs(v), others)
  <2>1. Fresh(w) /\ OwnedBy(w.book, Refs(w), except)
    BY <1>10 DEF WorldOK
  <2>2. Fresh(v)
    BY <2>1, <1>6 DEF Fresh
  <2>3. OwnedBy(v.book, Refs(v), except)
    BY <2>1, <1>2, <1>4
  <2>. QED BY <2>2, <2>3 DEF OwnedBy
<1>11. ASSUME NamesApart, calm PROVE CallsOwn(v.book) /\ Registered(v)
  <2>1. CallsOwn(w.book) /\ Registered(w)
    BY <1>11 DEF WorldOK
  <2>2. \A s \in Sources : \A o \in Held(v, s) : o \in Held(w, s) /\ o \in Refs(w)
    BY <1>1, <1>2, RefsAre
  <2>3. Registered(v)
    BY <2>1, <2>2, <1>2 DEF Registered
  <2>. QED BY <2>1, <2>3, <1>1, <1>4
<1>. QED BY <1>1, <1>2, <1>3, <1>4, <1>5, <1>8, <1>9, <1>10, <1>11 DEF WorldOK

\* So a step keeps the invariant if what it makes of the state does.
LEMMA SettleKeeps ==
  ASSUME NEW w, NEW refuses, NEW leftover, Settle(w, refuses, leftover),
         WorldOK(w, replaced \cup leftover, Sound')
  PROVE  WorldOK(State', replaced', Sound') /\ replaced' \subseteq Ids
<1>1. Typed(w) /\ Linked(w)
  BY DEF WorldOK
<1>2. Ends(w, State', refuses)
  BY <1>1, SettleDoes
<1>3. State'.book = book'
  BY DEF State, Now
<1>4. replaced' = (replaced \cup leftover) \cap DOMAIN book'.regs
  BY DEF Settle
<1>5. WorldOK(State', replaced', Sound')
  BY <1>2, <1>3, <1>4, EndsKeeps
<1>6. Book(book')
  BY <1>3, <1>5 DEF WorldOK, Typed
<1>. QED BY <1>4, <1>5, <1>6 DEF Book, IsBook

-----------------------------------------------------------------------------
(* The calls and events: functions stay as they are.                        *)

LEMMA StateIs ==
  /\ State.book = book /\ State.origin = origin /\ State.funcs = funcs /\ State.listed = listed
  /\ State.jobs = jobs /\ State.stack = stack /\ State.loop = loop
  /\ Work(State) = Members(jobs) \cup Members(stack)
BY DEF State, Now, Work

\* What the invariant says of the types.
LEMMA InvTypes ==
  ASSUME SourcesInv
  PROVE  /\ Book(book) /\ origin \in [Sources -> Paths \cup {NoPath}] /\ funcs \in [Sources -> Maps]
         /\ jobs \in Seq(Jobs) /\ stack \in Seq(Jobs)
         /\ loop \subseteq Loops /\ (\A l, m \in loop : l = m)
         /\ Work(State) \subseteq Jobs
         /\ Refs(State) \subseteq Objs
<1>1. Typed(State)
  BY DEF SourcesInv, WorldOK
<1>2. Work(State) \subseteq Jobs
  BY <1>1, MembersTyped DEF Work, Typed
<1>. QED BY <1>1, <1>2, StateIs, RefsAre DEF Typed

LEMMA InvLinks ==
  ASSUME SourcesInv
  PROVE  /\ \A p \in DOMAIN listed : p \in Paths /\ listed[p] \in Sources /\ origin[listed[p]] = p
         /\ \A j \in Work(State) : Holds(j) => origin[j.src] # NoPath
         /\ \A l \in loop : origin[l.src] # NoPath
         /\ \A s \in Sources : origin[s] = NoPath => funcs[s] = Empty
BY StateIs DEF SourcesInv, WorldOK, Linked

\* A step which does nothing but start or finish jobs and change which sources
\* there are.
LEMMA SameFunctions ==
  ASSUME SourcesInv, NEW w, Typed(w), Linked(w),
         w.book = book, w.funcs = funcs, w.loop = loop,
         {k \in Work(w) : k.kind = "drop"} = {k \in Work(State) : k.kind = "drop"},
         \A j \in Work(w) : j.kind = "remove" /\ ~j.stale /\ j \notin Work(State) =>
           j.name \in DOMAIN funcs[j.src] /\ funcs[j.src][j.name] = j.obj,
         NEW calm, calm => Sound
  PROVE  WorldOK(w, replaced \cup {}, calm)
<1>1. /\ InMemory(State) /\ Named(State) /\ Apart(State) /\ Iterators(State) /\ Entered(book)
      /\ ~StrayIds => IdsMatch(book)
      /\ NamesApart => Fresh(State) /\ OwnedBy(book, Refs(State), replaced)
      /\ NamesApart /\ Sound => CallsOwn(book) /\ Registered(State)
  BY StateIs DEF SourcesInv, WorldOK
<1>2. Refs(w) = Refs(State) /\ Dropped(w) = Dropped(State)
  BY StateIs DEF Refs, Dropped
<1>3. \A s : Held(w, s) = Held(State, s)
  BY StateIs DEF Held
<1>4. InMemory(w) /\ Named(w) /\ Apart(w)
  BY <1>1, <1>2, <1>3, StateIs DEF InMemory, Named, Apart
<1>5. Iterators(w)
  BY <1>1, StateIs DEF Iterators
<1>6. Entered(w.book) /\ (~StrayIds => IdsMatch(w.book))
  BY <1>1
<1>7. NamesApart => Fresh(w) /\ OwnedBy(w.book, Refs(w), replaced \cup {})
  <2>1. replaced \cup {} = replaced
    OBVIOUS
  <2>. QED BY <1>1, <1>2, <2>1, StateIs DEF Fresh
<1>8. NamesApart /\ calm => CallsOwn(w.book) /\ Registered(w)
  BY <1>1, <1>3, StateIs DEF Registered
<1>. QED BY <1>4, <1>5, <1>6, <1>7, <1>8 DEF WorldOK

\* With one job more.
LEMMA OneMore ==
  ASSUME SourcesInv, NEW w, Typed(w), Linked(w), w.book = book, w.funcs = funcs, w.loop = loop,
         NEW r, Work(w) = Work(State) \cup {r}, r.kind # "drop",
         r.kind = "remove" => r.name \in DOMAIN funcs[r.src] /\ funcs[r.src][r.name] = r.obj,
         NEW calm, calm => Sound
  PROVE  WorldOK(w, replaced \cup {}, calm)
<1>1. {k \in Work(w) : k.kind = "drop"} = {k \in Work(State) : k.kind = "drop"}
  OBVIOUS
<1>2. \A j \in Work(w) : j.kind = "remove" /\ ~j.stale /\ j \notin Work(State) =>
        j.name \in DOMAIN funcs[j.src] /\ funcs[j.src][j.name] = j.obj
  OBVIOUS
<1>. QED BY <1>1, <1>2, SameFunctions

LEMMA RegisterKeeps ==
  ASSUME SourcesInv, NEW p \in Paths, NEW specs \in SpecLists, NEW append \in Appends,
         Register(p, specs, append)
  PROVE  SourcesInv'
<1> DEFINE found == p # Anon /\ p \in DOMAIN listed
           s == IF found THEN listed[p] ELSE NewSource
           r == RegisterJob(s, specs, append)
<1>1. /\ loop = {} /\ UNCHANGED <<up, refusals, defers, closed>> /\ calls < MaxCalls /\ calls' = calls + 1
      /\ found \/ HasSource
  BY DEF Register, Call, Calm, Quiet
<1>2. /\ s \in Sources
      /\ origin[s] = p \/ (origin[s] = NoPath /\ ~found)
  <2>1. CASE found
    BY <2>1, InvLinks
  <2>2. CASE ~found
    BY <2>2, <1>1 DEF HasSource, NewSource
  <2>. QED BY <2>1, <2>2
<1>3. PICK now \in BOOLEAN :
        Settle([Now(Submit(now, r, jobs), Stacked(now, r, stack)) EXCEPT
                  !.origin[s] = p,
                  !.listed = IF p \in DOMAIN @ THEN @ ELSE Put(@, p, s)], {}, {})
  BY DEF Register
<1> DEFINE q == Submit(now, r, jobs)
           st == Stacked(now, r, stack)
           w == [Now(q, st) EXCEPT !.origin[s] = p,
                                   !.listed = IF p \in DOMAIN @ THEN @ ELSE Put(@, p, s)]
<1>4. r \in Jobs /\ r.kind = "register" /\ r.src = s
  BY <1>2, SourceConstants DEF RegisterJob, Jobs
<1>5. /\ q \in Seq(Jobs) /\ st \in Seq(Jobs)
      /\ Members(q) \cup Members(st) = Members(jobs) \cup Members(stack) \cup {r}
  BY <1>4, InvTypes, SubmitDoes
<1> HIDE DEF s, r, q, st
<1>6. /\ w.book = book /\ w.funcs = funcs /\ w.loop = loop /\ w.jobs = q /\ w.stack = st
      /\ w.origin = [origin EXCEPT ![s] = p]
      /\ w.listed = IF p \in DOMAIN listed THEN listed ELSE Put(listed, p, s)
  BY DEF Now
<1> HIDE DEF w
<1>7. Work(w) = Work(State) \cup {r}
  BY <1>5, <1>6, StateIs DEF Work
<1>8. Typed(w)
  BY <1>2, <1>5, <1>6, InvTypes DEF Typed
<1>9. Linked(w)
  <2>1. \A x \in Sources : w.origin[x] = IF x = s THEN p ELSE origin[x]
    BY <1>6, <1>2, InvTypes
  <2>2. p # NoPath
    BY SourceConstants
  <2>3. \A x \in DOMAIN w.listed : x \in Paths /\ w.listed[x] \in Sources /\ w.origin[w.listed[x]] = x
    <3> SUFFICES ASSUME NEW x \in DOMAIN w.listed
                 PROVE  x \in Paths /\ w.listed[x] \in Sources /\ w.origin[w.listed[x]] = x
      OBVIOUS
    <3>1. CASE x \in DOMAIN listed
      <4>1. w.listed[x] = listed[x]
        BY <3>1, <1>6 DEF Put
      <4>2. x \in Paths /\ listed[x] \in Sources /\ origin[listed[x]] = x /\ x # NoPath
        BY <3>1, InvLinks, SourceConstants
      <4>. QED BY <4>1, <4>2, <2>1, <1>2
    <3>2. CASE x \notin DOMAIN listed
      <4>1. x = p /\ w.listed[x] = s
        BY <3>2, <1>6 DEF Put
      <4>. QED BY <4>1, <2>1, <1>2
    <3>. QED BY <3>1, <3>2
  <2>4. \A j \in Work(w) : Holds(j) => w.origin[j.src] # NoPath
    <3>1. \A j \in Work(State) : Holds(j) => j.src \in Sources
      BY InvTypes DEF Jobs, Holds
    <3>. QED BY <3>1, <2>1, <2>2, <1>2, <1>4, <1>7, InvLinks
  <2>5. \A x \in Sources : w.origin[x] = NoPath => w.funcs[x] = Empty
    BY <2>1, <2>2, <1>6, InvLinks
  <2>. QED BY <2>3, <2>4, <2>5, <1>1, <1>6 DEF Linked
<1>10. WorldOK(w, replaced \cup {}, Sound')
  BY <1>1, <1>4, <1>6, <1>7, <1>8, <1>9, OneMore DEF Sound
<1>11. WorldOK(State', replaced', Sound') /\ replaced' \subseteq Ids
  BY <1>3, <1>10, SettleKeeps DEF w, q, st
<1>12. Counts'
  BY <1>1, <1>11, SourceConstants DEF SourcesInv, Counts
<1>. QED BY <1>11, <1>12 DEF SourcesInv

\* A step which adds no source to the list.
LEMMA SameSources ==
  ASSUME SourcesInv, NEW w, w.origin = origin, w.funcs = funcs, w.loop = loop,
         \A x \in DOMAIN w.listed : x \in DOMAIN listed /\ w.listed[x] = listed[x],
         \A j \in Work(w) : Holds(j) /\ j \notin Work(State) => origin[j.src] # NoPath
  PROVE  Linked(w)
BY InvLinks DEF Linked

LEMMA RemoveFuncKeeps ==
  ASSUME SourcesInv, NEW p \in Paths, NEW n \in Removals, RemoveFunc(p, n)
  PROVE  SourcesInv'
<1> DEFINE s == listed[p]
           r == RemoveJob(s, n)
<1>1. /\ UNCHANGED <<up, refusals, defers, closed>> /\ calls < MaxCalls /\ calls' = calls + 1
      /\ s \in Sources /\ n \in DOMAIN funcs[s]
  BY InvLinks DEF RemoveFunc, Call, Quiet
<1>2. PICK now \in BOOLEAN : Settle(Now(Submit(now, r, jobs), Stacked(now, r, stack)), {}, {})
  BY DEF RemoveFunc
<1> DEFINE q == Submit(now, r, jobs)
           st == Stacked(now, r, stack)
           w == Now(q, st)
<1>3. funcs[s] \in Maps /\ n \in Names /\ funcs[s][n] \in Objs
  BY <1>1, InvTypes, IsMap
<1>4. r \in Jobs /\ r.kind = "remove" /\ r.src = s /\ r.name = n /\ r.obj = funcs[s][n]
  BY <1>1, <1>3 DEF RemoveJob, Jobs
<1>5. /\ q \in Seq(Jobs) /\ st \in Seq(Jobs)
      /\ Members(q) \cup Members(st) = Members(jobs) \cup Members(stack) \cup {r}
  BY <1>4, InvTypes, SubmitDoes
<1> HIDE DEF r, q, st, s
<1>6. /\ w.book = book /\ w.funcs = funcs /\ w.loop = loop /\ w.jobs = q /\ w.stack = st
      /\ w.origin = origin /\ w.listed = listed
  BY DEF Now
<1> HIDE DEF w
<1>7. Work(w) = Work(State) \cup {r}
  BY <1>5, <1>6, StateIs DEF Work
<1>8. Typed(w)
  BY <1>5, <1>6, InvTypes DEF Typed
<1>9. Linked(w)
  BY <1>4, <1>6, <1>7, SameSources DEF Holds
<1>10. WorldOK(w, replaced \cup {}, Sound')
  BY <1>1, <1>4, <1>6, <1>7, <1>8, <1>9, OneMore DEF Sound
<1>11. WorldOK(State', replaced', Sound') /\ replaced' \subseteq Ids
  BY <1>2, <1>10, SettleKeeps DEF w, q, st
<1>12. Counts'
  BY <1>1, <1>11, SourceConstants DEF SourcesInv, Counts
<1>. QED BY <1>11, <1>12 DEF SourcesInv

LEMMA FileEventKeeps ==
  ASSUME SourcesInv, NEW p \in Paths, NEW kind \in FileEvents, FileEvent(p, kind)
  PROVE  SourcesInv'
<1> DEFINE r == SourceJob(kind, listed[p])
           w == Now(Append(jobs, r), stack)
<1>1. /\ UNCHANGED <<up, refusals, defers, closed>> /\ calls < MaxCalls /\ calls' = calls + 1
      /\ listed[p] \in Sources /\ origin[listed[p]] # NoPath
      /\ Settle(w, {}, {})
  BY InvLinks, SourceConstants DEF FileEvent, Call, Quiet
<1>2. r \in Jobs /\ r.kind # "drop" /\ r.kind # "remove" /\ r.src = listed[p]
  BY <1>1, SourceConstants DEF SourceJob, Jobs
<1>3. Append(jobs, r) \in Seq(Jobs) /\ Members(Append(jobs, r)) = Members(jobs) \cup {r}
  BY <1>2, InvTypes, MembersOfAppended
<1> HIDE DEF r
<1>4. /\ w.book = book /\ w.funcs = funcs /\ w.loop = loop /\ w.jobs = Append(jobs, r)
      /\ w.stack = stack /\ w.origin = origin /\ w.listed = listed
  BY DEF Now
<1> HIDE DEF w
<1>5. Work(w) = Work(State) \cup {r}
  BY <1>3, <1>4, StateIs DEF Work
<1>6. Typed(w)
  BY <1>3, <1>4, InvTypes DEF Typed
<1>7. Linked(w)
  BY <1>1, <1>2, <1>4, <1>5, SameSources
<1>8. WorldOK(w, replaced \cup {}, Sound')
  BY <1>1, <1>2, <1>4, <1>5, <1>6, <1>7, OneMore DEF Sound
<1>9. WorldOK(State', replaced', Sound') /\ replaced' \subseteq Ids
  BY <1>1, <1>8, SettleKeeps
<1>10. Counts'
  BY <1>1, <1>9, SourceConstants DEF SourcesInv, Counts
<1>. QED BY <1>9, <1>10 DEF SourcesInv

\* Sources which are taken off the list.
LEMMA UnlistKeeps ==
  ASSUME SourcesInv, NEW names,
         Settle([Now(jobs, stack) EXCEPT !.listed = Minus(listed, names)], {}, {}),
         UNCHANGED <<up, refusals>>
  PROVE  WorldOK(State', replaced', Sound') /\ replaced' \subseteq Ids
<1> DEFINE w == [Now(jobs, stack) EXCEPT !.listed = Minus(listed, names)]
<1>1. /\ w.book = book /\ w.funcs = funcs /\ w.loop = loop /\ w.jobs = jobs
      /\ w.stack = stack /\ w.origin = origin /\ w.listed = Minus(listed, names)
  BY DEF Now
<1> HIDE DEF w
<1>2. Work(w) = Work(State)
  BY <1>1, StateIs DEF Work
<1>3. Typed(w)
  BY <1>1, InvTypes DEF Typed
<1>4. Linked(w)
  BY <1>1, <1>2, SameSources DEF Minus
<1>5. WorldOK(w, replaced \cup {}, Sound')
  BY <1>1, <1>2, <1>3, <1>4, SameFunctions DEF Sound
<1>. QED BY <1>5, SettleKeeps DEF w

LEMMA WorkbookCloseKeeps ==
  ASSUME SourcesInv, NEW p, WorkbookClose(p)
  PROVE  SourcesInv'
<1>1. /\ UNCHANGED <<up, refusals, defers, closed>> /\ calls < MaxCalls /\ calls' = calls + 1
  BY DEF WorkbookClose, Call, Quiet
<1>2. WorldOK(State', replaced', Sound') /\ replaced' \subseteq Ids
  BY <1>1, UnlistKeeps DEF WorkbookClose, Unlisted
<1>3. Counts'
  BY <1>1, <1>2, SourceConstants DEF SourcesInv, Counts
<1>. QED BY <1>2, <1>3 DEF SourcesInv

LEMMA CloseAddinKeeps ==
  ASSUME SourcesInv, CloseAddin
  PROVE  SourcesInv'
<1>1. UNCHANGED <<up, refusals, defers, calls>> /\ closed' = TRUE
  BY DEF CloseAddin, Quiet
<1>2. Minus(listed, DOMAIN listed) = Empty
  BY DEF Minus, Empty
<1>3. WorldOK(State', replaced', Sound') /\ replaced' \subseteq Ids
  BY <1>1, <1>2, UnlistKeeps DEF CloseAddin
<1>4. Counts'
  BY <1>1, <1>3, SourceConstants DEF SourcesInv, Counts
<1>. QED BY <1>3, <1>4 DEF SourcesInv

LEMMA WorkbookRenameKeeps ==
  ASSUME SourcesInv, NEW p, NEW x \in Paths, WorkbookRename(p, x)
  PROVE  SourcesInv'
<1> DEFINE s == listed[p]
           left == Unlisted(s)
           found == x \in DOMAIN left
           t == IF found THEN left[x] ELSE NewSource
           again(specs) == RegisterJob(t, specs, FALSE)
           release == SourceJob("release", s)
           Moves == \E specs \in SpecLists, now \in BOOLEAN :
                      Settle([Now(Submit(now, again(specs), jobs),
                                  Stacked(now, again(specs), <<release>> \o stack)) EXCEPT
                                !.origin[t] = x, !.listed = Put(left, x, t)], {}, {})
<1>1. /\ UNCHANGED <<up, refusals, defers, closed>> /\ calls < MaxCalls /\ calls' = calls + 1
      /\ loop = {} /\ p \in DOMAIN listed
  BY DEF WorkbookRename, Call, Calm, Quiet
<1>2. \/ (found \/ HasSource) /\ Moves
      \/ Settle([Now(jobs, stack) EXCEPT !.listed = left], {}, {})
  BY DEF WorkbookRename
<1>3. /\ s \in Sources /\ origin[s] # NoPath
      /\ \A y \in DOMAIN left : y \in DOMAIN listed /\ left[y] = listed[y]
  BY <1>1, InvLinks, SourceConstants DEF Unlisted, Minus
<1>4. ASSUME found \/ HasSource, Moves PROVE WorldOK(State', replaced', Sound') /\ replaced' \subseteq Ids
  <2>1. t \in Sources /\ (origin[t] = x \/ origin[t] = NoPath)
    <3>1. CASE found
      BY <3>1, <1>3, InvLinks
    <3>2. CASE ~found
      BY <3>2, <1>4 DEF HasSource, NewSource
    <3>. QED BY <3>1, <3>2
  <2>2. PICK specs \in SpecLists, now \in BOOLEAN :
          Settle([Now(Submit(now, again(specs), jobs),
                      Stacked(now, again(specs), <<release>> \o stack)) EXCEPT
                    !.origin[t] = x, !.listed = Put(left, x, t)], {}, {})
    BY <1>4
  <2> DEFINE r == again(specs)
             one == <<release>> \o stack
             q == Submit(now, r, jobs)
             st == Stacked(now, r, one)
             w == [Now(q, st) EXCEPT !.origin[t] = x, !.listed = Put(left, x, t)]
  <2>3. /\ r \in Jobs /\ r.kind = "register" /\ r.src = t
        /\ release \in Jobs /\ release.kind = "release" /\ release.src = s
    BY <2>1, <1>3, SourceConstants DEF RegisterJob, SourceJob, Jobs
  <2> HIDE DEF r, release
  <2>4. one \in Seq(Jobs) /\ Members(one) = {release} \cup Members(stack)
    <3>1. <<release>> \in Seq(Jobs) /\ Members(<<release>>) = {release}
      BY <2>3, MembersOfOne
    <3> DEFINE a == <<release>>
    <3> HIDE DEF a
    <3>2. a \in Seq(Jobs) /\ Members(a) = {release}
      BY <3>1 DEF a
    <3>3. a \o stack \in Seq(Jobs) /\ Members(a \o stack) = Members(a) \cup Members(stack)
      BY <3>2, InvTypes, MembersOfJoined
    <3>. QED BY <3>2, <3>3 DEF a
  <2> HIDE DEF one
  <2>5. /\ q \in Seq(Jobs) /\ st \in Seq(Jobs)
        /\ Members(q) \cup Members(st) = Members(jobs) \cup Members(one) \cup {r}
    <3>1. jobs \in Seq(Jobs) /\ one \in Seq(Jobs) /\ r \in Jobs /\ now \in BOOLEAN
      BY <2>3, <2>4, InvTypes
    <3>. QED BY <3>1, SubmitDoes
  <2> HIDE DEF q, st, t, left
  <2>6. /\ w.book = book /\ w.funcs = funcs /\ w.loop = loop /\ w.jobs = q /\ w.stack = st
        /\ w.origin = [origin EXCEPT ![t] = x] /\ w.listed = Put(left, x, t)
    BY DEF Now
  <2> HIDE DEF w
  <2>7. Work(w) = Work(State) \cup {r, release}
    BY <2>4, <2>5, <2>6, StateIs DEF Work
  <2>8. Typed(w)
    BY <2>1, <2>5, <2>6, InvTypes DEF Typed
  <2>9. Linked(w)
    <3>1. \A y \in Sources : w.origin[y] = IF y = t THEN x ELSE origin[y]
      BY <2>1, <2>6, InvTypes
    <3>2. x # NoPath
      BY SourceConstants
    <3>3. ASSUME NEW y \in DOMAIN w.listed
          PROVE  y \in Paths /\ w.listed[y] \in Sources /\ w.origin[w.listed[y]] = y
      <4>1. CASE y = x
        <5>1. w.listed[y] = t
          BY <4>1, <2>6 DEF Put
        <5>. QED BY <5>1, <4>1, <3>1, <2>1
      <4>2. CASE y # x
        <5>1. y \in DOMAIN listed /\ w.listed[y] = listed[y]
          BY <4>2, <3>3, <2>6, <1>3 DEF Put
        <5>2. y \in Paths /\ listed[y] \in Sources /\ origin[listed[y]] = y /\ y # NoPath
          BY <5>1, InvLinks, SourceConstants
        <5>. QED BY <5>1, <5>2, <4>2, <3>1, <2>1
      <4>. QED BY <4>1, <4>2
    <3>4. \A j \in Work(w) : Holds(j) => w.origin[j.src] # NoPath
      <4>1. \A j \in Work(State) : Holds(j) => j.src \in Sources
        BY InvTypes DEF Jobs, Holds
      <4>. QED BY <4>1, <3>1, <3>2, <1>3, <2>1, <2>3, <2>7, InvLinks
    <3>5. \A y \in Sources : w.origin[y] = NoPath => w.funcs[y] = Empty
      BY <3>1, <3>2, <2>6, InvLinks
    <3>. QED BY <3>3, <3>4, <3>5, <1>1, <2>6 DEF Linked
  <2>10. WorldOK(w, replaced \cup {}, Sound')
    <3>1. {k \in Work(w) : k.kind = "drop"} = {k \in Work(State) : k.kind = "drop"}
      BY <2>3, <2>7
    <3>2. \A j \in Work(w) : j.kind = "remove" /\ ~j.stale /\ j \notin Work(State) =>
            j.name \in DOMAIN funcs[j.src] /\ funcs[j.src][j.name] = j.obj
      BY <2>3, <2>7
    <3>. QED BY <3>1, <3>2, <1>1, <2>6, <2>8, <2>9, SameFunctions DEF Sound
  <2>. QED BY <2>2, <2>10, SettleKeeps DEF w, q, st, one, r
<1>5. WorldOK(State', replaced', Sound') /\ replaced' \subseteq Ids
  <2>1. ASSUME Settle([Now(jobs, stack) EXCEPT !.listed = left], {}, {})
        PROVE  WorldOK(State', replaced', Sound') /\ replaced' \subseteq Ids
    BY <2>1, <1>1, UnlistKeeps DEF Unlisted
  <2>. QED BY <2>1, <1>2, <1>4
<1>6. Counts'
  BY <1>1, <1>5, SourceConstants DEF SourcesInv, Counts
<1>. QED BY <1>5, <1>6 DEF SourcesInv

-----------------------------------------------------------------------------
(* The jobs                                                                 *)

\* A job is taken and the others stay.
Taken(job, q, st) ==
  /\ q \in Seq(Jobs) /\ st \in Seq(Jobs) /\ job \in Jobs
  /\ Work(State) = Members(q) \cup Members(st) \cup {job}
  /\ loop = {} /\ UNCHANGED <<closed, calls, defers>>

LEMMA HeldIs ==
  ASSUME NEW w
  PROVE  /\ w.loop = {} => \A s : Held(w, s) = ValuesOf(w.funcs[s])
         /\ \A m : w.loop = {m} =>
              \A s : Held(w, s) = ValuesOf(w.funcs[s]) \cup (IF m.src = s THEN ValuesOf(m.new) ELSE {})
<1>1. \A s : \A o : o \in Held(w, s) <=>
        o \in ValuesOf(w.funcs[s]) \/ \E l \in w.loop : l.src = s /\ o \in ValuesOf(l.new)
  BY DEF Held
<1>2. ASSUME w.loop = {}, NEW s PROVE Held(w, s) = ValuesOf(w.funcs[s])
  BY <1>1, <1>2
<1>3. ASSUME NEW m, w.loop = {m}, NEW s
      PROVE  Held(w, s) = ValuesOf(w.funcs[s]) \cup (IF m.src = s THEN ValuesOf(m.new) ELSE {})
  BY <1>1, <1>3
<1>. QED BY <1>2, <1>3

\* The registration of a source begins with no function of its own.
LEMMA DoRegisterKeeps ==
  ASSUME SourcesInv, NEW job, NEW q, NEW st, Taken(job, q, st), DoRegister(job, q, st)
  PROVE  SourcesInv'
<1> DEFINE m == [src |-> job.src, specs |-> job.specs, append |-> job.append, new |-> Empty]
           v == State'
<1>1. /\ job.kind = "register" /\ loop' = {m} /\ jobs' = q /\ stack' = st
      /\ UNCHANGED <<book, origin, funcs, listed, up, replaced, refusals, closed, calls, defers>>
      /\ q \in Seq(Jobs) /\ st \in Seq(Jobs) /\ job \in Jobs /\ loop = {}
      /\ Work(State) = Members(q) \cup Members(st) \cup {job}
  BY DEF DoRegister, Taken
<1>2. /\ job.src \in Sources /\ job.specs \in SpecLists /\ job.append \in BOOLEAN
  BY <1>1 DEF Jobs
<1>3. m \in Loops /\ m.src = job.src /\ m.specs = job.specs /\ m.new = Empty
  BY <1>2, EmptyIsMap, SourceConstants DEF Loops, FuncSpecs
<1> HIDE DEF m
<1>4. /\ v.book = book /\ v.origin = origin /\ v.funcs = funcs /\ v.listed = listed
      /\ v.jobs = q /\ v.stack = st /\ v.loop = {m}
      /\ Work(v) = Members(q) \cup Members(st)
  BY <1>1 DEF State, Now, Work
<1> HIDE DEF v
<1>5. /\ InMemory(State) /\ Named(State) /\ Apart(State) /\ Iterators(State) /\ Entered(book)
      /\ ~StrayIds => IdsMatch(book)
      /\ NamesApart => OwnedBy(book, Refs(State), replaced)
      /\ NamesApart /\ Sound => CallsOwn(book) /\ Registered(State)
  BY StateIs DEF SourcesInv, WorldOK
<1>6. Typed(v)
  BY <1>1, <1>3, <1>4, InvTypes DEF Typed
<1>7. Linked(v)
  BY <1>1, <1>3, <1>4, InvLinks DEF Linked, Holds
<1>8. {k \in Work(v) : k.kind = "drop"} = {k \in Work(State) : k.kind = "drop"}
  BY <1>1, <1>4
<1>9. \A s : Held(v, s) = Held(State, s)
  <2>1. \A s : Held(State, s) = ValuesOf(funcs[s])
    BY <1>1, HeldIs, StateIs
  <2>2. \A s : Held(v, s) = ValuesOf(funcs[s]) \cup (IF m.src = s THEN ValuesOf(m.new) ELSE {})
    BY <1>4, HeldIs
  <2>3. ValuesOf(m.new) = {}
    BY <1>3, EmptyIsMap
  <2>. QED BY <2>1, <2>2, <2>3
<1>10. Dropped(v) = Dropped(State)
  BY <1>8 DEF Dropped
<1>11. Refs(v) = Refs(State)
  <2>1. Typed(State)
    BY DEF SourcesInv, WorldOK
  <2>2. \A o : o \in Refs(State) <=> o \in Dropped(State) \/ \E s \in Sources : o \in Held(State, s)
    BY <2>1, RefsAre
  <2>3. \A o : o \in Refs(v) <=> o \in Dropped(v) \/ \E s \in Sources : o \in Held(v, s)
    BY <1>6, RefsAre
  <2>. QED BY <2>2, <2>3, <1>9, <1>10
<1>12. Named(v)
  BY <1>3, <1>4, <1>5, EmptyIsMap, StateIs DEF Named, NamedAs
<1>13. InMemory(v) /\ Apart(v)
  BY <1>4, <1>5, <1>9, <1>10, <1>11, StateIs DEF InMemory, Apart
<1>14. Iterators(v)
  BY <1>1, <1>4, <1>5, StateIs DEF Iterators
<1>15. NamesApart => Fresh(v)
  BY <1>2, <1>3, <1>4, EmptyIsMap DEF Fresh, NamesApart
<1>16. NamesApart /\ Sound => Registered(v)
  BY <1>4, <1>5, <1>9, StateIs DEF Registered
<1>17. WorldOK(v, replaced, Sound)
  BY <1>4, <1>5, <1>6, <1>7, <1>11, <1>12, <1>13, <1>14, <1>15, <1>16 DEF WorldOK
<1>18. Sound' = Sound /\ Counts'
  BY <1>1 DEF Sound, SourcesInv, Counts
<1>. QED BY <1>1, <1>17, <1>18 DEF SourcesInv, v

\* Jobs which leave functions as they are.
Done(w, others, more) ==
  /\ w.book = book /\ w.funcs = funcs /\ w.loop = loop /\ w.origin = origin
  /\ \A x \in DOMAIN w.listed : x \in DOMAIN listed /\ w.listed[x] = listed[x]
  /\ w.jobs \in Seq(Jobs) /\ w.stack \in Seq(Jobs)
  /\ Work(w) = others \cup more
  /\ \A r \in more : r.kind = "register" /\ origin[r.src] # NoPath

LEMMA DoneKeeps ==
  ASSUME SourcesInv, NEW job, NEW q, NEW st, Taken(job, q, st), job.kind # "drop",
         NEW w, NEW more, Done(w, Members(q) \cup Members(st), more),
         Settle(w, {}, {}), UNCHANGED <<up, refusals>>
  PROVE  SourcesInv'
<1>1. /\ Work(State) = Members(q) \cup Members(st) \cup {job}
      /\ UNCHANGED <<closed, calls, defers>>
  BY DEF Taken
<1> USE DEF Done
<1>2. Typed(w)
  BY InvTypes DEF Typed
<1>3. Linked(w)
  BY <1>1, SameSources
<1>4. {k \in Work(w) : k.kind = "drop"} = {k \in Work(State) : k.kind = "drop"}
  BY <1>1
<1>5. \A j \in Work(w) : j.kind = "remove" /\ ~j.stale /\ j \notin Work(State) =>
        j.name \in DOMAIN funcs[j.src] /\ funcs[j.src][j.name] = j.obj
  BY <1>1
<1>6. WorldOK(w, replaced \cup {}, Sound')
  BY <1>2, <1>3, <1>4, <1>5, SameFunctions DEF Sound
<1>7. WorldOK(State', replaced', Sound') /\ replaced' \subseteq Ids
  BY <1>6, SettleKeeps
<1>8. Counts'
  BY <1>1, <1>7 DEF SourcesInv, Counts
<1>. QED BY <1>7, <1>8 DEF SourcesInv

LEMMA DoReleaseKeeps ==
  ASSUME SourcesInv, NEW job, NEW q, NEW st, Taken(job, q, st), DoRelease(job, q, st)
  PROVE  SourcesInv'
<1> DEFINE w == Now(q, st)
<1>1. job.kind = "release" /\ Settle(w, {}, {}) /\ UNCHANGED <<up, refusals>>
  BY DEF DoRelease
<1>2. /\ w.book = book /\ w.funcs = funcs /\ w.loop = loop /\ w.jobs = q /\ w.stack = st
      /\ w.origin = origin /\ w.listed = listed
  BY DEF Now
<1> HIDE DEF w
<1>3. q \in Seq(Jobs) /\ st \in Seq(Jobs) /\ Work(w) = Members(q) \cup Members(st) \cup {}
  BY <1>2 DEF Taken, Work
<1>4. Done(w, Members(q) \cup Members(st), {})
  BY <1>2, <1>3 DEF Done
<1>. QED BY <1>1, <1>4, DoneKeeps

LEMMA DoDeleteKeeps ==
  ASSUME SourcesInv, NEW job, NEW q, NEW st, Taken(job, q, st), DoDelete(job, q, st)
  PROVE  SourcesInv'
<1> DEFINE w == [Now(q, st) EXCEPT !.listed = Unlisted(job.src)]
<1>1. job.kind = "delete" /\ Settle(w, {}, {}) /\ UNCHANGED <<up, refusals>>
  BY DEF DoDelete
<1>2. /\ w.book = book /\ w.funcs = funcs /\ w.loop = loop /\ w.jobs = q /\ w.stack = st
      /\ w.origin = origin /\ w.listed = Unlisted(job.src)
  BY DEF Now
<1> HIDE DEF w
<1>3. q \in Seq(Jobs) /\ st \in Seq(Jobs) /\ Work(w) = Members(q) \cup Members(st) \cup {}
  BY <1>2 DEF Taken, Work
<1>4. \A x \in DOMAIN w.listed : x \in DOMAIN listed /\ w.listed[x] = listed[x]
  BY <1>2 DEF Unlisted, Minus
<1>5. Done(w, Members(q) \cup Members(st), {})
  BY <1>2, <1>3, <1>4 DEF Done
<1>. QED BY <1>1, <1>5, DoneKeeps

LEMMA DoReloadKeeps ==
  ASSUME SourcesInv, NEW job, NEW q, NEW st, Taken(job, q, st), DoReload(job, q, st)
  PROVE  SourcesInv'
<1>1. job.kind = "reload" /\ UNCHANGED <<up, refusals>> /\ q \in Seq(Jobs) /\ st \in Seq(Jobs)
      /\ job \in Work(State) /\ job \in Jobs
  BY DEF DoReload, Taken
<1>2. ASSUME Settle(Now(q, st), {}, {}) PROVE SourcesInv'
  <2> DEFINE w == Now(q, st)
  <2>1. /\ w.book = book /\ w.funcs = funcs /\ w.loop = loop /\ w.jobs = q /\ w.stack = st
        /\ w.origin = origin /\ w.listed = listed /\ Settle(w, {}, {})
    BY <1>2 DEF Now
  <2> HIDE DEF w
  <2>2. Work(w) = Members(q) \cup Members(st) \cup {}
    BY <2>1 DEF Work
  <2>3. Done(w, Members(q) \cup Members(st), {})
    BY <2>1, <2>2, <1>1 DEF Done
  <2>. QED BY <2>1, <2>3, <1>1, DoneKeeps
<1>3. ASSUME NEW specs \in SpecLists, NEW now \in BOOLEAN,
             Settle(Now(Submit(now, RegisterJob(job.src, specs, FALSE), q),
                        Stacked(now, RegisterJob(job.src, specs, FALSE), st)), {}, {})
      PROVE  SourcesInv'
  <2> DEFINE r == RegisterJob(job.src, specs, FALSE)
             x == Submit(now, r, q)
             y == Stacked(now, r, st)
             w == Now(x, y)
  <2>1. job.src \in Sources /\ origin[job.src] # NoPath
    BY <1>1, InvLinks DEF Jobs, Holds
  <2>2. r \in Jobs /\ r.kind = "register" /\ r.src = job.src
    BY <2>1 DEF RegisterJob, Jobs
  <2> HIDE DEF r
  <2>3. /\ x \in Seq(Jobs) /\ y \in Seq(Jobs)
        /\ Members(x) \cup Members(y) = Members(q) \cup Members(st) \cup {r}
    <3>1. q \in Seq(Jobs) /\ st \in Seq(Jobs) /\ r \in Jobs /\ now \in BOOLEAN
      BY <1>1, <2>2
    <3>. QED BY <3>1, SubmitDoes
  <2> HIDE DEF x, y
  <2>4. /\ w.book = book /\ w.funcs = funcs /\ w.loop = loop /\ w.jobs = x /\ w.stack = y
        /\ w.origin = origin /\ w.listed = listed
    BY DEF Now
  <2>5. Settle(w, {}, {})
    BY <1>3 DEF x, y, r
  <2> HIDE DEF w
  <2>6. Work(w) = Members(q) \cup Members(st) \cup {r}
    BY <2>3, <2>4 DEF Work
  <2>7. Done(w, Members(q) \cup Members(st), {r})
    BY <2>1, <2>2, <2>3, <2>4, <2>6 DEF Done
  <2>. QED BY <2>5, <2>7, <1>1, DoneKeeps
<1>. QED BY <1>2, <1>3 DEF DoReload

\* A step which only deregisters functions of os, and forgets none but those.
LEMMA LoosenedWorld ==
  ASSUME SourcesInv, NEW os, NEW gone,
         NEW w, Loosened(book, w.book, os, gone),
         Typed(w), Linked(w), Iterators(w), NamesApart => Fresh(w),
         \A s \in Sources : NamedAs(book, w.funcs[s]),
         \A l \in w.loop : NamedAs(book, l.new),
         Dropped(w) \subseteq Dropped(State),
         \A s \in Sources : Held(w, s) \subseteq Held(State, s),
         Refs(State) \ os \subseteq Refs(w),
         NEW calm, calm => Sound,
         NamesApart /\ calm => \A s \in Sources : \A o \in Held(w, s) : o \notin gone
  PROVE  WorldOK(w, replaced \cup {}, calm)
<1> DEFINE d == w.book
<1>1. /\ Typed(State) /\ InMemory(State) /\ Named(State) /\ Apart(State) /\ Entered(book)
      /\ ~StrayIds => IdsMatch(book)
      /\ NamesApart => OwnedBy(book, Refs(State), replaced)
      /\ NamesApart /\ Sound => CallsOwn(book) /\ Registered(State)
  BY StateIs DEF SourcesInv, WorldOK
<1>2. /\ \A o \in Objs : Live(book, o) <=> Live(d, o)
      /\ \A o \in Objs : Live(book, o) => d.fn[o].name = book.fn[o].name
      /\ \A o \in Objs : o \notin gone => d.fn[o] = book.fn[o]
      /\ \A refs \in SUBSET Objs : \A except : OwnedBy(book, refs, except) => OwnedBy(d, refs \ os, except)
      /\ IdsMatch(book) => IdsMatch(d)
      /\ Entered(book) => Entered(d)
      /\ Entered(book) /\ CallsOwn(book) => CallsOwn(d)
  BY DEF Loosened
<1> HIDE DEF d
<1>3. /\ \A o : o \in Refs(State) <=> o \in Dropped(State) \/ \E s \in Sources : o \in Held(State, s)
      /\ \A o : o \in Refs(w) <=> o \in Dropped(w) \/ \E s \in Sources : o \in Held(w, s)
      /\ Refs(State) \in SUBSET Objs
  BY <1>1, RefsAre
<1>4. Refs(w) \subseteq Refs(State)
  BY <1>3
<1>5. \A o \in Refs(w) : o \in Objs /\ Live(book, o)
  BY <1>1, <1>3, <1>4, StateIs DEF InMemory
<1>6. InMemory(w)
  BY <1>2, <1>5 DEF InMemory, d
<1>7. Named(w)
  <2>1. \A s \in Sources : \A n \in DOMAIN w.funcs[s] : w.funcs[s][n] \in Refs(w)
    BY <1>3 DEF Held, ValuesOf
  <2>2. \A l \in w.loop : \A n \in DOMAIN l.new : l.new[n] \in Refs(w)
    BY DEF Refs, ValuesOf
  <2>3. \A s \in Sources : NamedAs(d, w.funcs[s])
    BY <2>1, <1>2, <1>5 DEF NamedAs
  <2>4. \A l \in w.loop : NamedAs(d, l.new)
    BY <2>2, <1>2, <1>5 DEF NamedAs
  <2>. QED BY <2>3, <2>4 DEF Named, d
<1>8. Apart(w)
  BY <1>1 DEF Apart
<1>9. NamesApart => OwnedBy(d, Refs(w), replaced \cup {})
  <2> SUFFICES ASSUME NamesApart PROVE OwnedBy(d, Refs(w), replaced \cup {})
    OBVIOUS
  <2>1. OwnedBy(d, Refs(State) \ os, replaced)
    BY <1>1, <1>2, <1>3
  <2>. QED BY <2>1, OwnedByMore
<1>10. NamesApart /\ calm => CallsOwn(d) /\ Registered(w)
  <2> SUFFICES ASSUME NamesApart, calm PROVE CallsOwn(d) /\ Registered(w)
    OBVIOUS
  <2>1. CallsOwn(d)
    BY <1>1, <1>2
  <2>2. ASSUME NEW s \in Sources, NEW o \in Held(w, s) PROVE d.fn[o].id # NoId
    <3>1. o \in Held(State, s) /\ o \in Objs
      BY <2>2, <1>3, <1>5
    <3>2. book.fn[o].id # NoId
      BY <3>1, <1>1, StateIs DEF Registered
    <3>3. d.fn[o] = book.fn[o]
      BY <3>1, <2>2, <1>2
    <3>. QED BY <3>2, <3>3
  <2>. QED BY <2>1, <2>2 DEF Registered, d
<1>11. Entered(w.book) /\ (~StrayIds => IdsMatch(w.book))
  BY <1>1, <1>2 DEF d
<1>. QED BY <1>6, <1>7, <1>8, <1>9, <1>10, <1>11 DEF WorldOK, d

\* A step which only deregisters functions, and forgets none but those.
LEMMA DeregisterWorld ==
  ASSUME SourcesInv, NEW os \in SUBSET Objs, NEW refuses,
         NEW w, w.book = Deregister(book, os, refuses),
         Typed(w), Linked(w), Iterators(w), NamesApart => Fresh(w),
         \A s \in Sources : NamedAs(book, w.funcs[s]),
         \A l \in w.loop : NamedAs(book, l.new),
         Dropped(w) \subseteq Dropped(State),
         \A s \in Sources : Held(w, s) \subseteq Held(State, s),
         Refs(State) \ os \subseteq Refs(w),
         NEW calm, calm => Sound,
         calm => \A s \in Sources : \A o \in Held(w, s) : o \notin Given(book, os, refuses)
  PROVE  WorldOK(w, replaced \cup {}, calm)
<1>1. Loosened(book, w.book, os, Given(book, os, refuses))
  BY InvTypes, DeregisterLoosens
<1>. QED BY <1>1, LoosenedWorld

\* Excel refuses nothing of the names if it has refused nothing afterwards.
LEMMA RefuseDoes ==
  ASSUME SourcesInv, NEW names, IsFiniteSet(names), Refuse(names)
  PROVE  /\ refusals' \in 0..MaxRefusals
         /\ refusals' = 0 => refusals = 0 /\ names = {}
<1>1. Cardinality(names) \in Nat /\ (Cardinality(names) = 0 <=> names = {})
  BY FS_CardinalityType, FS_EmptySet
<1>2. refusals \in Nat /\ MaxRefusals \in Nat
  BY SourceConstants DEF SourcesInv, Counts
<1>. QED BY <1>1, <1>2 DEF Refuse

LEMMA DoDropKeeps ==
  ASSUME SourcesInv, NEW job, NEW q, NEW st, Taken(job, q, st), DoDrop(job, q, st)
  PROVE  SourcesInv'
<1> DEFINE os == ValuesOf(job.funcs)
<1>1. /\ job.kind = "drop" /\ up' = up
      /\ q \in Seq(Jobs) /\ st \in Seq(Jobs) /\ job \in Jobs /\ loop = {}
      /\ Work(State) = Members(q) \cup Members(st) \cup {job}
      /\ UNCHANGED <<closed, calls, defers>>
  BY DEF DoDrop, Taken
<1>2. PICK refuses \in SUBSET NamesOf(book, Asked(os)) :
        /\ Refuse(refuses)
        /\ Settle([Now(q, st) EXCEPT !.book = Deregister(@, os, refuses)], refuses, {})
  BY DEF DoDrop
<1>3. os \in SUBSET Objs
  BY <1>1, IsMap DEF Jobs
<1>4. IsFiniteSet(refuses)
  <2>1. NamesOf(book, Asked(os)) \subseteq Names
    BY <1>3, InvTypes, FnTyped DEF NamesOf, Asked
  <2>. QED BY <2>1, <1>2, BookConstants, FS_Subset
<1>5. refusals' \in 0..MaxRefusals /\ (Sound' => Sound)
  BY <1>1, <1>2, <1>4, RefuseDoes DEF Sound
<1> DEFINE w == [Now(q, st) EXCEPT !.book = Deregister(@, os, refuses)]
<1>6. os \subseteq Dropped(State)
  BY <1>1 DEF Dropped
<1> HIDE DEF os
<1>7. /\ w.book = Deregister(book, os, refuses) /\ w.funcs = funcs /\ w.loop = loop
      /\ w.jobs = q /\ w.stack = st /\ w.origin = origin /\ w.listed = listed
  BY DEF Now
<1>8. Settle(w, refuses, {})
  BY <1>2
<1> HIDE DEF w
<1>9. Work(w) = Members(q) \cup Members(st)
  BY <1>7 DEF Work
<1>10. Typed(w)
  BY <1>1, <1>3, <1>7, InvTypes, DeregisterDoes DEF Typed
<1>11. Linked(w)
  BY <1>1, <1>7, <1>9, SameSources
<1>12. Iterators(w)
  BY <1>1, <1>7, <1>9, StateIs DEF SourcesInv, WorldOK, Iterators
<1>13. NamesApart => Fresh(w)
  BY <1>1, <1>7 DEF Fresh
<1>14. \A s \in Sources : NamedAs(book, w.funcs[s])
  BY <1>7, StateIs DEF SourcesInv, WorldOK, Named
<1>15. \A l \in w.loop : NamedAs(book, l.new)
  BY <1>1, <1>7
<1>16. Dropped(w) \subseteq Dropped(State) /\ Dropped(State) \subseteq Dropped(w) \cup os
  BY <1>1, <1>9 DEF Dropped, os
<1>17. \A s : Held(w, s) = Held(State, s)
  BY <1>7, StateIs DEF Held
<1>18. Refs(State) \ os \subseteq Refs(w)
  <2>1. Typed(State)
    BY DEF SourcesInv, WorldOK
  <2>2. \A o : o \in Refs(State) <=> o \in Dropped(State) \/ \E s \in Sources : o \in Held(State, s)
    BY <2>1, RefsAre
  <2>3. \A o : o \in Refs(w) <=> o \in Dropped(w) \/ \E s \in Sources : o \in Held(w, s)
    BY <1>10, RefsAre
  <2>. QED BY <2>2, <2>3, <1>16, <1>17
<1>19. \A s \in Sources : \A o \in Held(w, s) : o \notin Given(book, os, refuses)
  <2>1. Apart(State)
    BY DEF SourcesInv, WorldOK
  <2>. QED BY <2>1, <1>6, <1>17 DEF Apart, Given
<1>20. WorldOK(w, replaced \cup {}, Sound')
  BY <1>3, <1>5, <1>7, <1>10, <1>11, <1>12, <1>13, <1>14, <1>15, <1>16, <1>17, <1>18, <1>19, DeregisterWorld
<1>21. WorldOK(State', replaced', Sound') /\ replaced' \subseteq Ids
  BY <1>8, <1>20, SettleKeeps
<1>22. Counts'
  BY <1>1, <1>5, <1>21 DEF SourcesInv, Counts
<1>. QED BY <1>21, <1>22 DEF SourcesInv

\* The jobs after a map was rebuilt under their iterators.
AllStaled(K, sources, names) == {Staled(k, sources, names) : k \in K}

LEMMA StalesDo ==
  ASSUME NEW q \in Seq(Jobs), NEW st \in Seq(Jobs), NEW sources, NEW names,
         NEW w, w.jobs = Stales(q, sources, names), w.stack = Stales(st, sources, names)
  PROVE  /\ w.jobs \in Seq(Jobs) /\ w.stack \in Seq(Jobs)
         /\ Work(w) = AllStaled(Members(q) \cup Members(st), sources, names)
<1>1. /\ Stales(q, sources, names) \in Seq(Jobs)
      /\ Members(Stales(q, sources, names)) = {Staled(k, sources, names) : k \in Members(q)}
  BY MembersOfStales
<1>2. /\ Stales(st, sources, names) \in Seq(Jobs)
      /\ Members(Stales(st, sources, names)) = {Staled(k, sources, names) : k \in Members(st)}
  BY MembersOfStales
<1>3. Work(w) = AllStaled(Members(q) \cup Members(st), sources, names)
  BY <1>1, <1>2 DEF Work, AllStaled
<1>. QED BY <1>1, <1>2, <1>3

\* A step which leaves the jobs q and st, and the source s with the map m in
\* which what it has under names has changed.
Rebuilt(w, q, st, s, names, m) ==
  /\ \A n \in DOMAIN funcs[s] \ names : n \in DOMAIN m /\ m[n] = funcs[s][n]
  /\ w.funcs = [funcs EXCEPT ![s] = m] /\ w.origin = origin /\ w.listed = listed
  /\ \E own : own = {s} /\ w.jobs = Stales(q, own, names) /\ w.stack = Stales(st, own, names)

\* No registration is half done but one of the source s.
LoopOf(w, s) ==
  /\ w.loop \subseteq Loops /\ \A l, k \in w.loop : l = k
  /\ \A l \in w.loop : l.src = s

\* The jobs are those which wait, but for one which does not drop functions.
Leaves(q, st) ==
  /\ q \in Seq(Jobs) /\ st \in Seq(Jobs)
  /\ Members(q) \cup Members(st) \subseteq Work(State)
  /\ \A k \in Work(State) : k.kind = "drop" => k \in Members(q) \cup Members(st)

LEMMA RebuiltDoes ==
  ASSUME SourcesInv, NEW q, NEW st, Leaves(q, st), NEW s \in Sources, origin[s] # NoPath, NEW names, NEW m \in Maps,
         NEW w, Rebuilt(w, q, st, s, names, m), Book(w.book), LoopOf(w, s)
  PROVE  /\ Typed(w) /\ Linked(w) /\ Iterators(w) /\ Dropped(w) = Dropped(State)
         /\ \A t \in Sources : w.funcs[t] = IF t = s THEN m ELSE funcs[t]
<1>1. PICK own : own = {s} /\ w.jobs = Stales(q, own, names) /\ w.stack = Stales(st, own, names)
  BY DEF Rebuilt
<1>2. \A t : t \in own <=> t = s
  BY <1>1
<1>3. /\ w.jobs \in Seq(Jobs) /\ w.stack \in Seq(Jobs)
      /\ Work(w) = AllStaled(Members(q) \cup Members(st), own, names)
  BY <1>1, StalesDo DEF Leaves
<1>4. w.funcs = [funcs EXCEPT ![s] = m] /\ w.origin = origin /\ w.listed = listed
  BY DEF Rebuilt
<1>5. \A t \in Sources : w.funcs[t] = IF t = s THEN m ELSE funcs[t]
  BY <1>4, InvTypes
<1>6. Typed(w)
  <2>1. w.funcs \in [Sources -> Maps]
    BY <1>4, InvTypes
  <2>. QED BY <2>1, <1>3, <1>4, InvTypes DEF Typed, LoopOf
<1>7. \A k \in Members(q) \cup Members(st) :
        /\ k \in Work(State) /\ k \in Jobs /\ Staled(k, own, names).kind = k.kind
        /\ k.kind # "remove" => Staled(k, own, names) = k
  BY InvTypes, StaledJob DEF Leaves
<1>8. Linked(w)
  <2>1. ASSUME NEW j \in Work(w), Holds(j) PROVE w.origin[j.src] # NoPath
    <3>1. PICK k \in Members(q) \cup Members(st) : j = Staled(k, own, names)
      BY <1>3 DEF AllStaled
    <3>2. j = k /\ k \in Work(State)
      BY <3>1, <2>1, <1>7 DEF Holds
    <3>. QED BY <3>2, <2>1, <1>4, InvLinks
  <2>2. \A t \in Sources : w.origin[t] = NoPath => w.funcs[t] = Empty
    BY <1>4, <1>5, InvLinks
  <2>. QED BY <2>1, <2>2, <1>4, InvLinks DEF Linked, LoopOf
<1>9. Iterators(w)
  <2> SUFFICES ASSUME NEW j \in Work(w), j.kind = "remove", ~j.stale
               PROVE  j.name \in DOMAIN w.funcs[j.src] /\ w.funcs[j.src][j.name] = j.obj
    BY DEF Iterators
  <2>1. PICK k \in Members(q) \cup Members(st) : j = Staled(k, own, names)
    BY <1>3 DEF AllStaled
  <2>2. k.kind = "remove" /\ k \in Jobs /\ k \in Work(State)
    BY <2>1, <1>7
  <2>3. ~(k.src \in own /\ k.name \in names)
    <3> SUFFICES ASSUME k.src \in own, k.name \in names PROVE FALSE
      OBVIOUS
    <3>1. j = [k EXCEPT !.stale = TRUE]
      BY <2>1, <2>2 DEF Staled
    <3>. QED BY <3>1, <2>2 DEF Jobs
  <2>4. j = k /\ k.src \in Sources
    BY <2>1, <2>2, <2>3 DEF Staled, Jobs
  <2>5. k.name \in DOMAIN funcs[k.src] /\ funcs[k.src][k.name] = k.obj
    BY <2>2, <2>4, StateIs DEF SourcesInv, WorldOK, Iterators
  <2>. QED BY <2>3, <2>4, <2>5, <1>2, <1>5 DEF Rebuilt
<1>10. Dropped(w) = Dropped(State)
  <2>1. \A k \in Work(w) : k.kind = "drop" => k \in Work(State)
    BY <1>3, <1>7 DEF AllStaled
  <2>2. \A k \in Work(State) : k.kind = "drop" => k \in Work(w)
    BY <1>3, <1>7 DEF AllStaled, Leaves
  <2>3. {k \in Work(w) : k.kind = "drop"} = {k \in Work(State) : k.kind = "drop"}
    BY <2>1, <2>2
  <2>. QED BY <2>3 DEF Dropped
<1>. QED BY <1>5, <1>6, <1>8, <1>9, <1>10

LEMMA AllLeft ==
  ASSUME SourcesInv
  PROVE  Leaves(jobs, stack)
BY InvTypes, StateIs DEF Leaves

\* A map without some of its names.
LEMMA MinusIs ==
  ASSUME NEW f \in Maps, NEW names
  PROVE  /\ Minus(f, names) \in Maps
         /\ DOMAIN Minus(f, names) = DOMAIN f \ names
         /\ \A n \in DOMAIN f \ names : Minus(f, names)[n] = f[n]
         /\ ValuesOf(Minus(f, names)) \subseteq ValuesOf(f)
<1> DEFINE m == Minus(f, names)
<1>1. m = [n \in DOMAIN f \ names |-> f[n]]
  BY DEF Minus
<1> HIDE DEF m
<1>2. DOMAIN m = DOMAIN f \ names /\ \A n \in DOMAIN m : m[n] = f[n]
  BY <1>1
<1>3. m = [n \in DOMAIN m |-> m[n]]
  BY <1>1
<1>4. DOMAIN m \subseteq Names /\ \A n \in DOMAIN m : m[n] \in Objs
  BY <1>2, IsMap
<1>5. m \in Maps
  BY <1>3, <1>4, IsMap
<1>6. ValuesOf(m) \subseteq ValuesOf(f)
  BY <1>2 DEF ValuesOf
<1>. QED BY <1>2, <1>5, <1>6 DEF m

\* A job to remove a function, whose iterator points to what it did.
LEMMA DoRemoveKeeps ==
  ASSUME SourcesInv, NEW job, NEW q, NEW st, Taken(job, q, st), ~job.stale, DoRemove(job, q, st)
  PROVE  SourcesInv'
<1> DEFINE s == job.src
           o == job.obj
           Gone(refuses) == IF CanDeregister(book, o, refuses) THEN {job.name} ELSE {}
<1>1. PICK refuses \in SUBSET {job.name} :
        /\ Refuse(refuses)
        /\ Settle([Now(Stales(q, {s}, Gone(refuses)), Stales(st, {s}, Gone(refuses))) EXCEPT
                     !.book = Deregister(@, {o}, refuses),
                     !.funcs[s] = Minus(@, Gone(refuses))], refuses, {})
  BY DEF DoRemove
<1> DEFINE gone == Gone(refuses)
           m == Minus(funcs[s], gone)
           x == Stales(q, {s}, gone)
           y == Stales(st, {s}, gone)
           w == [Now(x, y) EXCEPT !.book = Deregister(@, {o}, refuses), !.funcs[s] = Minus(@, gone)]
<1>2. /\ q \in Seq(Jobs) /\ st \in Seq(Jobs) /\ job \in Jobs /\ loop = {}
      /\ Work(State) = Members(q) \cup Members(st) \cup {job}
      /\ UNCHANGED <<closed, calls, defers>>
  BY DEF Taken
<1>3. job.kind = "remove" /\ up' = up
  BY DEF DoRemove
<1>4. s \in Sources /\ o \in Objs /\ {o} \in SUBSET Objs
  BY <1>2, <1>3 DEF Jobs
<1>5. refusals' \in 0..MaxRefusals /\ (Sound' => Sound)
  <2>1. IsFiniteSet(refuses)
    BY FS_Singleton, FS_Subset
  <2>. QED BY <2>1, <1>1, <1>3, RefuseDoes DEF Sound
<1>6. job.name \in DOMAIN funcs[s] /\ funcs[s][job.name] = o
  BY <1>2, <1>3, StateIs DEF SourcesInv, WorldOK, Iterators
<1>7. /\ \A t \in Sources : NamedAs(book, funcs[t])
      /\ Apart(State) /\ Typed(State)
  BY StateIs DEF SourcesInv, WorldOK, Named
<1>8. Settle(w, refuses, {})
  BY <1>1
<1>9. (gone = {} \/ gone = {job.name}) /\ (CanDeregister(book, o, refuses) => gone # {})
  OBVIOUS
<1>10. /\ w.book = Deregister(book, {o}, refuses) /\ w.funcs = [funcs EXCEPT ![s] = m]
       /\ w.loop = loop /\ w.jobs = x /\ w.stack = y /\ w.origin = origin /\ w.listed = listed
  BY DEF Now
<1> HIDE DEF Gone, gone, s, o, w
<1>11. /\ funcs[s] \in Maps /\ m \in Maps /\ DOMAIN m = DOMAIN funcs[s] \ gone
       /\ \A n \in DOMAIN funcs[s] \ gone : m[n] = funcs[s][n]
       /\ ValuesOf(m) \subseteq ValuesOf(funcs[s])
  <2>1. funcs[s] \in Maps
    BY <1>4, InvTypes
  <2>. QED BY <2>1, MinusIs
<1> HIDE DEF m
<1>12. Rebuilt(w, q, st, s, gone, m)
  BY <1>10, <1>11 DEF Rebuilt
<1> HIDE DEF x, y
<1>13. Typed(w) /\ Linked(w) /\ Iterators(w) /\ Dropped(w) = Dropped(State)
  <2>1. Book(w.book)
    BY <1>4, <1>10, InvTypes, DeregisterDoes
  <2>2. origin[s] # NoPath
    BY <1>4, <1>6, InvLinks, EmptyIsMap
  <2>3. Leaves(q, st) /\ LoopOf(w, s)
    BY <1>2, <1>3, <1>10 DEF Leaves, LoopOf
  <2>4. s \in Sources /\ m \in Maps
    BY <1>4, <1>11
  <2>. QED BY <2>1, <2>2, <2>3, <2>4, <1>12, RebuiltDoes
<1>14. \A t \in Sources : w.funcs[t] = IF t = s THEN m ELSE funcs[t]
  BY <1>10, InvTypes
<1>15. \A t \in Sources : NamedAs(book, w.funcs[t])
  BY <1>7, <1>11, <1>14 DEF NamedAs
<1>16. (NamesApart => Fresh(w)) /\ \A l \in w.loop : NamedAs(book, l.new)
  BY <1>2, <1>10 DEF Fresh
<1>17. /\ ValuesOf(funcs[s]) \ {o} \subseteq ValuesOf(m)
       /\ gone # {} => o \notin ValuesOf(m)
  <2>1. ASSUME NEW n \in DOMAIN funcs[s], funcs[s][n] # o PROVE funcs[s][n] \in ValuesOf(m)
    <3>1. n \in DOMAIN m
      BY <2>1, <1>6, <1>9, <1>11
    <3>. QED BY <3>1, <1>11 DEF ValuesOf
  <2>2. ASSUME gone # {} PROVE o \notin ValuesOf(m)
    <3> SUFFICES ASSUME NEW n \in DOMAIN m, m[n] = o PROVE FALSE
      BY DEF ValuesOf
    <3>1. book.fn[o].name = n /\ n \notin gone
      BY <1>4, <1>7, <1>11 DEF NamedAs
    <3>2. book.fn[o].name = job.name
      BY <1>4, <1>6, <1>7 DEF NamedAs
    <3>. QED BY <3>1, <3>2, <2>2, <1>9
  <2>. QED BY <2>1, <2>2 DEF ValuesOf
<1>18. /\ \A t : Held(State, t) = ValuesOf(funcs[t])
       /\ \A t : Held(w, t) = ValuesOf(w.funcs[t])
  BY <1>2, <1>10, HeldIs, StateIs
<1>19. \A t \in Sources : Held(w, t) \subseteq Held(State, t) /\ Held(State, t) \ {o} \subseteq Held(w, t)
  BY <1>11, <1>14, <1>17, <1>18
<1>20. Refs(State) \ {o} \subseteq Refs(w)
  <2>1. \A r : r \in Refs(State) <=> r \in Dropped(State) \/ \E t \in Sources : r \in Held(State, t)
    BY <1>7, RefsAre
  <2>2. \A r : r \in Refs(w) <=> r \in Dropped(w) \/ \E t \in Sources : r \in Held(w, t)
    BY <1>13, RefsAre
  <2>. QED BY <2>1, <2>2, <1>13, <1>19
<1>21. \A t \in Sources : \A r \in Held(w, t) : r \notin Given(book, {o}, refuses)
  <2> SUFFICES ASSUME NEW t \in Sources, o \in Held(w, t), CanDeregister(book, o, refuses) PROVE FALSE
    BY DEF Given
  <2>1. gone # {}
    BY <1>9
  <2>2. o \in Held(State, s) /\ o \in Held(State, t)
    BY <1>6, <1>18, <1>19 DEF ValuesOf
  <2>3. t = s
    BY <2>2, <1>4, <1>7 DEF Apart
  <2>. QED BY <2>1, <2>3, <1>14, <1>17, <1>18
<1>22. Dropped(w) \subseteq Dropped(State)
  BY <1>13
<1>23. WorldOK(w, replaced \cup {}, Sound')
  BY <1>4, <1>5, <1>10, <1>13, <1>15, <1>16, <1>19, <1>20, <1>21, <1>22, DeregisterWorld
<1>24. WorldOK(State', replaced', Sound') /\ replaced' \subseteq Ids
  BY <1>8, <1>23, SettleKeeps
<1>25. Counts'
  BY <1>2, <1>3, <1>5, <1>24 DEF SourcesInv, Counts
<1>. QED BY <1>24, <1>25 DEF SourcesInv

\* ... and one which does not.
LEMMA DoStaleKeeps ==
  ASSUME SourcesInv, NEW job, NEW q, NEW st, Taken(job, q, st), job.stale, DoRemove(job, q, st)
  PROVE  SourcesInv'
<1>1. /\ q \in Seq(Jobs) /\ st \in Seq(Jobs) /\ job \in Jobs /\ loop = {} /\ job.kind = "remove"
      /\ Work(State) = Members(q) \cup Members(st) \cup {job}
      /\ UNCHANGED <<closed, calls, defers>>
  BY DEF Taken, DoRemove
<1> DEFINE o == job.obj
           w == [Now(q, st) EXCEPT !.book = Deregister(@, {o}, {})]
<1>2. o \in Objs /\ {o} \in SUBSET Objs
  BY <1>1 DEF Jobs
<1>3. ASSUME Settle(w, {}, {}), up' = "astray", UNCHANGED refusals PROVE SourcesInv'
  <2>1. /\ w.book = Deregister(book, {o}, {}) /\ w.funcs = funcs /\ w.loop = loop
        /\ w.jobs = q /\ w.stack = st /\ w.origin = origin /\ w.listed = listed
    BY DEF Now
  <2> HIDE DEF w, o
  <2>2. Work(w) = Members(q) \cup Members(st)
    BY <2>1 DEF Work
  <2>3. Typed(w)
    BY <1>1, <1>2, <2>1, InvTypes, DeregisterDoes DEF Typed
  <2>4. Linked(w)
    BY <1>1, <2>1, <2>2, SameSources
  <2>5. Iterators(w)
    BY <1>1, <2>1, <2>2, StateIs DEF SourcesInv, WorldOK, Iterators
  <2>6. (NamesApart => Fresh(w)) /\ \A l \in w.loop : NamedAs(book, l.new)
    BY <1>1, <2>1 DEF Fresh
  <2>7. \A s \in Sources : NamedAs(book, w.funcs[s])
    BY <2>1, StateIs DEF SourcesInv, WorldOK, Named
  <2>8. {k \in Work(w) : k.kind = "drop"} = {k \in Work(State) : k.kind = "drop"}
    BY <1>1, <2>2
  <2>9. /\ Dropped(w) = Dropped(State) /\ Refs(w) = Refs(State)
        /\ \A s : Held(w, s) = Held(State, s)
    BY <2>1, <2>8, StateIs DEF Dropped, Refs, Held
  <2>10. Sound' = FALSE
    BY <1>3 DEF Sound
  <2>11. Dropped(w) \subseteq Dropped(State) /\ Refs(State) \ {o} \subseteq Refs(w)
         /\ \A s \in Sources : Held(w, s) \subseteq Held(State, s)
    BY <2>9
  <2>12. WorldOK(w, replaced \cup {}, Sound')
    BY <1>2, <2>1, <2>3, <2>4, <2>5, <2>6, <2>7, <2>10, <2>11, DeregisterWorld
  <2>13. WorldOK(State', replaced', Sound') /\ replaced' \subseteq Ids
    BY <1>3, <2>12, SettleKeeps
  <2>14. Counts'
    BY <1>1, <1>3, <2>13 DEF SourcesInv, Counts
  <2>. QED BY <2>13, <2>14 DEF SourcesInv
<1>4. ASSUME up' = "down", jobs' = q, stack' = st,
             UNCHANGED <<book, origin, funcs, listed, loop, replaced, refusals>>
      PROVE  SourcesInv'
  <2> DEFINE v == State'
  <2>1. /\ v.book = book /\ v.funcs = funcs /\ v.loop = loop
        /\ v.jobs = q /\ v.stack = st /\ v.origin = origin /\ v.listed = listed
    BY <1>4 DEF State, Now
  <2> HIDE DEF v
  <2>2. Work(v) = Members(q) \cup Members(st)
    BY <2>1 DEF Work
  <2>3. Typed(v)
    BY <1>1, <2>1, InvTypes DEF Typed
  <2>4. Linked(v)
    BY <1>1, <2>1, <2>2, SameSources
  <2>5. {k \in Work(v) : k.kind = "drop"} = {k \in Work(State) : k.kind = "drop"}
    BY <1>1, <2>2
  <2>6. \A j \in Work(v) : j.kind = "remove" /\ ~j.stale /\ j \notin Work(State) =>
          j.name \in DOMAIN funcs[j.src] /\ funcs[j.src][j.name] = j.obj
    BY <1>1, <2>2
  <2>7. Sound' = FALSE
    BY <1>4 DEF Sound
  <2>8. WorldOK(v, replaced \cup {}, Sound')
    BY <2>1, <2>3, <2>4, <2>5, <2>6, <2>7, SameFunctions
  <2>9. replaced' = replaced \cup {}
    BY <1>4
  <2>10. Counts'
    BY <1>1, <1>4 DEF SourcesInv, Counts
  <2>. QED BY <2>8, <2>9, <2>10 DEF SourcesInv, v
<1>. QED BY <1>3, <1>4 DEF DoRemove

LEMMA DoKeeps ==
  ASSUME SourcesInv, NEW job, NEW q, NEW st, Taken(job, q, st), Do(job, q, st)
  PROVE  SourcesInv'
<1>1. ASSUME DoRemove(job, q, st) PROVE SourcesInv'
  BY <1>1, DoRemoveKeeps, DoStaleKeeps
<1>. QED BY <1>1, DoRegisterKeeps, DoDropKeeps, DoReloadKeeps, DoDeleteKeeps, DoReleaseKeeps DEF Do

LEMMA RunJobKeeps ==
  ASSUME SourcesInv, RunJob
  PROVE  SourcesInv'
<1>1. /\ jobs # <<>> /\ loop = {} /\ Do(Head(jobs), Tail(jobs), stack)
      /\ UNCHANGED <<closed, calls, defers>>
  BY DEF RunJob, Calm, NoCall
<1>2. /\ Tail(jobs) \in Seq(Jobs) /\ Head(jobs) \in Jobs
      /\ Members(jobs) = Members(Tail(jobs)) \cup {Head(jobs)}
  BY <1>1, InvTypes, MembersOfTail
<1> DEFINE job == Head(jobs)
           q == Tail(jobs)
<1> HIDE DEF job, q
<1>3. Taken(job, q, stack)
  BY <1>1, <1>2, InvTypes, StateIs DEF Taken, job, q
<1>. QED BY <1>1, <1>3, DoKeeps DEF job, q

LEMMA RunNowKeeps ==
  ASSUME SourcesInv, RunNow
  PROVE  SourcesInv'
<1>1. /\ stack # <<>> /\ loop = {} /\ Do(Head(stack), jobs, Tail(stack))
      /\ UNCHANGED <<closed, calls, defers>>
  BY DEF RunNow, NoCall
<1>2. /\ Tail(stack) \in Seq(Jobs) /\ Head(stack) \in Jobs
      /\ Members(stack) = Members(Tail(stack)) \cup {Head(stack)}
  BY <1>1, InvTypes, MembersOfTail
<1> DEFINE job == Head(stack)
           st == Tail(stack)
<1> HIDE DEF job, st
<1>3. Taken(job, jobs, st)
  BY <1>1, <1>2, InvTypes, StateIs DEF Taken, job, st
<1>. QED BY <1>1, <1>3, DoKeeps DEF job, st

LEMMA DeferKeeps ==
  ASSUME SourcesInv, Defer
  PROVE  SourcesInv'
<1> DEFINE v == State'
           job == Head(jobs)
           q == Tail(jobs)
<1>1. /\ Len(jobs) > 1 /\ jobs' = Append(q, job) /\ defers' = defers + 1 /\ defers < MaxDefers
      /\ UNCHANGED <<book, origin, funcs, listed, stack, loop, up, closed, replaced, calls, refusals>>
  BY DEF Defer
<1>2. /\ q \in Seq(Jobs) /\ job \in Jobs /\ Members(jobs) = Members(q) \cup {job}
  <2>1. jobs # <<>> /\ jobs \in Seq(Jobs)
    BY <1>1, InvTypes
  <2>. QED BY <2>1, MembersOfTail
<1> HIDE DEF job, q
<1>3. jobs' \in Seq(Jobs) /\ Members(jobs') = Members(q) \cup {job}
  BY <1>1, <1>2, MembersOfAppended
<1>4. /\ v.book = book /\ v.funcs = funcs /\ v.loop = loop
      /\ v.jobs = jobs' /\ v.stack = stack /\ v.origin = origin /\ v.listed = listed
  BY <1>1 DEF State, Now
<1> HIDE DEF v
<1>5. Work(v) = Work(State)
  BY <1>2, <1>3, <1>4, StateIs DEF Work
<1>6. Typed(v)
  BY <1>3, <1>4, InvTypes DEF Typed
<1>7. Linked(v)
  BY <1>4, <1>5, SameSources
<1>8. Sound' = Sound
  BY <1>1 DEF Sound
<1>9. WorldOK(v, replaced \cup {}, Sound)
  BY <1>4, <1>5, <1>6, <1>7, SameFunctions
<1>10. replaced' = replaced \cup {}
  BY <1>1
<1>11. Counts'
  BY <1>1, SourceConstants DEF SourcesInv, Counts
<1>. QED BY <1>8, <1>9, <1>10, <1>11 DEF SourcesInv, v

-----------------------------------------------------------------------------
(* The steps of a registration                                              *)

FreshOf(l) == NamesOnce(l.specs) /\ \A i \in DOMAIN l.specs : l.specs[i].name \notin DOMAIN l.new

LEMMA LoopIs ==
  ASSUME SourcesInv, NEW l \in loop
  PROVE  /\ loop = {l} /\ l \in Loops /\ l.src \in Sources /\ l.new \in Maps /\ l.specs \in Seq(FuncSpecs)
         /\ origin[l.src] # NoPath /\ NamedAs(book, l.new)
         /\ \A s \in Sources : NamedAs(book, funcs[s])
         /\ \A s : Held(State, s) = ValuesOf(funcs[s]) \cup (IF l.src = s THEN ValuesOf(l.new) ELSE {})
         /\ NamesApart => FreshOf(l)
<1>1. loop = {l} /\ l \in Loops
  BY InvTypes
<1>2. l.src \in Sources /\ l.new \in Maps /\ l.specs \in Seq(FuncSpecs)
  BY <1>1 DEF Loops
<1>3. \A s : Held(State, s) = ValuesOf(funcs[s]) \cup (IF l.src = s THEN ValuesOf(l.new) ELSE {})
  BY <1>1, HeldIs, StateIs
<1>4. NamedAs(book, l.new) /\ (\A s \in Sources : NamedAs(book, funcs[s])) /\ (NamesApart => FreshOf(l))
  BY StateIs DEF SourcesInv, WorldOK, Named, Fresh, FreshOf
<1>. QED BY <1>1, <1>2, <1>3, <1>4, InvLinks

\* The first function of the list is gone past ...
LEMMA RestDoes ==
  ASSUME NEW l \in Loops, l.specs # <<>>
  PROVE  /\ Rest(l) \in Loops /\ Rest(l).src = l.src /\ Rest(l).new = l.new
         /\ Spec1(l) \in FuncSpecs /\ Spec1(l).name \in Names /\ Spec1(l).info \in Infos
         /\ FreshOf(l) => FreshOf(Rest(l)) /\ Spec1(l).name \notin DOMAIN l.new
         /\ FreshOf(l) => \A i \in DOMAIN Rest(l).specs : Rest(l).specs[i].name # Spec1(l).name
<1> DEFINE m == Rest(l)
<1>1. l.specs \in Seq(FuncSpecs)
  BY DEF Loops
<1>2. /\ Tail(l.specs) \in Seq(FuncSpecs) /\ Head(l.specs) \in FuncSpecs
      /\ Len(l.specs) \in Nat \ {0} /\ DOMAIN l.specs = 1..Len(l.specs)
      /\ DOMAIN Tail(l.specs) = 1..(Len(l.specs) - 1) /\ Head(l.specs) = l.specs[1]
      /\ \A i \in 1..(Len(l.specs) - 1) : Tail(l.specs)[i] = l.specs[i + 1]
  BY <1>1
<1>3. m \in Loops /\ m.src = l.src /\ m.new = l.new /\ m.specs = Tail(l.specs)
  BY <1>2 DEF Rest, Loops
<1>4. Spec1(l) \in FuncSpecs /\ Spec1(l).name \in Names /\ Spec1(l).info \in Infos
  BY <1>2 DEF Spec1, FuncSpecs
<1>5. ASSUME FreshOf(l)
      PROVE  /\ FreshOf(m) /\ Spec1(l).name \notin DOMAIN l.new
             /\ \A i \in DOMAIN m.specs : m.specs[i].name # Spec1(l).name
  <2>1. /\ \A i, j \in 1..Len(l.specs) : l.specs[i].name = l.specs[j].name => i = j
        /\ \A i \in 1..Len(l.specs) : l.specs[i].name \notin DOMAIN l.new
    BY <1>2, <1>5 DEF FreshOf, NamesOnce
  <2>2. \A i \in DOMAIN m.specs : i \in Nat /\ i + 1 \in 1..Len(l.specs) /\ m.specs[i] = l.specs[i + 1] /\ i + 1 # 1
    BY <1>2, <1>3
  <2>3. NamesOnce(m.specs)
    <3> SUFFICES ASSUME NEW i \in DOMAIN m.specs, NEW j \in DOMAIN m.specs,
                        m.specs[i].name = m.specs[j].name
                 PROVE  i = j
      BY DEF NamesOnce
    <3>1. i + 1 = j + 1
      BY <2>1, <2>2
    <3>. QED BY <3>1, <2>2
  <2>4. \A i \in DOMAIN m.specs : m.specs[i].name \notin DOMAIN m.new
    BY <2>1, <2>2, <1>3
  <2>5. 1 \in 1..Len(l.specs)
    BY <1>2
  <2>6. Spec1(l).name \notin DOMAIN l.new
    BY <2>1, <2>5, <1>2 DEF Spec1
  <2>7. \A i \in DOMAIN m.specs : m.specs[i].name # Spec1(l).name
    BY <2>1, <2>2, <2>5, <1>2 DEF Spec1
  <2>. QED BY <2>3, <2>4, <2>6, <2>7 DEF FreshOf
<1>. QED BY <1>3, <1>4, <1>5

\* ... and a function o is kept for it.
LEMMA KeptDoes ==
  ASSUME NEW l \in Loops, l.specs # <<>>, NEW o \in Objs
  PROVE  LET m == Kept(l, Spec1(l).name, o)
         IN /\ m \in Loops /\ m.src = l.src
            /\ ValuesOf(l.new) \subseteq ValuesOf(m.new)
            /\ ValuesOf(m.new) \subseteq ValuesOf(l.new) \cup {o}
            /\ FreshOf(l) => FreshOf(m) /\ o \in ValuesOf(m.new)
            /\ \A b : NamedAs(b, l.new) /\ b.fn[o].name = Spec1(l).name => NamedAs(b, m.new)
<1> DEFINE n == Spec1(l).name
           r == Rest(l)
           m == Kept(l, n, o)
<1>1. /\ r \in Loops /\ r.src = l.src /\ r.new = l.new /\ n \in Names
      /\ FreshOf(l) => FreshOf(r) /\ n \notin DOMAIN l.new
      /\ FreshOf(l) => \A i \in DOMAIN r.specs : r.specs[i].name # n
  BY RestDoes
<1>2. m = [r EXCEPT !.new = IF n \in DOMAIN r.new THEN r.new ELSE Put(r.new, n, o)]
  BY DEF Kept
<1> HIDE DEF r, n, m
<1>3. l.new \in Maps
  BY DEF Loops
<1>4. CASE n \in DOMAIN l.new
  <2>1. m = r
    BY <1>1, <1>2, <1>4 DEF Loops
  <2>2. ~FreshOf(l)
    BY <1>1, <1>4
  <2>. QED BY <2>1, <2>2, <1>1 DEF m, n
<1>5. CASE n \notin DOMAIN l.new
  <2> DEFINE f == Put(l.new, n, o)
  <2>1. f = [x \in DOMAIN l.new \cup {n} |-> IF x = n THEN o ELSE l.new[x]]
    BY DEF Put
  <2> HIDE DEF f
  <2>2. DOMAIN f = DOMAIN l.new \cup {n} /\ f[n] = o /\ \A x \in DOMAIN l.new : f[x] = l.new[x]
    BY <2>1, <1>5
  <2>3. f \in Maps
    <3>1. f = [x \in DOMAIN f |-> f[x]]
      BY <2>1
    <3>2. DOMAIN f \subseteq Names /\ \A x \in DOMAIN f : f[x] \in Objs
      BY <2>2, <1>1, <1>3, IsMap
    <3>. QED BY <3>1, <3>2, IsMap
  <2>4. m \in Loops /\ m.src = l.src /\ m.new = f /\ m.specs = r.specs
    BY <2>3, <1>1, <1>2, <1>5 DEF f, Loops
  <2>5. ValuesOf(l.new) \subseteq ValuesOf(f) /\ ValuesOf(f) \subseteq ValuesOf(l.new) \cup {o}
        /\ o \in ValuesOf(f)
    BY <2>2 DEF ValuesOf
  <2>6. ASSUME FreshOf(l) PROVE FreshOf(m)
    <3>1. FreshOf(r) /\ \A i \in DOMAIN r.specs : r.specs[i].name # n
      BY <2>6, <1>1
    <3>. QED BY <3>1, <2>2, <2>4, <1>1 DEF FreshOf
  <2>7. \A b : NamedAs(b, l.new) /\ b.fn[o].name = n => NamedAs(b, f)
    BY <2>2 DEF NamedAs
  <2>. QED BY <2>4, <2>5, <2>6, <2>7 DEF m, n
<1>. QED BY <1>4, <1>5

\* A step which leaves sources and jobs as they are.
SameJobs(w) ==
  /\ w.jobs = jobs /\ w.stack = stack /\ w.origin = origin /\ w.listed = listed /\ w.funcs = funcs

LEMMA SameJobsDo ==
  ASSUME SourcesInv, NEW w, SameJobs(w), Book(w.book),
         w.loop \subseteq Loops, \A l, m \in w.loop : l = m,
         \A l \in w.loop : origin[l.src] # NoPath
  PROVE  /\ Typed(w) /\ Linked(w) /\ Iterators(w) /\ Dropped(w) = Dropped(State)
         /\ \A s \in Sources : NamedAs(book, w.funcs[s])
<1>1. Work(w) = Work(State)
  BY StateIs DEF SameJobs, Work
<1>2. Typed(w) /\ Linked(w)
  BY <1>1, InvTypes, InvLinks DEF SameJobs, Typed, Linked
<1>3. Iterators(w) /\ \A s \in Sources : NamedAs(book, w.funcs[s])
  BY <1>1, StateIs DEF SameJobs, SourcesInv, WorldOK, Iterators, Named
<1>4. Dropped(w) = Dropped(State)
  BY <1>1 DEF Dropped
<1>. QED BY <1>2, <1>3, <1>4

\* A step which changes one function o.
LEMMA ChangeWorld ==
  ASSUME SourcesInv, NEW o \in Objs, NEW w, OnlyChanges(book, w.book, o),
         Typed(w), Linked(w), Iterators(w),
         Entered(w.book), ~StrayIds => IdsMatch(w.book),
         Dropped(w) \subseteq Dropped(State),
         \A s \in Sources : Held(w, s) \subseteq Held(State, s),
         \A s \in Sources : NamedAs(book, w.funcs[s]),
         \A l \in w.loop : NamedAs(book, l.new),
         NEW except, NamesApart => Fresh(w) /\ OwnedBy(w.book, Refs(w), except),
         NEW calm, NamesApart /\ calm => Sound /\ CallsOwn(w.book) /\ w.book.fn[o].id # NoId
  PROVE  WorldOK(w, except, calm)
<1>1. Typed(State) /\ InMemory(State) /\ Apart(State) /\ (NamesApart /\ Sound => Registered(State))
  BY DEF SourcesInv, WorldOK
<1>2. /\ \A x : x \in Refs(State) <=> x \in Dropped(State) \/ \E s \in Sources : x \in Held(State, s)
      /\ \A x : x \in Refs(w) <=> x \in Dropped(w) \/ \E s \in Sources : x \in Held(w, s)
      /\ Refs(State) \subseteq Objs
  BY <1>1, RefsAre
<1>3. \A x \in Refs(w) : x \in Objs /\ Live(book, x) /\ Live(w.book, x)
                         /\ w.book.fn[x].name = book.fn[x].name
  <2>1. \A x \in Refs(w) : x \in Objs /\ Live(book, x)
    BY <1>1, <1>2, StateIs DEF InMemory
  <2>. QED BY <2>1 DEF OnlyChanges, Live
<1>4. InMemory(w)
  BY <1>3 DEF InMemory
<1>5. Named(w)
  <2>1. \A s \in Sources : \A n \in DOMAIN w.funcs[s] : w.funcs[s][n] \in Refs(w)
    BY <1>2 DEF Held, ValuesOf
  <2>2. \A l \in w.loop : \A n \in DOMAIN l.new : l.new[n] \in Refs(w)
    BY DEF Refs, ValuesOf
  <2>3. \A s \in Sources : NamedAs(w.book, w.funcs[s])
    BY <2>1, <1>3 DEF NamedAs
  <2>4. \A l \in w.loop : NamedAs(w.book, l.new)
    BY <2>2, <1>3 DEF NamedAs
  <2>. QED BY <2>3, <2>4 DEF Named
<1>6. Apart(w)
  BY <1>1 DEF Apart
<1>7. NamesApart /\ calm => CallsOwn(w.book) /\ Registered(w)
  <2> SUFFICES ASSUME NamesApart, calm PROVE Registered(w)
    OBVIOUS
  <2>1. Registered(State)
    BY <1>1
  <2>2. \A s \in Sources : \A x \in Held(w, s) : x \in Objs /\ book.fn[x].id # NoId
    BY <2>1, <1>2, <1>3, StateIs DEF Registered
  <2>. QED BY <2>2 DEF Registered, OnlyChanges
<1>. QED BY <1>4, <1>5, <1>6, <1>7 DEF WorldOK

\* The function which the source has for the first of the list.
LEMMA MineIs ==
  ASSUME SourcesInv, NEW l \in loop, l.specs # <<>>, Known(l)
  PROVE  LET o == Mine(l)
         IN /\ o \in Objs /\ o \in ValuesOf(funcs[l.src]) /\ book.fn[o].name = Spec1(l).name
            /\ o \in Held(State, l.src) /\ o \in Refs(State) /\ Live(book, o)
            /\ NamesApart /\ Sound => book.fn[o].id # NoId
<1> DEFINE o == Mine(l)
<1>1. /\ l.src \in Sources /\ \A s \in Sources : NamedAs(book, funcs[s])
      /\ Held(State, l.src) = ValuesOf(funcs[l.src]) \cup ValuesOf(l.new)
  BY LoopIs
<1>2. Spec1(l).name \in DOMAIN funcs[l.src] /\ o = funcs[l.src][Spec1(l).name]
  BY DEF Known, Mine
<1>3. funcs[l.src] \in Maps
  BY <1>1, InvTypes
<1> HIDE DEF o
<1>4. o \in Objs /\ o \in ValuesOf(funcs[l.src]) /\ book.fn[o].name = Spec1(l).name
  BY <1>1, <1>2, <1>3, IsMap DEF ValuesOf, NamedAs
<1>5. Typed(State) /\ InMemory(State) /\ (NamesApart /\ Sound => Registered(State))
  BY DEF SourcesInv, WorldOK
<1>6. o \in Held(State, l.src) /\ o \in Refs(State)
  BY <1>1, <1>4, <1>5, RefsAre
<1>7. Live(book, o) /\ (NamesApart /\ Sound => book.fn[o].id # NoId)
  BY <1>1, <1>5, <1>6, StateIs DEF InMemory, Registered
<1>. QED BY <1>4, <1>6, <1>7 DEF o

\* It is kept, and nothing else changes but the book.
LEMMA KeptWorld ==
  ASSUME SourcesInv, NEW l \in loop, l.specs # <<>>, Known(l),
         NEW w, SameJobs(w), w.loop = {Kept(l, Spec1(l).name, Mine(l))}, Book(w.book)
  PROVE  /\ Typed(w) /\ Linked(w) /\ Iterators(w)
         /\ Dropped(w) = Dropped(State) /\ Refs(w) = Refs(State)
         /\ \A s : Held(w, s) = Held(State, s)
         /\ \A s \in Sources : NamedAs(book, w.funcs[s])
         /\ \A k \in w.loop : NamedAs(book, k.new)
         /\ NamesApart => Fresh(w)
<1> DEFINE o == Mine(l)
           m == Kept(l, Spec1(l).name, o)
<1>1. /\ l \in Loops /\ l.src \in Sources /\ origin[l.src] # NoPath /\ NamedAs(book, l.new)
      /\ \A s : Held(State, s) = ValuesOf(funcs[s]) \cup (IF l.src = s THEN ValuesOf(l.new) ELSE {})
      /\ NamesApart => FreshOf(l)
  BY LoopIs
<1>2. o \in Objs /\ o \in ValuesOf(funcs[l.src]) /\ book.fn[o].name = Spec1(l).name
  BY MineIs
<1> HIDE DEF o
<1>3. /\ m \in Loops /\ m.src = l.src
      /\ ValuesOf(l.new) \subseteq ValuesOf(m.new) /\ ValuesOf(m.new) \subseteq ValuesOf(l.new) \cup {o}
      /\ FreshOf(l) => FreshOf(m)
      /\ NamedAs(book, m.new)
  BY <1>1, <1>2, KeptDoes
<1>4. w.loop = {m}
  BY DEF o
<1> HIDE DEF m
<1>5. /\ Typed(w) /\ Linked(w) /\ Iterators(w) /\ Dropped(w) = Dropped(State)
      /\ \A s \in Sources : NamedAs(book, w.funcs[s])
  BY <1>1, <1>3, <1>4, SameJobsDo
<1>6. \A s : Held(w, s) = Held(State, s)
  <2>1. \A s : Held(w, s) = ValuesOf(funcs[s]) \cup (IF m.src = s THEN ValuesOf(m.new) ELSE {})
    BY <1>4, HeldIs DEF SameJobs
  <2>2. ASSUME NEW s PROVE Held(w, s) = Held(State, s)
    <3>1. CASE s = l.src
      <4>1. Held(w, s) = ValuesOf(funcs[s]) \cup ValuesOf(m.new)
        BY <2>1, <3>1, <1>3
      <4>2. Held(State, s) = ValuesOf(funcs[s]) \cup ValuesOf(l.new)
        BY <3>1, <1>1
      <4>. QED BY <4>1, <4>2, <3>1, <1>2, <1>3
    <3>2. CASE s # l.src
      BY <2>1, <3>2, <1>1, <1>3
    <3>. QED BY <3>1, <3>2
  <2>. QED BY <2>2
<1>7. Refs(w) = Refs(State)
  <2>1. \A x : x \in Refs(w) <=> x \in Dropped(w) \/ \E s \in Sources : x \in Held(w, s)
    BY <1>5, RefsAre
  <2>2. Typed(State)
    BY DEF SourcesInv, WorldOK
  <2>3. \A x : x \in Refs(State) <=> x \in Dropped(State) \/ \E s \in Sources : x \in Held(State, s)
    BY <2>2, RefsAre
  <2>. QED BY <2>1, <2>3, <1>5, <1>6
<1>8. NamesApart => Fresh(w)
  BY <1>1, <1>3, <1>4 DEF Fresh, FreshOf
<1>. QED BY <1>3, <1>4, <1>5, <1>6, <1>7, <1>8

LEMMA PatchKeeps ==
  ASSUME SourcesInv, NEW l \in loop, l.specs # <<>>, Room(book),
         NEW refuses \in SUBSET {Spec1(l).name}, Patch(l, refuses),
         up' = up, NoCall
  PROVE  SourcesInv'
<1> DEFINE f == Spec1(l)
           o == Mine(l)
           same == Says(book, o, f.info)
           b == IF same THEN book ELSE Reregister(book, o, f.info, refuses)
           w == [Now(jobs, stack) EXCEPT
                   !.book = IF same THEN @ ELSE Reregister(@, o, f.info, refuses),
                   !.loop = {Kept(l, f.name, o)}]
<1>1. /\ Known(l) /\ Refuse(refuses) /\ Settle(w, refuses, {})
      /\ UNCHANGED <<up, closed, calls, defers>>
  BY DEF Patch, NoCall
<1>2. f.info \in Infos
  BY LoopIs, RestDoes
<1>3. /\ o \in Objs /\ Live(book, o) /\ o \in Refs(State)
      /\ NamesApart /\ Sound => book.fn[o].id # NoId
  BY <1>1, MineIs
<1>4. w.book = b /\ w.loop = {Kept(l, Spec1(l).name, Mine(l))} /\ SameJobs(w)
  BY DEF Now, SameJobs
<1> HIDE DEF o, f, w
<1>5. /\ Typed(State) /\ Entered(book) /\ Book(book)
      /\ ~StrayIds => IdsMatch(book)
      /\ NamesApart => OwnedBy(book, Refs(State), replaced)
      /\ NamesApart /\ Sound => CallsOwn(book)
  BY StateIs, InvTypes DEF SourcesInv, WorldOK
<1>6. Refs(State) \in SUBSET Objs
  BY <1>5, RefsAre
<1>7. refusals' \in 0..MaxRefusals /\ (Sound' => Sound /\ refuses = {})
  <2>1. IsFiniteSet(refuses)
    BY FS_Singleton, FS_Subset
  <2>. QED BY <2>1, <1>1, RefuseDoes DEF Sound
<1>8. /\ Book(b) /\ OnlyChanges(book, b, o) /\ Entered(b)
      /\ ~StrayIds => IdsMatch(b)
      /\ NamesApart => OwnedBy(b, Refs(State), replaced)
      /\ NamesApart /\ Sound' => Sound /\ CallsOwn(b) /\ b.fn[o].id # NoId
  <2>1. NamesApart /\ Sound' => Sound /\ CallsOwn(book) /\ book.fn[o].id # NoId /\ CanDeregister(book, o, refuses)
    BY <1>3, <1>5, <1>7 DEF CanDeregister
  <2>2. CASE same
    <3>1. b = book
      BY <2>2
    <3>. QED BY <3>1, <2>1, <1>3, <1>5 DEF OnlyChanges
  <2>3. CASE ~same
    <3> DEFINE d == Reregister(book, o, f.info, refuses)
    <3>1. /\ Book(d) /\ OnlyChanges(book, d, o) /\ d.fn[o].id # NoId
          /\ \A refs \in SUBSET Objs : \A except :
               OwnedBy(book, refs, except) /\ o \in refs => OwnedBy(d, refs, except)
          /\ IdsMatch(book) => IdsMatch(d)
          /\ Entered(book) => Entered(d)
          /\ Entered(book) /\ CallsOwn(book) /\ CanDeregister(book, o, refuses) => CallsOwn(d)
      BY <1>2, <1>3, <1>5, ReregisterDoes
    <3>2. b = d
      BY <2>3
    <3> HIDE DEF d, b
    <3>. QED BY <3>1, <3>2, <2>1, <1>3, <1>5, <1>6
  <2>. QED BY <2>2, <2>3
<1> HIDE DEF b
<1>9. /\ Typed(w) /\ Linked(w) /\ Iterators(w)
      /\ Dropped(w) = Dropped(State) /\ Refs(w) = Refs(State)
      /\ \A s : Held(w, s) = Held(State, s)
      /\ \A s \in Sources : NamedAs(book, w.funcs[s])
      /\ \A k \in w.loop : NamedAs(book, k.new)
      /\ NamesApart => Fresh(w)
  BY <1>1, <1>4, <1>8, KeptWorld
<1>10. NamesApart => Fresh(w) /\ OwnedBy(w.book, Refs(w), replaced \cup {})
  <2>1. replaced \cup {} = replaced
    OBVIOUS
  <2>. QED BY <2>1, <1>4, <1>8, <1>9
<1>11. WorldOK(w, replaced \cup {}, Sound')
  BY <1>3, <1>4, <1>8, <1>9, <1>10, ChangeWorld
<1>12. WorldOK(State', replaced', Sound') /\ replaced' \subseteq Ids
  BY <1>1, <1>11, SettleKeeps
<1>13. Counts'
  BY <1>1, <1>7, <1>12 DEF SourcesInv, Counts
<1>. QED BY <1>12, <1>13 DEF SourcesInv

\* A function of another shape which Excel will not give up is kept as it is.
LEMMA StaysKeeps ==
  ASSUME SourcesInv, NEW l \in loop, l.specs # <<>>,
         NEW refuses \in SUBSET {Spec1(l).name}, Stays(l, refuses),
         up' = up, NoCall
  PROVE  SourcesInv'
<1> DEFINE o == Mine(l)
           w == [Now(jobs, stack) EXCEPT
                   !.book = Deregister(@, {o}, refuses),
                   !.loop = {Kept(l, Spec1(l).name, o)}]
<1>1. /\ Known(l) /\ Refuse(refuses) /\ Settle(w, refuses, {}) /\ ~CanDeregister(book, o, refuses)
      /\ UNCHANGED <<up, closed, calls, defers>>
  BY DEF Stays, NoCall
<1>2. o \in Objs /\ {o} \in SUBSET Objs
  BY <1>1, MineIs
<1>3. /\ w.book = Deregister(book, {o}, refuses) /\ w.loop = {Kept(l, Spec1(l).name, Mine(l))}
      /\ SameJobs(w)
  BY DEF Now, SameJobs
<1> HIDE DEF o, w
<1>4. Book(w.book)
  BY <1>2, <1>3, InvTypes, DeregisterDoes
<1>5. refusals' \in 0..MaxRefusals /\ (Sound' => Sound)
  <2>1. IsFiniteSet(refuses)
    BY FS_Singleton, FS_Subset
  <2>. QED BY <2>1, <1>1, RefuseDoes DEF Sound
<1>6. /\ Typed(w) /\ Linked(w) /\ Iterators(w)
      /\ Dropped(w) = Dropped(State) /\ Refs(w) = Refs(State)
      /\ \A s : Held(w, s) = Held(State, s)
      /\ \A s \in Sources : NamedAs(book, w.funcs[s])
      /\ \A k \in w.loop : NamedAs(book, k.new)
      /\ NamesApart => Fresh(w)
  BY <1>1, <1>3, <1>4, KeptWorld
<1>7. Given(book, {o}, refuses) = {}
  BY <1>1 DEF Given
<1>8. WorldOK(w, replaced \cup {}, Sound')
  BY <1>2, <1>3, <1>5, <1>6, <1>7, DeregisterWorld
<1>9. WorldOK(State', replaced', Sound') /\ replaced' \subseteq Ids
  BY <1>1, <1>8, SettleKeeps
<1>10. Counts'
  BY <1>1, <1>5, <1>9 DEF SourcesInv, Counts
<1>. QED BY <1>9, <1>10 DEF SourcesInv

\* When Excel will not take a patched function back, the functions made so far
\* have no owner, and their ids are lost.
LEMMA PatchFailsKeeps ==
  ASSUME SourcesInv, NEW l \in loop, l.specs # <<>>,
         NEW refuses \in SUBSET {Spec1(l).name}, PatchFails(l, refuses),
         up' = up, NoCall
  PROVE  SourcesInv'
<1> DEFINE f == Spec1(l)
           o == Mine(l)
           others == ValuesOf(l.new) \ ValuesOf(funcs[l.src])
           d == FailReregister(book, o, f.info, refuses)
           w == [Now(jobs, stack) EXCEPT
                   !.book = FailReregister(@, o, f.info, refuses), !.loop = {}]
<1>1. /\ Known(l) /\ Refuse({f.name}) /\ Settle(w, refuses, IdsOf(book, others))
      /\ UNCHANGED <<up, closed, calls, defers>>
  BY DEF PatchFails, NoCall
<1>2. f.info \in Infos
  BY LoopIs, RestDoes
<1>3. /\ o \in Objs /\ o \in ValuesOf(funcs[l.src]) /\ Live(book, o)
  BY <1>1, MineIs
<1>4. w.book = d /\ w.loop = {} /\ SameJobs(w)
  BY DEF Now, SameJobs
<1>5. /\ Typed(State) /\ Entered(book) /\ Book(book)
      /\ ~StrayIds => IdsMatch(book)
      /\ NamesApart => OwnedBy(book, Refs(State), replaced)
  BY StateIs, InvTypes DEF SourcesInv, WorldOK
<1> HIDE DEF f, o, w
<1>6. /\ Book(d) /\ OnlyChanges(book, d, o)
      /\ \A refs \in SUBSET Objs : \A except :
           OwnedBy(book, refs, except) => OwnedBy(d, refs \ {o}, except)
      /\ IdsMatch(book) => IdsMatch(d)
      /\ Entered(book) => Entered(d)
  BY <1>2, <1>3, <1>5, FailDoes
<1> HIDE DEF d
<1>7. Sound' = FALSE /\ refusals' \in 0..MaxRefusals
  <2>1. IsFiniteSet({f.name}) /\ {f.name} # {}
    BY FS_Singleton
  <2>. QED BY <2>1, <1>1, RefuseDoes DEF Sound
<1>8. /\ Typed(w) /\ Linked(w) /\ Iterators(w) /\ Dropped(w) = Dropped(State)
      /\ \A s \in Sources : NamedAs(book, w.funcs[s])
  BY <1>4, <1>6, SameJobsDo
<1>9. /\ \A s : Held(w, s) = ValuesOf(funcs[s])
      /\ \A s : Held(State, s) = ValuesOf(funcs[s]) \cup (IF l.src = s THEN ValuesOf(l.new) ELSE {})
      /\ l.src \in Sources
  BY <1>4, HeldIs, LoopIs DEF SameJobs
<1>10. /\ \A x : x \in Refs(State) <=> x \in Dropped(State) \/ \E s \in Sources : x \in Held(State, s)
       /\ \A x : x \in Refs(w) <=> x \in Dropped(w) \/ \E s \in Sources : x \in Held(w, s)
       /\ Refs(State) \in SUBSET Objs
  BY <1>5, <1>8, RefsAre
<1>11. Refs(State) \ others \subseteq Refs(w) /\ o \in Refs(w)
  BY <1>3, <1>8, <1>9, <1>10
<1>12. ASSUME NamesApart PROVE OwnedBy(d, Refs(w), replaced \cup IdsOf(book, others))
  <2>1. OwnedBy(d, Refs(State) \ {o}, replaced)
    BY <1>5, <1>6, <1>10, <1>12
  <2>2. OwnedBy(d, (Refs(State) \ {o}) \ others, replaced \cup IdsOf(d, others))
    BY <2>1, <1>6, OwnedByLess
  <2>3. IdsOf(d, others) \subseteq IdsOf(book, others)
    <3>1. \A x \in others : x \in Objs /\ x # o
      BY <1>3, <1>9, <1>10
    <3>2. \A x \in others : d.fn[x].id = book.fn[x].id
      BY <3>1, <1>6 DEF OnlyChanges
    <3>. QED BY <3>2 DEF IdsOf
  <2>4. (Refs(State) \ {o}) \ others \subseteq Refs(w)
    BY <1>11
  <2> HIDE DEF others
  <2>5. replaced \cup IdsOf(d, others) \subseteq replaced \cup IdsOf(book, others)
    BY <2>3
  <2>. QED BY <2>2, <2>4, <2>5, OwnedByMore
<1>13. NamesApart => Fresh(w)
  BY <1>4 DEF Fresh
<1>14. \A s \in Sources : Held(w, s) \subseteq Held(State, s)
  BY <1>9
<1> HIDE DEF others
<1>15. WorldOK(w, replaced \cup IdsOf(book, others), Sound')
  BY <1>3, <1>4, <1>5, <1>6, <1>7, <1>8, <1>12, <1>13, <1>14, ChangeWorld
<1>16. WorldOK(State', replaced', Sound') /\ replaced' \subseteq Ids
  BY <1>1, <1>15, SettleKeeps
<1>17. Counts'
  BY <1>1, <1>7, <1>16 DEF SourcesInv, Counts
<1>. QED BY <1>16, <1>17 DEF SourcesInv

\* Two worlds which differ by their books and the registration under way.
SameButBook(u, w) ==
  /\ w.jobs = u.jobs /\ w.stack = u.stack /\ w.origin = u.origin /\ w.listed = u.listed
  /\ w.funcs = u.funcs

LEMMA SameButBookDo ==
  ASSUME NEW u, Typed(u), Linked(u), Iterators(u), NEW w, SameButBook(u, w), Book(w.book),
         w.loop \subseteq Loops, \A k, l \in w.loop : k = l,
         \A l \in w.loop : u.origin[l.src] # NoPath
  PROVE  /\ Typed(w) /\ Linked(w) /\ Iterators(w) /\ Dropped(w) = Dropped(u)
<1>1. Work(w) = Work(u)
  BY DEF SameButBook, Work
<1>2. Typed(w)
  BY DEF SameButBook, Typed
<1>3. Linked(w)
  BY <1>1 DEF SameButBook, Linked
<1>4. Iterators(w)
  BY <1>1 DEF SameButBook, Iterators
<1>. QED BY <1>1, <1>2, <1>3, <1>4 DEF Dropped

\* The first of the list is added to the registry, and kept for the source.
LEMMA AddWorld ==
  ASSUME NEW u, NEW except, NEW calm, WorldOK(u, except, calm), Room(u.book),
         NEW l \in Loops, l.specs # <<>>, u.loop = {Rest(l)}, NamesApart => FreshOf(l),
         Spec1(l).name \notin DOMAIN u.book.registry,
         NEW w, SameButBook(u, w), w.book = Add(u.book, Spec1(l)),
         w.loop = {Kept(l, Spec1(l).name, NewObj(u.book))}
  PROVE  WorldOK(w, except, calm)
<1> DEFINE f == Spec1(l)
           o == NewObj(u.book)
           r == Rest(l)
           m == Kept(l, f.name, o)
           s == l.src
<1>1. /\ Typed(u) /\ Linked(u) /\ InMemory(u) /\ Named(u) /\ Apart(u) /\ Iterators(u)
      /\ Entered(u.book) /\ Book(u.book)
      /\ ~StrayIds => IdsMatch(u.book)
      /\ NamesApart => OwnedBy(u.book, Refs(u), except)
      /\ NamesApart /\ calm => CallsOwn(u.book) /\ Registered(u)
  BY DEF WorldOK, Typed
<1>2. /\ f \in FuncSpecs /\ f.name \in Names /\ r.src = s /\ r.new = l.new /\ s \in Sources
  BY RestDoes DEF Loops
<1>3. /\ Book(w.book) /\ o \in Objs /\ ~Live(u.book, o)
      /\ \A x \in Objs : x # o => w.book.fn[x] = u.book.fn[x]
      /\ Live(w.book, o) /\ w.book.fn[o].name = f.name /\ w.book.fn[o].id # NoId
      /\ \A refs \in SUBSET Objs : \A x :
           OwnedBy(u.book, refs, x) /\ o \notin refs => OwnedBy(w.book, refs \cup {o}, x)
      /\ IdsMatch(u.book) => IdsMatch(w.book)
      /\ Entered(u.book) => Entered(w.book)
      /\ Entered(u.book) /\ CallsOwn(u.book) => CallsOwn(w.book)
  <2>1. f \in [name: Names, info: Infos]
    BY <1>2 DEF FuncSpecs
  <2>. QED BY <2>1, <1>1, AddDoes
<1> HIDE DEF o, f
<1>4. /\ m \in Loops /\ m.src = s
      /\ ValuesOf(l.new) \subseteq ValuesOf(m.new)
      /\ ValuesOf(m.new) \subseteq ValuesOf(l.new) \cup {o}
      /\ FreshOf(l) => FreshOf(m) /\ o \in ValuesOf(m.new)
      /\ \A b : NamedAs(b, l.new) /\ b.fn[o].name = f.name => NamedAs(b, m.new)
  BY <1>3, KeptDoes DEF f
<1>5. u.loop = {r} /\ w.loop = {m} /\ r \in u.loop
  BY DEF o, f
<1> HIDE DEF m, r, s
<1>6. Typed(w) /\ Linked(w) /\ Iterators(w) /\ Dropped(w) = Dropped(u)
  <2>1. u.origin[m.src] # NoPath
    BY <1>1, <1>2, <1>4, <1>5 DEF Linked
  <2>. QED BY <2>1, <1>1, <1>3, <1>4, <1>5, SameButBookDo
<1>7. /\ \A t : Held(u, t) = ValuesOf(u.funcs[t]) \cup (IF s = t THEN ValuesOf(l.new) ELSE {})
      /\ \A t : Held(w, t) = ValuesOf(u.funcs[t]) \cup (IF s = t THEN ValuesOf(m.new) ELSE {})
  BY <1>2, <1>4, <1>5, HeldIs DEF SameButBook
<1>8. /\ \A t : Held(u, t) \subseteq Held(w, t)
      /\ \A t : Held(w, t) \subseteq Held(u, t) \cup {o}
      /\ \A t : t # s => Held(w, t) = Held(u, t)
      /\ FreshOf(l) => o \in Held(w, s)
  BY <1>4, <1>7
<1>9. /\ Refs(u) \subseteq Objs
      /\ \A x : x \in Refs(u) <=> x \in Dropped(u) \/ \E t \in Sources : x \in Held(u, t)
      /\ \A x : x \in Refs(w) <=> x \in Dropped(w) \/ \E t \in Sources : x \in Held(w, t)
  BY <1>1, <1>6, RefsAre
<1>10. o \notin Refs(u)
  BY <1>1, <1>3 DEF InMemory
<1>11. /\ Refs(w) \subseteq Refs(u) \cup {o}
       /\ FreshOf(l) => Refs(u) \cup {o} \subseteq Refs(w)
  BY <1>2, <1>6, <1>8, <1>9
<1>12. \A x \in Refs(u) : x \in Objs /\ x # o /\ w.book.fn[x] = u.book.fn[x]
  BY <1>3, <1>9, <1>10
<1>13. InMemory(w)
  BY <1>1, <1>3, <1>11, <1>12 DEF InMemory, Live
<1>14. Named(w)
  <2>1. \A t \in Sources : \A n \in DOMAIN u.funcs[t] : u.funcs[t][n] \in Refs(u)
    BY <1>7, <1>9 DEF ValuesOf
  <2>2. \A n \in DOMAIN l.new : l.new[n] \in Refs(u)
    BY <1>2, <1>7, <1>9 DEF ValuesOf
  <2>3. \A t \in Sources : NamedAs(w.book, w.funcs[t])
    BY <2>1, <1>1, <1>12 DEF Named, NamedAs, SameButBook
  <2>4. NamedAs(w.book, l.new)
    BY <2>2, <1>1, <1>2, <1>5, <1>12 DEF Named, NamedAs
  <2>5. NamedAs(w.book, m.new)
    BY <2>4, <1>3, <1>4
  <2>. QED BY <2>3, <2>5, <1>5 DEF Named
<1>15. Apart(w)
  <2> SUFFICES ASSUME NEW t \in Sources, NEW x \in Held(w, t)
               PROVE  x \notin Dropped(w) /\ \A v \in Sources : x \in Held(w, v) => v = t
    BY DEF Apart
  <2>1. CASE x = o
    <3>1. x \notin Dropped(u) /\ \A v \in Sources : x \notin Held(u, v)
      BY <2>1, <1>9, <1>10
    <3>. QED BY <3>1, <1>6, <1>8
  <2>2. CASE x # o
    <3>1. x \in Held(u, t) /\ \A v : x \in Held(w, v) => x \in Held(u, v)
      BY <2>2, <1>8
    <3>. QED BY <3>1, <1>1, <1>6 DEF Apart
  <2>. QED BY <2>1, <2>2
<1>16. ASSUME NamesApart PROVE Fresh(w) /\ OwnedBy(w.book, Refs(w), except)
  <2>1. Fresh(w)
    BY <1>4, <1>5, <1>16 DEF Fresh, FreshOf
  <2>2. OwnedBy(w.book, Refs(u) \cup {o}, except)
    BY <1>1, <1>3, <1>9, <1>10, <1>16
  <2>3. Refs(w) = Refs(u) \cup {o}
    BY <1>11, <1>16
  <2>. QED BY <2>1, <2>2, <2>3
<1>17. ASSUME NamesApart, calm PROVE CallsOwn(w.book) /\ Registered(w)
  <2>1. CallsOwn(w.book)
    BY <1>1, <1>3, <1>17
  <2>2. ASSUME NEW t \in Sources, NEW x \in Held(w, t) PROVE w.book.fn[x].id # NoId
    <3>1. CASE x = o
      BY <3>1, <1>3
    <3>2. CASE x # o
      <4>1. x \in Held(u, t) /\ x \in Refs(u)
        BY <3>2, <1>8, <1>9
      <4>2. u.book.fn[x].id # NoId
        BY <4>1, <1>1, <1>17 DEF Registered
      <4>. QED BY <4>1, <4>2, <1>12
    <3>. QED BY <3>1, <3>2
  <2>. QED BY <2>1, <2>2 DEF Registered
<1>18. Entered(w.book) /\ (~StrayIds => IdsMatch(w.book))
  BY <1>1, <1>3
<1>. QED BY <1>6, <1>13, <1>14, <1>15, <1>16, <1>17, <1>18 DEF WorldOK

\* A registration is taken away by mistake.
LEMMA StrayWorld ==
  ASSUME NEW u, NEW except, NEW calm, WorldOK(u, except, calm),
         NEW i, ~StrayIds => i = NoId,
         NEW w, SameButBook(u, w), w.book = Stray(u.book, i), w.loop = u.loop
  PROVE  WorldOK(w, except, calm)
<1>1. /\ Typed(u) /\ Linked(u) /\ InMemory(u) /\ Named(u) /\ Apart(u) /\ Iterators(u)
      /\ Entered(u.book) /\ Book(u.book)
      /\ ~StrayIds => IdsMatch(u.book)
      /\ NamesApart => Fresh(u) /\ OwnedBy(u.book, Refs(u), except)
      /\ NamesApart /\ calm => CallsOwn(u.book) /\ Registered(u)
  BY DEF WorldOK, Typed
<1>2. /\ Book(w.book) /\ w.book.fn = u.book.fn
      /\ \A refs : \A x : OwnedBy(u.book, refs, x) => OwnedBy(w.book, refs, x)
      /\ i = NoId /\ IdsMatch(u.book) => IdsMatch(w.book)
      /\ Entered(u.book) => Entered(w.book)
      /\ CallsOwn(u.book) => CallsOwn(w.book)
  BY <1>1, StrayDoes
<1>3. Typed(w) /\ Linked(w) /\ Iterators(w) /\ Dropped(w) = Dropped(u)
  BY <1>1, <1>2, SameButBookDo DEF Typed, Linked
<1>4. Refs(w) = Refs(u) /\ \A t : Held(w, t) = Held(u, t)
  BY <1>3 DEF Refs, Dropped, Held, SameButBook
<1>5. InMemory(w) /\ Named(w) /\ Apart(w)
  BY <1>1, <1>2, <1>3, <1>4 DEF InMemory, Live, Named, NamedAs, Apart, SameButBook
<1>6. NamesApart => Fresh(w) /\ OwnedBy(w.book, Refs(w), except)
  BY <1>1, <1>2, <1>4 DEF Fresh
<1>7. NamesApart /\ calm => CallsOwn(w.book) /\ Registered(w)
  BY <1>1, <1>2, <1>4 DEF Registered
<1>. QED BY <1>1, <1>2, <1>3, <1>5, <1>6, <1>7 DEF WorldOK

\* The world in which the source no longer has what it had under the name of
\* the first of the list, which is deregistered.
Without(l, b, m) ==
  [Now(Stales(jobs, {l.src}, {Spec1(l).name}), Stales(stack, {l.src}, {Spec1(l).name})) EXCEPT
     !.book = b, !.funcs[l.src] = Minus(@, {Spec1(l).name}), !.loop = {m}]

\* What the function to make replaces, if anything, can be deregistered.
ToMake(l) ==
  /\ l.specs # <<>>
  /\ Known(l) => CanDeregister(book, Mine(l), {})

LEMMA WithoutKeeps ==
  ASSUME SourcesInv, NEW l \in loop, ToMake(l), NEW calm, calm => Sound
  PROVE  LET b == IF Known(l) THEN Deregister(book, {Mine(l)}, {}) ELSE book
         IN WorldOK(Without(l, b, Rest(l)), replaced \cup {}, calm)
<1> DEFINE n == Spec1(l).name
           s == l.src
           o == Mine(l)
           b == IF Known(l) THEN Deregister(book, {o}, {}) ELSE book
           r == Rest(l)
           m == Minus(funcs[s], {n})
           w == Without(l, b, r)
<1> DEFINE os == IF Known(l) THEN {o} ELSE {}
<1>1. /\ l \in Loops /\ s \in Sources /\ origin[s] # NoPath /\ NamedAs(book, l.new)
      /\ \A t \in Sources : NamedAs(book, funcs[t])
      /\ \A t : Held(State, t) = ValuesOf(funcs[t]) \cup (IF s = t THEN ValuesOf(l.new) ELSE {})
      /\ NamesApart => FreshOf(l)
  BY LoopIs
<1>2. /\ r \in Loops /\ r.src = s /\ r.new = l.new
      /\ FreshOf(l) => FreshOf(r) /\ n \notin DOMAIN l.new
  BY <1>1, RestDoes DEF ToMake
<1>3. Known(l) => o \in Objs /\ o \in ValuesOf(funcs[s]) /\ book.fn[o].name = n
                  /\ o = funcs[s][n] /\ n \in DOMAIN funcs[s] /\ o \in Held(State, s)
  BY MineIs DEF ToMake, Known, Mine
<1>4. ~Known(l) => n \notin DOMAIN funcs[s]
  BY DEF Known
<1>5. /\ funcs[s] \in Maps /\ m \in Maps /\ DOMAIN m = DOMAIN funcs[s] \ {n}
      /\ \A x \in DOMAIN funcs[s] \ {n} : m[x] = funcs[s][x]
      /\ ValuesOf(m) \subseteq ValuesOf(funcs[s])
  <2>1. funcs[s] \in Maps
    BY <1>1, InvTypes
  <2>. QED BY <2>1, MinusIs
<1>6. Loosened(book, b, os, os)
  <2>1. CASE Known(l)
    <3>1. {o} \in SUBSET Objs
      BY <2>1, <1>3
    <3>2. Given(book, {o}, {}) = {o}
      BY <2>1 DEF Given, ToMake
    <3>3. Loosened(book, Deregister(book, {o}, {}), {o}, Given(book, {o}, {}))
      BY <3>1, InvTypes, DeregisterLoosens
    <3>. QED BY <2>1, <3>2, <3>3
  <2>2. CASE ~Known(l)
    BY <2>2, InvTypes, NothingLoosens
  <2>. QED BY <2>1, <2>2
<1>7. /\ w.book = b /\ w.loop = {r} /\ w.funcs = [funcs EXCEPT ![s] = m]
      /\ w.origin = origin /\ w.listed = listed
      /\ w.jobs = Stales(jobs, {s}, {n}) /\ w.stack = Stales(stack, {s}, {n})
  BY DEF Now, Without
<1>8. \A x : x \in os <=> Known(l) /\ x = o
  OBVIOUS
<1> HIDE DEF n, s, o, b, r, m, w, os
<1>9. Rebuilt(w, jobs, stack, s, {n}, m)
  BY <1>5, <1>7 DEF Rebuilt
<1>10. /\ Typed(w) /\ Linked(w) /\ Iterators(w) /\ Dropped(w) = Dropped(State)
       /\ \A t \in Sources : w.funcs[t] = IF t = s THEN m ELSE funcs[t]
  <2>1. Book(w.book)
    BY <1>6, <1>7 DEF Loosened
  <2>2. PICK one : Rebuilt(w, jobs, stack, s, one, m)
    BY <1>9
  <2>3. LoopOf(w, s)
    BY <1>2, <1>7 DEF LoopOf
  <2>4. s \in Sources /\ origin[s] # NoPath /\ m \in Maps
    BY <1>1, <1>5
  <2>5. Leaves(jobs, stack)
    BY AllLeft
  <2>6. Typed(w) /\ Linked(w) /\ Iterators(w) /\ Dropped(w) = Dropped(State)
    BY <2>1, <2>2, <2>3, <2>4, <2>5, RebuiltDoes
  <2>7. \A t \in Sources : w.funcs[t] = IF t = s THEN m ELSE funcs[t]
    BY <1>7, InvTypes
  <2>. QED BY <2>6, <2>7
<1>11. NamesApart => Fresh(w)
  BY <1>1, <1>2, <1>7 DEF Fresh, FreshOf
<1>12. \A t \in Sources : NamedAs(book, w.funcs[t])
  BY <1>1, <1>5, <1>10 DEF NamedAs
<1>13. \A k \in w.loop : NamedAs(book, k.new)
  BY <1>1, <1>2, <1>7
<1>14. \A t : Held(w, t) = ValuesOf(w.funcs[t]) \cup (IF s = t THEN ValuesOf(l.new) ELSE {})
  <2>1. \A t : Held(w, t) = ValuesOf(w.funcs[t]) \cup (IF r.src = t THEN ValuesOf(r.new) ELSE {})
    BY <1>7, HeldIs
  <2>. QED BY <2>1, <1>2
<1>15. /\ ValuesOf(funcs[s]) \ os \subseteq ValuesOf(m)
       /\ \A x \in os : x \notin ValuesOf(m)
  <2>1. ASSUME NEW x \in DOMAIN funcs[s], funcs[s][x] \notin os PROVE funcs[s][x] \in ValuesOf(m)
    <3>1. x \in DOMAIN m
      BY <2>1, <1>3, <1>4, <1>5, <1>8
    <3>. QED BY <3>1, <1>5 DEF ValuesOf
  <2>2. ASSUME Known(l), NEW x \in DOMAIN m, m[x] = o PROVE FALSE
    <3>1. x \in DOMAIN funcs[s] /\ x # n /\ funcs[s][x] = o
      BY <2>2, <1>5
    <3>2. book.fn[o].name = x
      BY <3>1, <1>1 DEF NamedAs
    <3>. QED BY <3>1, <3>2, <2>2, <1>3
  <2>. QED BY <2>1, <2>2, <1>8 DEF ValuesOf
<1>16. \A t \in Sources : Held(w, t) \subseteq Held(State, t) /\ Held(State, t) \ os \subseteq Held(w, t)
  BY <1>1, <1>5, <1>10, <1>14, <1>15
<1>17. Typed(State) /\ Apart(State)
  BY DEF SourcesInv, WorldOK
<1>18. Refs(State) \ os \subseteq Refs(w)
  <2>1. \A x : x \in Refs(State) <=> x \in Dropped(State) \/ \E t \in Sources : x \in Held(State, t)
    BY <1>17, RefsAre
  <2>2. \A x : x \in Refs(w) <=> x \in Dropped(w) \/ \E t \in Sources : x \in Held(w, t)
    BY <1>10, RefsAre
  <2>. QED BY <2>1, <2>2, <1>10, <1>16
<1>19. ASSUME NamesApart, NEW t \in Sources, NEW x \in Held(w, t), x \in os PROVE FALSE
  <2>1. Known(l) /\ x = o
    BY <1>8, <1>19
  <2>2. t = s
    BY <2>1, <1>1, <1>3, <1>16, <1>17, <1>19 DEF Apart
  <2>3. o \in ValuesOf(l.new)
    BY <2>1, <2>2, <1>1, <1>10, <1>14, <1>15, <1>19
  <2>4. n \in DOMAIN l.new
    BY <2>1, <2>3, <1>1, <1>3 DEF ValuesOf, NamedAs
  <2>. QED BY <2>4, <1>1, <1>2, <1>19
<1>20. Loosened(book, w.book, os, os)
  BY <1>6, <1>7
<1>21. WorldOK(w, replaced \cup {}, calm)
  BY <1>10, <1>11, <1>12, <1>13, <1>16, <1>18, <1>19, <1>20, LoosenedWorld
<1>. QED BY <1>21 DEF w, b, r, o

LEMMA MakeKeeps ==
  ASSUME SourcesInv, NEW l \in loop, l.specs # <<>>, Room(book),
         NEW unable \in SUBSET {Spec1(l).name}, Make(l, unable),
         up' = up, NoCall
  PROVE  SourcesInv'
<1> DEFINE f == Spec1(l)
           b == IF Known(l) THEN Deregister(book, {Mine(l)}, {}) ELSE book
           After(c, m) == Settle(Without(l, c, m), {}, {})
           u == Without(l, b, Rest(l))
<1>1. /\ Known(l) => CanDeregister(book, Mine(l), {})
      /\ Refuse(unable)
      /\ \/ CanAdd(b, f, unable) /\ After(Add(b, f), Kept(l, f.name, NewObj(b)))
         \/ After(b, Rest(l))
         \/ \E i \in IF StrayIds THEN DOMAIN b.regs \cup {NoId} ELSE {NoId} :
              After(Stray(b, i), Rest(l))
  BY DEF Make, Without
<1>2. UNCHANGED <<up, closed, calls, defers>>
  BY DEF NoCall
<1>3. refusals' \in 0..MaxRefusals /\ (Sound' => Sound)
  <2>1. IsFiniteSet(unable)
    BY FS_Singleton, FS_Subset
  <2>. QED BY <2>1, <1>1, <1>2, RefuseDoes DEF Sound
<1>4. WorldOK(u, replaced \cup {}, Sound')
  BY <1>1, <1>3, WithoutKeeps DEF ToMake
<1>5. Room(b)
  <2>1. CASE Known(l)
    <3>1. {Mine(l)} \in SUBSET Objs /\ Book(book)
      BY <2>1, MineIs, InvTypes
    <3> DEFINE d == Deregister(book, {Mine(l)}, {})
    <3>2. Loosened(book, d, {Mine(l)}, Given(book, {Mine(l)}, {}))
      BY <3>1, DeregisterLoosens
    <3>3. GoneFrom(book, d, {Mine(l)}, Given(book, {Mine(l)}, {}))
      BY <3>1, DeregisterDoes
    <3>4. b = d
      BY <2>1
    <3> HIDE DEF d
    <3>5. \A o \in Objs : Live(book, o) <=> Live(d, o)
      BY <3>2 DEF Loosened
    <3>6. DOMAIN d.regs \subseteq DOMAIN book.regs
      BY <3>3 DEF GoneFrom
    <3> HIDE DEF b
    <3>. QED BY <3>4, <3>5, <3>6 DEF Room
  <2>2. CASE ~Known(l)
    BY <2>2
  <2>. QED BY <2>1, <2>2
<1>6. ASSUME NEW c, NEW m
      PROVE  Without(l, c, m).book = c /\ Without(l, c, m).loop = {m} /\ SameButBook(u, Without(l, c, m))
  BY DEF Without, Now, SameButBook
<1>7. l \in Loops /\ (NamesApart => FreshOf(l))
  BY LoopIs
<1>8. u.book = b /\ u.loop = {Rest(l)}
  BY <1>6
<1> HIDE DEF b, u
<1>9. ASSUME NEW w, WorldOK(w, replaced \cup {}, Sound'), Settle(w, {}, {}) PROVE SourcesInv'
  <2>1. WorldOK(State', replaced', Sound') /\ replaced' \subseteq Ids
    BY <1>9, SettleKeeps
  <2>2. Counts'
    BY <2>1, <1>2, <1>3 DEF SourcesInv, Counts
  <2>. QED BY <2>1, <2>2 DEF SourcesInv
<1>10. ASSUME CanAdd(b, f, unable), After(Add(b, f), Kept(l, f.name, NewObj(b))) PROVE SourcesInv'
  <2> DEFINE w == Without(l, Add(b, f), Kept(l, f.name, NewObj(b)))
  <2>1. /\ SameButBook(u, w) /\ w.book = Add(u.book, Spec1(l))
        /\ w.loop = {Kept(l, Spec1(l).name, NewObj(u.book))}
    BY <1>6, <1>8
  <2>2. Spec1(l).name \notin DOMAIN u.book.registry
    BY <1>8, <1>10 DEF CanAdd
  <2>3. Settle(w, {}, {})
    BY <1>10
  <2> HIDE DEF w
  <2>4. WorldOK(w, replaced \cup {}, Sound')
    BY <2>1, <2>2, <1>4, <1>5, <1>7, <1>8, AddWorld
  <2>. QED BY <2>3, <2>4, <1>9
<1>11. ASSUME After(b, Rest(l)) PROVE SourcesInv'
  BY <1>4, <1>9, <1>11 DEF u
<1>12. ASSUME NEW i, ~StrayIds => i = NoId, After(Stray(b, i), Rest(l)) PROVE SourcesInv'
  <2> DEFINE w == Without(l, Stray(b, i), Rest(l))
  <2>1. SameButBook(u, w) /\ w.book = Stray(u.book, i) /\ w.loop = u.loop
    BY <1>6, <1>8
  <2>2. Settle(w, {}, {})
    BY <1>12
  <2> HIDE DEF w
  <2>3. WorldOK(w, replaced \cup {}, Sound')
    BY <2>1, <1>4, <1>12, StrayWorld
  <2>. QED BY <2>2, <2>3, <1>9
<1>. QED BY <1>1, <1>10, <1>11, <1>12

\* The end of a registration: what the source no longer has is forgotten.
LEMMA RegisterEndKeeps ==
  ASSUME SourcesInv, NEW l \in loop, RegisterEnd(l), up' = up, NoCall
  PROVE  SourcesInv'
<1> DEFINE s == l.src
           old == funcs[s]
           m == MapAfter(l)
           gone == ValuesOf(old) \ ValuesOf(m)
           asked == NamesOf(book, Asked(OutOfRegistry(gone)))
           w == [Now(Stales(jobs, {s}, Names), Stales(stack, {s}, Names)) EXCEPT
                   !.funcs[s] = m, !.loop = {}]
<1>1. PICK refuses \in SUBSET asked : Refuse(refuses) /\ Settle(w, refuses, IdsOf(book, gone))
  BY DEF RegisterEnd
<1>2. UNCHANGED <<up, closed, calls, defers>>
  BY DEF NoCall
<1>3. /\ l \in Loops /\ s \in Sources /\ l.new \in Maps /\ origin[s] # NoPath
      /\ NamedAs(book, l.new) /\ \A t \in Sources : NamedAs(book, funcs[t])
      /\ \A t : Held(State, t) = ValuesOf(funcs[t]) \cup (IF s = t THEN ValuesOf(l.new) ELSE {})
  BY LoopIs
<1>4. old \in Maps
  BY <1>3, InvTypes
<1>5. gone \subseteq Objs
  BY <1>4, IsMap
<1>6. refusals' \in 0..MaxRefusals /\ (Sound' => Sound)
  <2>1. asked \subseteq Names
    BY <1>5, InvTypes, FnTyped DEF NamesOf, Asked, OutOfRegistry
  <2>2. IsFiniteSet(refuses)
    BY <2>1, BookConstants, FS_Subset
  <2>. QED BY <2>2, <1>1, <1>2, RefuseDoes DEF Sound
<1>7. m = [n \in DOMAIN l.new \cup (IF l.append THEN DOMAIN old ELSE {}) |->
             IF n \in DOMAIN l.new THEN l.new[n] ELSE old[n]]
  BY DEF MapAfter
<1>8. /\ w.funcs = [funcs EXCEPT ![s] = m] /\ w.loop = {} /\ w.book = book
      /\ w.origin = origin /\ w.listed = listed
      /\ w.jobs = Stales(jobs, {s}, Names) /\ w.stack = Stales(stack, {s}, Names)
  BY DEF Now
<1> HIDE DEF m, w, s, old, asked
<1>9. /\ DOMAIN l.new \subseteq DOMAIN m /\ \A n \in DOMAIN l.new : m[n] = l.new[n]
      /\ \A n \in DOMAIN m : n \in DOMAIN l.new \/ (n \in DOMAIN old /\ m[n] = old[n])
      /\ m = [n \in DOMAIN m |-> m[n]]
  BY <1>7
<1>10. m \in Maps /\ NamedAs(book, m)
  <2>1. NamedAs(book, old)
    BY <1>3 DEF old
  <2>2. \A n \in DOMAIN m : n \in Names /\ m[n] \in Objs /\ book.fn[m[n]].name = n
    BY <2>1, <1>3, <1>4, <1>9, IsMap DEF NamedAs
  <2>. QED BY <2>2, <1>9, IsMap DEF NamedAs
<1>11. ValuesOf(l.new) \subseteq ValuesOf(m) /\ ValuesOf(m) \subseteq ValuesOf(l.new) \cup ValuesOf(old)
  BY <1>9 DEF ValuesOf
<1>12. Typed(w) /\ Linked(w) /\ Iterators(w) /\ Dropped(w) = Dropped(State)
  <2>1. DOMAIN old \subseteq Names
    BY <1>4, IsMap
  <2>2. Rebuilt(w, jobs, stack, s, Names, m)
    BY <2>1, <1>8 DEF Rebuilt, old
  <2>3. Book(w.book) /\ LoopOf(w, s)
    BY <1>8, InvTypes DEF LoopOf
  <2>4. s \in Sources /\ origin[s] # NoPath /\ m \in Maps
    BY <1>3, <1>10
  <2>5. Leaves(jobs, stack)
    BY AllLeft
  <2>. QED BY <2>2, <2>3, <2>4, <2>5, RebuiltDoes
<1>13. \A t \in Sources : w.funcs[t] = IF t = s THEN m ELSE funcs[t]
  BY <1>8, InvTypes
<1>14. \A t : Held(w, t) = ValuesOf(w.funcs[t])
  BY <1>8, HeldIs
<1>15. \A t \in Sources : Held(w, t) \subseteq Held(State, t) /\ Held(State, t) \ gone \subseteq Held(w, t)
  <2> SUFFICES ASSUME NEW t \in Sources
               PROVE  Held(w, t) \subseteq Held(State, t) /\ Held(State, t) \ gone \subseteq Held(w, t)
    OBVIOUS
  <2>1. CASE t = s
    <3>1. Held(w, t) = ValuesOf(m) /\ Held(State, t) = ValuesOf(old) \cup ValuesOf(l.new)
      BY <2>1, <1>3, <1>13, <1>14 DEF old
    <3>. QED BY <3>1, <1>11
  <2>2. CASE t # s
    BY <2>2, <1>3, <1>13, <1>14
  <2>. QED BY <2>1, <2>2
<1>16. /\ Typed(State) /\ InMemory(State) /\ Apart(State) /\ Entered(book) /\ Book(book)
       /\ ~StrayIds => IdsMatch(book)
       /\ NamesApart => OwnedBy(book, Refs(State), replaced)
       /\ NamesApart /\ Sound => CallsOwn(book) /\ Registered(State)
  BY StateIs, InvTypes DEF SourcesInv, WorldOK
<1>17. Refs(State) \ gone \subseteq Refs(w) /\ Refs(w) \subseteq Refs(State)
  <2>1. \A x : x \in Refs(State) <=> x \in Dropped(State) \/ \E t \in Sources : x \in Held(State, t)
    BY <1>16, RefsAre
  <2>2. \A x : x \in Refs(w) <=> x \in Dropped(w) \/ \E t \in Sources : x \in Held(w, t)
    BY <1>12, RefsAre
  <2> HIDE DEF gone
  <2>. QED BY <2>1, <2>2, <1>12, <1>15
<1> HIDE DEF gone
<1>18. InMemory(w)
  BY <1>8, <1>16, <1>17, StateIs DEF InMemory
<1>19. Named(w)
  BY <1>3, <1>8, <1>10, <1>13 DEF Named
<1>20. Apart(w)
  BY <1>12, <1>15, <1>16 DEF Apart
<1>21. NamesApart => Fresh(w) /\ OwnedBy(book, Refs(w), replaced \cup IdsOf(book, gone))
  <2> SUFFICES ASSUME NamesApart PROVE Fresh(w) /\ OwnedBy(book, Refs(w), replaced \cup IdsOf(book, gone))
    OBVIOUS
  <2>1. OwnedBy(book, Refs(State) \ gone, replaced \cup IdsOf(book, gone))
    BY <1>16, OwnedByLess
  <2>2. OwnedBy(book, Refs(w), replaced \cup IdsOf(book, gone))
    BY <2>1, <1>17, OwnedByMore
  <2>. QED BY <2>2, <1>8 DEF Fresh
<1>22. NamesApart /\ Sound' => CallsOwn(book) /\ Registered(w)
  BY <1>6, <1>8, <1>15, <1>16, StateIs DEF Registered
<1>23. WorldOK(w, replaced \cup IdsOf(book, gone), Sound')
  BY <1>8, <1>12, <1>16, <1>18, <1>19, <1>20, <1>21, <1>22 DEF WorldOK
<1>24. WorldOK(State', replaced', Sound') /\ replaced' \subseteq Ids
  <2>1. Settle(w, refuses, IdsOf(book, gone))
    BY <1>1 DEF w, s, m
  <2>. QED BY <2>1, <1>23, SettleKeeps
<1>25. Counts'
  BY <1>2, <1>6, <1>24 DEF SourcesInv, Counts
<1>. QED BY <1>24, <1>25 DEF SourcesInv

LEMMA RunLoopKeeps ==
  ASSUME SourcesInv, RunLoop
  PROVE  SourcesInv'
<1>1. PICK l \in loop : IF l.specs = <<>> THEN RegisterEnd(l) ELSE RegisterOne(l)
  BY DEF RunLoop
<1>2. NoCall /\ up' = up
  BY DEF RunLoop
<1>3. CASE l.specs = <<>>
  BY <1>1, <1>2, <1>3, RegisterEndKeeps
<1>4. CASE l.specs # <<>>
  <2>1. PICK names \in SUBSET {Spec1(l).name} :
          Patch(l, names) \/ PatchFails(l, names) \/ Stays(l, names) \/ Make(l, names)
    BY <1>1, <1>4 DEF RegisterOne
  <2>2. Room(book)
    BY <1>1, <1>4 DEF RegisterOne
  <2>. QED BY <2>1, <2>2, <1>2, <1>4, PatchKeeps, PatchFailsKeeps, StaysKeeps, MakeKeeps
<1>. QED BY <1>3, <1>4

-----------------------------------------------------------------------------
(* The theorems                                                             *)

LEMMA InvInit ==
  ASSUME Init
  PROVE  SourcesInv
<1> DEFINE w == State
<1>1. /\ w.book = EmptyBook /\ w.jobs = <<>> /\ w.stack = <<>> /\ w.loop = {} /\ w.listed = Empty
      /\ w.origin = [s \in Sources |-> NoPath] /\ w.funcs = [s \in Sources |-> Empty]
  BY StateIs DEF Init
<1> HIDE DEF w
<1>2. Work(w) = {}
  BY <1>1, MembersOfNone DEF Work
<1>3. Book(EmptyBook) /\ \A o \in Objs : EmptyBook.fn[o].id = NoId
  BY EmptyIsMap DEF Book, IsBook, EmptyBook, NoFunc
<1>4. DOMAIN EmptyBook.regs = {} /\ DOMAIN EmptyBook.registry = {}
  BY EmptyIsMap DEF EmptyBook
<1>5. Typed(w)
  BY <1>1, <1>3, EmptyIsMap DEF Typed
<1>6. Linked(w) /\ Iterators(w)
  BY <1>1, <1>2, EmptyIsMap DEF Linked, Iterators
<1>7. \A s \in Sources : Held(w, s) = {} /\ w.funcs[s] = Empty
  BY <1>1, HeldIs, EmptyIsMap
<1>8. Dropped(w) = {}
  BY <1>2 DEF Dropped
<1>9. Refs(w) = {}
  BY <1>5, <1>7, <1>8, RefsAre
<1>10. InMemory(w) /\ Named(w) /\ Apart(w)
  BY <1>1, <1>7, <1>9, EmptyIsMap DEF InMemory, Named, NamedAs, Apart
<1>11. Entered(w.book) /\ CallsOwn(w.book) /\ IdsMatch(w.book) /\ OwnedBy(w.book, Refs(w), replaced)
  BY <1>1, <1>3, <1>4 DEF Entered, CallsOwn, IdsMatch, OwnedBy
<1>12. Fresh(w) /\ Registered(w)
  BY <1>1, <1>7 DEF Fresh, Registered
<1>13. WorldOK(w, replaced, Sound)
  BY <1>5, <1>6, <1>10, <1>11, <1>12 DEF WorldOK
<1>14. Counts
  <2>1. /\ up = "sound" /\ closed = FALSE /\ replaced = {}
        /\ calls = 0 /\ refusals = 0 /\ defers = 0
    BY DEF Init
  <2>2. MaxCalls \in Nat /\ MaxRefusals \in Nat /\ MaxDefers \in Nat
    BY SourceConstants
  <2>3. calls \in 0..MaxCalls /\ refusals \in 0..MaxRefusals /\ defers \in 0..MaxDefers
    BY <2>1, <2>2
  <2>4. up \in {"sound", "astray", "down"} /\ closed \in BOOLEAN /\ replaced \subseteq Ids
    BY <2>1
  <2>. QED BY <2>3, <2>4 DEF Counts
<1>. QED BY <1>13, <1>14 DEF SourcesInv, w

LEMMA NextKeeps ==
  ASSUME SourcesInv, [Next]_vars
  PROVE  SourcesInv'
<1>1. CASE UNCHANGED vars
  BY <1>1 DEF vars, SourcesInv, State, Now, Sound, Counts
<1>2. ASSUME NEW p \in Paths, NEW specs \in SpecLists, NEW a \in Appends, Register(p, specs, a)
      PROVE  SourcesInv'
  BY <1>2, RegisterKeeps
<1>3. ASSUME NEW p \in Paths, NEW n \in Removals, RemoveFunc(p, n) PROVE SourcesInv'
  BY <1>3, RemoveFuncKeeps
<1>4. ASSUME NEW p \in Paths, NEW k \in FileEvents, FileEvent(p, k) PROVE SourcesInv'
  BY <1>4, FileEventKeeps
<1>5. ASSUME NEW p, WorkbookClose(p) PROVE SourcesInv'
  BY <1>5, WorkbookCloseKeeps
<1>6. ASSUME NEW p, NEW q \in Paths, WorkbookRename(p, q) PROVE SourcesInv'
  BY <1>6, WorkbookRenameKeeps
<1>. QED BY <1>1, <1>2, <1>3, <1>4, <1>5, <1>6, CloseAddinKeeps, RunJobKeeps, RunNowKeeps,
            RunLoopKeeps, DeferKeeps DEF Next

LEMMA SourcesInvHolds == Spec => []SourcesInv
<1>1. Init => SourcesInv
  BY InvInit
<1>2. SourcesInv /\ [Next]_vars => SourcesInv'
  BY NextKeeps
<1>. QED BY <1>1, <1>2, PTL DEF Spec

\* Every part of the state has its type, and nothing that may still be used is
\* freed: a source on the add-in's list, of a job or of a registration is alive,
\* and its functions are in memory.
THEOREM SourcesTypeCorrect == Spec => []TypeOK
<1>1. SourcesInv => TypeOK
  <2> SUFFICES ASSUME SourcesInv PROVE TypeOK
    OBVIOUS
  <2>1. IsBook(book) /\ origin \in [Sources -> Paths \cup {NoPath}]
    BY InvTypes DEF Book
  <2>2. \A s \in Sources : DOMAIN funcs[s] \subseteq Names /\ ValuesOf(funcs[s]) \subseteq Objs
    BY InvTypes, IsMap
  <2>3. \A s \in Sources : \A n \in DOMAIN funcs[s] : Live(book, funcs[s][n])
    <3>1. InMemory(State)
      BY DEF SourcesInv, WorldOK
    <3>2. \A s \in Sources : \A n \in DOMAIN funcs[s] : funcs[s][n] \in Refs(State)
      BY StateIs DEF Refs, ValuesOf
    <3>. QED BY <3>1, <3>2, StateIs DEF InMemory
  <2>. QED BY <2>1, <2>2, <2>3, InvLinks, StateIs DEF TypeOK, Alive, SourcesInv, Counts
<1>. QED BY <1>1, SourcesInvHolds, PTL

\* When no call names a function twice: with nothing left to do, every
\* registration Excel holds belongs to a living source that can take it back.
THEOREM NothingUnowned ==
  ASSUME NamesApart PROVE Spec => []OnlyOwned
<1>1. SourcesInv => OnlyOwned
  <2> SUFFICES ASSUME SourcesInv, Settled, NEW i \in DOMAIN book.regs \ (book.refused \cup replaced)
               PROVE  \E s \in Sources : \E n \in DOMAIN funcs[s] :
                        funcs[s][n] = book.regs[i] /\ book.fn[book.regs[i]].id = i
    BY DEF OnlyOwned
  <2>1. Typed(State) /\ OwnedBy(book, Refs(State), replaced)
    BY StateIs DEF SourcesInv, WorldOK
  <2>2. book.regs[i] \in Refs(State) /\ book.fn[book.regs[i]].id = i
    BY <2>1 DEF OwnedBy
  <2>3. loop = {} /\ Work(State) = {}
    BY StateIs, MembersOfNone DEF Settled
  <2>4. Dropped(State) = {} /\ \A s \in Sources : Held(State, s) = ValuesOf(funcs[s])
    BY <2>3, StateIs, HeldIs DEF Dropped
  <2>5. \E s \in Sources : book.regs[i] \in ValuesOf(funcs[s])
    BY <2>1, <2>2, <2>4, RefsAre
  <2>. QED BY <2>2, <2>5 DEF ValuesOf
<1>. QED BY <1>1, SourcesInvHolds, PTL

\* When moreover no unwritten id is that of another function: a name in the
\* registry is registered with Excel, and calls what the registry shows until
\* Excel refuses something or a dangling iterator is followed.
THEOREM RegistryCallable ==
  ASSUME NamesApart, ~StrayIds PROVE Spec => []RegistryIsCallable
<1>1. SourcesInv => RegistryIsCallable
  <2> SUFFICES ASSUME SourcesInv, NEW n \in DOMAIN book.registry
               PROVE  RegisteredByName(n) /\ (Sound => CallsItsOwn(n))
    BY DEF RegistryIsCallable, Sound
  <2>1. Entered(book) /\ IdsMatch(book) /\ (Sound => CallsOwn(book)) /\ Book(book)
    BY StateIs, InvTypes DEF SourcesInv, WorldOK
  <2>2. book.registry[n] \in Objs
    BY <2>1 DEF Book, IsBook
  <2>. QED BY <2>1, <2>2 DEF Entered, IdsMatch, CallsOwn, RegisteredByName, CallsItsOwn
<1>. QED BY <1>1, SourcesInvHolds, PTL

-----------------------------------------------------------------------------
(***************************************************************************)
(* Once every add-in is closed nothing is kept, whatever was opened and in *)
(* whatever order, whichever settings could not be read and whichever      *)
(* plugins failed.  What addinCloseXll tests is that one context is left;  *)
(* the proof is that when the last add-in goes whilst the core is there,   *)
(* the one which is left is the core's.                                    *)
(***************************************************************************)
\* Everything but the core's is the context of an add-in which runs, and the core
\* does not outlive them.
ContextsAreOpen ==
  /\ running \subseteq open /\ open \subseteq Xlls
  /\ contexts \ {Core} \subseteq running
  /\ running = {} => Core \notin contexts

\* A start-up which has connected, and waits for the plugins to be loaded.
Connected == {s \in queued : s.at \in {"xll", "refused"}}

\* Without the core nothing is loaded, nor going to be; and once it has gone only a
\* start-up which has connected since keeps a connection.
CoreHolds ==
  /\ Core \notin contexts => plugins = {} /\ statics = {} /\ toLoad = <<>>
  /\ com => Core \in contexts \/ ~isLoaded \/ Connected # {}

KeptInv == ContextsAreOpen /\ CoreHolds

\* The invariant holds at first.
LEMMA KeptInit == LoaderInit => KeptInv
BY DEF LoaderInit, KeptInv, ContextsAreOpen, CoreHolds

\* Opening an add-in adds its own context and perhaps the core's.
LEMMA OpenKeeps ==
  ASSUME LoadersConstants, KeptInv, NEW x \in Xlls, NEW found \in Found, OpenXll(x, found)
  PROVE  KeptInv'
<1>1. Own(x, found) \subseteq {x}
  BY DEF Own
<1>2. contexts' \ {Core} \subseteq running' /\ running' # {}
  BY <1>1 DEF KeptInv, ContextsAreOpen, OpenXll
<1>3. running' \subseteq open' /\ open' \subseteq Xlls
  BY DEF KeptInv, ContextsAreOpen, OpenXll
<1>4. ContextsAreOpen'
  BY <1>2, <1>3 DEF ContextsAreOpen
<1>5. CASE MakesCore(found)
  <2>1. Core \in contexts'
    BY <1>5 DEF OpenXll
  <2>. QED BY <2>1, <1>4 DEF KeptInv, CoreHolds
<1>6. CASE ~MakesCore(found)
  <2>1. /\ UNCHANGED <<plugins, statics, toLoad, com, isLoaded>>
        /\ contexts' = contexts \cup Own(x, found)
        /\ isLoaded => queued \subseteq queued'
    BY <1>6 DEF OpenXll, NewQueue
  <2>2. Core \in contexts' <=> Core \in contexts
    BY <2>1, <1>1 DEF LoadersConstants
  <2>3. isLoaded => Connected \subseteq Connected'
    BY <2>1 DEF Connected
  <2>4. CoreHolds'
    BY <2>1, <2>2, <2>3 DEF KeptInv, CoreHolds
  <2>. QED BY <2>4, <1>4 DEF KeptInv
<1>. QED BY <1>5, <1>6

\* When the last which runs is closed and the core is there, it is the only one left.
LEMMA CloseKeeps ==
  ASSUME LoadersConstants, KeptInv, NEW x \in Xlls, CloseXll(x)
  PROVE  KeptInv'
<1>1. /\ x # Core /\ running' = running \ {x} /\ running' \subseteq open' /\ open' \subseteq Xlls
      /\ toLoad = <<>> /\ UNCHANGED <<queued, toLoad, isLoaded>>
      /\ Connected' = Connected
  BY DEF LoadersConstants, KeptInv, ContextsAreOpen, CloseXll, LoaderCalm, Connected
<1>2. CASE OnlyCoreLeft(contexts \ {x})
  BY <1>1, <1>2 DEF KeptInv, ContextsAreOpen, CoreHolds, CloseXll
<1>3. CASE ~OnlyCoreLeft(contexts \ {x})
  <2>1. contexts' = contexts \ {x} /\ UNCHANGED <<statics, plugins, com>>
    BY <1>3 DEF CloseXll
  <2>2. contexts' \ {Core} \subseteq running'
    BY <2>1, <1>1 DEF KeptInv, ContextsAreOpen
  <2>3. ASSUME running' = {}, Core \in contexts'
        PROVE  FALSE
    <3>1. contexts \ {x} = {Core}
      BY <2>1, <2>2, <2>3
    <3>. QED BY <3>1, <1>3, FS_Singleton DEF OnlyCoreLeft
  <2>4. ContextsAreOpen'
    BY <1>1, <2>2, <2>3 DEF ContextsAreOpen
  <2>5. CoreHolds'
    BY <2>1, <1>1 DEF KeptInv, CoreHolds
  <2>. QED BY <2>4, <2>5 DEF KeptInv
<1>. QED BY <1>2, <1>3

\* An add-in whose opening threw comes and goes without anything of xlOil's.
LEMMA UnreadKeeps ==
  ASSUME KeptInv, NEW x \in Xlls, OpenUnread(x) \/ CloseUnread(x)
  PROVE  KeptInv'
<1>1. UNCHANGED <<running, contexts, isLoaded, queued, toLoad, plugins, statics, com>>
  BY DEF OpenUnread, CloseUnread
<1>2. running' \subseteq open' /\ open' \subseteq Xlls
  BY <1>1 DEF KeptInv, ContextsAreOpen, OpenUnread, CloseUnread
<1>. QED BY <1>1, <1>2 DEF KeptInv, ContextsAreOpen, CoreHolds, Connected

\* A start-up leaves the contexts alone. Once it has connected it is given up only
\* to load plugins, and that only if the core is there.
LEMMA StartupKeeps ==
  ASSUME KeptInv, NEW s \in Startup,
         \/ Connect(s) \/ ConnectFails(s) \/ ConnectRejected(s)
         \/ Refused(s) \/ TimePasses(s) \/ LoadPlugins(s)
  PROVE  KeptInv'
<1>1. UNCHANGED <<open, running, contexts, isLoaded, plugins, statics>>
  BY DEF Connect, ConnectFails, ConnectRejected, Refused, TimePasses, LoadPlugins, Queue
<1>2. CASE LoadPlugins(s)
  BY <1>1, <1>2 DEF KeptInv, ContextsAreOpen, CoreHolds, LoadPlugins, Dangling
<1>3. ASSUME toLoad' = toLoad, com' => Connected' # {} \/ (com /\ Connected = {})
      PROVE  KeptInv'
  BY <1>1, <1>3 DEF KeptInv, ContextsAreOpen, CoreHolds
<1>4. s.loads \in {Core} \cup Early /\ s = [loads |-> s.loads, at |-> s.at]
  BY DEF Startup
<1>5. ASSUME NEW to, queued' = Moved(s, to)
      PROVE  [loads |-> s.loads, at |-> to] \in queued' /\ queued \ {s} \subseteq queued'
  BY <1>4, <1>5 DEF Moved
<1>6. CASE Connect(s)
  <2>1. [loads |-> s.loads, at |-> "xll"] \in queued'
    BY <1>5, <1>6 DEF Connect, Queue
  <2>2. Connected' # {}
    BY <2>1 DEF Connected
  <2>. QED BY <2>2, <1>3, <1>6 DEF Connect, Queue
<1>7. CASE ConnectFails(s) \/ ConnectRejected(s)
  <2>1. queued \ {s} \subseteq queued' /\ s.at = "com" /\ com' = com /\ toLoad' = toLoad
    BY <1>7, <1>5 DEF ConnectFails, ConnectRejected, Queue, Retried
  <2>2. Connected \subseteq Connected'
    BY <2>1 DEF Connected
  <2>. QED BY <2>1, <2>2, <1>3
<1>8. CASE Refused(s)
  <2>1. [loads |-> s.loads, at |-> "refused"] \in queued' /\ toLoad' = toLoad
    BY <1>5, <1>8 DEF Refused, Queue
  <2>2. Connected' # {}
    BY <2>1 DEF Connected
  <2>. QED BY <2>1, <2>2, <1>3
<1>9. CASE TimePasses(s)
  <2>1. /\ [loads |-> s.loads, at |-> Resumed(s)] \in queued' /\ queued \ {s} \subseteq queued'
        /\ com' = com /\ toLoad' = toLoad /\ s.at \in {"wait", "refused"}
    BY <1>5, <1>9 DEF TimePasses, Queue
  <2>2. CASE s.at = "wait"
    <3>1. Connected \subseteq Connected'
      BY <2>1, <2>2 DEF Connected
    <3>. QED BY <3>1, <2>1, <1>3
  <2>3. CASE s.at = "refused"
    <3>1. Connected' # {}
      BY <2>1, <2>3 DEF Connected, Resumed
    <3>. QED BY <3>1, <2>1, <1>3
  <2>. QED BY <2>1, <2>2, <2>3
<1>. QED BY <1>2, <1>6, <1>7, <1>8, <1>9

\* Plugins are loaded for the core.
LEMMA LoadKeeps ==
  ASSUME KeptInv, NEW outcome, LoadPlugin(outcome)
  PROVE  KeptInv'
<1>1. Core \in contexts /\ UNCHANGED <<open, running, contexts, isLoaded, queued, com>>
  BY DEF KeptInv, CoreHolds, LoadPlugin
<1>. QED BY <1>1 DEF KeptInv, ContextsAreOpen, CoreHolds

\* Each action keeps the invariant, and so does a stutter.
LEMMA KeptStep == LoadersConstants /\ KeptInv /\ [LoaderNext]_loaderVars => KeptInv'
<1>. SUFFICES ASSUME LoadersConstants, KeptInv, [LoaderNext]_loaderVars PROVE KeptInv'
  OBVIOUS
<1>1. ASSUME NEW x \in Xlls, NEW found \in Found, OpenXll(x, found) PROVE KeptInv'
  BY <1>1, OpenKeeps
<1>2. ASSUME NEW x \in Xlls, CloseXll(x) PROVE KeptInv'
  BY <1>2, CloseKeeps
<1>3. ASSUME NEW x \in Xlls, OpenUnread(x) \/ CloseUnread(x) PROVE KeptInv'
  BY <1>3, UnreadKeeps
<1>4. ASSUME Undefined PROVE KeptInv'
  BY <1>4 DEF Undefined, KeptInv, ContextsAreOpen, CoreHolds, Connected
<1>5. ASSUME NEW s \in Startup,
             \/ Connect(s) \/ ConnectFails(s) \/ ConnectRejected(s)
             \/ Refused(s) \/ TimePasses(s) \/ LoadPlugins(s)
      PROVE  KeptInv'
  BY <1>5, StartupKeeps
<1>6. ASSUME NEW outcome \in Outcomes, LoadPlugin(outcome) PROVE KeptInv'
  BY <1>6, LoadKeeps
<1>7. ASSUME Excel \/ UNCHANGED loaderVars PROVE KeptInv'
  BY <1>7 DEF Excel, loaderVars, KeptInv, ContextsAreOpen, CoreHolds, Connected
<1>. QED
  BY <1>1, <1>2, <1>3, <1>4, <1>5, <1>6, <1>7 DEF LoaderNext, OpenWithoutSettings, LoadDangling

\* Once Excel has closed every add-in, xlOil keeps no context, plugin or
\* function, nor a connection to COM unless a start-up is queued or the core was
\* never created (addinCloseXll),
\* for every set of add-ins, every list of plugins and every set of faults.
THEOREM NothingKept == LoaderSpec => []NothingIsKept
<1>1. LoaderInit => KeptInv
  BY KeptInit
<1>2. KeptInv /\ [LoaderNext]_loaderVars => KeptInv'
  BY KeptStep, LoadersConstants
<1>3. KeptInv => NothingIsKept
  BY DEF KeptInv, ContextsAreOpen, CoreHolds, Connected, NothingIsKept
<1>. QED BY <1>1, <1>2, <1>3, PTL DEF LoaderSpec

-----------------------------------------------------------------------------
(***************************************************************************)
(* Until half a chunk has been cut the allocator keeps what is written to  *)
(* it, for every size of chunk and every sequence of calls.  While that is *)
(* so there is one chunk, it always has room for what is asked, so that    *)
(* the free list is never used, and no block is as large as all that is in *)
(* use, so that the chunk is never released.                               *)
(***************************************************************************)
CONSTANTS Units, Signed, Page, Sizes, MaxChunks, MaxAllocs
VARIABLES chunks, free, live, allocs, taken, finds

A == INSTANCE RegionAllocator WITH up <- finds

\* The state of the one chunk: its blocks lie below what has been used, and an
\* allocation fills its block at most.
OneChunk ==
  /\ A!Ages = {1}
  /\ chunks[1].used = taken
  /\ chunks[1].blocks \subseteq Nat
  /\ \A b \in chunks[1].blocks : b < taken
  /\ \A a \in live :
       /\ a.chunk = 1
       /\ a.offset \in chunks[1].blocks
       /\ a.size \in Nat /\ a.offset + a.size <= taken
       /\ \A b \in chunks[1].blocks : b <= a.offset \/ a.offset + a.size <= b
  /\ \A a, b \in live : a = b \/ a.offset # b.offset

EarlyInv ==
  /\ taken \in Nat
  /\ A!Early => \/ A!Ages = {} /\ live = {} /\ free = <<>> /\ taken = 0
              \/ OneChunk

\* The invariant holds at first.
LEMMA EarlyInit == A!Constants /\ A!Init => EarlyInv
BY DEF A!Constants, A!Init, EarlyInv, A!Early, A!Ages

\* A block of n units is cut from the one chunk, or from a new one.
LEMMA CutKeeps ==
  ASSUME A!Constants, EarlyInv, NEW n \in Sizes, NEW chunk,
         A!Early',
         \/ OneChunk /\ chunk = chunks[1]
         \/ A!Ages = {} /\ live = {} /\ taken = 0 /\ chunk = A!NewChunk(n),
         A!AppendBlock(1, chunk, n)
  PROVE  OneChunk'
<1> DEFINE a == [id |-> allocs + 1, chunk |-> 1, offset |-> chunk.used, size |-> n]
<1>1. n \in Nat \ {0} /\ taken \in Nat /\ taken' = taken + n
  BY DEF A!Constants, EarlyInv, A!AppendBlock
<1>2. /\ chunk.used = taken
      /\ chunk.blocks \subseteq Nat
      /\ \A b \in chunk.blocks : b < taken
      /\ A!Ages \subseteq {1}
  BY DEF OneChunk, A!NewChunk
<1>3. /\ A!Ages' = {1}
      /\ chunks'[1].used = taken'
      /\ chunks'[1].blocks = chunk.blocks \cup {taken}
  <2>1. chunks' = [d \in {1} |-> [chunk EXCEPT !.blocks = @ \cup {chunk.used}, !.used = @ + n]]
    BY <1>2 DEF A!AppendBlock
  <2>2. CASE OneChunk /\ chunk = chunks[1]
    <3>1. chunks'[1] = [chunk EXCEPT !.blocks = @ \cup {chunk.used}, !.used = @ + n]
      BY <2>1
    <3>. QED BY <3>1, <2>1, <1>1, <1>2 DEF A!Ages
  <2>3. CASE chunk = A!NewChunk(n)
    BY <2>1, <2>3, <1>1, <1>2 DEF A!Ages, A!NewChunk
  <2>. QED BY <2>2, <2>3
<1>4. live' = live \cup {a}
  BY DEF A!AppendBlock, A!Given
<1>5. \A x \in live : /\ x.chunk = 1
                      /\ x.offset \in chunk.blocks
                      /\ x.size \in Nat /\ x.offset + x.size <= taken
                      /\ \A b \in chunk.blocks : b <= x.offset \/ x.offset + x.size <= b
  BY DEF OneChunk
<1>6. \A x, y \in live : x = y \/ x.offset # y.offset
  BY DEF OneChunk
<1>7. a.chunk = 1 /\ a.offset = taken /\ a.size = n
  BY <1>2
<1> HIDE DEF a
<1>8. \A x \in live' : /\ x.chunk = 1
                       /\ x.offset \in chunks'[1].blocks
                       /\ x.size \in Nat /\ x.offset + x.size <= taken'
                       /\ \A b \in chunks'[1].blocks : b <= x.offset \/ x.offset + x.size <= b
  <2> SUFFICES ASSUME NEW x \in live'
               PROVE  /\ x.chunk = 1
                      /\ x.offset \in chunks'[1].blocks
                      /\ x.size \in Nat /\ x.offset + x.size <= taken'
                      /\ \A b \in chunks'[1].blocks : b <= x.offset \/ x.offset + x.size <= b
    OBVIOUS
  <2>1. CASE x \in live
    BY <2>1, <1>1, <1>2, <1>3, <1>5
  <2>2. CASE x = a
    BY <2>2, <1>1, <1>2, <1>3, <1>7
  <2>. QED BY <2>1, <2>2, <1>4
<1>9. \A x, y \in live' : x = y \/ x.offset # y.offset
  BY <1>1, <1>2, <1>4, <1>5, <1>6, <1>7
<1>10. \A b \in chunks'[1].blocks : b \in Nat /\ b < taken'
  BY <1>1, <1>2, <1>3
<1>. QED BY <1>3, <1>8, <1>9, <1>10 DEF OneChunk

\* Every step keeps the invariant.
LEMMA EarlyStep == A!Constants /\ EarlyInv /\ [A!Next]_A!vars => EarlyInv'
<1> SUFFICES ASSUME A!Constants, EarlyInv, [A!Next]_A!vars PROVE EarlyInv'
    OBVIOUS
<1>1. ASSUME NEW n \in Sizes, A!Alloc(n) PROVE EarlyInv'
  <2>1. n \in Nat \ {0} /\ n <= Signed /\ Signed \in Nat /\ Units = 2 * Signed /\ taken \in Nat
    BY DEF A!Constants, EarlyInv
  <2>2. taken' \in Nat /\ taken <= taken'
    BY <1>1, <2>1 DEF A!Alloc, A!AllocFromChunk, A!AllocFromList, A!AllocFromWindows, A!AppendBlock
  <2> SUFFICES ASSUME A!Early' PROVE OneChunk'
    BY <2>2 DEF EarlyInv
  <2>3. A!Early
    BY <2>1, <2>2 DEF A!Early
  <2>4. CASE OneChunk
    <3>1. A!Newest = 1
      BY <2>4 DEF OneChunk, A!Newest
    <3>2. A!Fits(n)
      BY <2>1, <2>3, <2>4, <3>1 DEF A!Fits, OneChunk, A!Early
    <3>3. A!AppendBlock(1, chunks[1], n)
      BY <1>1, <3>1, <3>2 DEF A!Alloc, A!AllocFromChunk, A!AllocFromList, A!AllocFromWindows
    <3>. QED BY <2>4, <3>3, CutKeeps
  <2>5. CASE A!Ages = {} /\ live = {} /\ free = <<>> /\ taken = 0
    <3>1. ~A!Fits(n) /\ A!Usable(n) = {}
      BY <2>5 DEF A!Fits, A!Usable
    <3>2. A!AppendBlock(1, A!NewChunk(n), n)
      BY <1>1, <2>5, <3>1 DEF A!Alloc, A!AllocFromChunk, A!AllocFromList, A!AllocFromWindows
    <3>. QED BY <2>5, <3>2, CutKeeps
  <2>. QED BY <2>3, <2>4, <2>5 DEF EarlyInv
<1>2. ASSUME NEW a \in live, A!Free(a) PROVE EarlyInv'
  <2>1. taken' = taken /\ live' = live \ {a}
    BY <1>2 DEF A!Free
  <2> SUFFICES ASSUME A!Early PROVE OneChunk'
    BY <2>1 DEF EarlyInv, A!Early
  <2>2. OneChunk
    BY DEF EarlyInv
  <2>3. a.chunk = 1 /\ a.offset \in chunks[1].blocks /\ a.offset \in Nat /\ a.offset < taken
    BY <2>2 DEF OneChunk
  <2>4. PICK size \in A!SizesOf(chunks[1].blocks, a.offset) :
          /\ A!IsSize(chunks[1].blocks, a.offset, size)
          /\ \/ chunks[1].used = size
             \/ UNCHANGED chunks
    BY <1>2, <2>3 DEF A!Free
  <2>5. chunks[1].used # size
    <3>1. taken \in Nat /\ taken <= Signed /\ Signed \in Nat /\ Units = 2 * Signed /\ chunks[1].used = taken
      BY <2>2 DEF A!Constants, EarlyInv, A!Early, OneChunk
    <3>2. size \in Int
      BY <2>2, <2>3, <3>1 DEF A!SizesOf, OneChunk
    <3>3. CASE a.offset + size = Units
      BY <3>1, <3>2, <3>3, <2>3
    <3>4. CASE a.offset + size \in chunks[1].blocks
      <4>1. a.offset + size < taken
        BY <2>2, <3>4 DEF OneChunk
      <4>. QED BY <4>1, <3>1, <3>2, <2>3
    <3>. QED BY <2>4, <3>3, <3>4 DEF A!IsSize
  <2>6. UNCHANGED chunks
    BY <2>4, <2>5
  <2>. QED BY <2>1, <2>2, <2>6 DEF OneChunk, A!Ages
<1>3. ASSUME NEW a \in live, A!FreeUnfound(a) PROVE EarlyInv'
  BY <1>3 DEF A!FreeUnfound, EarlyInv, A!Early, OneChunk, A!Ages
<1>4. CASE UNCHANGED A!vars
  BY <1>4 DEF A!vars, EarlyInv, A!Early, OneChunk, A!Ages
<1>. QED BY <1>1, <1>2, <1>3, <1>4 DEF A!Next

\* The invariant keeps blocks apart and within their chunks.
LEMMA EarlyKeeps == EarlyInv => A!KeepsContentsEarly
<1> SUFFICES ASSUME EarlyInv, A!Early PROVE A!KeepsContents
    BY DEF A!KeepsContentsEarly
<1>1. CASE live = {}
  BY <1>1 DEF A!KeepsContents
<1>2. CASE OneChunk
  <2>1. \A a \in live : a.chunk \in A!Ages
    BY <1>2 DEF OneChunk
  <2>2. ASSUME NEW a \in live, NEW b \in live, a # b PROVE A!Apart(a, b)
    <3>1. a.offset \in Nat /\ b.offset \in Nat /\ a.offset # b.offset /\ a.size \in Nat /\ b.size \in Nat
      BY <1>2, <2>2 DEF OneChunk
    <3>2. b.offset <= a.offset \/ a.offset + a.size <= b.offset
      BY <1>2 DEF OneChunk
    <3>3. a.offset <= b.offset \/ b.offset + b.size <= a.offset
      BY <1>2 DEF OneChunk
    <3>. QED BY <3>1, <3>2, <3>3 DEF A!Apart
  <2>. QED BY <2>1, <2>2 DEF A!KeepsContents
<1>. QED BY <1>1, <1>2 DEF EarlyInv

\* No allocation overlaps another, and none is in a chunk that was released,
\* until half a chunk has been cut (ExternalRegionAllocator.h).
THEOREM AllocatorKeepsContents ==
  ASSUME A!Constants PROVE A!Spec => []A!KeepsContentsEarly
<1>1. A!Init => EarlyInv
  BY EarlyInit
<1>2. EarlyInv /\ [A!Next]_A!vars => EarlyInv'
  BY EarlyStep
<1>3. EarlyInv => A!KeepsContentsEarly
  BY EarlyKeeps
<1>. QED BY <1>1, <1>2, <1>3, PTL DEF A!Spec
=============================================================================
