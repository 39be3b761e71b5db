-------------------------- MODULE FuncSourcesProps --------------------------
(* What the sources and the registry promise (FuncSources.tla).            *)
EXTENDS FuncSources

Settled == jobs = <<>> /\ stack = <<>> /\ loop = {}
Alive(s) == origin[s] # NoPath

\* Every part of the state has its type; a source which the add-in lists, a
\* job holds or a registration is under way for is alive, and only living
\* sources have functions.
TypeOK ==
  /\ IsBook(book)
  /\ origin \in [Sources -> Paths \cup {NoPath}]
  /\ \A s \in Sources : DOMAIN funcs[s] \subseteq Names /\ ValuesOf(funcs[s]) \subseteq Objs
  /\ \A s \in Sources : ~Alive(s) => funcs[s] = Empty
  /\ \A p \in DOMAIN listed : p \in Paths /\ listed[p] \in Sources /\ origin[listed[p]] = p
  /\ \A j \in Members(jobs) \cup Members(stack) : Holds(j) => Alive(j.src)
  /\ \A l \in loop : Alive(l.src)
  /\ \A s \in Sources : \A n \in DOMAIN funcs[s] : Live(book, funcs[s][n])
  /\ up \in {"sound", "astray", "down"} /\ closed \in BOOLEAN /\ replaced \subseteq Ids
  /\ calls \in 0..MaxCalls /\ refusals \in 0..MaxRefusals /\ defers \in 0..MaxDefers

\* A name in the registry can be called: its object is in memory and registered
\* with Excel under the id it believes, and the name calls something.
RegisteredByName(n) ==
  LET f == book.fn[book.registry[n]]
  IN /\ f # NoFunc /\ f.name = n /\ f.id # NoId
     /\ f.id \in DOMAIN book.regs /\ book.regs[f.id] = book.registry[n]
     /\ n \in DOMAIN book.bound

\* What Excel calls for a name in the registry is the function registered there.
CallsItsOwn(n) == book.bound[n] = book.fn[book.registry[n]].id

\* Reloads, re-registrations that patch, replace or fail, sources that die and
\* Excel's refusals leave every name in the registry registered; until Excel
\* refuses something or a dangling iterator is followed, the name calls what
\* the registry shows for it (FuncRegistry.cpp: registeredFuncsByName).
RegistryIsCallable ==
  \A n \in DOMAIN book.registry :
    RegisteredByName(n) /\ (refusals = 0 /\ up = "sound" => CallsItsOwn(n))

\* When the main thread has nothing left to do, every registration Excel holds
\* belongs to a living source that can still take it back, whether its path was
\* deleted, closed, renamed or reloaded; all but those Excel refused to give up
\* and those a replacing call forgot (EveryReplacedGoes below).
OnlyOwned ==
  up # "down" /\ Settled =>
    \A i \in DOMAIN book.regs \ (book.refused \cup replaced) :
      \E s \in Sources : \E n \in DOMAIN funcs[s] :
        funcs[s][n] = book.regs[i] /\ book.fn[book.regs[i]].id = i

-----------------------------------------------------------------------------
(* Refuted with the constants the README gives for each.                   *)

\* "If this function is called a second time it replaces all currently
\* registered functions unless append is true" (Interface.h:43): what the call
\* does not name stays registered.
EveryReplacedGoes == up # "down" /\ Settled => replaced = {}

\* No iterator is followed after the map it points into was rebuilt.
NoDanglingIterator == up = "sound"

\* A living source's functions can be called, when Excel has refused nothing.
HeldIsCallable ==
  refusals = 0 /\ up = "sound" =>
    \A s \in Sources : \A n \in DOMAIN funcs[s] :
      LET f == book.fn[funcs[s][n]]
      IN f.id # NoId => n \in DOMAIN book.bound /\ book.bound[n] = f.id

\* Every listed source has the functions of its last scan, or at least one.
ListedHasFunctions ==
  refusals = 0 /\ up = "sound" /\ Settled =>
    \A p \in DOMAIN listed : funcs[listed[p]] # Empty

\* Functions registered without a module stay until the add-in is closed.
AnonStays ==
  closed \/ \A j \in Members(jobs) \cup Members(stack) : j.kind = "drop" => j.path # Anon

\* A name in the registry calls what the registry shows, whatever Excel refuses.
AlwaysCallsItsOwn == \A n \in DOMAIN book.registry : CallsItsOwn(n)

\* No registration points to a thunk that was freed.
NoFreedThunk == \A i \in DOMAIN book.regs : book.regs[i] # Freed

=============================================================================
