---------------------------- MODULE FuncRegistry ----------------------------
(***************************************************************************)
(* What xlOil and Excel know of the worksheet functions: the function      *)
(* objects (RegisteredWorksheetFunc, FuncRegistry.cpp; RegisteredCallback, *)
(* DynamicRegistration.cpp), the registry of them by name, the             *)
(* registrations Excel holds and the name each is called by.  The four are *)
(* one record, a "book", and every operator takes a book to a book: the    *)
(* modules which keep a book as their state say when each is applied.      *)
(*                                                                         *)
(* Excel may refuse to register a function and may refuse to unregister    *)
(* one: both come as an argument.                                          *)
(***************************************************************************)
EXTENDS Naturals, FiniteSets

CONSTANTS Names,   \* the names a function may have
          Infos,   \* what its FuncInfo says: [shape: argument count and
                   \* options, text: everything else that is compared]
          Objs,    \* memory for function objects and their thunks
          MaxIds   \* bound: registrations Excel holds at once

Freed == "freed"                       \* a registration of a thunk freed since

ASSUME BookConstants ==
  /\ IsFiniteSet(Names) /\ "" \notin Names
  /\ Freed \notin Objs
  /\ MaxIds \in Nat

Ids == 1..MaxIds
NoId == 0
NoFunc == [name |-> "", id |-> NoId]   \* memory not in use

Put(f, k, v) == [x \in DOMAIN f \cup {k} |-> IF x = k THEN v ELSE f[x]]
Minus(f, ks) == [x \in DOMAIN f \ ks |-> f[x]]
Empty == [x \in {} |-> x]

\* fn: the objects; registry: theRegistry; regs: what Excel's registrations
\* point to; bound: the registration a name calls; refused: those which Excel
\* would not give up.
EmptyBook == [fn |-> [o \in Objs |-> NoFunc], registry |-> Empty,
              regs |-> Empty, bound |-> Empty, refused |-> {}]

IsBook(b) ==
  /\ b.fn \in [Objs -> {NoFunc} \cup [name: Names, info: Infos, id: Ids \cup {NoId}]]
  /\ DOMAIN b.registry \subseteq Names
  /\ \A n \in DOMAIN b.registry : b.registry[n] \in Objs
  /\ DOMAIN b.regs \subseteq Ids
  /\ \A i \in DOMAIN b.regs : b.regs[i] \in Objs \cup {Freed}
  /\ DOMAIN b.bound \subseteq Names
  /\ \A n \in DOMAIN b.bound : b.bound[n] \in Ids
  /\ b.refused \subseteq Ids

Live(b, o) == b.fn[o] # NoFunc

\* Memory and ids are left for another function: both are bounds.
Room(b) == {o \in Objs : ~Live(b, o)} # {} /\ Ids \ DOMAIN b.regs # {}

\* Excel gives an id not in use, and the name now calls this registration.
EnterExcel(b, o) ==
  LET i == CHOOSE k \in Ids : k \notin DOMAIN b.regs
  IN [b EXCEPT !.regs = Put(@, i, o),
               !.bound = Put(@, b.fn[o].name, i),
               !.fn[o].id = i]

CanDeregister(b, o, refuses) == b.fn[o].id # NoId /\ b.fn[o].name \notin refuses

\* What deregistering functions comes to: the ids and the names which go, and
\* the ids which Excel keeps.
Given(b, os, refuses) == {o \in os : CanDeregister(b, o, refuses)}
IdsOf(b, os) == {b.fn[o].id : o \in os} \ {NoId}
NamesOf(b, os) == {b.fn[o].name : o \in os}

\* RegisteredWorksheetFunc::deregister, for each of os: a function that has no
\* id, or that Excel keeps, is left as it is; otherwise its name is unset
\* whatever it calls ...
Unregister(b, os, refuses) ==
  LET gone == Given(b, os, refuses)
  IN [b EXCEPT !.regs = Minus(@, IdsOf(b, gone)),
               !.bound = Minus(@, NamesOf(b, gone)),
               !.fn = [o \in Objs |-> IF o \in gone THEN [b.fn[o] EXCEPT !.id = NoId] ELSE b.fn[o]],
               !.refused = (@ \cup IdsOf(b, os)) \ IdsOf(b, gone)]

\* Fault for the property checks: the registry keeps its entries.
KeepsEntry(b, os, refuses) == Unregister(b, os, refuses)

\* ... and whatever the registry holds under it is removed.
Deregister(b, os, refuses) ==
  [Unregister(b, os, refuses) EXCEPT !.registry = Minus(@, NamesOf(b, Given(b, os, refuses)))]

\* FunctionRegistry::add and the constructors below it fail for a name which
\* the registry holds, and when Excel refuses.
CanAdd(b, f, unable) == f.name \notin DOMAIN b.registry /\ f.name \notin unable

NewObj(b) == CHOOSE o \in Objs : ~Live(b, o)
Made(b, f) == [b EXCEPT !.fn[NewObj(b)] = [name |-> f.name, info |-> f.info, id |-> NoId]]
Add(b, f) == [EnterExcel(Made(b, f), NewObj(b)) EXCEPT !.registry = Put(@, f.name, NewObj(b))]

\* ~RegisteredWorksheetFunc of a constructor that failed reads an id nobody
\* has written: Excel may be told to give up another function's registration.
Stray(b, i) == [b EXCEPT !.regs = Minus(@, {i})]

\* RegisteredCallback::reregister: the thunk is patched and the object takes
\* the new FuncInfo; unless it says the same, the function is taken out of
\* Excel and put back, but not put back into the registry.
Patched(b, o, info) == [b EXCEPT !.fn[o].info = info]
CanPatch(b, o, info) == b.fn[o].info.shape = info.shape
Says(b, o, info) == b.fn[o].info = info
\* ... and when Excel will not take it back
FailReregister(b, o, info, refuses) == Deregister(Patched(b, o, info), {o}, refuses)
Reregister(b, o, info, refuses) == EnterExcel(FailReregister(b, o, info, refuses), o)

\* The last references to objects go: their thunks are freed, and then the
\* functions are deregistered.
Destroy(b, os, refuses) ==
  LET d == Deregister(b, os, refuses)
  IN [d EXCEPT !.fn = [o \in Objs |-> IF o \in os THEN NoFunc ELSE d.fn[o]],
               !.regs = [i \in DOMAIN d.regs |-> IF d.regs[i] \in os THEN Freed ELSE d.regs[i]]]

\* Everything neither the registry nor the given set refers to is destroyed,
\* and then what the registry alone referred to under the names which went.
Unheld(b, refs) ==
  {o \in Objs : Live(b, o) /\ o \notin refs /\ \A n \in DOMAIN b.registry : b.registry[n] # o}
Sweep(b, refs, refuses) ==
  LET once == Destroy(b, Unheld(b, refs), refuses)
  IN Destroy(once, Unheld(once, refs), refuses)

=============================================================================
