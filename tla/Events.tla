------------------------------- MODULE Events -------------------------------
(***************************************************************************)
(* An event of xlOil with handlers in C++ and in Python: Event             *)
(* (include/xloil/Events.h) and PyEvent (xlOil_Python/PyEvents.cpp), which *)
(* hooks the former for as long as it has handlers of its own.             *)
(*                                                                         *)
(* The main thread fires; Python code, in a handler or on a thread of its  *)
(* own, hooks functions, unhooks them and drops its references to them.    *)
(* PyEvent has weak references: a function goes with its last strong one.  *)
(***************************************************************************)
EXTENDS Naturals, Sequences, SequencesExt

CONSTANTS
  Funcs,       \* functions which Python code hooks
  Methods,     \* those which are bound methods
  MaxHooks,    \* bound: how many references are in the list at a time
  Binders,     \* objects which bind a handler in C++
  Addresses,   \* where the nodes of the core's list may be allocated
  Nowhere,     \* no address
  Py           \* stands for PyEvent among the core's handlers

ASSUME EventConstants ==
  /\ Methods \subseteq Funcs /\ MaxHooks \in Nat
  /\ Nowhere \notin Addresses /\ Py \notin Binders

VARIABLES
  handlers,    \* Event::_handlers: where a node is and whose handler it holds
  pyHandlers,  \* PyEvent::_handlers
  core,        \* _coreEventHandler
  held,        \* functions to which Python code has a strong reference
  bound,       \* where a binder's handler is
  copy,        \* what fire() has yet to call
  at,          \* fire(): idle, core (in its loop), list, call or ended (in PyEvent's loop)
  pos,         \* where PyEvent's loop is in pyHandlers
  called,      \* references called in this firing
  due,         \* references hooked since before it, which nothing exempts
  dismissed,   \* those whose function was unhooked with -=
  disturbed    \* whether clear(), or -= with no function hooked, may have left somebody with
               \* the address of a node which has gone

vars == <<handlers, pyHandlers, core, held, bound, copy, at, pos, called, due, dismissed, disturbed>>
firing == <<copy, at, pos, called>>

\* The weak references in PyEvent's list: each hooking makes another one.
References == [to : Funcs, nth : 1..MaxHooks]
Reference(f, n) == [to |-> f, nth |-> n]

Init ==
  /\ handlers = <<>> /\ pyHandlers = <<>>
  /\ core \in Addresses \union {Nowhere}
  /\ held = Funcs
  /\ bound = [b \in Binders |-> Nowhere]
  /\ copy = <<>> /\ at = "idle" /\ pos = 0 /\ called = <<>> /\ due = {} /\ dismissed = {}
  /\ disturbed = FALSE

Elements(s) == {s[i] : i \in DOMAIN s}
Free == Addresses \ {n.addr : n \in Elements(handlers)}
Node(a, who) == [addr |-> a, who |-> who]

\* operator-= of Event: whichever node is at that address, where no two of them are
Removed(a) ==
  IF \A j \in DOMAIN handlers : handlers[j].addr # a THEN handlers
  ELSE RemoveAt(handlers, CHOOSE j \in DOMAIN handlers : handlers[j].addr = a)

\* A function which is being called is kept by the loop. One which nobody keeps, unless it
\* is a method, has its references taken off the list before anybody else has the GIL.
InCall(f) == at = "call" /\ pyHandlers[pos].to = f
Dead(r) == r.to \notin held \union Methods /\ ~InCall(r.to)
NoneDead == \A i \in DOMAIN pyHandlers : ~Dead(pyHandlers[i])

\* PyEvent's loop keeps the GIL but whilst it calls a function.
GilFree == at \notin {"list", "ended"} /\ NoneDead

-----------------------------------------------------------------------------
(***************************************************************************)
(* Handlers of the core.                                                   *)
(***************************************************************************)
Bind(b) ==
  /\ bound[b] = Nowhere
  /\ \E a \in Free :
       /\ bound' = [bound EXCEPT ![b] = a]
       /\ handlers' = Append(handlers, Node(a, b))
  /\ UNCHANGED <<pyHandlers, core, held, firing, due, dismissed, disturbed>>

\* The shared_ptr which bind() returned goes.
Unbind(b) ==
  /\ bound[b] # Nowhere
  /\ handlers' = Removed(bound[b])
  /\ bound' = [bound EXCEPT ![b] = Nowhere]
  /\ UNCHANGED <<pyHandlers, core, held, firing, due, dismissed, disturbed>>

\* PyEvent::clear() clears the core's list only.
Clear ==
  /\ GilFree
  /\ handlers' = <<>>
  /\ due' = {}
  /\ disturbed' = (disturbed \/ handlers # <<>>)
  /\ UNCHANGED <<pyHandlers, core, held, bound, firing, dismissed>>

-----------------------------------------------------------------------------
(***************************************************************************)
(* Handlers in Python, with the GIL.                                       *)
(***************************************************************************)
\* Fault: the core's event is hooked for each function.
FirstAlways == TRUE

First == pyHandlers = <<>>

Unused == 1..MaxHooks \ {r.nth : r \in Elements(pyHandlers)}

\* add(): another reference, whether or not the function is hooked already
Hook(f) ==
  /\ GilFree /\ f \in held
  /\ \E n \in Unused :
       /\ \A k \in Unused : n <= k
       /\ pyHandlers' = Append(pyHandlers, Reference(f, n))
  /\ \/ First /\ \E a \in Free : core' = a /\ handlers' = Append(handlers, Node(a, Py))
     \/ ~First /\ UNCHANGED <<core, handlers>>
  /\ UNCHANGED <<held, bound, firing, due, dismissed, disturbed>>

\* Fault: the core's event is unhooked whatever else is hooked.
UnhookedAlways(list) == handlers' = Removed(core)

\* With no function left the core's event is unhooked, wherever core points now.
Unhooked(list) == handlers' = IF list = <<>> THEN Removed(core) ELSE handlers

\* Fault: the loop's place is the same after a removal.
PlaceUnmoved(i) == {pos}

\* Where PyEvent's loop is once the node at i has gone: a list's other nodes stay
\* where they are, but its own has no next one, and anything may follow.
Place(i) ==
  IF at \notin {"call", "ended"} \/ i > pos THEN {pos}
  ELSE IF i < pos THEN {pos - 1}
  ELSE 0..Len(pyHandlers) - 1

\* The last strong reference goes.
Drop(f) ==
  /\ GilFree /\ f \in held
  /\ held' = held \ {f}
  /\ due' = IF InCall(f) THEN {} ELSE {r \in due : r.to # f}
  /\ UNCHANGED <<handlers, pyHandlers, core, bound, firing, dismissed, disturbed>>

\* _refRemover is called for one of its references, and it calls remove().
Forget(i) ==
  LET list == RemoveAt(pyHandlers, i) IN
  /\ Dead(pyHandlers[i])
  /\ pyHandlers' = list
  /\ Unhooked(list)
  /\ pos' \in Place(i)
  /\ dismissed' = dismissed \ {pyHandlers[i]}
  /\ UNCHANGED <<core, held, bound, copy, at, called, due, disturbed>>

\* -=: the list's remove() compares weak references by identity (pybind11's ==), and
\* the one made of the function is not in the list. With nothing in the list the core's
\* event is unhooked all the same.
Unhook(f) ==
  /\ GilFree /\ f \in held
  /\ Unhooked(pyHandlers)
  /\ dismissed' = dismissed \union {r \in Elements(pyHandlers) : r.to = f}
  /\ due' = {r \in due : r.to # f}
  /\ disturbed' = (disturbed \/ handlers' # handlers)
  /\ UNCHANGED <<pyHandlers, core, held, bound, firing>>

-----------------------------------------------------------------------------
(***************************************************************************)
(* Event::fire() on the main thread.                                       *)
(***************************************************************************)
Fire ==
  /\ at = "idle" /\ handlers # <<>>
  /\ copy' = [i \in DOMAIN handlers |-> handlers[i].who]
  /\ at' = "core" /\ called' = <<>>
  /\ due' = IF disturbed THEN {} ELSE {r \in Elements(pyHandlers) \ dismissed : r.to \in held}
  /\ UNCHANGED <<handlers, pyHandlers, core, held, bound, pos, dismissed, disturbed>>

\* Fault: the loop ends at a reference which is dead.
SkippedRest == Len(pyHandlers) + 1

Skipped == pos + 1

\* A handler in C++, or PyEvent::fire, which takes the GIL
CallCore ==
  /\ at = "core" /\ copy # <<>>
  /\ copy' = Tail(copy)
  /\ \/ Head(copy) = Py /\ NoneDead /\ at' = "list" /\ pos' = 1
     \/ Head(copy) # Py /\ UNCHANGED <<at, pos>>
  /\ UNCHANGED <<handlers, pyHandlers, core, held, bound, called, due, dismissed, disturbed>>

\* and calls a function which still exists, during which others may have the GIL.
CallPy ==
  /\ at = "list" /\ pos \in DOMAIN pyHandlers
  /\ \/ /\ pyHandlers[pos].to \in held
        /\ at' = "call" /\ called' = Append(called, pyHandlers[pos])
        /\ UNCHANGED pos
     \/ /\ pyHandlers[pos].to \notin held
        /\ pos' = Skipped
        /\ UNCHANGED <<at, called>>
  /\ UNCHANGED <<handlers, pyHandlers, core, held, bound, copy, due, dismissed, disturbed>>

\* It returns. If its last reference was dropped meanwhile it goes here.
Return ==
  /\ at = "call" /\ NoneDead
  /\ \/ pyHandlers[pos].to \in held \union Methods /\ at' = "list" /\ pos' = pos + 1
     \/ pyHandlers[pos].to \notin held \union Methods /\ at' = "ended" /\ UNCHANGED pos
  /\ UNCHANGED <<handlers, pyHandlers, core, held, bound, copy, called, due, dismissed, disturbed>>

\* The loop goes on from a node which has gone.
GoOn ==
  /\ at = "ended" /\ NoneDead
  /\ at' = "list" /\ pos' = pos + 1
  /\ UNCHANGED <<handlers, pyHandlers, core, held, bound, copy, called, due, dismissed, disturbed>>

\* It raises: the loop is left. Who has the exception may keep the function for longer.
Raise ==
  /\ at = "call" /\ NoneDead
  /\ at' = "core" /\ pos' = 0 /\ due' = {}
  /\ UNCHANGED <<handlers, pyHandlers, core, held, bound, copy, called, dismissed, disturbed>>

EndList ==
  /\ at = "list" /\ pos \notin DOMAIN pyHandlers
  /\ at' = "core" /\ pos' = 0
  /\ UNCHANGED <<handlers, pyHandlers, core, held, bound, copy, called, due, dismissed, disturbed>>

EndFire ==
  /\ at = "core" /\ copy = <<>>
  /\ at' = "idle"
  /\ called' = <<>> /\ due' = {}
  /\ UNCHANGED <<handlers, pyHandlers, core, held, bound, copy, pos, dismissed, disturbed>>

Firing == Fire \/ CallCore \/ CallPy \/ Return \/ GoOn \/ Raise \/ EndList \/ EndFire

Next ==
  \/ Firing
  \/ \E b \in Binders : Bind(b) \/ Unbind(b)
  \/ \E f \in Funcs : Hook(f) \/ Unhook(f) \/ Drop(f)
  \/ \E i \in DOMAIN pyHandlers : Forget(i)
  \/ Clear

Spec == Init /\ [][Next]_vars
=============================================================================
