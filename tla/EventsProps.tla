---------------------------- MODULE EventsProps ----------------------------
(***************************************************************************)
(* What handlers of events may rely on.                                    *)
(***************************************************************************)
EXTENDS Events, FiniteSets

\* Every variable holds what the code may put there.
TypeOK ==
  /\ handlers \in Seq([addr : Addresses, who : Binders \union {Py}])
  /\ pyHandlers \in Seq(References) /\ held \subseteq Funcs
  /\ core \in Addresses \union {Nowhere}
  /\ bound \in [Binders -> Addresses \union {Nowhere}]
  /\ copy \in Seq(Binders \union {Py})
  /\ at \in {"idle", "core", "list", "call", "ended"}
  /\ pos \in 0..Len(pyHandlers) + 1
  /\ at = "call" => pos \in DOMAIN pyHandlers
  /\ at = "ended" => pos <= Len(pyHandlers)
  /\ called \in Seq(References) /\ due \subseteq References /\ dismissed \subseteq References
  /\ disturbed \in BOOLEAN

\* PyEvents.cpp:138: whatever is hooked, dropped and taken off the list while an event fires,
\* each hooking made before it, of a function which exists still and was not unhooked with -=,
\* has led to one call in the end, unless an earlier function has raised, or one lost its last
\* reference while it ran, or the event was disturbed. What -= does not do is NoneDismissed.
CalledOnce ==
  at = "core" /\ copy = <<>> =>
    \A r \in due : Cardinality({i \in DOMAIN called : called[i] = r}) = 1

\* PyEvents.cpp:97,119: PyEvent is hooked to the core's event, once, if and only if it
\* has functions, and takes nobody else's handler away, unless clear() or a
\* needless -= has left it, or somebody, with a stale address.
HookedOnce ==
  ~disturbed =>
    /\ Cardinality({i \in DOMAIN handlers : handlers[i].who = Py}) =
         (IF pyHandlers = <<>> THEN 0 ELSE 1)
    /\ \A i \in DOMAIN handlers : handlers[i].who = Py => handlers[i].addr = core

\* Events.h:94, PyEvents.cpp:119: a binder's handler stays until the binder lets it go, but
\* for what clear() takes, a -= with no function hooked, and whoever either has left with the
\* address of a node which has gone: addresses are used again. NoneTaken denies the second.
BinderKept ==
  [][~disturbed' => \A n \in Elements(handlers) :
        n.who # Py /\ n \notin Elements(handlers') => bound'[n.who] = Nowhere]_vars

(***************************************************************************)
(* What documents and comments say, and TLC refutes (README).              *)
(***************************************************************************)
\* PyEvents.cpp:234: "Events are unhooked using `-=` passing a reference to the handler
\* function": what was unhooked is not called. The code never takes it off the list.
NoneDismissed == [][at = "list" /\ at' = "call" => pyHandlers[pos] \notin dismissed]_vars

\* PyEvents.cpp:118: "Unhook ourselves from the core": before the event is disturbed, and
\* but for clear(), which takes all, only a binder takes its handler off. The code has -=
\* take whatever is at the address which PyEvent's own handler once had.
NoneTaken ==
  [][~disturbed /\ handlers' # <<>> => \A n \in Elements(handlers) :
        n.who # Py /\ n \notin Elements(handlers') => bound'[n.who] = Nowhere]_vars

-----------------------------------------------------------------------------
(***************************************************************************)
(* Why: the invariant which the proofs of EventsProofs rest on.            *)
(***************************************************************************)
Single(x, s) == \E i \in DOMAIN s : s[i] = x /\ \A j \in DOMAIN s : s[j] = x => j = i

\* No two nodes are at one address and no reference is in the list twice.
Apart ==
  /\ \A i, j \in DOMAIN handlers : handlers[i].addr = handlers[j].addr => i = j
  /\ \A i, j \in DOMAIN pyHandlers : pyHandlers[i] = pyHandlers[j] => i = j

\* Who has a handler knows where its node is.
Addressed ==
  ~disturbed =>
    /\ \A n \in Elements(handlers) : n.addr = IF n.who = Py THEN core ELSE bound[n.who]
    /\ \A b \in Binders : bound[b] # Nowhere => \E n \in Elements(handlers) : n.who = b
    /\ pyHandlers # <<>> <=> \E n \in Elements(handlers) : n.who = Py

\* Between firings, and outside PyEvent's loop, nothing is left of one.
Rests ==
  /\ at \in {"idle", "core"} => pos = 0
  /\ at = "idle" => copy = <<>> /\ called = <<>> /\ due = {}
  /\ at \in {"list", "call"} => pos > 0

\* Nobody's references are still to be forgotten whilst the loop goes from one to the next.
Swept == at = "list" => NoneDead

\* References which are due are there to be called, and the loop has lost its place only
\* when none are.
Callable ==
  /\ \A r \in due : r.to \in held /\ r \in Elements(pyHandlers)
  /\ at = "call" /\ pyHandlers[pos].to \notin held \union Methods => due = {}
  /\ at = "ended" => due = {}

\* PyEvent is still to be called, once, or has been, or is being: then as much of its
\* list is done as its loop has passed.
Passed(i) == i < pos \/ (at = "call" /\ i = pos)
ToCome == at = "core" /\ called = <<>> /\ Single(Py, copy)
Done == at = "core" /\ Py \notin Elements(copy) /\ \A f \in due : Single(f, called)
UnderWay ==
  /\ at \in {"list", "call"} /\ Py \notin Elements(copy)
  /\ \A i \in DOMAIN pyHandlers : pyHandlers[i] \in due =>
       IF Passed(i) THEN Single(pyHandlers[i], called) ELSE pyHandlers[i] \notin Elements(called)
Progress == due # {} => ToCome \/ Done \/ UnderWay

ShapeInv == TypeOK /\ Apart /\ Rests /\ Swept
HookInv == ShapeInv /\ Addressed
FiringInv == HookInv /\ Callable /\ Progress
=============================================================================
