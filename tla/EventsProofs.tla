---------------------------- MODULE EventsProofs ----------------------------
(***************************************************************************)
(* Proofs about events, for every set of functions, binders and addresses: *)
(* the types, that PyEvent is hooked exactly once whilst it has functions, *)
(* that nobody takes another's handler away until the event is disturbed,  *)
(* and that what stays hooked throughout a firing is called exactly once.  *)
(***************************************************************************)
EXTENDS EventsProps, SequenceTheorems, FiniteSetTheorems, TLAPS

-----------------------------------------------------------------------------
(***************************************************************************)
(* Sequences.                                                              *)
(***************************************************************************)
\* What is left of a sequence without the element at k, and where.
LEMMA RemoveAtPlaces ==
  ASSUME NEW S, NEW s \in Seq(S), NEW k \in DOMAIN s
  PROVE  /\ RemoveAt(s, k) \in Seq(S)
         /\ Len(RemoveAt(s, k)) = Len(s) - 1
         /\ \A j \in DOMAIN RemoveAt(s, k) :
              RemoveAt(s, k)[j] = IF j < k THEN s[j] ELSE s[j + 1]
<1>1. Len(s) \in Nat /\ k \in 1..Len(s) /\ \A i \in 1..Len(s) : s[i] \in S
  OBVIOUS
<1>. DEFINE l == SubSeq(s, 1, k - 1)
            r == SubSeq(s, k + 1, Len(s))
<1>2. l \in Seq(S) /\ Len(l) = k - 1 /\ \A i \in 1..k - 1 : l[i] = s[i]
  BY <1>1, SubSeqProperties
<1>3. r \in Seq(S) /\ Len(r) = Len(s) - k /\ \A i \in 1..Len(s) - k : r[i] = s[k + i]
  BY <1>1, SubSeqProperties
<1>4. RemoveAt(s, k) = l \o r
  BY DEF RemoveAt
<1>. HIDE DEF l, r
<1>5. /\ l \o r \in Seq(S) /\ Len(l \o r) = Len(l) + Len(r)
      /\ \A j \in 1..Len(l) + Len(r) : (l \o r)[j] = IF j <= Len(l) THEN l[j] ELSE r[j - Len(l)]
  BY <1>2, <1>3, ConcatProperties
<1>6. Len(l) + Len(r) = Len(s) - 1 /\ DOMAIN (l \o r) = 1..Len(s) - 1
  BY <1>1, <1>2, <1>3, <1>5
<1>7. ASSUME NEW j \in 1..Len(s) - 1 PROVE (l \o r)[j] = IF j < k THEN s[j] ELSE s[j + 1]
  <2>1. CASE j < k
    <3>1. j \in 1..k - 1 /\ j <= Len(l) /\ j \in 1..Len(l) + Len(r)
      BY <1>1, <1>2, <1>6, <2>1
    <3>2. (l \o r)[j] = l[j]
      BY <1>5, <3>1
    <3>3. l[j] = s[j]
      BY <1>2, <3>1
    <3>. QED BY <2>1, <3>2, <3>3
  <2>2. CASE ~(j < k)
    <3>. DEFINE n == j - (k - 1)
    <3>1. /\ ~(j <= Len(l)) /\ n \in 1..Len(s) - k /\ k + n = j + 1
          /\ j - Len(l) = n /\ j \in 1..Len(l) + Len(r)
      BY <1>1, <1>2, <1>6, <2>2
    <3>. HIDE DEF n
    <3>2. (l \o r)[j] = r[n]
      BY <1>5, <3>1
    <3>3. r[n] = s[j + 1]
      BY <1>3, <3>1
    <3>. QED BY <2>2, <3>2, <3>3
  <2>. QED BY <2>1, <2>2
<1>. QED BY <1>1, <1>4, <1>5, <1>6, <1>7

\* The other elements are left, and no more than they.
LEMMA RemoveAtElements ==
  ASSUME NEW S, NEW s \in Seq(S), NEW k \in DOMAIN s
  PROVE  /\ \A i \in DOMAIN RemoveAt(s, k) : \E j \in DOMAIN s : j # k /\ RemoveAt(s, k)[i] = s[j]
         /\ \A j \in DOMAIN s : j # k => s[j] \in Elements(RemoveAt(s, k))
<1>. DEFINE r == RemoveAt(s, k)
<1>1. /\ r \in Seq(S) /\ Len(r) = Len(s) - 1 /\ Len(s) \in Nat /\ k \in 1..Len(s)
      /\ \A j \in 1..Len(s) - 1 : r[j] = IF j < k THEN s[j] ELSE s[j + 1]
      /\ DOMAIN s = 1..Len(s) /\ DOMAIN r = 1..Len(s) - 1
  BY RemoveAtPlaces
<1>. HIDE DEF r
<1>2. ASSUME NEW i \in DOMAIN r PROVE \E j \in DOMAIN s : j # k /\ r[i] = s[j]
  <2>1. CASE i < k
    BY <1>1, <2>1
  <2>2. CASE ~(i < k)
    <3>1. i + 1 \in DOMAIN s /\ i + 1 # k /\ r[i] = s[i + 1]
      BY <1>1, <2>2
    <3>. QED BY <3>1
  <2>. QED BY <2>1, <2>2
<1>3. ASSUME NEW j \in DOMAIN s, j # k PROVE \E i \in DOMAIN r : r[i] = s[j]
  <2>1. CASE j < k
    BY <1>1, <2>1
  <2>2. CASE ~(j < k)
    <3>1. j - 1 \in 1..Len(s) - 1 /\ ~(j - 1 < k) /\ j - 1 + 1 = j
      BY <1>1, <1>3, <2>2
    <3>. QED BY <1>1, <3>1
  <2>. QED BY <2>1, <2>2
<1>. QED BY <1>2, <1>3 DEF r, Elements

\* With one more at the end.
LEMMA AppendPlaces ==
  ASSUME NEW S, NEW s \in Seq(S), NEW e \in S
  PROVE  /\ Append(s, e) \in Seq(S)
         /\ DOMAIN s = 1..Len(s) /\ DOMAIN Append(s, e) = 1..Len(s) + 1
         /\ \A i \in 1..Len(s) : Append(s, e)[i] = s[i]
         /\ Append(s, e)[Len(s) + 1] = e
         /\ Elements(Append(s, e)) = Elements(s) \union {e}
<1>1. /\ Append(s, e) \in Seq(S) /\ Len(Append(s, e)) = Len(s) + 1 /\ Len(s) \in Nat
      /\ \A i \in 1..Len(s) : Append(s, e)[i] = s[i]
      /\ Append(s, e)[Len(s) + 1] = e
  BY AppendProperties
<1>2. DOMAIN s = 1..Len(s) /\ DOMAIN Append(s, e) = 1..Len(s) + 1
  BY <1>1
<1>3. 1..Len(s) + 1 = (1..Len(s)) \union {Len(s) + 1}
  BY <1>1
<1>4. Elements(Append(s, e)) = Elements(s) \union {e}
  BY <1>1, <1>2, <1>3 DEF Elements
<1>. QED BY <1>1, <1>2, <1>4

\* The set of places of what is in a sequence once has one element.
LEMMA SingleCounts ==
  ASSUME NEW s, NEW x, Single(x, s)
  PROVE  Cardinality({i \in DOMAIN s : s[i] = x}) = 1
<1>1. PICK i \in DOMAIN s : s[i] = x /\ \A j \in DOMAIN s : s[j] = x => j = i
  BY DEF Single
<1>2. {j \in DOMAIN s : s[j] = x} = {i}
  BY <1>1
<1>. QED BY <1>2, FS_Singleton

\* No element is left twice which was not there twice.
LEMMA RemoveAtDistinct ==
  ASSUME NEW S, NEW s \in Seq(S), NEW k \in DOMAIN s,
         NEW i \in DOMAIN RemoveAt(s, k), NEW j \in DOMAIN RemoveAt(s, k), i # j
  PROVE  \E u, v \in DOMAIN s : u # v /\ RemoveAt(s, k)[i] = s[u] /\ RemoveAt(s, k)[j] = s[v]
<1>. DEFINE r == RemoveAt(s, k)
            Old(n) == IF n < k THEN n ELSE n + 1
<1>1. /\ Len(r) = Len(s) - 1 /\ Len(s) \in Nat /\ k \in 1..Len(s)
      /\ DOMAIN s = 1..Len(s) /\ DOMAIN r = 1..Len(s) - 1
      /\ \A n \in DOMAIN r : r[n] = IF n < k THEN s[n] ELSE s[n + 1]
  BY RemoveAtPlaces
<1>. HIDE DEF r
<1>2. ASSUME NEW n \in DOMAIN r PROVE Old(n) \in DOMAIN s /\ r[n] = s[Old(n)]
  BY <1>1
<1>3. Old(i) # Old(j)
  BY <1>1
<1>. QED BY <1>2, <1>3 DEF r

-----------------------------------------------------------------------------
(***************************************************************************)
(* What the operations do to the two lists.                                *)
(***************************************************************************)
Nodes == [addr : Addresses, who : Binders \union {Py}]

\* The node at an address is removed, and no other.
LEMMA RemovedNode ==
  ASSUME TypeOK, Apart, NEW a
  PROVE  /\ Removed(a) \in Seq(Nodes)
         /\ Elements(Removed(a)) = {n \in Elements(handlers) : n.addr # a}
         /\ \A i, j \in DOMAIN Removed(a) : Removed(a)[i].addr = Removed(a)[j].addr => i = j
<1>0. handlers \in Seq(Nodes) /\ \A i, j \in DOMAIN handlers : handlers[i].addr = handlers[j].addr => i = j
  BY DEF TypeOK, Apart, Nodes
<1>1. CASE \A j \in DOMAIN handlers : handlers[j].addr # a
  BY <1>0, <1>1 DEF Removed, Elements
<1>2. ASSUME NEW m \in DOMAIN handlers, handlers[m].addr = a PROVE
         /\ Removed(a) \in Seq(Nodes)
         /\ Elements(Removed(a)) = {n \in Elements(handlers) : n.addr # a}
         /\ \A i, j \in DOMAIN Removed(a) : Removed(a)[i].addr = Removed(a)[j].addr => i = j
  <2>. DEFINE k == CHOOSE j \in DOMAIN handlers : handlers[j].addr = a
  <2>1. k \in DOMAIN handlers /\ handlers[k].addr = a
    BY <1>2
  <2>2. Removed(a) = RemoveAt(handlers, k)
    BY <1>2 DEF Removed
  <2>. HIDE DEF k
  <2>3. Removed(a) \in Seq(Nodes)
    BY <1>0, <2>1, <2>2, RemoveAtPlaces
  <2>4. Elements(Removed(a)) = {n \in Elements(handlers) : n.addr # a}
    <3>1. ASSUME NEW n \in Elements(Removed(a)) PROVE n \in Elements(handlers) /\ n.addr # a
      <4>1. PICK i \in DOMAIN Removed(a) : n = Removed(a)[i]
        BY <3>1 DEF Elements
      <4>2. PICK j \in DOMAIN handlers : j # k /\ n = handlers[j]
        BY <1>0, <2>1, <2>2, <4>1, RemoveAtElements
      <4>. QED BY <1>0, <2>1, <4>2 DEF Elements
    <3>2. ASSUME NEW n \in Elements(handlers), n.addr # a PROVE n \in Elements(Removed(a))
      <4>1. PICK j \in DOMAIN handlers : n = handlers[j]
        BY <3>2 DEF Elements
      <4>. QED BY <1>0, <2>1, <2>2, <3>2, <4>1, RemoveAtElements
    <3>. QED BY <3>1, <3>2
  <2>5. ASSUME NEW i \in DOMAIN Removed(a), NEW j \in DOMAIN Removed(a), i # j
        PROVE  Removed(a)[i].addr # Removed(a)[j].addr
    BY <1>0, <2>1, <2>2, <2>5, RemoveAtDistinct
  <2>. QED BY <2>3, <2>4, <2>5
<1>. QED BY <1>1, <1>2

\* A node is added at an address where there is none.
LEMMA AddedNode ==
  ASSUME TypeOK, Apart, NEW a \in Free, NEW who \in Binders \union {Py},
         handlers' = Append(handlers, Node(a, who))
  PROVE  /\ handlers' \in Seq(Nodes)
         /\ Elements(handlers') = Elements(handlers) \union {Node(a, who)}
         /\ Node(a, who).addr = a /\ Node(a, who).who = who
         /\ \A i, j \in DOMAIN handlers' : handlers'[i].addr = handlers'[j].addr => i = j
<1>. DEFINE e == Node(a, who)
<1>1. e \in Nodes /\ e.addr = a /\ e.who = who
  BY DEF Free, Node, Nodes
<1>2. /\ handlers \in Seq(Nodes) /\ \A i \in DOMAIN handlers : handlers[i].addr # a
      /\ \A i, j \in DOMAIN handlers : handlers[i].addr = handlers[j].addr => i = j
  BY DEF Free, Elements, TypeOK, Apart, Nodes
<1>. HIDE DEF e
<1>3. /\ handlers' \in Seq(Nodes) /\ Len(handlers) \in Nat
      /\ DOMAIN handlers = 1..Len(handlers) /\ DOMAIN handlers' = 1..Len(handlers) + 1
      /\ \A i \in 1..Len(handlers) : handlers'[i] = handlers[i]
      /\ handlers'[Len(handlers) + 1] = e
      /\ Elements(handlers') = Elements(handlers) \union {e}
  BY <1>1, <1>2, AppendPlaces DEF e
<1>4. ASSUME NEW i \in DOMAIN handlers', NEW j \in DOMAIN handlers', i # j
      PROVE  handlers'[i].addr # handlers'[j].addr
  BY <1>1, <1>2, <1>3, <1>4
<1>. QED BY <1>1, <1>3, <1>4 DEF e

\* What is left when the reference at k is forgotten: the others, in their order.
ForgottenAt(k) ==
  /\ pyHandlers' \in Seq(References)
  /\ Len(pyHandlers') = Len(pyHandlers) - 1
  /\ \A j \in DOMAIN pyHandlers' : pyHandlers'[j] = IF j < k THEN pyHandlers[j] ELSE pyHandlers[j + 1]
  /\ Elements(pyHandlers') = Elements(pyHandlers) \ {pyHandlers[k]}
  /\ \A i, j \in DOMAIN pyHandlers' : pyHandlers'[i] = pyHandlers'[j] => i = j

LEMMA ForgottenThere ==
  ASSUME TypeOK, Apart, NEW k \in DOMAIN pyHandlers, Forget(k)
  PROVE  ForgottenAt(k)
<1>0. pyHandlers \in Seq(References) /\ \A i, j \in DOMAIN pyHandlers : pyHandlers[i] = pyHandlers[j] => i = j
  BY DEF TypeOK, Apart
<1>2. pyHandlers' = RemoveAt(pyHandlers, k)
  BY DEF Forget
<1>3. /\ pyHandlers' \in Seq(References) /\ Len(pyHandlers') = Len(pyHandlers) - 1
      /\ \A j \in DOMAIN pyHandlers' : pyHandlers'[j] = IF j < k THEN pyHandlers[j] ELSE pyHandlers[j + 1]
  BY <1>0, <1>2, RemoveAtPlaces
<1>4. Elements(pyHandlers') = Elements(pyHandlers) \ {pyHandlers[k]}
  <2>1. ASSUME NEW g \in Elements(pyHandlers') PROVE g \in Elements(pyHandlers) /\ g # pyHandlers[k]
    <3>1. PICK i \in DOMAIN pyHandlers' : g = pyHandlers'[i]
      BY <2>1 DEF Elements
    <3>2. PICK j \in DOMAIN pyHandlers : j # k /\ g = pyHandlers[j]
      BY <1>0, <1>2, <3>1, RemoveAtElements
    <3>. QED BY <1>0, <3>2 DEF Elements
  <2>2. ASSUME NEW g \in Elements(pyHandlers), g # pyHandlers[k] PROVE g \in Elements(pyHandlers')
    <3>1. PICK j \in DOMAIN pyHandlers : g = pyHandlers[j]
      BY <2>2 DEF Elements
    <3>. QED BY <1>0, <1>2, <2>2, <3>1, RemoveAtElements
  <2>. QED BY <2>1, <2>2
<1>5. ASSUME NEW i \in DOMAIN pyHandlers', NEW j \in DOMAIN pyHandlers', i # j
      PROVE  pyHandlers'[i] # pyHandlers'[j]
  BY <1>0, <1>2, <1>5, RemoveAtDistinct
<1>. QED BY <1>3, <1>4, <1>5 DEF ForgottenAt

\* A reference which is hooked is a new one.
LEMMA HookedNew ==
  ASSUME TypeOK, NEW f \in Funcs, Hook(f)
  PROVE  \E r \in References \ Elements(pyHandlers) : pyHandlers' = Append(pyHandlers, r)
<1>1. PICK n \in Unused : pyHandlers' = Append(pyHandlers, Reference(f, n))
  BY DEF Hook
<1>2. Reference(f, n) \in References
  BY DEF Unused, Reference, References
<1>3. Reference(f, n) \notin Elements(pyHandlers)
  BY DEF Unused, Reference
<1>. QED BY <1>1, <1>2, <1>3

-----------------------------------------------------------------------------
(***************************************************************************)
(* Types, with what they rest on.                                          *)
(***************************************************************************)
OtherTypes ==
  /\ held \subseteq Funcs /\ core \in Addresses \union {Nowhere}
  /\ bound \in [Binders -> Addresses \union {Nowhere}]
  /\ copy \in Seq(Binders \union {Py})
  /\ at \in {"idle", "core", "list", "call", "ended"}
  /\ pos \in 0..Len(pyHandlers) + 1
  /\ at = "call" => pos \in DOMAIN pyHandlers
  /\ at = "ended" => pos <= Len(pyHandlers)
  /\ called \in Seq(References) /\ due \subseteq References /\ dismissed \subseteq References
  /\ disturbed \in BOOLEAN
  /\ Rests

\* The loop's place is within the list when one of its other nodes has gone.
LEMMA PlaceWithin ==
  ASSUME ShapeInv, NEW k \in DOMAIN pyHandlers, Forget(k)
  PROVE  /\ at # "list"
         /\ at \in {"idle", "core"} => pos' = pos
         /\ at = "call" => /\ k # pos /\ pos' = (IF k < pos THEN pos - 1 ELSE pos)
                           /\ pos' > 0 /\ pos' \in DOMAIN pyHandlers'
         /\ at = "ended" => pos' \in 0..Len(pyHandlers')
<1>1. /\ Len(pyHandlers) \in Nat /\ k \in 1..Len(pyHandlers) /\ pos \in 0..Len(pyHandlers) + 1
      /\ Len(pyHandlers') = Len(pyHandlers) - 1 /\ DOMAIN pyHandlers' = 1..Len(pyHandlers) - 1
      /\ at = "call" => pos \in 1..Len(pyHandlers)
      /\ at = "ended" => pos <= Len(pyHandlers)
  BY ForgottenThere DEF ShapeInv, TypeOK, Rests, ForgottenAt
<1>2. pos' \in Place(k)
  BY DEF Forget
<1>3. at # "list"
  BY DEF Forget, ShapeInv, Swept, NoneDead
<1>4. at = "call" => k # pos
  BY DEF Forget, Dead, InCall
<1>5. ASSUME at \in {"idle", "core"} PROVE pos' = pos
  BY <1>2, <1>5 DEF Place
<1>6. ASSUME at = "call"
      PROVE  /\ pos' = (IF k < pos THEN pos - 1 ELSE pos)
             /\ pos' > 0 /\ pos' \in DOMAIN pyHandlers'
  BY <1>1, <1>2, <1>4, <1>6 DEF Place
<1>7. ASSUME at = "ended" PROVE pos' \in 0..Len(pyHandlers')
  BY <1>1, <1>2, <1>7 DEF Place
<1>. QED BY <1>3, <1>4, <1>5, <1>6, <1>7

\* Every step keeps the two lists sequences without repetition.
LEMMA ListsKept ==
  ASSUME ShapeInv, Next
  PROVE  /\ handlers' \in Seq(Nodes) /\ pyHandlers' \in Seq(References)
         /\ Apart'
<1>. DEFINE Goal == handlers' \in Seq(Nodes) /\ pyHandlers' \in Seq(References) /\ Apart'
<1>. SUFFICES Goal
  OBVIOUS
<1>0. /\ TypeOK /\ Apart /\ handlers \in Seq(Nodes) /\ pyHandlers \in Seq(References)
      /\ \A i, j \in DOMAIN pyHandlers : pyHandlers[i] = pyHandlers[j] => i = j
      /\ \A i, j \in DOMAIN handlers : handlers[i].addr = handlers[j].addr => i = j
  BY DEF ShapeInv, TypeOK, Nodes, Apart
<1>1. ASSUME UNCHANGED <<handlers, pyHandlers>> PROVE Goal
  BY <1>0, <1>1 DEF Apart
<1>2. ASSUME NEW a, handlers' = Removed(a), UNCHANGED pyHandlers PROVE Goal
  <2>1. /\ handlers' \in Seq(Nodes)
        /\ \A i, j \in DOMAIN handlers' : handlers'[i].addr = handlers'[j].addr => i = j
    BY <1>0, <1>2, RemovedNode
  <2>. QED BY <1>0, <1>2, <2>1 DEF Apart
<1>3. ASSUME NEW a \in Free, NEW who \in Binders \union {Py}, handlers' = Append(handlers, Node(a, who))
      PROVE  /\ handlers' \in Seq(Nodes)
             /\ \A i, j \in DOMAIN handlers' : handlers'[i].addr = handlers'[j].addr => i = j
  BY <1>0, <1>3, AddedNode
<1>4. ASSUME NEW k \in DOMAIN pyHandlers, Forget(k) PROVE Goal
  <2>1. ForgottenAt(k)
    BY <1>0, <1>4, ForgottenThere
  <2>2. \/ handlers' = Removed(core)
        \/ UNCHANGED handlers
    BY <1>4 DEF Forget, Unhooked
  <2>3. /\ handlers' \in Seq(Nodes)
        /\ \A i, j \in DOMAIN handlers' : handlers'[i].addr = handlers'[j].addr => i = j
    BY <1>0, <2>2, RemovedNode
  <2>. QED BY <2>1, <2>3 DEF ForgottenAt, Apart
<1>5. CASE \E b \in Binders : Bind(b)
  <2>1. PICK b \in Binders, a \in Free : handlers' = Append(handlers, Node(a, b)) /\ UNCHANGED pyHandlers
    BY <1>5 DEF Bind
  <2>. QED BY <1>0, <1>3, <2>1 DEF Apart
<1>6. CASE \E b \in Binders : Unbind(b)
  BY <1>2, <1>6 DEF Unbind
<1>7. ASSUME NEW f \in Funcs, Hook(f) PROVE Goal
  <2>1. PICK r \in References : pyHandlers' = Append(pyHandlers, r) /\ r \notin Elements(pyHandlers)
    BY <1>0, <1>7, HookedNew
  <2>2. /\ pyHandlers' \in Seq(References) /\ Len(pyHandlers) \in Nat
        /\ DOMAIN pyHandlers = 1..Len(pyHandlers) /\ DOMAIN pyHandlers' = 1..Len(pyHandlers) + 1
        /\ \A i \in 1..Len(pyHandlers) : pyHandlers'[i] = pyHandlers[i]
        /\ pyHandlers'[Len(pyHandlers) + 1] = r
    BY <1>0, <2>1, AppendPlaces
  <2>3. ASSUME NEW i \in DOMAIN pyHandlers', NEW j \in DOMAIN pyHandlers', i # j
        PROVE  pyHandlers'[i] # pyHandlers'[j]
    BY <1>0, <2>1, <2>2, <2>3 DEF Elements
  <2>4. \/ UNCHANGED handlers
        \/ \E a \in Free : handlers' = Append(handlers, Node(a, Py))
    BY <1>7 DEF Hook
  <2>5. /\ handlers' \in Seq(Nodes)
        /\ \A i, j \in DOMAIN handlers' : handlers'[i].addr = handlers'[j].addr => i = j
    BY <1>0, <1>3, <2>4
  <2>. QED BY <2>2, <2>3, <2>5 DEF Apart
<1>8. CASE \E f \in Funcs : Unhook(f)
  <2>1. handlers' = Removed(core) \/ UNCHANGED handlers
    BY <1>8 DEF Unhook, Unhooked
  <2>. QED BY <1>1, <1>2, <1>8, <2>1 DEF Unhook
<1>9. CASE \E f \in Funcs : Drop(f)
  BY <1>1, <1>9 DEF Drop
<1>10. CASE Clear
  <2>1. handlers' = <<>> /\ UNCHANGED pyHandlers
    BY <1>10 DEF Clear
  <2>. QED BY <1>0, <2>1 DEF Apart
<1>11. CASE \E k \in DOMAIN pyHandlers : Forget(k)
  BY <1>4, <1>11
<1>12. CASE Firing
  BY <1>1, <1>12 DEF Firing, Fire, CallCore, CallPy, Return, GoOn, Raise, EndList, EndFire
<1>. QED BY <1>5, <1>6, <1>7, <1>8, <1>9, <1>10, <1>11, <1>12 DEF Next

\* While the loop has the GIL nobody's references are being forgotten.
LEMMA SweptKept == ShapeInv /\ [Next]_vars => Swept'
<1>. SUFFICES ASSUME ShapeInv, [Next]_vars PROVE Swept'
  OBVIOUS
<1>1. ASSUME UNCHANGED <<at, pos, pyHandlers, held>> PROVE Swept'
  BY <1>1 DEF ShapeInv, Swept, NoneDead, Dead, InCall
<1>2. ASSUME at' # "list" PROVE Swept'
  BY <1>2 DEF Swept
<1>3. ASSUME at # "call", NoneDead, UNCHANGED <<pyHandlers, held>>, at' # "call" PROVE Swept'
  BY <1>3 DEF Swept, NoneDead, Dead, InCall
<1>4. ASSUME NEW k \in DOMAIN pyHandlers, Forget(k) PROVE Swept'
  BY <1>2, <1>4, PlaceWithin DEF Forget
<1>5. ASSUME CallCore PROVE Swept'
  BY <1>1, <1>3, <1>5 DEF CallCore
<1>6. ASSUME CallPy PROVE Swept'
  BY <1>2, <1>3, <1>6 DEF CallPy, ShapeInv, Swept
<1>7. ASSUME Return PROVE Swept'
  <2>1. CASE at' # "list"
    BY <1>2, <2>1
  <2>2. CASE at' = "list"
    <3>1. /\ NoneDead /\ at = "call" /\ pyHandlers[pos].to \in held \union Methods
          /\ UNCHANGED <<pyHandlers, held>>
      BY <1>7, <2>2 DEF Return
    <3>. QED BY <2>2, <3>1 DEF Swept, NoneDead, Dead, InCall
  <2>. QED BY <2>1, <2>2
<1>8. ASSUME GoOn PROVE Swept'
  BY <1>3, <1>8 DEF GoOn
<1>9. ASSUME Fire \/ Raise \/ EndList \/ EndFire PROVE Swept'
  BY <1>2, <1>9 DEF Fire, Raise, EndList, EndFire
<1>10. ASSUME NEW b \in Binders, Bind(b) \/ Unbind(b) PROVE Swept'
  BY <1>1, <1>10 DEF Bind, Unbind, firing
<1>11. ASSUME NEW f \in Funcs, Hook(f) \/ Unhook(f) \/ Drop(f) PROVE Swept'
  BY <1>2, <1>11 DEF Hook, Unhook, Drop, GilFree, firing
<1>12. ASSUME Clear PROVE Swept'
  BY <1>2, <1>12 DEF Clear, GilFree, firing
<1>13. ASSUME UNCHANGED vars PROVE Swept'
  BY <1>1, <1>13 DEF vars
<1>. QED BY <1>4, <1>5, <1>6, <1>7, <1>8, <1>9, <1>10, <1>11, <1>12, <1>13 DEF Next, Firing

\* And the types of the rest.
LEMMA ShapeKept == ShapeInv /\ [Next]_vars => ShapeInv'
<1>. SUFFICES ASSUME ShapeInv, [Next]_vars PROVE ShapeInv'
  OBVIOUS
<1>0. Swept'
  BY SweptKept
<1>1. CASE UNCHANGED vars
  BY <1>0, <1>1 DEF vars, ShapeInv, TypeOK, Apart, Rests, Elements
<1>2. CASE Next
  <2>0. /\ handlers' \in Seq(Nodes) /\ pyHandlers' \in Seq(References) /\ Apart'
        /\ Len(pyHandlers) \in Nat /\ Len(pyHandlers') \in Nat
        /\ DOMAIN pyHandlers = 1..Len(pyHandlers) /\ DOMAIN pyHandlers' = 1..Len(pyHandlers')
        /\ handlers \in Seq(Nodes)
    BY <1>2, ListsKept DEF ShapeInv, TypeOK, Nodes
  <2>1. ASSUME UNCHANGED <<pyHandlers, copy, at, pos, called>>, held' \subseteq held,
               core' \in Addresses \union {Nowhere},
               bound' \in [Binders -> Addresses \union {Nowhere}], due' \subseteq due,
               dismissed' \subseteq References, disturbed' \in BOOLEAN
        PROVE  OtherTypes'
    BY <2>1 DEF ShapeInv, TypeOK, OtherTypes, Rests
  <2>2. ASSUME NEW b \in Binders, Bind(b) PROVE OtherTypes'
    <3>1. bound' \in [Binders -> Addresses \union {Nowhere}]
      BY <2>2 DEF ShapeInv, TypeOK, Bind, Free
    <3>. QED BY <2>1, <2>2, <3>1 DEF ShapeInv, TypeOK, Bind, firing
  <2>3. ASSUME NEW b \in Binders, Unbind(b) PROVE OtherTypes'
    <3>1. bound' \in [Binders -> Addresses \union {Nowhere}]
      BY <2>3 DEF ShapeInv, TypeOK, Unbind
    <3>. QED BY <2>1, <2>3, <3>1 DEF ShapeInv, TypeOK, Unbind, firing
  <2>4. ASSUME Clear PROVE OtherTypes'
    <3>1. disturbed' \in BOOLEAN /\ due' \subseteq due
      BY <2>4 DEF ShapeInv, TypeOK, Clear
    <3>. QED BY <2>1, <2>4, <3>1 DEF ShapeInv, TypeOK, Clear, firing
  <2>5. ASSUME NEW f \in Funcs, Hook(f) PROVE OtherTypes'
    <3>1. Len(pyHandlers') = Len(pyHandlers) + 1
      <4>1. PICK r \in References : pyHandlers' = Append(pyHandlers, r)
        BY <2>5, HookedNew DEF ShapeInv
      <4>. QED BY <4>1, AppendProperties DEF ShapeInv, TypeOK
    <3>2. core' \in Addresses \union {Nowhere}
      BY <2>5 DEF Hook, Free, ShapeInv, TypeOK
    <3>. QED BY <2>0, <2>5, <3>1, <3>2 DEF Hook, firing, ShapeInv, TypeOK, OtherTypes, Rests
  <2>6. ASSUME NEW f \in Funcs, Unhook(f) PROVE OtherTypes'
    <3>1. disturbed' \in BOOLEAN /\ due' \subseteq due
      BY <2>6 DEF ShapeInv, TypeOK, Unhook
    <3>2. Elements(pyHandlers) \subseteq References
      BY ElementOfSeq DEF Elements, ShapeInv, TypeOK
    <3>3. dismissed' \subseteq References
      BY <2>6, <3>2 DEF ShapeInv, TypeOK, Unhook
    <3>. QED BY <2>1, <2>6, <3>1, <3>3 DEF ShapeInv, TypeOK, Unhook, firing
  <2>7. ASSUME NEW f \in Funcs, Drop(f) PROVE OtherTypes'
    <3>1. held' \subseteq held /\ due' \subseteq due
      BY <2>7 DEF Drop
    <3>. QED BY <2>1, <2>7, <3>1 DEF ShapeInv, TypeOK, Drop, firing
  <2>8. ASSUME Fire PROVE OtherTypes'
    <3>1. copy' \in Seq(Binders \union {Py})
      <4>1. DOMAIN handlers = 1..Len(handlers) /\ Len(handlers) \in Nat
        BY <2>0
      <4>2. \A i \in 1..Len(handlers) : handlers[i].who \in Binders \union {Py}
        <5>1. \A i \in 1..Len(handlers) : handlers[i] \in Nodes
          BY <2>0, ElementOfSeq
        <5>. QED BY <5>1 DEF Nodes
      <4>3. [i \in 1..Len(handlers) |-> handlers[i].who] \in Seq(Binders \union {Py})
        BY <4>1, <4>2, IsASeq
      <4>. QED BY <2>8, <4>1, <4>3 DEF Fire
    <3>2. due' \subseteq References
      <4>1. Elements(pyHandlers) \subseteq References
        BY ElementOfSeq DEF Elements, ShapeInv, TypeOK
      <4>. QED BY <2>8, <4>1 DEF Fire
    <3>. QED BY <2>8, <3>1, <3>2 DEF Fire, ShapeInv, TypeOK, OtherTypes, Rests
  <2>9. ASSUME CallCore PROVE OtherTypes'
    <3>1. copy' \in Seq(Binders \union {Py})
      BY <2>9, HeadTailProperties DEF CallCore, ShapeInv, TypeOK
    <3>. QED BY <2>0, <2>9, <3>1 DEF CallCore, ShapeInv, TypeOK, OtherTypes, Rests
  <2>10. ASSUME CallPy PROVE OtherTypes'
    <3>1. pyHandlers[pos] \in References
      BY <2>10, ElementOfSeq DEF CallPy, ShapeInv, TypeOK
    <3>2. Append(called, pyHandlers[pos]) \in Seq(References)
      BY <3>1, AppendProperties DEF ShapeInv, TypeOK
    <3>3. /\ called' \in Seq(References) /\ at' \in {"list", "call"} /\ (at' = "call" => pos' = pos)
          /\ pos' \in {pos, pos + 1} /\ pos \in 1..Len(pyHandlers)
          /\ UNCHANGED <<handlers, pyHandlers, core, held, bound, copy, due, dismissed, disturbed>>
      BY <2>0, <2>10, <3>2 DEF CallPy, Skipped, ShapeInv, TypeOK
    <3>. QED BY <2>0, <3>3 DEF ShapeInv, TypeOK, OtherTypes, Rests
  <2>11. ASSUME Return \/ GoOn PROVE OtherTypes'
    <3>1. /\ at' \in {"list", "ended"} /\ pos' \in {pos, pos + 1}
          /\ at' = "ended" => pos' = pos /\ at = "call"
          /\ at' = "list" => pos' = pos + 1
          /\ at \in {"call", "ended"}
          /\ UNCHANGED <<handlers, pyHandlers, core, held, bound, copy, called, due, dismissed, disturbed>>
      BY <2>11 DEF Return, GoOn
    <3>2. /\ pos' \in 0..Len(pyHandlers') + 1 /\ (at' = "ended" => pos' <= Len(pyHandlers'))
          /\ (at' = "list" => pos' > 0)
      BY <2>0, <3>1 DEF ShapeInv, TypeOK
    <3>. QED BY <2>0, <3>1, <3>2 DEF ShapeInv, TypeOK, OtherTypes, Rests
  <2>12. ASSUME Raise PROVE OtherTypes'
    BY <2>0, <2>12 DEF Raise, ShapeInv, TypeOK, OtherTypes, Rests
  <2>13. ASSUME EndList \/ EndFire PROVE OtherTypes'
    BY <2>0, <2>13 DEF EndList, EndFire, ShapeInv, TypeOK, OtherTypes, Rests
  <2>14. ASSUME NEW k \in DOMAIN pyHandlers, Forget(k) PROVE OtherTypes'
    <3>1. /\ dismissed' \subseteq dismissed
          /\ UNCHANGED <<core, held, bound, copy, at, called, due, disturbed>>
      BY <2>14 DEF Forget
    <3>2. /\ at # "list"
          /\ at \in {"idle", "core"} => pos' = 0
          /\ at = "call" => pos' > 0 /\ pos' \in DOMAIN pyHandlers'
          /\ at = "ended" => pos' \in 0..Len(pyHandlers')
      BY <2>14, PlaceWithin DEF ShapeInv, Rests
    <3>3. pos' \in 0..Len(pyHandlers') + 1 /\ (at = "ended" => pos' <= Len(pyHandlers'))
      BY <2>0, <3>2 DEF ShapeInv, TypeOK
    <3>. QED BY <3>1, <3>2, <3>3 DEF ShapeInv, TypeOK, OtherTypes, Rests
  <2>15. OtherTypes'
    BY <1>2, <2>2, <2>3, <2>4, <2>5, <2>6, <2>7, <2>8, <2>9, <2>10, <2>11, <2>12, <2>13, <2>14
       DEF Next, Firing
  <2>. QED BY <1>0, <2>0, <2>15 DEF ShapeInv, TypeOK, OtherTypes, Nodes
<1>. QED BY <1>1, <1>2

-----------------------------------------------------------------------------
(***************************************************************************)
(* Who has which node.                                                     *)
(***************************************************************************)
\* Nodes at the same address are the same.
LEMMA SameNode ==
  ASSUME ShapeInv, NEW m \in Elements(handlers), NEW n \in Elements(handlers), m.addr = n.addr
  PROVE  m = n
BY DEF ShapeInv, Apart, Elements

LEMMA NodeTypes ==
  ASSUME ShapeInv, NEW n \in Elements(handlers)
  PROVE  n.addr \in Addresses /\ n.who \in Binders \union {Py}
<1>1. n \in Nodes
  <2>1. PICK i \in DOMAIN handlers : n = handlers[i]
    BY DEF Elements
  <2>2. handlers \in Seq(Nodes)
    BY DEF ShapeInv, TypeOK, Nodes
  <2>. QED BY <2>1, <2>2, ElementOfSeq
<1>. QED BY <1>1 DEF Nodes

\* What a step does with the nodes which binders have.
KeptFor == \A n \in Elements(handlers) :
             n.who # Py /\ n \notin Elements(handlers') => bound'[n.who] = Nowhere

\* Unless it disturbs the event, a step leaves who has a handler with the address of its
\* node, and takes no node from a binder which does not let it go.
LEMMA HookStep ==
  ASSUME HookInv, Next, ~disturbed'
  PROVE  /\ Addressed'
         /\ KeptFor
<1>. DEFINE Goal == Addressed' /\ KeptFor
<1>. SUFFICES Goal
  OBVIOUS
<1>0. /\ TypeOK /\ Apart /\ ShapeInv
      /\ bound \in [Binders -> Addresses \union {Nowhere}] /\ Nowhere \notin Addresses /\ Py \notin Binders
      /\ pyHandlers \in Seq(References)
  BY EventConstants DEF HookInv, ShapeInv, TypeOK
<1>1. ~disturbed
  BY DEF HookInv, Next, Firing, Fire, CallCore, CallPy, Return, GoOn, Raise, EndList, EndFire, Bind, Unbind,
         Hook, Unhook, Drop, Forget, Clear
<1>2. /\ \A n \in Elements(handlers) : n.addr = IF n.who = Py THEN core ELSE bound[n.who]
      /\ \A b \in Binders : bound[b] # Nowhere => \E n \in Elements(handlers) : n.who = b
      /\ pyHandlers # <<>> <=> \E n \in Elements(handlers) : n.who = Py
  BY <1>1 DEF HookInv, Addressed
<1>3. \A m, n \in Elements(handlers) : m.addr = n.addr => m = n
  BY <1>0, SameNode
<1>4. \A n \in Elements(handlers) : n.addr \in Addresses /\ n.who \in Binders \union {Py}
  BY <1>0, NodeTypes
<1>. DEFINE Kept ==
       /\ \A n \in Elements(handlers') : n.addr = IF n.who = Py THEN core' ELSE bound'[n.who]
       /\ \A b \in Binders : bound'[b] # Nowhere => \E n \in Elements(handlers') : n.who = b
       /\ pyHandlers' # <<>> <=> \E n \in Elements(handlers') : n.who = Py
       /\ KeptFor
<1>5. SUFFICES Kept
  BY DEF Addressed
<1>6. ASSUME UNCHANGED <<handlers, core, bound>>, pyHandlers = <<>> <=> pyHandlers' = <<>> PROVE Kept
  BY <1>2, <1>6 DEF KeptFor
<1>7. ASSUME NEW k \in DOMAIN pyHandlers, Forget(k) PROVE Kept
  <2>0. UNCHANGED <<core, bound>> /\ handlers' = IF pyHandlers' = <<>> THEN Removed(core) ELSE handlers
    BY <1>7 DEF Forget, Unhooked
  <2>1. pyHandlers # <<>>
    BY <1>7
  <2>2. PICK p \in Elements(handlers) : p.who = Py /\ p.addr = core
    BY <1>2, <2>1
  <2>3. CASE pyHandlers' # <<>>
    BY <1>6, <2>0, <2>1, <2>3
  <2>4. CASE pyHandlers' = <<>>
    <3>1. Elements(handlers') = {n \in Elements(handlers) : n.addr # core}
      BY <1>0, <2>0, <2>4, RemovedNode
    <3>2. \A n \in Elements(handlers) : n \in Elements(handlers') <=> n.who # Py
      BY <1>2, <1>3, <2>2, <3>1
    <3>3. \A n \in Elements(handlers') : n \in Elements(handlers)
      BY <3>1
    <3>. QED BY <1>0, <1>2, <2>0, <2>4, <3>2, <3>3 DEF KeptFor
  <2>. QED BY <2>3, <2>4
<1>8. ASSUME NEW b \in Binders, Bind(b) PROVE Kept
  <2>1. PICK a \in Free : handlers' = Append(handlers, Node(a, b)) /\ bound' = [bound EXCEPT ![b] = a]
    BY <1>8 DEF Bind
  <2>2. bound[b] = Nowhere /\ UNCHANGED <<pyHandlers, core>> /\ a \in Addresses
    BY <1>8 DEF Bind, Free
  <2>. DEFINE e == Node(a, b)
  <2>3. /\ Elements(handlers') = Elements(handlers) \union {e}
        /\ e.addr = a /\ e.who = b
    BY <1>0, <2>1, AddedNode
  <2>. HIDE DEF e
  <2>4. \A n \in Elements(handlers) : n.who # b
    BY <1>0, <1>2, <1>4, <2>2
  <2>5. bound'[b] = a /\ \A c \in Binders : c # b => bound'[c] = bound[c]
    BY <1>0, <2>1
  <2>. QED BY <1>0, <1>2, <1>4, <2>2, <2>3, <2>4, <2>5 DEF KeptFor
<1>9. ASSUME NEW b \in Binders, Unbind(b) PROVE Kept
  <2>1. /\ bound[b] # Nowhere /\ bound' = [bound EXCEPT ![b] = Nowhere]
        /\ handlers' = Removed(bound[b]) /\ UNCHANGED <<pyHandlers, core>>
    BY <1>9 DEF Unbind
  <2>2. Elements(handlers') = {n \in Elements(handlers) : n.addr # bound[b]}
    BY <1>0, <2>1, RemovedNode
  <2>3. PICK p \in Elements(handlers) : p.who = b /\ p.addr = bound[b]
    BY <1>0, <1>2, <2>1
  <2>4. \A n \in Elements(handlers) : n \in Elements(handlers') <=> n.who # b
    BY <1>0, <1>2, <1>3, <2>2, <2>3
  <2>5. bound'[b] = Nowhere /\ \A c \in Binders : c # b => bound'[c] = bound[c]
    BY <1>0, <2>1
  <2>6. \A n \in Elements(handlers') : n \in Elements(handlers)
    BY <2>2
  <2>. QED BY <1>0, <1>2, <1>4, <2>1, <2>4, <2>5, <2>6 DEF KeptFor
<1>10. ASSUME Clear PROVE Kept
  <2>1. handlers = <<>> /\ handlers' = <<>>
    BY <1>10 DEF Clear
  <2>. QED BY <1>6, <1>10, <2>1 DEF Clear
<1>11. ASSUME NEW f \in Funcs, Hook(f) PROVE Kept
  <2>1. pyHandlers' # <<>> /\ UNCHANGED bound
    <3>1. PICK r \in References : pyHandlers' = Append(pyHandlers, r)
      BY <1>0, <1>11, HookedNew
    <3>. QED BY <1>0, <1>11, <3>1, AppendProperties DEF Hook
  <2>2. CASE pyHandlers # <<>>
    BY <1>6, <1>11, <2>1, <2>2 DEF Hook, First
  <2>3. CASE pyHandlers = <<>>
    <3>1. PICK a \in Free : core' = a /\ handlers' = Append(handlers, Node(a, Py))
      BY <1>11, <2>3 DEF Hook, First
    <3>. DEFINE e == Node(a, Py)
    <3>2. /\ Elements(handlers') = Elements(handlers) \union {e}
          /\ e.addr = a /\ e.who = Py
      BY <1>0, <3>1, AddedNode
    <3>. HIDE DEF e
    <3>3. \A n \in Elements(handlers) : n.who # Py
      BY <1>2, <2>3
    <3>. QED BY <1>0, <1>2, <1>4, <2>1, <3>1, <3>2, <3>3 DEF KeptFor
  <2>. QED BY <2>2, <2>3
<1>12. ASSUME NEW f \in Funcs, Unhook(f) PROVE Kept
  BY <1>6, <1>12 DEF Unhook
<1>13. ASSUME NEW f \in Funcs, Drop(f) PROVE Kept
  BY <1>6, <1>13 DEF Drop
<1>14. ASSUME Firing PROVE Kept
  BY <1>6, <1>14 DEF Firing, Fire, CallCore, CallPy, Return, GoOn, Raise, EndList, EndFire
<1>15. Kept
  BY <1>7, <1>8, <1>9, <1>10, <1>11, <1>12, <1>13, <1>14 DEF Next
<1>. QED BY <1>15

LEMMA HookInit == Init => HookInv
<1>1. ASSUME Init PROVE HookInv
  <2>1. DOMAIN handlers = {} /\ DOMAIN pyHandlers = {}
    BY <1>1 DEF Init
  <2>2. Apart /\ Rests /\ Swept
    BY <1>1, <2>1 DEF Init, Apart, Rests, Swept
  <2>3. bound \in [Binders -> Addresses \union {Nowhere}] /\ \A b \in Binders : bound[b] = Nowhere
    BY <1>1 DEF Init
  <2>4. TypeOK
    <3>1. pos \in 0..Len(pyHandlers) + 1 /\ at = "idle"
      BY <1>1 DEF Init
    <3>2. handlers = <<>> /\ pyHandlers = <<>> /\ copy = <<>> /\ called = <<>>
      BY <1>1 DEF Init
    <3>3. held = Funcs /\ core \in Addresses \union {Nowhere} /\ due = {} /\ dismissed = {} /\ disturbed = FALSE
      BY <1>1 DEF Init
    <3>. QED BY <2>3, <3>1, <3>2, <3>3, EmptySeq DEF TypeOK
  <2>5. Addressed
    BY <1>1, <2>1, <2>3 DEF Init, Addressed, Elements
  <2>. QED BY <2>2, <2>4, <2>5 DEF HookInv, ShapeInv
<1>. QED BY <1>1

LEMMA HookKept == HookInv /\ [Next]_vars => HookInv'
<1>1. ASSUME HookInv, Next PROVE HookInv'
  <2>1. ShapeInv'
    BY <1>1, ShapeKept DEF HookInv
  <2>2. CASE disturbed'
    BY <2>1, <2>2 DEF HookInv, Addressed
  <2>3. CASE ~disturbed'
    BY <1>1, <2>1, <2>3, HookStep DEF HookInv
  <2>. QED BY <2>2, <2>3
<1>2. ASSUME HookInv, UNCHANGED vars PROVE HookInv'
  BY <1>2, ShapeKept DEF vars, HookInv, Addressed, Elements
<1>. QED BY <1>1, <1>2

\* With addresses known to who has them PyEvent's node is there once, if it is to be there.
LEMMA HookedBecause == HookInv => HookedOnce
<1>. SUFFICES ASSUME HookInv, ~disturbed
              PROVE  /\ Cardinality({i \in DOMAIN handlers : handlers[i].who = Py}) =
                          (IF pyHandlers = <<>> THEN 0 ELSE 1)
                     /\ \A i \in DOMAIN handlers : handlers[i].who = Py => handlers[i].addr = core
  BY DEF HookedOnce
<1>. DEFINE I == {i \in DOMAIN handlers : handlers[i].who = Py}
<1>1. \A i \in DOMAIN handlers : handlers[i].who = Py => handlers[i].addr = core
  BY DEF HookInv, Addressed, Elements
<1>2. pyHandlers # <<>> <=> \E i \in DOMAIN handlers : handlers[i].who = Py
  BY DEF HookInv, Addressed, Elements
<1>3. \A i, j \in I : i = j
  BY <1>1 DEF HookInv, ShapeInv, Apart
<1>4. CASE pyHandlers = <<>>
  <2>1. I = {}
    BY <1>2, <1>4
  <2>. QED BY <1>1, <1>4, <2>1, FS_EmptySet
<1>5. CASE pyHandlers # <<>>
  <2>1. PICK i \in DOMAIN handlers : handlers[i].who = Py
    BY <1>2, <1>5
  <2>2. I = {i}
    BY <1>3, <2>1
  <2>. QED BY <1>1, <1>5, <2>2, FS_Singleton
<1>. QED BY <1>4, <1>5

\* Every variable keeps its type (Events.h, PyEvents.cpp:82-162).
THEOREM EventTypeCorrect == Spec => []TypeOK
<1>1. HookInv => TypeOK
  BY DEF HookInv, ShapeInv
<1>. QED BY HookInit, HookKept, <1>1, PTL DEF Spec

\* PyEvents.cpp:97,119: until the event is disturbed PyEvent is hooked to the core's event
\* exactly once whilst it has functions, not at all when it has none, and knows where.
THEOREM PyEventHookedOnce == Spec => []HookedOnce
BY HookInit, HookKept, HookedBecause, PTL DEF Spec

\* Events.h:124, PyEvents.cpp:119: until the event is disturbed no step takes the handler of
\* a binder which does not let it go.
THEOREM BindersKeepHandlers == Spec => BinderKept
<1>1. HookInv /\ [Next]_vars => [~disturbed' => \A n \in Elements(handlers) :
        n.who # Py /\ n \notin Elements(handlers') => bound'[n.who] = Nowhere]_vars
  <2>1. ASSUME HookInv, Next, ~disturbed', NEW n \in Elements(handlers), n.who # Py, n \notin Elements(handlers')
        PROVE  bound'[n.who] = Nowhere
    BY <2>1, HookStep DEF KeptFor
  <2>. QED BY <2>1
<1>. QED BY HookInit, HookKept, <1>1, PTL DEF Spec, BinderKept

-----------------------------------------------------------------------------
(***************************************************************************)
(* How far a firing has come.                                              *)
(***************************************************************************)
\* What is there once is there once whatever else follows, and so is what is new.
LEMMA AppendSingle ==
  ASSUME NEW S, NEW s \in Seq(S), NEW e \in S
  PROVE  /\ \A x : Single(x, s) /\ x # e => Single(x, Append(s, e))
         /\ e \notin Elements(s) => Single(e, Append(s, e))
<1>1. /\ DOMAIN s = 1..Len(s) /\ DOMAIN Append(s, e) = 1..Len(s) + 1 /\ Len(s) \in Nat
      /\ \A i \in 1..Len(s) : Append(s, e)[i] = s[i]
      /\ Append(s, e)[Len(s) + 1] = e
  BY AppendPlaces
<1>2. ASSUME NEW x, Single(x, s), x # e PROVE Single(x, Append(s, e))
  <2>1. PICK i \in DOMAIN s : s[i] = x /\ \A j \in DOMAIN s : s[j] = x => j = i
    BY <1>2 DEF Single
  <2>2. \A j \in DOMAIN Append(s, e) : Append(s, e)[j] = x => j = i
    BY <1>1, <1>2, <2>1
  <2>. QED BY <1>1, <2>1, <2>2 DEF Single
<1>3. ASSUME e \notin Elements(s) PROVE Single(e, Append(s, e))
  <2>1. \A j \in DOMAIN Append(s, e) : Append(s, e)[j] = e => j = Len(s) + 1
    BY <1>1, <1>3 DEF Elements
  <2>. QED BY <1>1, <2>1 DEF Single
<1>. QED BY <1>2, <1>3

\* What is there once is the first, and then no more, or still to come.
LEMMA TailSingle ==
  ASSUME NEW S, NEW s \in Seq(S), s # <<>>, NEW x
  PROVE  /\ x \notin Elements(s) => Head(s) # x /\ x \notin Elements(Tail(s))
         /\ Single(x, s) /\ Head(s) = x => x \notin Elements(Tail(s))
         /\ Single(x, s) /\ Head(s) # x => Single(x, Tail(s))
<1>1. /\ Len(s) \in Nat /\ Len(s) > 0 /\ DOMAIN s = 1..Len(s) /\ DOMAIN Tail(s) = 1..Len(s) - 1
      /\ Head(s) = s[1] /\ \A i \in 1..Len(s) - 1 : Tail(s)[i] = s[i + 1]
  BY HeadTailProperties
<1>2. \A i \in DOMAIN Tail(s) : i + 1 \in DOMAIN s /\ i + 1 # 1 /\ Tail(s)[i] = s[i + 1]
  BY <1>1
<1>3. ASSUME x \notin Elements(s) PROVE Head(s) # x /\ x \notin Elements(Tail(s))
  BY <1>1, <1>2, <1>3 DEF Elements
<1>4. ASSUME Single(x, s), Head(s) = x PROVE x \notin Elements(Tail(s))
  <2>1. \A j \in DOMAIN s : s[j] = x => j = 1
    BY <1>1, <1>4 DEF Single
  <2>. QED BY <1>2, <2>1 DEF Elements
<1>5. ASSUME Single(x, s), Head(s) # x PROVE Single(x, Tail(s))
  <2>1. PICK i \in DOMAIN s : s[i] = x /\ \A j \in DOMAIN s : s[j] = x => j = i
    BY <1>5 DEF Single
  <2>2. i - 1 \in DOMAIN Tail(s) /\ Tail(s)[i - 1] = x
    BY <1>1, <1>5, <2>1
  <2>3. \A j \in DOMAIN Tail(s) : Tail(s)[j] = x => j = i - 1
    BY <1>1, <1>2, <2>1
  <2>. QED BY <2>2, <2>3 DEF Single
<1>. QED BY <1>3, <1>4, <1>5

\* A reference which is due is in the list, and its function is held; the loop has its place.
LEMMA CallableKept == ShapeInv /\ Callable /\ [Next]_vars => Callable'
<1>. SUFFICES ASSUME ShapeInv, Callable, [Next]_vars PROVE Callable'
  OBVIOUS
<1>0. TypeOK /\ Apart /\ pyHandlers \in Seq(References)
  BY DEF ShapeInv, TypeOK
<1>1. ASSUME due' \subseteq due, UNCHANGED <<held, pyHandlers>>,
             at' \notin {"call", "ended"} \/ UNCHANGED <<at, pos>>
      PROVE Callable'
  BY <1>1 DEF Callable
<1>2. ASSUME due' = {} PROVE Callable'
  BY <1>2 DEF Callable
<1>3. ASSUME NEW f \in Funcs, Hook(f) PROVE Callable'
  <2>1. PICK r \in References : pyHandlers' = Append(pyHandlers, r)
    BY <1>0, <1>3, HookedNew
  <2>2. /\ Elements(pyHandlers') = Elements(pyHandlers) \union {r}
        /\ DOMAIN pyHandlers = 1..Len(pyHandlers)
        /\ \A i \in 1..Len(pyHandlers) : pyHandlers'[i] = pyHandlers[i]
    BY <1>0, <2>1, AppendPlaces
  <2>3. UNCHANGED <<held, due, at, pos>>
    BY <1>3 DEF Hook, firing
  <2>4. at = "call" => pyHandlers'[pos] = pyHandlers[pos]
    BY <1>0, <2>2 DEF TypeOK
  <2>. QED BY <2>2, <2>3, <2>4 DEF Callable
<1>4. ASSUME NEW f \in Funcs, Drop(f) PROVE Callable'
  <2>1. /\ held' = held \ {f} /\ UNCHANGED <<pyHandlers, at, pos>>
        /\ due' = IF InCall(f) THEN {} ELSE {r \in due : r.to # f}
    BY <1>4 DEF Drop, firing
  <2>2. CASE InCall(f)
    BY <1>2, <2>1, <2>2
  <2>3. CASE ~InCall(f)
    BY <2>1, <2>3 DEF Callable, InCall
  <2>. QED BY <2>2, <2>3
<1>5. ASSUME NEW k \in DOMAIN pyHandlers, Forget(k) PROVE Callable'
  <2>1. ForgottenAt(k)
    BY <1>0, <1>5, ForgottenThere
  <2>2. UNCHANGED <<held, due, at>> /\ pyHandlers[k].to \notin held
    BY <1>5 DEF Forget, Dead
  <2>3. \A r \in due : r.to \in held /\ r \in Elements(pyHandlers')
    BY <2>1, <2>2 DEF ForgottenAt, Callable
  <2>4. CASE at # "call"
    BY <2>2, <2>3, <2>4 DEF Callable
  <2>5. CASE at = "call"
    <3>1. k # pos /\ pos' = (IF k < pos THEN pos - 1 ELSE pos) /\ pos' \in DOMAIN pyHandlers'
      BY <1>5, <2>5, PlaceWithin
    <3>2. Len(pyHandlers) \in Nat /\ k \in 1..Len(pyHandlers) /\ pos \in 1..Len(pyHandlers)
      BY <1>0, <2>5 DEF TypeOK
    <3>3. pyHandlers'[pos'] = pyHandlers[pos]
      <4>1. pyHandlers'[pos'] = IF pos' < k THEN pyHandlers[pos'] ELSE pyHandlers[pos' + 1]
        BY <2>1, <3>1 DEF ForgottenAt
      <4>2. CASE k < pos
        <5>1. pos' = pos - 1 /\ ~(pos' < k) /\ pos' + 1 = pos
          BY <3>1, <3>2, <4>2
        <5>. QED BY <4>1, <5>1
      <4>3. CASE ~(k < pos)
        BY <3>1, <3>2, <4>1, <4>3
      <4>. QED BY <4>2, <4>3
    <3>. QED BY <2>2, <2>3, <2>5, <3>3 DEF Callable
  <2>. QED BY <2>4, <2>5
<1>6. ASSUME Fire PROVE Callable'
  BY <1>6 DEF Fire, Callable
<1>7. ASSUME CallPy PROVE Callable'
  BY <1>7 DEF CallPy, Callable
<1>8. ASSUME Return PROVE Callable'
  BY <1>8 DEF Return, Callable
<1>9. ASSUME CallCore \/ GoOn \/ EndList PROVE Callable'
  BY <1>1, <1>9 DEF CallCore, GoOn, EndList
<1>10. ASSUME Raise \/ EndFire \/ Clear PROVE Callable'
  BY <1>2, <1>10 DEF Raise, EndFire, Clear
<1>11. ASSUME NEW b \in Binders, Bind(b) \/ Unbind(b) PROVE Callable'
  BY <1>1, <1>11 DEF Bind, Unbind, firing
<1>12. ASSUME NEW f \in Funcs, Unhook(f) PROVE Callable'
  BY <1>1, <1>12 DEF Unhook, firing
<1>13. ASSUME UNCHANGED vars PROVE Callable'
  BY <1>1, <1>13 DEF vars
<1>. QED BY <1>3, <1>4, <1>5, <1>6, <1>7, <1>8, <1>9, <1>10, <1>11, <1>12, <1>13 DEF Next, Firing

\* In the part of a firing in which nothing else can step in, the loop is further on.
LEMMA FiringProgress ==
  ASSUME FiringInv, Firing, due' # {}
  PROVE  ToCome' \/ Done' \/ UnderWay'
<1>. DEFINE Goal == ToCome' \/ Done' \/ UnderWay'
<1>. SUFFICES Goal
  OBVIOUS
<1>0. /\ TypeOK /\ Apart /\ Rests /\ pyHandlers \in Seq(References) /\ called \in Seq(References)
      /\ copy \in Seq(Binders \union {Py})
      /\ \A i, j \in DOMAIN pyHandlers : pyHandlers[i] = pyHandlers[j] => i = j
      /\ Len(pyHandlers) \in Nat /\ DOMAIN pyHandlers = 1..Len(pyHandlers)
      /\ pos \in 0..Len(pyHandlers) + 1
      /\ \A r \in due : r.to \in held /\ r \in Elements(pyHandlers)
      /\ due # {} => ToCome \/ Done \/ UnderWay
  BY DEF FiringInv, HookInv, ShapeInv, TypeOK, Apart, Callable, Progress
<1>1. ASSUME Fire PROVE Goal
  <2>1. /\ ~disturbed /\ pyHandlers # <<>> /\ at' = "core" /\ called' = <<>>
        /\ copy' = [i \in DOMAIN handlers |-> handlers[i].who]
    BY <1>1 DEF Fire, Elements
  <2>2. PICK i \in DOMAIN handlers : handlers[i].who = Py
    BY <2>1 DEF FiringInv, HookInv, Addressed, Elements
  <2>3. \A j \in DOMAIN handlers : handlers[j].who = Py => handlers[j].addr = core
    BY <2>1 DEF FiringInv, HookInv, Addressed, Elements
  <2>4. \A j \in DOMAIN handlers : handlers[j].who = Py => j = i
    BY <1>0, <2>2, <2>3 DEF Apart
  <2>5. Single(Py, copy')
    BY <2>1, <2>2, <2>4 DEF Single
  <2>. QED BY <2>1, <2>5 DEF ToCome
<1>2. ASSUME CallCore PROVE Goal
  <2>1. /\ at = "core" /\ copy # <<>> /\ copy' = Tail(copy) /\ UNCHANGED <<called, due, pyHandlers>>
    BY <1>2 DEF CallCore
  <2>2. CASE ToCome /\ Head(copy) = Py
    <3>1. at' = "list" /\ pos' = 1
      BY <1>2, <2>2 DEF CallCore
    <3>2. Py \notin Elements(copy')
      BY <1>0, <2>1, <2>2, TailSingle DEF ToCome
    <3>3. \A i \in DOMAIN pyHandlers' : ~Passed(i)'
      BY <1>0, <2>1, <3>1 DEF Passed
    <3>4. called' = <<>> /\ Elements(called') = {}
      BY <2>1, <2>2 DEF ToCome, Elements
    <3>. QED BY <2>1, <3>1, <3>2, <3>3, <3>4 DEF UnderWay
  <2>3. CASE ToCome /\ Head(copy) # Py
    <3>1. at' = at
      BY <1>2, <2>3 DEF CallCore
    <3>2. Single(Py, copy')
      BY <1>0, <2>1, <2>3, TailSingle DEF ToCome
    <3>. QED BY <2>1, <2>3, <3>1, <3>2 DEF ToCome
  <2>4. CASE Done
    <3>1. Head(copy) # Py /\ Py \notin Elements(copy')
      BY <1>0, <2>1, <2>4, TailSingle DEF Done
    <3>2. at' = at
      BY <1>2, <3>1 DEF CallCore
    <3>. QED BY <2>1, <2>4, <3>1, <3>2 DEF Done
  <2>. QED BY <1>0, <2>1, <2>2, <2>3, <2>4 DEF UnderWay
<1>3. ASSUME CallPy PROVE Goal
  <2>1. /\ at = "list" /\ pos \in DOMAIN pyHandlers /\ UNCHANGED <<pyHandlers, copy, due>>
    BY <1>3 DEF CallPy
  <2>2. /\ Py \notin Elements(copy)
        /\ \A i \in DOMAIN pyHandlers : pyHandlers[i] \in due =>
             /\ i < pos => Single(pyHandlers[i], called)
             /\ ~(i < pos) => pyHandlers[i] \notin Elements(called)
    BY <1>0, <2>1 DEF ToCome, Done, UnderWay, Passed
  <2>3. CASE pyHandlers[pos].to \in held
    <3>. DEFINE w == pyHandlers[pos]
    <3>1. at' = "call" /\ called' = Append(called, w) /\ pos' = pos
      BY <1>3, <2>3 DEF CallPy
    <3>2. w \in References
      BY <1>0, <2>1, ElementOfSeq
    <3>3. ASSUME NEW i \in DOMAIN pyHandlers, pyHandlers[i] \in due
          PROVE  IF i < pos \/ i = pos THEN Single(pyHandlers[i], called')
                 ELSE pyHandlers[i] \notin Elements(called')
      <4>1. CASE i = pos
        <5>1. w \notin Elements(called)
          BY <1>0, <2>2, <3>3, <4>1
        <5>. HIDE DEF w
        <5>2. Single(w, called')
          BY <1>0, <3>1, <3>2, <5>1, AppendSingle
        <5>. QED BY <4>1, <5>2 DEF w
      <4>2. CASE i # pos
        <5>1. pyHandlers[i] # w
          BY <1>0, <2>1, <4>2
        <5>. HIDE DEF w
        <5>2. CASE i < pos
          <6>1. Single(pyHandlers[i], called)
            BY <2>2, <3>3, <5>2
          <6>2. Single(pyHandlers[i], called')
            BY <1>0, <3>1, <3>2, <5>1, <6>1, AppendSingle
          <6>. QED BY <5>2, <6>2
        <5>3. CASE ~(i < pos)
          <6>1. pyHandlers[i] \notin Elements(called)
            BY <2>2, <3>3, <5>3
          <6>2. Elements(called') = Elements(called) \union {w}
            BY <1>0, <3>1, <3>2, AppendPlaces
          <6>. QED BY <4>2, <5>1, <5>3, <6>1, <6>2
        <5>. QED BY <5>2, <5>3
      <4>. QED BY <4>1, <4>2
    <3>. QED BY <2>1, <2>2, <3>1, <3>3 DEF UnderWay, Passed
  <2>4. CASE pyHandlers[pos].to \notin held
    <3>1. at' = "list" /\ called' = called /\ pos' = pos + 1
      BY <1>3, <2>1, <2>4 DEF CallPy, Skipped
    <3>2. pyHandlers[pos] \notin due
      BY <1>0, <2>4
    <3>3. \A i \in DOMAIN pyHandlers : pyHandlers[i] \in due => (i < pos + 1 <=> i < pos)
      BY <1>0, <2>1, <3>2
    <3>. QED BY <2>1, <2>2, <3>1, <3>3 DEF UnderWay, Passed
  <2>. QED BY <2>3, <2>4
<1>4. ASSUME Return PROVE Goal
  <2>1. at = "call" /\ UNCHANGED <<copy, called, pyHandlers, due>>
    BY <1>4 DEF Return
  <2>2. at' = "list" /\ pos' = pos + 1
    BY <1>4, <2>1 DEF Return, FiringInv, Callable
  <2>3. UnderWay
    BY <1>0, <2>1, <2>2 DEF ToCome, Done
  <2>4. \A i \in DOMAIN pyHandlers : Passed(i)' <=> Passed(i)
    BY <1>0, <2>1, <2>2 DEF Passed
  <2>. QED BY <2>1, <2>2, <2>3, <2>4 DEF UnderWay
<1>5. ASSUME EndList PROVE Goal
  <2>1. at = "list" /\ pos \notin DOMAIN pyHandlers /\ at' = "core" /\ UNCHANGED <<copy, called, due>>
    BY <1>5 DEF EndList
  <2>2. UnderWay
    BY <1>0, <2>1 DEF ToCome, Done
  <2>3. pos = Len(pyHandlers) + 1
    BY <1>0, <2>1 DEF Rests
  <2>4. \A i \in DOMAIN pyHandlers : Passed(i)
    BY <1>0, <2>3 DEF Passed
  <2>5. \A f \in due : Single(f, called)
    BY <1>0, <2>2, <2>4 DEF UnderWay, Elements
  <2>. QED BY <2>1, <2>2, <2>5 DEF UnderWay, Done
<1>6. ~GoOn /\ ~Raise /\ ~EndFire
  BY DEF GoOn, Raise, EndFire, FiringInv, Callable
<1>. QED BY <1>1, <1>2, <1>3, <1>4, <1>5, <1>6 DEF Firing

\* What other code does whilst a function is called, or between the handlers of the core,
\* leaves the loop as far as it was.
LEMMA OtherProgress ==
  ASSUME FiringInv, Next, ~Firing, due' # {}
  PROVE  ToCome' \/ Done' \/ UnderWay'
<1>. DEFINE Goal == ToCome' \/ Done' \/ UnderWay'
<1>. SUFFICES Goal
  OBVIOUS
<1>0. /\ TypeOK /\ Apart /\ Rests /\ ShapeInv /\ pyHandlers \in Seq(References)
      /\ Len(pyHandlers) \in Nat /\ DOMAIN pyHandlers = 1..Len(pyHandlers)
      /\ pos \in 0..Len(pyHandlers) + 1
      /\ \A r \in due : r \in Elements(pyHandlers)
      /\ due # {} => ToCome \/ Done \/ UnderWay
  BY DEF FiringInv, HookInv, ShapeInv, TypeOK, Callable, Progress
<1>1. ASSUME due' \subseteq due, UNCHANGED <<pyHandlers, firing>> PROVE Goal
  <2>1. due # {}
    BY <1>1
  <2>. QED BY <1>0, <1>1, <2>1 DEF firing, ToCome, Done, UnderWay, Passed
<1>2. ASSUME NEW f \in Funcs, Hook(f) PROVE Goal
  <2>0. PICK r \in References \ Elements(pyHandlers) : pyHandlers' = Append(pyHandlers, r)
    BY <1>0, <1>2, HookedNew
  <2>1. /\ at # "list" /\ r \notin due
        /\ UNCHANGED <<copy, at, pos, called, due>>
    BY <1>0, <1>2 DEF Hook, GilFree, firing
  <2>2. /\ DOMAIN pyHandlers' = 1..Len(pyHandlers) + 1
        /\ \A i \in 1..Len(pyHandlers) : pyHandlers'[i] = pyHandlers[i]
        /\ pyHandlers'[Len(pyHandlers) + 1] = r
    BY <1>0, <2>0, AppendPlaces
  <2>3. \A i \in DOMAIN pyHandlers' : pyHandlers'[i] \in due =>
          i \in DOMAIN pyHandlers /\ pyHandlers'[i] = pyHandlers[i]
    BY <1>0, <2>1, <2>2
  <2>4. CASE UnderWay
    BY <2>1, <2>3, <2>4 DEF UnderWay, Passed
  <2>5. CASE ToCome \/ Done
    BY <2>1, <2>5 DEF ToCome, Done
  <2>. QED BY <1>0, <2>1, <2>4, <2>5
<1>3. ASSUME NEW k \in DOMAIN pyHandlers, Forget(k) PROVE Goal
  <2>1. due # {} /\ UNCHANGED <<copy, at, called, due>>
    BY <1>3 DEF Forget
  <2>2. CASE ToCome \/ Done
    BY <2>1, <2>2 DEF ToCome, Done
  <2>3. CASE UnderWay
    <3>1. ForgottenAt(k)
      BY <1>0, <1>3, ForgottenThere
    <3>2. at = "call"
      BY <1>0, <1>3, <2>3, PlaceWithin DEF UnderWay
    <3>3. k # pos /\ pos' = (IF k < pos THEN pos - 1 ELSE pos)
      BY <1>0, <1>3, <3>2, PlaceWithin
    <3>4. /\ DOMAIN pyHandlers' = 1..Len(pyHandlers) - 1
          /\ \A j \in DOMAIN pyHandlers' : pyHandlers'[j] = IF j < k THEN pyHandlers[j] ELSE pyHandlers[j + 1]
      BY <1>0, <3>1 DEF ForgottenAt
    <3>5. ASSUME NEW j \in DOMAIN pyHandlers', pyHandlers'[j] \in due'
          PROVE  IF Passed(j)' THEN Single(pyHandlers'[j], called')
                 ELSE pyHandlers'[j] \notin Elements(called')
      <4>. DEFINE o == IF j < k THEN j ELSE j + 1
      <4>1. o \in DOMAIN pyHandlers /\ pyHandlers'[j] = pyHandlers[o] /\ pyHandlers[o] \in due
        BY <1>0, <2>1, <3>4, <3>5
      <4>2. Passed(j)' <=> Passed(o)
        BY <1>0, <2>1, <3>2, <3>3, <3>4 DEF Passed
      <4>. HIDE DEF o
      <4>. QED BY <2>1, <2>3, <4>1, <4>2 DEF UnderWay
    <3>. QED BY <2>1, <2>3, <3>5 DEF UnderWay
  <2>. QED BY <1>0, <2>1, <2>2, <2>3
<1>4. ASSUME NEW b \in Binders, Bind(b) \/ Unbind(b) PROVE Goal
  BY <1>1, <1>4 DEF Bind, Unbind
<1>5. ASSUME NEW f \in Funcs, Unhook(f) \/ Drop(f) PROVE Goal
  BY <1>1, <1>5 DEF Unhook, Drop
<1>6. ~Clear
  BY DEF Clear
<1>. QED BY <1>2, <1>3, <1>4, <1>5, <1>6 DEF Next

LEMMA FiringInit == Init => FiringInv
BY HookInit DEF Init, FiringInv, Callable, Progress

LEMMA FiringKept == FiringInv /\ [Next]_vars => FiringInv'
<1>1. FiringInv /\ [Next]_vars => HookInv' /\ Callable'
  BY HookKept, CallableKept DEF FiringInv, HookInv
<1>2. ASSUME FiringInv, Next, due' # {} PROVE ToCome' \/ Done' \/ UnderWay'
  BY <1>2, FiringProgress, OtherProgress
<1>3. ASSUME FiringInv, UNCHANGED vars PROVE Progress'
  BY <1>3 DEF vars, FiringInv, Progress, ToCome, Done, UnderWay, Passed, Single, Elements
<1>. QED BY <1>1, <1>2, <1>3 DEF FiringInv, Progress

\* PyEvents.cpp:138: each hooking made before a firing, of a function which is held throughout
\* and was not unhooked with -=, has led to exactly one call when the core's loop has come to
\* its end, however often the function was hooked and whatever was hooked and dropped
\* meanwhile, unless a function has raised, or one lost its last reference while it ran, or
\* the event was disturbed; for every number of functions, handlers and addresses.
THEOREM DueAreCalledOnce == Spec => []CalledOnce
<1>1. FiringInv => CalledOnce
  <2>. SUFFICES ASSUME FiringInv, at = "core", copy = <<>>, NEW r \in due
                PROVE  Cardinality({i \in DOMAIN called : called[i] = r}) = 1
    BY DEF CalledOnce
  <2>1. ~ToCome
    BY DEF ToCome, Single
  <2>2. Single(r, called)
    BY <2>1 DEF FiringInv, Progress, Done, UnderWay
  <2>. QED BY <2>2, SingleCounts
<1>. QED BY FiringInit, FiringKept, <1>1, PTL DEF Spec

=============================================================================
