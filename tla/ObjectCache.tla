---------------------------- MODULE ObjectCache ----------------------------
(***************************************************************************)
(* ObjectCache (include/xloil/ObjectCache.h), from which worksheet         *)
(* functions return references to objects which no cell can hold.          *)
(*                                                                         *)
(* A key is a workbook, a cell and a name, the object's type in xlOil's    *)
(* own functions. (A user's own text has the form of a workbook's name     *)
(* too: it is one which is never opened.) A reference is a key and a       *)
(* position, one letter of the text. Objects are numbered in the order in  *)
(* which they are added; one also carries the calculation cycle of its     *)
(* addition, which the code does not store.                                *)
(***************************************************************************)
EXTENDS Naturals, Sequences

CONSTANTS
  Books,       \* the names of workbooks
  Cells,       \* a cell of a workbook together with an object's name
  Starts,      \* <<v, w>> if the text of v is how the text of w starts
  Span,        \* positions which a reference can tell apart: 2^8 in the code
  MaxObjects,  \* bound on the objects added
  MaxCycles    \* bound on the calculation cycles

ASSUME CacheConstants ==
  /\ Starts \subseteq Books \X Books /\ \A w \in Books : <<w, w>> \in Starts
  /\ Span \in Nat \ {0} /\ MaxObjects \in Nat /\ MaxCycles \in Nat

VARIABLES
  cache,    \* _cache: for each key its cycle and its objects, _obj first
  calcId,   \* _calcId
  added,    \* objects added so far
  latest    \* the reference returned last for each key, and its object

cacheVars == <<cache, calcId, added, latest>>

Keys == Books \X Cells
Object == [no : Nat, cycle : Nat]
NoObject == [no |-> 0, cycle |-> 0]

CacheInit ==
  /\ cache = [k \in {} |-> NoObject]
  /\ calcId = 1
  /\ added = 0
  /\ latest = [k \in {} |-> NoObject]

With(f, k, v) == [x \in DOMAIN f \union {k} |-> IF x = k THEN v ELSE f[x]]
Only(f, S) == [x \in DOMAIN f \intersect S |-> f[x]]

\* A key which is new, or not yet used in this cycle, starts again.
StartsAgain(k) == k \notin DOMAIN cache \/ cache[k].calc # calcId

\* Fault: the objects of an earlier cycle but the first stay.
EntryUncleared(k, o) ==
  [calc |-> calcId,
   objs |-> IF k \notin DOMAIN cache THEN <<o>>
            ELSE IF StartsAgain(k) THEN <<o>> \o Tail(cache[k].objs)
            ELSE Append(cache[k].objs, o)]

\* CellCache::add
Entry(k, o) ==
  [calc |-> calcId, objs |-> IF StartsAgain(k) THEN <<o>> ELSE Append(cache[k].objs, o)]

\* Fault: the number of objects is taken before the addition.
PositionBefore(k) ==
  IF StartsAgain(k) THEN 0 ELSE (Len(cache[k].objs) - 1) % Span

\* iPos, cut to the width of a uint8_t
Position(k) == IF StartsAgain(k) THEN 0 ELSE Len(cache[k].objs) % Span

\* add(), under the lock
Add(k) ==
  LET o == [no |-> added + 1, cycle |-> calcId] IN
  /\ added < MaxObjects
  /\ added' = added + 1
  /\ cache' = With(cache, k, Entry(k, o))
  /\ latest' = With(latest, k, [pos |-> Position(k), obj |-> o])
  /\ UNCHANGED calcId

\* fetch()
Fetched(k, pos) ==
  IF k \in DOMAIN cache /\ pos < Len(cache[k].objs) THEN cache[k].objs[pos + 1] ELSE NoObject

\* erase(): all objects of the key, whatever the position
Erase(k) ==
  /\ k \in DOMAIN cache
  /\ cache' = Only(cache, Keys \ {k})
  /\ latest' = Only(latest, Keys \ {k})
  /\ UNCHANGED <<calcId, added>>

\* onWorkbookClose(): a key goes if its text starts as the workbook's name does.
Reaped(w) == {k \in DOMAIN cache : <<w, k[1]>> \in Starts}

Reap(w) ==
  /\ cache' = Only(cache, Keys \ Reaped(w))
  /\ UNCHANGED <<calcId, added, latest>>

\* Objects of closed workbooks are not referred to any more.
Forget(w) == latest' = Only(latest, {k \in Keys : k[1] # w})

\* onAfterCalculate()
NextCycle ==
  /\ calcId <= MaxCycles
  /\ calcId' = calcId + 1
  /\ UNCHANGED <<cache, added, latest>>

\* The cache alone, whatever its users do.
CacheNext ==
  \/ \E k \in Keys : Add(k) \/ Erase(k)
  \/ \E w \in Books : Reap(w) \/ (Forget(w) /\ UNCHANGED <<cache, calcId, added>>)
  \/ NextCycle

CacheSpec == CacheInit /\ [][CacheNext]_cacheVars

-----------------------------------------------------------------------------
CacheTypeOK ==
  /\ DOMAIN cache \subseteq Keys
  /\ \A k \in DOMAIN cache :
       cache[k].calc \in 1..calcId /\ cache[k].objs \in Seq(Object) /\ cache[k].objs # <<>>
  /\ calcId \in 1..MaxCycles + 1
  /\ added \in 0..MaxObjects
  /\ DOMAIN latest \subseteq Keys
  /\ \A k \in DOMAIN latest : latest[k].pos \in 0..Span - 1 /\ latest[k].obj \in Object

\* ObjectCache.h:110-114: an entry never mixes objects of two calculation cycles,
\* so that a reference of an earlier cycle never resolves to what was added then
\* once its cell has been calculated again.
OneCycle ==
  \A k \in DOMAIN cache : \A i \in DOMAIN cache[k].objs : cache[k].objs[i].cycle = cache[k].calc
=============================================================================
