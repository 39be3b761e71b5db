------------------------------- MODULE Values -------------------------------
(***************************************************************************)
(* A call of one of xlOil_Utils' functions, or of a conversion of an       *)
(* address or a date. xloSort sorts the indices of the rows and then moves *)
(* the rows, of the array which Excel passed, one cycle of the permutation *)
(* after the other; each exchange of two rows is a step. The other calls   *)
(* are one step.                                                           *)
(***************************************************************************)
EXTENDS Sorting, Utils, Conversions

CONSTANT Calls    \* the calls, records with the function's name and arguments

\* A descriptor left out stands for the column of its own number; the code does
\* not test that the array, if it is not empty, has it. No number but Excel's
\* is converted to a date.
ColumnsGiven(v, order, by) ==
  \A n \in Used(order) : Descriptor(by, n) = Missing => Width(v) \in {0} \cup (n..Width(v))

ASSUME CallConstants ==
  \A c \in Calls :
    /\ c.fn = "sort" =>
         /\ Array(c.array)
         /\ ColumnsGiven(View(c.array), c.order, c.by)
         /\ c.cached \in BOOLEAN
         /\ c.order \in Seq(STRING)
         /\ c.by \in Seq(Cell \cup {Missing})
    /\ c.fn = "block" =>
         /\ c.args \in Seq(Seq(Seq(Cell))) /\ \A n \in DOMAIN c.args : Array(c.args[n])
         /\ c.layout \in Seq(Seq(0..Len(c.args)))
    /\ c.fn = "address" => c.ref \in SheetRef /\ c.a1 \in BOOLEAN
    /\ c.fn = "split" =>
         c.text \in Seq(Nat) /\ c.sep \in Seq(Nat) \ {<<>>} /\ c.consecutive \in BOOLEAN
    /\ c.fn = "date" => c.serial \in 0..XL_MAX_SERIAL_DATE

VARIABLES
  call,      \* the call
  at,        \* where it is: call, cycle, move, done or thrown
  keys,      \* directions and columns
  rows,      \* the rows of the view
  indices,   \* indices: the row which each row is to become
  moved,     \* the rows whose index is npos
  start, k,  \* start and k of the loops
  result     \* what the call returns

vars == <<call, at, keys, rows, indices, moved, start, k, result>>

Init ==
  /\ call \in Calls
  /\ at = "call"
  /\ keys = <<>> /\ rows = <<>> /\ indices = <<>>
  /\ moved = {} /\ start = 1 /\ k = 1
  /\ result = <<>>

-----------------------------------------------------------------------------
Return(value) == at' = "done" /\ result' = value
Throw == at' = "thrown" /\ UNCHANGED result

view == View(call.array)
fixed == IF HasHeadings(call.order, call.by) THEN 1 ELSE 0
Sortable == Len(view) >= 2 /\ Width(view) > 0

\* The array with other rows where its view is.
WithView(a, new) ==
  [i \in DOMAIN a |->
     IF i <= Len(new) THEN new[i] \o SubSeq(a[i], Len(new[i]) + 1, Len(a[i])) ELSE a[i]]

SortNothing ==
  /\ at = "call" /\ call.fn = "sort" /\ ~Sortable
  /\ Return(call.array)
  /\ UNCHANGED <<call, keys, rows, indices, moved, start, k>>

SortThrows ==
  /\ at = "call" /\ call.fn = "sort" /\ Sortable
  /\ Throws(view, call.order, call.by)
  /\ Throw
  /\ UNCHANGED <<call, keys, rows, indices, moved, start, k>>

\* Of a cached array, a copy in the order of the indices is returned.
Sort ==
  /\ at = "call" /\ call.fn = "sort" /\ Sortable
  /\ ~Throws(view, call.order, call.by)
  /\ keys' \in Keys(view, call.order, call.by)
  /\ indices' \in SortedIndices(view, keys', fixed)
  /\ IF call.cached
     THEN Return([i \in DOMAIN view |-> view[indices'[i]]]) /\ UNCHANGED rows
     ELSE at' = "cycle" /\ rows' = view /\ UNCHANGED result
  /\ UNCHANGED <<call, moved, start, k>>

\* The next row which has not been moved is the start of another cycle.
Unmoved == DOMAIN indices \ moved

NextCycle ==
  /\ at = "cycle"
  /\ IF Unmoved = {}
     THEN /\ Return(WithView(call.array, rows))
          /\ UNCHANGED <<start, k>>
     ELSE /\ start' \in Unmoved /\ \A i \in Unmoved : start' <= i
          /\ k' = start'
          /\ at' = "move" /\ UNCHANGED result
  /\ UNCHANGED <<call, keys, rows, indices, moved>>

\* swapmem() of two rows.
Exchanged(a, i, j) == [a EXCEPT ![i] = a[j], ![j] = a[i]]

\* A cycle ends at the row whose index is its start.
Move ==
  /\ at = "move"
  /\ moved' = moved \cup {k}
  /\ IF indices[k] = start
     THEN at' = "cycle" /\ UNCHANGED <<rows, k>>
     ELSE /\ rows' = Exchanged(rows, k, indices[k])
          /\ k' = indices[k]
          /\ UNCHANGED at
  /\ UNCHANGED <<call, keys, indices, start, result>>

-----------------------------------------------------------------------------
(***************************************************************************)
(* The other calls.                                                        *)
(***************************************************************************)
Answer(c) ==
  CASE c.fn = "block"   -> Block(c.layout, c.args)
    [] c.fn = "pad"     -> Pad(c.array)
    [] c.fn = "index"   -> Index(c.array, c.from, c.to)
    [] c.fn = "fill"    -> Fill(c.cell, c.n, c.m)
    [] c.fn = "fillna"  -> FillNA(c.array, c.cell, c.trim, c.cached)
    [] c.fn = "split"   -> Split(c.text, c.sep, c.consecutive)
    [] c.fn = "splits"  -> SplitAll(c.cells, c.sep, c.consecutive, c.byRow)
    [] c.fn = "address" -> LocalAddress(c.ref, c.a1)
    [] c.fn = "date"    -> SerialDateToYMD(c.serial)

AnswerCall ==
  /\ at = "call" /\ call.fn # "sort"
  /\ IF call.fn = "index" /\ Answer(call) = Thrown THEN Throw ELSE Return(Answer(call))
  /\ UNCHANGED <<call, keys, rows, indices, moved, start, k>>

Next == SortNothing \/ SortThrows \/ Sort \/ NextCycle \/ Move \/ AnswerCall

Spec == Init /\ [][Next]_vars
=============================================================================
