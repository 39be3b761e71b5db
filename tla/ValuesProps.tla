---------------------------- MODULE ValuesProps ----------------------------
(***************************************************************************)
(* What the calls have to return.                                          *)
(***************************************************************************)
EXTENDS Values

Returned(fn) == at = "done" /\ call.fn = fn

-----------------------------------------------------------------------------
\* The rows which xloSort returns are those it was given, the headings first
\* and no row before another which is less by the keys; it loses none, though
\* it moves them in place, and whatever the types of the cells it compares.
Rearranged(p) ==
  LET new == [i \in DOMAIN view |-> view[p[i]]]
  IN IF call.cached THEN new ELSE WithView(call.array, new)

InOrder(p) ==
  \A i, j \in fixed + 1..Len(view) : i < j => ~LessThan(keys, view[p[j]], view[p[i]])

SortedRows ==
  Returned("sort") /\ Sortable =>
    \E p \in Permutation(Len(view)) :
      /\ \A i \in 1..fixed : p[i] = i
      /\ InOrder(p)
      /\ result = Rearranged(p)

-----------------------------------------------------------------------------
\* The parts of a line with what is left of the width, in its first gap or, if it
\* has none, at its end.
WithGap(line, args, total) ==
  LET parts == LineParts(line, args)
      left == Part(0, total - Total(Widths(parts)), PADDING)
      gap == SelectInSeq(line, LAMBDA arg : arg = PADDING)
  IN IF gap = 0 THEN Append(parts, left) ELSE [parts EXCEPT ![gap] = left]

\* Row i of a part, and of the line it is in.
RowOfPart(part, args, i) ==
  IF i <= part.rows THEN SubSeq(args[part.arg][i], 1, part.cols) ELSE Row(part.cols, NA)

RowOfLine(line, args, i, total) ==
  LET parts == WithGap(line, args, total)
  IN FlattenSeq([m \in DOMAIN parts |-> RowOfPart(parts[m], args, i)])

RowsOfLine(line, args, total) ==
  [i \in 1..Largest(Heights(LineParts(line, args))) |-> RowOfLine(line, args, i, total)]

\* The room which a cell's text takes, with its count.
Stored(c) == IF c.type = "str" /\ c.val # <<>> THEN Len(c.val) + 1 ELSE 0

\* In what xloBlock returns each line has its arguments beside one another, as
\* high as the highest, with NA below those which are lower, and the first gap
\* of the line, or its end, takes what is left of the width. The text of all
\* cells, each with its count, fits the room taken for it.
LaidOut ==
  Returned("block") =>
    LET layout == call.layout
        spec == LayoutOf(layout, call.args)
    IN spec.rows > 0 /\ spec.cols > 0 =>
         /\ result = FlattenSeq([n \in DOMAIN layout |-> RowsOfLine(layout[n], call.args, spec.cols)])
         /\ Total([i \in DOMAIN result |-> Total([j \in DOMAIN result[i] |-> Stored(result[i][j])])])
              <= BlockRoom(layout, call.args)

\* A text which is split at one character and put together with it is the same
\* text again, unless it ends with it; and no token but the first and the last
\* is empty if separators which follow each other count as one.
SplitRejoins ==
  Returned("split") =>
    /\ ~call.consecutive /\ Len(call.sep) = 1 /\ call.text # <<>>
       /\ Last(call.text) # call.sep[1] =>
         Concat(<<[i \in DOMAIN result |-> <<result[i]>>]>>, call.sep) = call.text
    /\ call.consecutive => \A i \in 2..Len(result) - 1 : result[i].val # <<>>

\* An address which was written, of a cell or a range, in either style, is read
\* as the reference it was written for.
AddressReadBack ==
  Returned("address") => ParseAddress(result) = [ok |-> TRUE, ref |-> call.ref]

-----------------------------------------------------------------------------
IsLeap(y) == (y % 4 = 0 /\ y % 100 # 0) \/ y % 400 = 0 \/ y = 1900

DaysIn(y, m) ==
  CASE m = 2 -> IF IsLeap(y) THEN 29 ELSE 28
    [] m \in {4, 6, 9, 11} -> 30
    [] OTHER -> 31

Following(d) ==
  CASE d.day < DaysIn(d.year, d.month) -> Date(d.year, d.month, d.day + 1)
    [] d.day = DaysIn(d.year, d.month) /\ d.month < 12 -> Date(d.year, d.month + 1, 1)
    [] OTHER -> Date(d.year + 1, 1, 1)

\* The serial number of a day's date is the day's again, but for 28 February
\* 1900, and the next day's date is that of the next day of the calendar, which
\* has a 29 February 1900.
DatesFollow ==
  Returned("date") =>
    /\ result = Date(1900, 2, 28) \/ SerialDateFromYMD(result) = call.serial
    /\ call.serial < XL_MAX_SERIAL_DATE => SerialDateToYMD(call.serial + 1) = Following(result)

-----------------------------------------------------------------------------
(***************************************************************************)
(* Statements of the documentation and of comments which do not hold.      *)
(***************************************************************************)
\* An array is trimmed to its last row and column which are not empty
\* (ExcelArray.h:156).
TrimKeeps ==
  "array" \in DOMAIN call =>
    LET a == call.array
    IN \A i \in DOMAIN a : \A j \in DOMAIN a[i] :
         NonEmpty(a[i][j]) => i <= TrimmedRows(a) /\ j <= TrimmedCols(a)

\* Without an order the rows are sorted ascending (xloSort.cpp:107).
DefaultAscends ==
  call.fn = "sort" /\ call.order = <<>> /\ at \notin {"call", "thrown"} =>
    keys \in {<<Key(1, cased, FALSE)>> : cased \in BOOLEAN}

\* An array is filled with the value (xloFill.cpp:41), and NA is replaced by it
\* and nothing else (xloFillNA.cpp:97).
FilledThroughout ==
  /\ Returned("fill") => result = Filled(call.n, call.m, call.cell)
  /\ Returned("fillna") => \A i \in DOMAIN result : \A j \in DOMAIN result[i] :
       result[i][j] = IF IsNA(call.array[i][j]) THEN call.cell ELSE call.array[i][j]

\* Before the day which was not, the serial number is made up for it
\* (Date.cpp:104): but not that of 28 February 1900, which is 60, the next day's.
DatesInvert == Returned("date") => SerialDateFromYMD(result) = call.serial

\* Each character is a separator of its own (xloSplit.cpp:152).
EachSeparates ==
  Returned("split") => \A i \in DOMAIN result : \A j \in DOMAIN result[i].val :
    \A l \in DOMAIN call.sep : result[i].val[j] # call.sep[l]

\* The last row is not part of what xloIndex returns (xloIndex.cpp:60).
EndExcluded ==
  Returned("index") /\ call.to # <<>> =>
    (call.to[1] > 0 /\ call.from[1] > 0 => Len(result) = call.to[1] - call.from[1])
=============================================================================
