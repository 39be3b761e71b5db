------------------------------- MODULE Utils -------------------------------
(***************************************************************************)
(* The array functions of xlOil_Utils but xloSort. Each is a function of   *)
(* its arguments. An argument which may be an array or a single value is   *)
(* given as an array; a single value is one of one cell.                   *)
(***************************************************************************)
EXTENDS ExcelObjs, SequencesExt

Total(s) == FoldLeft(LAMBDA sum, e : sum + e, 0, s)
Largest(s) == FoldLeft(LAMBDA max, e : IF e > max THEN e ELSE max, 0, s)

\* The length of all text in an array.
StringLength(c) == IF c.type = "str" THEN Len(c.val) ELSE 0
TextLength(a) == Total([i \in DOMAIN a |-> Total([j \in DOMAIN a[i] |-> StringLength(a[i][j])])])

\* ExcelArrayBuilder: the characters it takes room for.
TextRoom(length, n, m) == IF length > 0 THEN length + n * m * 2 ELSE 0

-----------------------------------------------------------------------------
(***************************************************************************)
(* xloBlock. A layout is a sequence of lines, a line one of the numbers of *)
(* arguments, 0 where there is only a comma. An argument of one cell is    *)
(* taken as a single value, whose size is not trimmed.                     *)
(***************************************************************************)
PADDING == 0
NEW_ROW == -1

Part(rows, cols, arg) == [rows |-> rows, cols |-> cols, arg |-> arg]

Single(a) == Len(a) = 1 /\ Width(a) = 1

Sized(a, arg) ==
  IF Single(a) THEN Part(1, 1, arg) ELSE Part(TrimmedRows(a), TrimmedCols(a), arg)

LineParts(line, args) ==
  [m \in DOMAIN line |->
     IF line[m] = PADDING THEN Part(0, 0, PADDING) ELSE Sized(args[line[m]], line[m])]

Heights(parts) == [m \in DOMAIN parts |-> parts[m].rows]
Widths(parts) == [m \in DOMAIN parts |-> parts[m].cols]

\* Fault: a padding takes what the arguments before it leave.
PaddedBefore(parts, total) ==
  [m \in DOMAIN parts |->
     IF parts[m].arg = PADDING /\ \A l \in 1..m - 1 : parts[l].arg # PADDING
     THEN Part(0, total - Total(Widths(SubSeq(parts, 1, m))), PADDING)
     ELSE parts[m]]

\* The first padding of a line takes what its arguments leave of the width.
Padded(parts, total) ==
  [m \in DOMAIN parts |->
     IF parts[m].arg = PADDING /\ \A l \in 1..m - 1 : parts[l].arg # PADDING
     THEN Part(0, total - Total(Widths(parts)), PADDING)
     ELSE parts[m]]

\* The parts of all lines, each line ended by a part with its height.
LayoutOf(layout, args) ==
  LET lines == [n \in DOMAIN layout |-> LineParts(layout[n], args)]
      total == Largest([n \in DOMAIN lines |-> Total(Widths(lines[n]))])
  IN [rows  |-> Total([n \in DOMAIN lines |-> Largest(Heights(lines[n]))]),
      cols  |-> total,
      parts |-> FlattenSeq([n \in DOMAIN lines |->
                  Append(Padded(lines[n], total), Part(Largest(Heights(lines[n])), 0, NEW_ROW))])]

\* Array a written with its corner at a row and a column, both from zero.
Written(out, a, part, row, col) ==
  [i \in DOMAIN out |-> [j \in DOMAIN out[i] |->
     IF i - row \in 1..part.rows /\ j - col \in 1..part.cols
     THEN a[i - row][j - col] ELSE out[i][j]]]

PutPart(args, s, part) ==
  CASE part.arg = NEW_ROW -> [s EXCEPT !.row = @ + part.rows, !.col = 0]
    [] part.arg = PADDING -> [s EXCEPT !.col = @ + part.cols]
    [] OTHER -> [s EXCEPT !.out = Written(@, args[part.arg], part, s.row, s.col),
                          !.col = @ + part.cols]

Block(layout, args) ==
  LET spec == LayoutOf(layout, args)
      start == [row |-> 0, col |-> 0, out |-> Filled(spec.rows, spec.cols, NA)]
  IN IF spec.rows = 0 \/ spec.cols = 0 THEN <<<<NA>>>>
     ELSE FoldLeft(LAMBDA s, part : PutPart(args, s, part), start, spec.parts).out

TextOf(a) == TextLength(IF Single(a) THEN a ELSE View(a))

TextsOf(line, args) ==
  [m \in DOMAIN line |-> IF line[m] = PADDING THEN 0 ELSE TextOf(args[line[m]])]

BlockRoom(layout, args) ==
  LET spec == LayoutOf(layout, args)
  IN TextRoom(Total([n \in DOMAIN layout |-> Total(TextsOf(layout[n], args))]), spec.rows, spec.cols)

-----------------------------------------------------------------------------
\* xloPad: a vector or a value with a further row or column, or both.
Pad(a) ==
  LET v == View(a)
      n == Len(v)
      m == Width(v)
  IN IF n > 1 /\ m > 1 THEN a
     ELSE [i \in 1..(IF n = 1 THEN 2 ELSE n) |-> [j \in 1..(IF m = 1 THEN 2 ELSE m) |->
             IF i <= n /\ j <= m THEN v[i][j] ELSE NA]]

\* xloIndex: from and to are pairs of a row and a column, to is <<>> if it is
\* not given. An argument which is not given is 1 for from and 0 for to.
Thrown == <<>>

FromIndex(from, size) == IF from > 0 THEN from - 1 ELSE from + size
ToIndex(to, size) == LET t == IF to > 0 THEN to - 1 ELSE to IN IF t = 0 THEN size ELSE t

Index(a, from, to) ==
  LET v == View(a)
      n == TrimmedRows(a)
      m == TrimmedCols(a)
      i == FromIndex(from[1], n)
      j == FromIndex(from[2], m)
      rows == SliceIndices(i, ToIndex(to[1], n), n)
      cols == SliceIndices(j, ToIndex(to[2], m), m)
  IN IF to = <<>>
     THEN IF i \in 0..n - 1 /\ j \in 0..m - 1 THEN <<<<v[i + 1][j + 1]>>>> ELSE Thrown
     ELSE IF ~rows.ok \/ ~cols.ok THEN Thrown
     ELSE IF rows.from = rows.to \/ cols.from = cols.to THEN <<<<Nil>>>>
     ELSE [k \in 1..rows.to - rows.from |->
             SubSeq(v[rows.from + k], cols.from + 1, cols.to)]

-----------------------------------------------------------------------------
(***************************************************************************)
(* xloFill and xloFillNA.                                                  *)
(***************************************************************************)
\* A string's buffer is released to the first cell and is null afterwards:
\* the others have the text without characters.
Released(c, first) == IF c.type = "str" /\ ~first THEN Text(<<>>) ELSE c

Fill(c, n, m) == [i \in 1..n |-> [j \in 1..m |-> Released(c, i = 1 /\ j = 1)]]

IsNA(c) == c = NA

\* The first cells of the array in memory, as many as the view has, whatever
\* the view's width, are copied into an array of the view's size.
Copied(a, n, m) ==
  LET flat == FlattenSeq(a)
  IN [i \in 1..n |-> [j \in 1..m |-> flat[(i - 1) * m + j]]]

FillNA(a, c, trim, cached) ==
  LET n == IF trim THEN TrimmedRows(a) ELSE Len(a)
      m == IF trim THEN TrimmedCols(a) ELSE Width(a)
      First(i, j) == \A k \in 1..n, l \in 1..m :
                       IsNA(a[k][l]) => k > i \/ (k = i /\ l >= j)
  IN IF c.type = "str" \/ cached
     THEN [i \in 1..n |-> [j \in 1..m |->
             IF IsNA(a[i][j]) THEN Released(c, First(i, j)) ELSE Copied(a, n, m)[i][j]]]
     ELSE [i \in DOMAIN a |-> [j \in DOMAIN a[i] |->
             IF i <= n /\ j <= m /\ IsNA(a[i][j]) THEN c ELSE a[i][j]]]

-----------------------------------------------------------------------------
(***************************************************************************)
(* xloSplit of a string, and xloConcat, which puts it together. The        *)
(* separator is sought as a whole; of one which was found a single         *)
(* character is skipped, or as many as are characters of it.               *)
(***************************************************************************)
\* The first place, from zero, at or after prev at which sep stands, or the length.
FoundAt(text, sep, prev) ==
  LET at == {p \in prev..Len(text) - Len(sep) : SubSeq(text, p + 1, p + Len(sep)) = sep}
  IN IF at = {} THEN Len(text) ELSE CHOOSE p \in at : \A q \in at : p <= q

\* Fault: consecutive separators always count as one.
SkipAll(text, sep, at, consecutive) ==
  LET rest == {p \in at..Len(text) - 1 : text[p + 1] \notin {sep[i] : i \in DOMAIN sep}}
  IN IF rest = {} THEN Len(text) ELSE CHOOSE p \in rest : \A q \in rest : p <= q

Skip(text, sep, at, consecutive) ==
  LET rest == {p \in at..Len(text) - 1 : text[p + 1] \notin {sep[i] : i \in DOMAIN sep}}
  IN IF ~consecutive THEN at + 1
     ELSE IF rest = {} THEN Len(text) ELSE CHOOSE p \in rest : \A q \in rest : p <= q

\* findSplitPoints(), for a separator which is not empty.
Split(text, sep, consecutive) ==
  LET tokens[prev \in 0..Len(text)] ==
        LET at == FoundAt(text, sep, prev)
            token == Text(SubSeq(text, prev + 1, at))
        IN IF at = Len(text) THEN <<token>>
           ELSE <<token>> \o tokens[Skip(text, sep, at, consecutive)]
  IN tokens[0]

\* An array of texts and other values is split into as many rows or columns,
\* filled up with NA.
SplitAll(cells, sep, consecutive, byRow) ==
  LET split == [i \in DOMAIN cells |->
                  IF cells[i].type = "str" THEN Split(cells[i].val, sep, consecutive)
                                           ELSE <<cells[i]>>]
      size == Largest([i \in DOMAIN split |-> Len(split[i])])
      At(i, k) == IF k <= Len(split[i]) THEN split[i][k] ELSE NA
  IN IF byRow THEN [i \in DOMAIN cells |-> [k \in 1..size |-> At(i, k)]]
              ELSE [k \in 1..size |-> [i \in DOMAIN cells |-> At(i, k)]]

\* toStringRecursive() of an array of texts, which is trimmed.
Joined(texts, sep) ==
  LET all == FlattenSeq([i \in DOMAIN texts |-> texts[i].val \o sep])
  IN SubSeq(all, 1, Len(all) - Len(sep))

\* xloConcat() with a separator, of arrays of texts.
Concat(args, sep) ==
  Joined([n \in DOMAIN args |-> Text(Joined(FlattenSeq(View(args[n])), sep))], sep)
=============================================================================
