----------------------------- MODULE ExcelObjs -----------------------------
(***************************************************************************)
(* The values of cells and arrays of them: ExcelObj::compare, the trimmed  *)
(* view which ExcelArray gives of an array, and its slices. An array is a  *)
(* sequence of rows of equal length.                                       *)
(***************************************************************************)
EXTENDS Integers, Sequences

CONSTANTS
  Texts,    \* the strings which are compared, each a sequence of characters
  Rank      \* where _wcsnicoll (FALSE) or _wcsncoll (TRUE) puts each of them

ASSUME TextConstants == Texts \subseteq Seq(Nat) /\ Rank \in [BOOLEAN -> [Texts -> Nat]]

-----------------------------------------------------------------------------
Numeric == {"num", "int", "bool"}

\* What an array may hold, dates being numbers.
Cell == [type: Numeric \cup {"err"}, val: Int] \cup [type: {"str"}, val: Texts]
        \cup [type: {"nil"}, val: {0}]

Array(a) ==
  /\ a \in Seq(Seq(Cell))
  /\ \A i, k \in DOMAIN a : Len(a[i]) = Len(a[k])

xlerrNA == 42
NA == [type |-> "err", val |-> xlerrNA]
Nil == [type |-> "nil", val |-> 0]
Text(t) == [type |-> "str", val |-> t]

\* Every cell of a row or an array.
Row(n, c) == [j \in 1..n |-> c]
Filled(n, m, c) == [i \in 1..n |-> Row(m, c)]

NonEmpty(c) ==
  /\ c.type # "nil"
  /\ c # NA
  /\ c.type = "str" => c.val # <<>>

Sign(l, r) == IF l < r THEN -1 ELSE IF l = r THEN 0 ELSE 1

\* Fault: the type's bits as they are, so that integers come after strings.
TypeBitsUnmasked(type) ==
  CASE type = "num" -> 1 [] type = "str" -> 2 [] type = "bool" -> 4
    [] type = "err" -> 16 [] type = "nil" -> 256 [] type = "int" -> 2048

\* The type's bits, with those of numbers masked to zero.
TypeBits(type) ==
  CASE type \in Numeric -> 0 [] type = "str" -> 2 [] type = "err" -> 16 [] type = "nil" -> 256

\* doCompare(): numbers of all types by value, errors last, others by type.
Compare(l, r, cased) ==
  CASE l.type \in Numeric /\ r.type \in Numeric -> Sign(l.val, r.val)
    [] l.type = "str" /\ r.type = "str" -> Sign(Rank[cased][l.val], Rank[cased][r.val])
    [] l.type = "err" /\ r.type = "err" -> Sign(l.val, r.val)
    [] l.type = "nil" /\ r.type = "nil" -> 0
    [] l.type # r.type /\ "err" \in {l.type, r.type} -> IF r.type = "err" THEN -1 ELSE 1
    [] OTHER -> IF TypeBits(l.type) < TypeBits(r.type) THEN -1 ELSE 1

-----------------------------------------------------------------------------
(***************************************************************************)
(* ExcelArray.                                                             *)
(***************************************************************************)
LastOf(S) == IF S = {} THEN 0 ELSE CHOOSE i \in S : \A k \in S : k <= i

Width(a) == IF a = <<>> THEN 0 ELSE Len(a[1])

TrimmedRows(a) == LastOf({i \in DOMAIN a : \E j \in DOMAIN a[i] : NonEmpty(a[i][j])})

\* The search for column j, which steps through the array by its full width,
\* ends where an array as wide as j would.
TrimmedCols(a) ==
  LastOf({j \in 1..Width(a) : \E i \in 1..TrimmedRows(a) :
            (i - 1) * Width(a) + j - 1 < j * TrimmedRows(a) /\ NonEmpty(a[i][j])})

View(a) == [i \in 1..TrimmedRows(a) |-> SubSeq(a[i], 1, TrimmedCols(a))]

\* sliceIndices(): a negative index counts from the end.
SliceIndices(from, to, size) ==
  LET f == IF from < 0 THEN from + size ELSE from
      t == IF to < 0 THEN to + size ELSE to
  IN [ok |-> 0 <= f /\ f <= t /\ t <= size, from |-> f, to |-> t]

=============================================================================
