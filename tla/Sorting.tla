------------------------------ MODULE Sorting ------------------------------
(***************************************************************************)
(* What xloSort sorts by, and what std::sort makes of it                   *)
(* (xlOil_Utils/xloSort.cpp). A row is a sequence of cells, a key a column *)
(* with a direction.                                                       *)
(***************************************************************************)
EXTENDS ExcelObjs

MaxKeys == 8     \* XLOSORT_NARGS

Key(column, cased, desc) == [column |-> column, cased |-> cased, desc |-> desc]

\* A descriptor which is not given.
Missing == [type |-> "missing", val |-> 0]

-----------------------------------------------------------------------------
(***************************************************************************)
(* LessThan.                                                               *)
(***************************************************************************)
Same(key, r1, r2) == Compare(r1[key.column], r2[key.column], key.cased) = 0

Before(key, r1, r2) ==
  LET c == Compare(r1[key.column], r2[key.column], key.cased)
  IN IF key.desc THEN c > 0 ELSE c < 0

\* The first key by which the rows differ decides.
LessThan(keys, r1, r2) ==
  \E i \in DOMAIN keys :
    Before(keys[i], r1, r2) /\ \A j \in 1..i - 1 : Same(keys[j], r1, r2)

-----------------------------------------------------------------------------
(***************************************************************************)
(* The keys which the order string and the descriptors give.               *)
(***************************************************************************)
\* The columns which have a heading, which is sought with operator==.
Headed(view, heading) == {j \in DOMAIN view[1] : Compare(heading, view[1][j], TRUE) = 0}

Descriptor(by, n) == IF n <= Len(by) THEN by[n] ELSE Missing

Refused(view, letter, by) ==
  \/ letter \notin {"A", "a", "D", "d"}
  \/ by.type \in {"num", "int"} /\ by.val \notin 1..Width(view)
  \/ by.type = "str" /\ Headed(view, by) = {}
  \/ by.type \in {"bool", "err", "nil"}

Column(view, by, n) ==
  CASE by.type = "str" -> CHOOSE j \in Headed(view, by) : \A l \in Headed(view, by) : j <= l
    [] by = Missing -> n
    [] OTHER -> by.val

Used(order) == {n \in DOMAIN order : n <= MaxKeys}

Throws(view, order, by) == \E n \in Used(order) : Refused(view, order[n], Descriptor(by, n))

HasHeadings(order, by) == \E n \in Used(order) : Descriptor(by, n).type = "str"

\* Without an order the first direction is one which nobody wrote: the end of
\* the search, or any direction.
Keys(view, order, by) ==
  IF order = <<>>
  THEN {<<>>} \cup {<<key>> : key \in [column: {1}, cased: BOOLEAN, desc: BOOLEAN]}
  ELSE {[n \in Used(order) |->
           Key(Column(view, Descriptor(by, n), n), order[n] \in {"A", "D"},
               order[n] \in {"D", "d"})]}

-----------------------------------------------------------------------------
(***************************************************************************)
(* std::sort of the indices of the rows, but for the first fixed of them.  *)
(***************************************************************************)
Permutation(n) == {p \in [1..n -> 1..n] : \A i, k \in 1..n : p[i] = p[k] => i = k}

StrictWeak(view, keys, fixed) ==
  \A i, k, l \in fixed + 1..Len(view) :
    /\ LessThan(keys, view[i], view[k]) => ~LessThan(keys, view[k], view[i])
    /\ LessThan(keys, view[i], view[l]) =>
         LessThan(keys, view[i], view[k]) \/ LessThan(keys, view[k], view[l])

\* What the library promises of a comparison which is a strict weak order. Of
\* another one it promises nothing.
SortedIndices(view, keys, fixed) ==
  {p \in Permutation(Len(view)) :
     /\ \A i \in 1..fixed : p[i] = i
     /\ StrictWeak(view, keys, fixed) =>
          \A i, k \in fixed + 1..Len(view) :
            i < k => ~LessThan(keys, view[p[k]], view[p[i]])}
=============================================================================
