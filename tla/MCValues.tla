----------------------------- MODULE MCValues -----------------------------
(***************************************************************************)
(* Arrays of every type of cell and of ties, layouts with and without      *)
(* gaps, short texts, the corners of the sheet, and the days around those  *)
(* on which the calendar turns.                                            *)
(***************************************************************************)
EXTENDS ValuesProps

\* The empty text, a, A and b.
FourTexts == {<<>>, <<97>>, <<65>>, <<98>>}
CollatedRank ==
  [cased \in BOOLEAN |-> [t \in FourTexts |->
     CASE t = <<>>   -> 0
       [] t = <<65>> -> 1
       [] t = <<97>> -> IF cased THEN 2 ELSE 1
       [] t = <<98>> -> 3]]

Num(n) == [type |-> "num", val |-> n]
IntN(n) == [type |-> "int", val |-> n]
Bool(n) == [type |-> "bool", val |-> n]
Err(n) == [type |-> "err", val |-> n]
A == Text(<<97>>)
UpperA == Text(<<65>>)
B == Text(<<98>>)

SortCall(a, order, by, cached) ==
  [fn |-> "sort", array |-> a, order |-> order, by |-> by, cached |-> cached]

\* One column of three cells of all types.
Mixed == {<<<<x>>, <<y>>, <<z>>>> : x, y, z \in
            {Num(2), IntN(1), Bool(1), A, UpperA, Err(7), Err(42), Nil, Text(<<>>)}}

\* Four rows of two columns with ties in each.
Ties == {[i \in 1..4 |-> <<c[i], d[i]>>] : c \in [1..4 -> {Num(1), IntN(2)}], d \in [1..4 -> {A, UpperA}]}

\* Headings above three rows; the last column is empty and is not looked at.
WithHeadings == {<<<<A, B, Nil>>>> \o [i \in 1..3 |-> <<Num(c[i]), Num(i), Nil>>] : c \in [1..3 -> 1..3]}

SortCalls ==
  {SortCall(a, order, <<>>, cached) : a \in Mixed, order \in {<<>>, <<"a">>, <<"D">>}, cached \in {FALSE}}
  \cup {SortCall(a, order, by, cached) : a \in Ties, cached \in BOOLEAN,
          order \in {<<"a", "D">>, <<"A", "d">>}, by \in {<<>>, <<Num(2), IntN(1)>>}}
  \cup {SortCall(a, <<"a", "d">>, by, cached) : a \in WithHeadings, cached \in BOOLEAN,
          by \in {<<A>>, <<A, B>>, <<B, Missing>>, <<Num(3)>>, <<UpperA>>, <<Nil>>}}
  \cup {SortCall(<<<<Num(2)>>, <<Num(1)>>>>, <<"?">>, <<>>, FALSE)}

Matrix(n, m, c) == Filled(n, m, c)
Blocks == {<<Matrix(1, 1, Num(1)), Matrix(2, 1, A), Matrix(n, m, B), Matrix(2, 2, Nil)>> : n \in 1..2, m \in 1..3}
Lines == {<<1>>, <<2, 3>>, <<0, 3>>, <<3, 0, 2>>, <<1, 0>>, <<0, 1, 0>>, <<0>>, <<4>>, <<4, 2>>}
BlockCalls == [fn: {"block"}, args: Blocks, layout: {<<l>> : l \in Lines} \cup (Lines \X Lines) \cup {<<<<1>>, <<0, 2>>, <<3>>>>}]

SmallArrays == {<<<<Num(1)>>>>, <<<<A, NA>>, <<Nil, B>>>>, <<<<Num(1), A, Nil>>>>, <<<<Num(1)>>, <<A>>>>,
                <<<<Nil, A, Nil>>, <<NA, Num(2), NA>>, <<Nil, Nil, Nil>>>>,
                <<<<Nil, Nil, Nil>>, <<Nil, NA, Nil>>, <<Nil, Num(2), Nil>>>>}
PadCalls == [fn: {"pad"}, array: SmallArrays]
IndexCalls == [fn: {"index"}, array: SmallArrays, from: {-2, 1, 2} \X {-1, 1, 3},
               to: {<<>>} \cup ({-1, 0, 1, 2, 3} \X {0, 1, 3})]
FillCalls == [fn: {"fill"}, cell: {Num(1), A}, n: 1..2, m: 1..2]
FillNACalls == [fn: {"fillna"}, array: SmallArrays, cell: {Num(1), A}, trim: BOOLEAN, cached: BOOLEAN]

Strings == UNION {[1..n -> {97, 44, 59}] : n \in 0..5}
SplitCalls == [fn: {"split"}, text: Strings, sep: {<<44>>, <<44, 59>>}, consecutive: BOOLEAN]
SplitsCalls == [fn: {"splits"}, cells: {<<Text(s), Num(1), Text(t)>> : s, t \in {<<>>, <<97>>, <<97, 44, 98>>, <<44, 44>>}},
                sep: {<<44>>}, consecutive: BOOLEAN, byRow: BOOLEAN]

\* Rows and columns at which an address gets another digit or letter.
RowsAt == {0, 8, 9, 98, 99999, 1048574, 1048575}
ColsAt == {0, 2, 17, 25, 26, 701, 702, 16382, 16383}
Refs == {r \in {Ref(r1, r2, c1, c2) : r1, r2 \in RowsAt, c1, c2 \in ColsAt} :
           r.rwFirst <= r.rwLast /\ r.colFirst <= r.colLast}
AddressCalls == [fn: {"address"}, ref: Refs, a1: BOOLEAN]

Days == 0..800 \cup {s \in {1461 * y + d : y \in 0..2024, d \in {58, 59, 60, 61, 365, 366, 367}} :
                       s <= XL_MAX_SERIAL_DATE} \cup {XL_MAX_SERIAL_DATE}
DateCalls == [fn: {"date"}, serial: Days]

AllCalls == SortCalls \cup BlockCalls \cup PadCalls \cup IndexCalls \cup FillCalls \cup FillNACalls
            \cup SplitCalls \cup SplitsCalls \cup AddressCalls \cup DateCalls
=============================================================================
