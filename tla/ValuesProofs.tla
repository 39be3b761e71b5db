---------------------------- MODULE ValuesProofs ----------------------------
(***************************************************************************)
(* xloSort returns the rows it was given in order. That needs two things:  *)
(* the comparison of rows is a strict weak order, for cells of every type, *)
(* without which std::sort promises nothing; and moving the rows in place, *)
(* cycle by cycle, loses none. The dates of serial numbers follow each     *)
(* other in Excel's calendar and are converted back, for every number. The *)
(* address of every reference of a sheet is read back as it. The tokens of *)
(* every text are joined to it again. And a block has each argument in its *)
(* place, with room for all text. What recurs over characters, numbers or  *)
(* parts is proved by the least place at which it could fail.              *)
(***************************************************************************)
EXTENDS ValuesProps, WellFoundedInduction, SequenceTheorems, TLAPS

-----------------------------------------------------------------------------
(***************************************************************************)
(* Cells are ordered by a group and a value in it.                         *)
(***************************************************************************)
Group(c) ==
  CASE c.type \in Numeric -> 0 [] c.type = "str" -> 1 [] c.type = "nil" -> 2 [] c.type = "err" -> 3

Value(c, cased) == IF c.type = "str" THEN Rank[cased][c.val] ELSE c.val

Level(l, r, cased) == Group(l) = Group(r) /\ Value(l, cased) = Value(r, cased)
Less(l, r, cased) ==
  \/ Group(l) < Group(r)
  \/ Group(l) = Group(r) /\ Value(l, cased) < Value(r, cased)

\* A cell's group and value are integers.
LEMMA CellPlace ==
  ASSUME NEW c \in Cell, NEW cased \in BOOLEAN
  PROVE  Group(c) \in 0..3 /\ Value(c, cased) \in Int
<1>1. CASE c \in [type: Numeric \cup {"err"}, val: Int]
  BY <1>1 DEF Group, Value, Numeric
<1>2. CASE c \in [type: {"str"}, val: Texts]
  <2>1. Rank[cased][c.val] \in Nat
    BY <1>2, TextConstants
  <2>. QED BY <1>2, <2>1 DEF Group, Value, Numeric
<1>3. CASE c \in [type: {"nil"}, val: {0}]
  BY <1>3 DEF Group, Value, Numeric
<1>. QED BY <1>1, <1>2, <1>3 DEF Cell

\* doCompare() compares the groups, then the values.
LEMMA CompareIsOrder ==
  ASSUME NEW l \in Cell, NEW r \in Cell, NEW cased \in BOOLEAN
  PROVE  /\ Compare(l, r, cased) \in Int
         /\ Compare(l, r, cased) < 0 <=> Less(l, r, cased)
         /\ Compare(l, r, cased) = 0 <=> Level(l, r, cased)
         /\ Compare(l, r, cased) > 0 <=> Less(r, l, cased)
<1>1. /\ Group(l) \in 0..3 /\ Value(l, cased) \in Int
      /\ Group(r) \in 0..3 /\ Value(r, cased) \in Int
  BY CellPlace
<1>2. /\ l.type \in Numeric \cup {"str", "nil", "err"}
      /\ r.type \in Numeric \cup {"str", "nil", "err"}
  BY DEF Cell
<1>3. CASE l.type \in Numeric /\ r.type \in Numeric
  BY <1>1, <1>3 DEF Compare, Sign, Group, Value, Less, Level, Numeric
<1>4. CASE l.type = "str" /\ r.type = "str"
  BY <1>1, <1>4 DEF Compare, Sign, Group, Value, Less, Level, Numeric
<1>5. CASE l.type = "err" /\ r.type = "err"
  BY <1>1, <1>5 DEF Compare, Sign, Group, Value, Less, Level, Numeric
<1>6. CASE l.type = "nil" /\ r.type = "nil"
  <2>1. l.val = 0 /\ r.val = 0
    BY <1>6 DEF Cell, Numeric
  <2>. QED BY <2>1, <1>6 DEF Compare, Group, Value, Less, Level, Numeric
<1>7. CASE /\ ~(l.type \in Numeric /\ r.type \in Numeric)
           /\ l.type # r.type
  BY <1>1, <1>2, <1>7 DEF Compare, TypeBits, Group, Value, Less, Level, Numeric
<1>. QED BY <1>2, <1>3, <1>4, <1>5, <1>6, <1>7

-----------------------------------------------------------------------------
(***************************************************************************)
(* Rows are compared key by key.                                           *)
(***************************************************************************)
KeyOf(m) == [column: 1..m, cased: BOOLEAN, desc: BOOLEAN]
KeysOf(ks, m) == \E n \in Nat : DOMAIN ks = 1..n /\ \A i \in 1..n : ks[i] \in KeyOf(m)
RowOfCells(r, m) == \A j \in 1..m : r[j] \in Cell

\* One key orders rows as a total preorder, in either direction.
LEMMA KeyOrders ==
  ASSUME NEW m \in Nat, NEW key \in KeyOf(m), NEW a, NEW b, NEW c,
         RowOfCells(a, m), RowOfCells(b, m), RowOfCells(c, m)
  PROVE  /\ Before(key, a, b) => ~Before(key, b, a) /\ ~Same(key, a, b) /\ ~Same(key, b, a)
         /\ Same(key, a, b) /\ Same(key, b, c) => Same(key, a, c)
         /\ ~Before(key, a, b) /\ ~Before(key, b, c) /\ ~(Same(key, a, b) /\ Same(key, b, c)) =>
              ~Before(key, a, c) /\ ~Same(key, a, c)
<1>. DEFINE x == a[key.column]
            y == b[key.column]
            z == c[key.column]
            cs == key.cased
<1>1. x \in Cell /\ y \in Cell /\ z \in Cell /\ cs \in BOOLEAN /\ key.desc \in BOOLEAN
  BY DEF KeyOf, RowOfCells
<1>2. /\ Group(x) \in Int /\ Group(y) \in Int /\ Group(z) \in Int
      /\ Value(x, cs) \in Int /\ Value(y, cs) \in Int /\ Value(z, cs) \in Int
  BY <1>1, CellPlace
<1>3. /\ Same(key, a, b) <=> Level(x, y, cs)
      /\ Same(key, b, a) <=> Level(y, x, cs)
      /\ Same(key, b, c) <=> Level(y, z, cs)
      /\ Same(key, a, c) <=> Level(x, z, cs)
  BY <1>1, CompareIsOrder DEF Same
<1>4. CASE ~key.desc
  <2>1. /\ Before(key, a, b) <=> Less(x, y, cs)
        /\ Before(key, b, a) <=> Less(y, x, cs)
        /\ Before(key, b, c) <=> Less(y, z, cs)
        /\ Before(key, a, c) <=> Less(x, z, cs)
    BY <1>1, <1>4, CompareIsOrder DEF Before
  <2>. QED BY <1>2, <1>3, <2>1 DEF Less, Level
<1>5. CASE key.desc
  <2>1. /\ Before(key, a, b) <=> Less(y, x, cs)
        /\ Before(key, b, a) <=> Less(x, y, cs)
        /\ Before(key, b, c) <=> Less(z, y, cs)
        /\ Before(key, a, c) <=> Less(z, x, cs)
    BY <1>1, <1>5, CompareIsOrder DEF Before
  <2>. QED BY <1>2, <1>3, <2>1 DEF Less, Level
<1>. QED BY <1>1, <1>4, <1>5

\* A set of numbers which is not empty has a least one.
LEMMA Least ==
  ASSUME NEW S, S \subseteq Nat, S # {}
  PROVE  \E m \in S : \A i \in S : m <= i
<1>1. PICK m \in S : \A i \in S : ~(<<i, m>> \in OpToRel(<, Nat))
  BY NatLessThanWellFounded, WFMin
<1>2. ASSUME NEW i \in S, i < m
      PROVE  FALSE
  <2>1. <<i, m>> \in Nat \X Nat
    OBVIOUS
  <2>2. <<i, m>> \in OpToRel(<, Nat)
    BY <2>1, <1>2, Zenon DEF OpToRel
  <2>. QED BY <1>1, <2>2
<1>. QED BY <1>2

\* Several keys order rows strictly and weakly.
LEMMA RowsStrictWeak ==
  ASSUME NEW m \in Nat, NEW ks, KeysOf(ks, m), NEW a, NEW b, NEW c,
         RowOfCells(a, m), RowOfCells(b, m), RowOfCells(c, m)
  PROVE  /\ LessThan(ks, a, b) => ~LessThan(ks, b, a)
         /\ LessThan(ks, a, c) => LessThan(ks, a, b) \/ LessThan(ks, b, c)
<1>. PICK n \in Nat : DOMAIN ks = 1..n /\ \A i \in 1..n : ks[i] \in KeyOf(m)
  BY DEF KeysOf
<1>1. ASSUME LessThan(ks, a, b), LessThan(ks, b, a)
      PROVE  FALSE
  <2>1. PICK i \in 1..n : Before(ks[i], a, b) /\ \A j \in 1..i - 1 : Same(ks[j], a, b)
    BY <1>1 DEF LessThan
  <2>2. PICK k2 \in 1..n : Before(ks[k2], b, a) /\ \A j \in 1..k2 - 1 : Same(ks[j], b, a)
    BY <1>1 DEF LessThan
  <2>3. CASE i < k2
    <3>1. Same(ks[i], b, a)
      BY <2>2, <2>3
    <3>. QED BY <3>1, <2>1, KeyOrders
  <2>4. CASE k2 < i
    <3>1. Same(ks[k2], a, b)
      BY <2>1, <2>4
    <3>. QED BY <3>1, <2>2, KeyOrders
  <2>5. CASE i = k2
    BY <2>1, <2>2, <2>5, KeyOrders
  <2>. QED BY <2>3, <2>4, <2>5
<1>2. ASSUME LessThan(ks, a, c)
      PROVE  LessThan(ks, a, b) \/ LessThan(ks, b, c)
  <2>1. PICK i \in 1..n : Before(ks[i], a, c) /\ \A j \in 1..i - 1 : Same(ks[j], a, c)
    BY <1>2 DEF LessThan
  <2>. DEFINE Differ == {j \in 1..n : ~(Same(ks[j], a, b) /\ Same(ks[j], b, c))}
  <2>2. i \in Differ
    BY <2>1, KeyOrders
  <2>3. PICK d \in Differ : \A j \in Differ : d <= j
    <3>1. Differ \subseteq Nat
      OBVIOUS
    <3>. HIDE DEF Differ
    <3>. QED BY <3>1, <2>2, Least
  <2>4. d \in 1..n /\ d <= i /\ ~(Same(ks[d], a, b) /\ Same(ks[d], b, c))
    BY <2>2, <2>3
  <2>5. \A j \in 1..d - 1 : Same(ks[j], a, b) /\ Same(ks[j], b, c)
    <3>. SUFFICES ASSUME NEW j \in 1..d - 1 PROVE j \notin Differ
      BY <2>4
    <3>. QED BY <2>3, <2>4
  <2>6. Before(ks[d], a, b) \/ Before(ks[d], b, c)
    <3>. SUFFICES ASSUME ~Before(ks[d], a, b), ~Before(ks[d], b, c) PROVE FALSE
      OBVIOUS
    <3>1. ~Before(ks[d], a, c) /\ ~Same(ks[d], a, c)
      BY <2>4, KeyOrders
    <3>2. d # i
      BY <3>1, <2>1
    <3>3. d \in 1..i - 1
      BY <3>2, <2>4
    <3>. QED BY <3>3, <3>1, <2>1
  <2>. QED BY <2>4, <2>5, <2>6 DEF LessThan
<1>. QED BY <1>1, <1>2

-----------------------------------------------------------------------------
(***************************************************************************)
(* The view of an array, and the keys of a call.                           *)
(***************************************************************************)
\* The last of a set of places is one of them, or 0.
LEMMA LastOfWithin ==
  ASSUME NEW n \in Nat, NEW S \in SUBSET (1..n)
  PROVE  LastOf(S) \in 0..n
<1>1. CASE S = {}
  BY <1>1 DEF LastOf
<1>2. CASE S # {}
  <2>. DEFINE Bounds == {b \in 0..n : \A i \in S : i <= b}
  <2>1. n \in Bounds /\ Bounds \subseteq Nat
    OBVIOUS
  <2>2. PICK b \in Bounds : \A c \in Bounds : b <= c
    <3>. HIDE DEF Bounds
    <3>. QED BY <2>1, Least
  <2>3. b \in S
    <3>. SUFFICES ASSUME b \notin S PROVE FALSE
      OBVIOUS
    <3>1. PICK e \in S : TRUE
      BY <1>2
    <3>2. e \in 1..n /\ b \in 0..n /\ e <= b
      BY <3>1, <2>2
    <3>3. \A i \in S : i <= b - 1
      BY <2>2
    <3>4. b - 1 \in Bounds
      BY <3>2, <3>3
    <3>5. b <= b - 1
      BY <3>4, <2>2
    <3>. QED BY <3>5, <3>2
  <2>4. \E d \in S : \A c \in S : c <= d
    BY <2>2, <2>3
  <2>5. LastOf(S) \in S
    BY <1>2, <2>4, Zenon DEF LastOf
  <2>6. S \subseteq 1..n /\ 1..n \subseteq 0..n
    OBVIOUS
  <2>. QED BY <2>5, <2>6, Zenon
<1>. QED BY <1>1, <1>2

\* A view has rows of cells of one width.
LEMMA ViewOfCells ==
  ASSUME NEW a, Array(a)
  PROVE  /\ Len(View(a)) \in Nat
         /\ DOMAIN View(a) = 1..Len(View(a))
         /\ View(a) = [i \in 1..Len(View(a)) |-> View(a)[i]]
         /\ Width(View(a)) \in Nat
         /\ \A i \in 1..Len(View(a)) :
              RowOfCells(View(a)[i], Width(View(a))) /\ DOMAIN View(a)[i] = 1..Width(View(a))
<1>. DEFINE n == TrimmedRows(a)
            m == TrimmedCols(a)
<1>1. Len(a) \in Nat /\ DOMAIN a = 1..Len(a) /\ \A i \in 1..Len(a) : a[i] \in Seq(Cell)
  BY DEF Array
<1>2. n \in 0..Len(a)
  BY <1>1, LastOfWithin DEF TrimmedRows
<1>3. a # <<>> => 1 \in 1..Len(a) /\ Width(a) = Len(a[1])
  BY <1>1 DEF Width, Array
<1>4. Width(a) \in Nat
  BY <1>1, <1>3 DEF Width
<1>5. m \in 0..Width(a)
  BY <1>4, LastOfWithin DEF TrimmedCols
<1>6. ASSUME NEW i \in 1..n
      PROVE  SubSeq(a[i], 1, m) \in Seq(Cell) /\ Len(SubSeq(a[i], 1, m)) = m
  <2>1. i \in DOMAIN a /\ 1 \in DOMAIN a /\ Len(a[i]) = Width(a) /\ a[i] \in Seq(Cell)
    <3>1. i \in 1..Len(a) /\ 1 \in 1..Len(a) /\ a # <<>>
      BY <1>1, <1>2
    <3>. QED BY <3>1, <1>1, <1>3 DEF Array
  <2>. QED BY <2>1, <1>4, <1>5, SubSeqProperties
<1>7. /\ View(a) \in Seq(Seq(Cell)) /\ Len(View(a)) = n
      /\ \A i \in 1..n : View(a)[i] = SubSeq(a[i], 1, m)
  <2>1. View(a) = [i \in 1..n |-> SubSeq(a[i], 1, m)]
    BY DEF View
  <2>2. n \in Nat /\ View(a) \in [1..n -> Seq(Cell)]
    BY <2>1, <1>1, <1>2, <1>6
  <2>. HIDE DEF n, m
  <2>. QED BY <2>1, <2>2
<1>8. View(a) # <<>> => Width(View(a)) = m
  BY <1>2, <1>6, <1>7 DEF Width
<1>9. Width(View(a)) \in Nat
  BY <1>5, <1>8 DEF Width
<1>10. ASSUME NEW i \in 1..Len(View(a))
       PROVE  RowOfCells(View(a)[i], Width(View(a))) /\ DOMAIN View(a)[i] = 1..Width(View(a))
  <2>1. View(a) # <<>> /\ View(a)[i] = SubSeq(a[i], 1, m)
    BY <1>7
  <2>. QED BY <2>1, <1>5, <1>6, <1>7, <1>8 DEF RowOfCells
<1>. QED BY <1>7, <1>9, <1>10

\* The keys which a call is given name columns of the view.
LEMMA KeysOfView ==
  ASSUME NEW v, NEW order \in Seq(STRING), NEW by \in Seq(Cell \cup {Missing}),
         Width(v) \in Nat \ {0}, v # <<>>, ColumnsGiven(v, order, by), ~Throws(v, order, by),
         DOMAIN v[1] = 1..Width(v), NEW ks \in Keys(v, order, by)
  PROVE  KeysOf(ks, Width(v))
<1>1. CASE order = <<>>
  <2>1. ASSUME ks = <<>> PROVE DOMAIN ks = 1..0
    BY <2>1
  <2>2. ASSUME NEW key \in [column: {1}, cased: BOOLEAN, desc: BOOLEAN], ks = <<key>>
        PROVE  DOMAIN ks = 1..1 /\ \A i \in 1..1 : ks[i] \in KeyOf(Width(v))
    BY <2>2 DEF KeyOf
  <2>3. \/ ks = <<>>
        \/ \E key \in [column: {1}, cased: BOOLEAN, desc: BOOLEAN] : ks = <<key>>
    BY <1>1 DEF Keys
  <2>4. ASSUME NEW n \in Nat, DOMAIN ks = 1..n, \A i \in 1..n : ks[i] \in KeyOf(Width(v))
        PROVE  KeysOf(ks, Width(v))
    BY <2>4 DEF KeysOf
  <2>5. CASE ks = <<>>
    <3>1. DOMAIN ks = 1..0 /\ \A i \in 1..0 : ks[i] \in KeyOf(Width(v))
      BY <2>5, <2>1
    <3>. QED BY <3>1, <2>4
  <2>6. CASE \E key \in [column: {1}, cased: BOOLEAN, desc: BOOLEAN] : ks = <<key>>
    <3>1. DOMAIN ks = 1..1 /\ \A i \in 1..1 : ks[i] \in KeyOf(Width(v))
      BY <2>6, <2>2
    <3>. QED BY <3>1, <2>4
  <2>. QED BY <2>3, <2>5, <2>6
<1>2. CASE order # <<>>
  <2>1. Len(order) \in Nat /\ DOMAIN order = 1..Len(order)
    OBVIOUS
  <2>2. PICK n \in Nat : Used(order) = 1..n
    BY <2>1 DEF Used, MaxKeys
  <2>3. DOMAIN ks = 1..n
    BY <1>2, <2>2 DEF Keys
  <2>4. ASSUME NEW i \in 1..n
        PROVE  Column(v, Descriptor(by, i), i) \in 1..Width(v)
    <3>. DEFINE d == Descriptor(by, i)
    <3>1. d \in Cell \cup {Missing}
      BY DEF Descriptor
    <3>2. ~Refused(v, order[i], d)
      BY <2>2 DEF Throws
    <3>3. CASE d.type = "str"
      <4>1. Headed(v, d) # {} /\ Headed(v, d) \subseteq 1..Width(v)
        BY <3>2, <3>3 DEF Refused, Headed
      <4>2. \E j \in Headed(v, d) : \A l \in Headed(v, d) : j <= l
        BY <4>1, Least
      <4>3. Column(v, d, i) \in Headed(v, d)
        <5>. DEFINE first == CHOOSE j \in Headed(v, d) : \A l \in Headed(v, d) : j <= l
        <5>1. first \in Headed(v, d)
          BY <4>2, Zenon
        <5>2. Column(v, d, i) = first
          <6>1. d # Missing
            BY <3>3 DEF Missing
          <6>. QED BY <3>3, <6>1, Zenon DEF Column
        <5>. QED BY <5>1, <5>2, Zenon
      <4>. QED BY <4>1, <4>3
    <3>4. CASE d = Missing
      <4>1. Width(v) \in i..Width(v)
        BY <2>2, <3>4 DEF ColumnsGiven
      <4>. QED BY <3>4, <4>1 DEF Column, Missing
    <3>5. CASE d.type # "str" /\ d # Missing
      <4>1. d.type \in {"num", "int"}
        BY <3>1, <3>2, <3>5 DEF Refused, Cell, Numeric
      <4>. QED BY <3>2, <3>5, <4>1 DEF Refused, Column
    <3>. QED BY <3>3, <3>4, <3>5
  <2>5. ASSUME NEW i \in 1..n PROVE ks[i] \in KeyOf(Width(v))
    <3>1. ks[i] = Key(Column(v, Descriptor(by, i), i), order[i] \in {"A", "D"},
                      order[i] \in {"D", "d"})
      BY <1>2, <2>2 DEF Keys
    <3>. QED BY <3>1, <2>4 DEF KeyOf, Key
  <2>. QED BY <2>3, <2>5 DEF KeysOf
<1>. QED BY <1>1, <1>2

-----------------------------------------------------------------------------
(***************************************************************************)
(* The invariant. Whilst the rows are moved, those which were moved have   *)
(* what the permutation puts there and the others what they had, but for   *)
(* row k, which holds the row the cycle began with.                        *)
(***************************************************************************)
Rows == 1..Len(view)

Ordered(p) ==
  /\ p \in Permutation(Len(view))
  /\ \A i \in 1..fixed : p[i] = i
  /\ InOrder(p)

AtCycle ==
  /\ \A i \in Rows : rows[i] = view[IF i \in moved THEN indices[i] ELSE i]
  /\ \A i \in Rows : i \in moved <=> indices[i] \in moved

AtMove ==
  /\ start \in Rows /\ k \in Rows \ moved
  /\ \A i \in Rows :
       rows[i] = view[IF i \in moved THEN indices[i] ELSE IF i = k THEN start ELSE i]
  /\ \A i \in moved : indices[i] \in moved \cup {k}
  /\ \A i \in Rows \ moved : indices[i] \in moved => indices[i] = start
  /\ k # start => start \in moved /\ \E i \in moved : indices[i] = k

MovingInv ==
  at \in {"cycle", "move"} =>
    /\ call.fn = "sort" /\ Sortable /\ ~call.cached
    /\ Ordered(indices)
    /\ rows = [i \in Rows |-> rows[i]]
    /\ at = "cycle" => AtCycle
    /\ at = "move" => AtMove

SortInv ==
  /\ call \in Calls
  /\ at = "call" => moved = {}
  /\ moved \subseteq Rows
  /\ MovingInv
  /\ SortedRows

USE DEF Rows

\* The indices which std::sort leaves are those of the rows in order.
LEMMA IndicesOrdered ==
  ASSUME CallConstants, TextConstants, call \in Calls, call.fn = "sort", Sortable,
         ~Throws(view, call.order, call.by),
         NEW ks \in Keys(view, call.order, call.by),
         NEW p \in SortedIndices(view, ks, fixed)
  PROVE  /\ Len(view) \in Nat /\ DOMAIN view = Rows /\ view = [i \in Rows |-> view[i]]
         /\ p \in Permutation(Len(view))
         /\ \A i \in 1..fixed : p[i] = i
         /\ \A i, j \in fixed + 1..Len(view) : i < j => ~LessThan(ks, view[p[j]], view[p[i]])
<1>. DEFINE m == Width(view)
<1>0. Array(call.array)
  BY DEF CallConstants
<1>1. /\ Len(view) \in Nat /\ DOMAIN view = Rows /\ m \in Nat \ {0}
      /\ view = [i \in Rows |-> view[i]]
      /\ \A i \in Rows : RowOfCells(view[i], m) /\ DOMAIN view[i] = 1..m
  <2>1. /\ Len(view) \in Nat /\ DOMAIN view = 1..Len(view) /\ Width(view) \in Nat
        /\ view = [i \in 1..Len(view) |-> view[i]]
        /\ \A i \in 1..Len(view) : RowOfCells(view[i], Width(view)) /\ DOMAIN view[i] = 1..Width(view)
    BY <1>0, ViewOfCells DEF view
  <2>2. Width(view) > 0
    BY DEF Sortable
  <2>. QED BY <2>1, <2>2
<1>2. view # <<>> /\ 1 \in Rows
  BY <1>1 DEF Sortable
<1>3. KeysOf(ks, m)
  BY <1>1, <1>2, KeysOfView DEF CallConstants, view
<1>4. fixed \in {0, 1}
  BY DEF fixed
<1>5. StrictWeak(view, ks, fixed)
  <2>1. ASSUME NEW i \in fixed + 1..Len(view), NEW j \in fixed + 1..Len(view),
               NEW l \in fixed + 1..Len(view)
        PROVE  /\ LessThan(ks, view[i], view[j]) => ~LessThan(ks, view[j], view[i])
               /\ LessThan(ks, view[i], view[l]) =>
                    LessThan(ks, view[i], view[j]) \/ LessThan(ks, view[j], view[l])
    <3>1. i \in Rows /\ j \in Rows /\ l \in Rows
      BY <1>1, <1>4
    <3>2. RowOfCells(view[i], m) /\ RowOfCells(view[j], m) /\ RowOfCells(view[l], m) /\ m \in Nat
      BY <1>1, <3>1
    <3>3. m \in Nat /\ KeysOf(ks, m)
      BY <1>3, <3>2
    <3>. DEFINE a == view[i]  b == view[j]  c == view[l]
    <3>4. RowOfCells(a, m) /\ RowOfCells(b, m) /\ RowOfCells(c, m)
      BY <3>2
    <3>. HIDE DEF m, a, b, c
    <3>5. /\ LessThan(ks, a, b) => ~LessThan(ks, b, a)
          /\ LessThan(ks, a, c) => LessThan(ks, a, b) \/ LessThan(ks, b, c)
      BY <3>3, <3>4, RowsStrictWeak, Zenon
    <3>. QED BY <3>5 DEF a, b, c
  <2>. QED BY <2>1 DEF StrictWeak
<1>. QED BY <1>1, <1>5 DEF SortedIndices

\* The array and what is done with it stay what they are.
LEMMA CallKept ==
  ASSUME UNCHANGED call
  PROVE  view' = view /\ fixed' = fixed /\ Sortable' = Sortable
BY DEF view, fixed, Sortable

\* Sorting the indices begins the moves with nothing moved, or copies the rows.
LEMMA SortKeeps ==
  ASSUME CallConstants, TextConstants, SortInv, Sort
  PROVE  SortInv'
<1>1. /\ Len(view) \in Nat /\ DOMAIN view = Rows /\ view = [i \in Rows |-> view[i]]
      /\ indices' \in Permutation(Len(view))
      /\ \A i \in 1..fixed : indices'[i] = i
      /\ \A i, j \in fixed + 1..Len(view) :
           i < j => ~LessThan(keys', view[indices'[j]], view[indices'[i]])
  BY IndicesOrdered DEF Sort, SortInv
<1>2. view' = view /\ fixed' = fixed /\ Sortable' = Sortable /\ call' = call
  BY CallKept DEF Sort
<1>3. Ordered(indices)'
  BY <1>1, <1>2 DEF Ordered, InOrder
<1>4. moved' = {} /\ call' \in Calls /\ at' \in {"cycle", "done"}
  BY DEF Sort, SortInv, Return
<1>5. CASE call.cached
  <2>1. at' = "done" /\ result' = [i \in DOMAIN view |-> view[indices'[i]]]
    BY <1>5 DEF Sort, Return
  <2>2. (result = Rearranged(indices))'
    BY <1>2, <1>5, <2>1 DEF Rearranged
  <2>3. SortedRows'
    BY <1>3, <2>2 DEF SortedRows, Ordered
  <2>. QED BY <1>4, <2>1, <2>3 DEF SortInv, MovingInv
<1>6. CASE ~call.cached
  <2>1. at' = "cycle" /\ rows' = view
    BY <1>6 DEF Sort
  <2>2. AtCycle'
    BY <1>1, <1>2, <1>4, <2>1 DEF AtCycle
  <2>3. MovingInv'
    BY <1>1, <1>2, <1>3, <1>6, <2>1, <2>2 DEF MovingInv, Sort
  <2>4. SortedRows'
    BY <2>1 DEF SortedRows, Returned
  <2>. QED BY <1>4, <2>1, <2>3, <2>4 DEF SortInv
<1>. QED BY <1>5, <1>6

\* The end of the moves, and the beginning of a cycle.
LEMMA NextCycleKeeps ==
  ASSUME CallConstants, SortInv, NextCycle
  PROVE  SortInv'
<1>1. /\ view' = view /\ fixed' = fixed /\ Sortable' = Sortable /\ call' = call
      /\ UNCHANGED <<keys, rows, indices, moved>>
  BY CallKept DEF NextCycle
<1>2. /\ call.fn = "sort" /\ Sortable /\ ~call.cached /\ Ordered(indices)
      /\ rows = [i \in Rows |-> rows[i]] /\ AtCycle /\ at = "cycle"
  BY DEF NextCycle, SortInv, MovingInv
<1>3. Len(view) \in Nat /\ DOMAIN view = Rows /\ DOMAIN indices = Rows
  BY <1>2, ViewOfCells DEF SortInv, CallConstants, view, Ordered, Permutation
<1>4. (Ordered(indices) /\ rows = [i \in Rows |-> rows[i]])'
  BY <1>1, <1>2 DEF Ordered, InOrder
<1>5. CASE Unmoved = {}
  <2>1. at' = "done" /\ result' = WithView(call.array, rows)
    BY <1>5 DEF NextCycle, Return
  <2>2. \A i \in Rows : rows[i] = view[indices[i]]
    BY <1>2, <1>3, <1>5 DEF AtCycle, Unmoved
  <2>3. rows = [i \in DOMAIN view |-> view[indices[i]]]
    BY <1>2, <1>3, <2>2
  <2>4. (result = Rearranged(indices))'
    BY <1>1, <1>2, <2>1, <2>3 DEF Rearranged
  <2>5. SortedRows'
    BY <1>4, <2>4 DEF SortedRows, Ordered
  <2>. QED BY <1>1, <2>1, <2>5 DEF SortInv, MovingInv
<1>6. CASE Unmoved # {}
  <2>1. at' = "move" /\ start' \in Unmoved /\ k' = start'
    BY <1>6 DEF NextCycle
  <2>2. start' \in Rows \ moved
    BY <1>3, <2>1 DEF Unmoved
  <2>3. AtMove'
    BY <1>1, <1>2, <2>1, <2>2 DEF AtMove, AtCycle, SortInv
  <2>4. MovingInv'
    BY <1>1, <1>2, <1>4, <2>1, <2>3 DEF MovingInv
  <2>5. SortedRows'
    BY <2>1 DEF SortedRows, Returned
  <2>. QED BY <1>1, <2>1, <2>4, <2>5 DEF SortInv
<1>. QED BY <1>5, <1>6

\* The exchange of the rows of a step puts the right row where it was, unless
\* the cycle closes, and hands on the one the cycle began with.
LEMMA MoveKeeps ==
  ASSUME CallConstants, SortInv, Move
  PROVE  SortInv'
<1>1. /\ view' = view /\ fixed' = fixed /\ Sortable' = Sortable /\ call' = call
      /\ UNCHANGED <<keys, indices, start, result>>
      /\ moved' = moved \cup {k}
  BY CallKept DEF Move
<1>2. /\ call.fn = "sort" /\ Sortable /\ ~call.cached /\ Ordered(indices)
      /\ rows = [i \in Rows |-> rows[i]] /\ AtMove /\ at = "move"
      /\ moved \subseteq Rows /\ call \in Calls
  BY DEF Move, SortInv, MovingInv
<1>3. /\ \A i \in Rows : indices[i] \in Rows
      /\ \A i, j \in Rows : indices[i] = indices[j] => i = j
  BY <1>2 DEF Ordered, Permutation
<1>4. /\ start \in Rows /\ k \in Rows \ moved
      /\ \A i \in moved : indices[i] \in moved \cup {k}
      /\ \A i \in Rows \ moved : indices[i] \in moved => indices[i] = start
      /\ k # start => start \in moved /\ \E i \in moved : indices[i] = k
  BY <1>2 DEF AtMove
<1>5. \A i \in Rows :
        rows[i] = view[IF i \in moved THEN indices[i] ELSE IF i = k THEN start ELSE i]
  BY <1>2 DEF AtMove
<1>6. ASSUME NEW i \in Rows \ moved, indices[i] = k
      PROVE  k = start
  BY <1>2, <1>3, <1>4, <1>6
<1>7. Ordered(indices)'
  BY <1>1, <1>2 DEF Ordered, InOrder
<1>8. moved' \subseteq Rows /\ at' \in {"cycle", "move"}
  BY <1>1, <1>2, <1>4 DEF Move
<1>9. SortedRows'
  BY <1>8 DEF SortedRows, Returned
<1>10. CASE indices[k] = start
  <2>1. at' = "cycle" /\ rows' = rows
    BY <1>10 DEF Move
  <2>2. \A i \in Rows : rows[i] = view[IF i \in moved' THEN indices[i] ELSE i]
    BY <1>1, <1>4, <1>5, <1>10
  <2>3. \A i \in Rows : i \in moved' <=> indices[i] \in moved'
    <3>1. ASSUME NEW i \in Rows, i \in moved' PROVE indices[i] \in moved'
      BY <3>1, <1>1, <1>4, <1>10
    <3>2. ASSUME NEW i \in Rows, i \notin moved', indices[i] \in moved' PROVE FALSE
      <4>1. indices[i] # k
        BY <3>2, <1>1, <1>3, <1>4, <1>6, <1>10
      <4>. QED BY <4>1, <3>2, <1>1, <1>3, <1>4, <1>10
    <3>. QED BY <3>1, <3>2
  <2>4. AtCycle'
    BY <1>1, <2>1, <2>2, <2>3 DEF AtCycle
  <2>5. MovingInv'
    BY <1>1, <1>2, <1>7, <2>1, <2>4 DEF MovingInv
  <2>. QED BY <1>1, <1>2, <1>8, <1>9, <2>1, <2>5 DEF SortInv
<1>11. CASE indices[k] # start
  <2>. DEFINE r == indices[k]
  <2>1. /\ at' = "move" /\ k' = r
        /\ rows' = [rows EXCEPT ![k] = rows[r], ![r] = rows[k]]
    BY <1>11, <1>2 DEF Move, Exchanged
  <2>2. r \in Rows /\ r \notin moved /\ r # k
    BY <1>3, <1>4, <1>6, <1>11
  <2>3. DOMAIN rows = Rows
    BY <1>2
  <2>4. /\ rows' = [i \in Rows |-> rows'[i]]
        /\ \A i \in Rows : rows'[i] = IF i = r THEN rows[k] ELSE IF i = k THEN rows[r] ELSE rows[i]
    BY <2>1, <2>2, <2>3, <1>4
  <2>5. \A i \in Rows :
          rows'[i] = view[IF i \in moved' THEN indices[i] ELSE IF i = r THEN start ELSE i]
    BY <1>1, <1>4, <1>5, <2>2, <2>4
  <2>6. \A i \in Rows \ moved' : indices[i] \in moved' => indices[i] = start
    <3>. SUFFICES ASSUME NEW i \in Rows \ moved', indices[i] \in moved' PROVE indices[i] = start
      OBVIOUS
    <3>1. CASE indices[i] = k
      BY <3>1, <1>1, <1>6
    <3>2. CASE indices[i] \in moved
      BY <3>2, <1>1, <1>4
    <3>. QED BY <3>1, <3>2, <1>1
  <2>7. AtMove'
    BY <1>1, <1>4, <2>1, <2>2, <2>5, <2>6 DEF AtMove
  <2>8. MovingInv'
    BY <1>1, <1>2, <1>7, <2>1, <2>4, <2>7 DEF MovingInv
  <2>. QED BY <1>1, <1>2, <1>8, <1>9, <2>1, <2>8 DEF SortInv
<1>. QED BY <1>10, <1>11

\* The other steps move no row.
LEMMA OthersKeep ==
  ASSUME SortInv, SortNothing \/ SortThrows \/ AnswerCall \/ UNCHANGED vars
  PROVE  SortInv'
<1>1. /\ view' = view /\ fixed' = fixed /\ Sortable' = Sortable /\ call' = call
      /\ UNCHANGED <<keys, rows, indices, moved, start, k>>
  BY CallKept DEF SortNothing, SortThrows, AnswerCall, vars
<1>2. CASE UNCHANGED vars
  <2>1. UNCHANGED <<at, result>>
    BY <1>2 DEF vars
  <2>2. (AtCycle' <=> AtCycle) /\ (AtMove' <=> AtMove) /\ \A p : Ordered(p)' <=> Ordered(p)
    BY <1>1 DEF AtCycle, AtMove, Ordered, InOrder
  <2>3. (SortedRows' <=> SortedRows) /\ (MovingInv' <=> MovingInv)
    BY <1>1, <2>1, <2>2 DEF SortedRows, Returned, InOrder, Rearranged, MovingInv, Ordered
  <2>. QED BY <1>1, <2>1, <2>3 DEF SortInv
<1>3. CASE SortNothing \/ SortThrows \/ AnswerCall
  <2>1. /\ at' \in {"done", "thrown"}
        /\ at' = "done" => call.fn # "sort" \/ ~Sortable
    BY <1>3 DEF SortNothing, SortThrows, AnswerCall, Return, Throw
  <2>2. SortedRows' /\ MovingInv'
    BY <1>1, <2>1 DEF SortedRows, Returned, MovingInv
  <2>. QED BY <1>1, <2>1, <2>2 DEF SortInv
<1>. QED BY <1>2, <1>3

LEMMA NextKeeps ==
  ASSUME CallConstants, TextConstants, SortInv, [Next]_vars
  PROVE  SortInv'
BY SortKeeps, NextCycleKeeps, MoveKeeps, OthersKeep DEF Next

\* xloSort returns the rows which it was given, all of them and in order.
THEOREM SortReturnsRows == Spec => []SortedRows
<1>1. Init => SortInv
  BY DEF Init, SortInv, MovingInv, SortedRows, Returned
<1>2. SortInv /\ [Next]_vars => SortInv'
  BY NextKeeps, CallConstants, TextConstants
<1>3. SortInv => SortedRows
  BY DEF SortInv
<1>. QED BY <1>1, <1>2, <1>3, PTL DEF Spec

HIDE DEF Rows

-----------------------------------------------------------------------------
(***************************************************************************)
(* What a call but xloSort returns is its answer.                          *)
(***************************************************************************)
\* The call, and what it returned, between its only step and the end.
AnswerInv ==
  /\ call \in Calls
  /\ call.fn # "sort" => at \in {"call", "done", "thrown"}
  /\ call.fn # "sort" /\ at = "done" => result = Answer(call)

\* No step but the one of the call itself changes what it returns.
LEMMA CallsAnswered == Spec => []AnswerInv
<1>1. Init => AnswerInv
  BY DEF Init, AnswerInv
<1>2. AnswerInv /\ [Next]_vars => AnswerInv'
  <2>. SUFFICES ASSUME AnswerInv, [Next]_vars PROVE AnswerInv'
    OBVIOUS
  <2>1. call' = call
    BY DEF Next, SortNothing, SortThrows, Sort, NextCycle, Move, AnswerCall, vars
  <2>2. ASSUME call.fn # "sort" PROVE AnswerCall \/ UNCHANGED <<at, result>>
    BY <2>2 DEF Next, SortNothing, SortThrows, Sort, NextCycle, Move, vars, AnswerInv
  <2>3. ASSUME AnswerCall PROVE at' = "thrown" \/ (at' = "done" /\ result' = Answer(call))
    BY <2>3 DEF AnswerCall, Return, Throw
  <2>. QED BY <2>1, <2>2, <2>3 DEF AnswerInv
<1>. QED BY <1>1, <1>2, PTL DEF Spec

-----------------------------------------------------------------------------
(***************************************************************************)
(* Dates. Of a day which is not made up for, the conversion counts the     *)
(* centuries, their years and the months of a year, which all begin on the *)
(* first of March: n, i and j, and the days d of the month.                *)
(***************************************************************************)
ToCentury(n) == 36524 * n + (n + 3) \div 4
ToYear(i) == 365 * i + i \div 4
ToMonth(j) == (2447 * j) \div 80

IsDay(t, n, i, j, d) ==
  /\ n \in 67..148 /\ i \in 0..99 /\ j \in 1..12 /\ d \in 1..31
  /\ t + 2483588 = ToCentury(n) + ToYear(i) + ToMonth(j) + d - 31
  /\ d <= ToMonth(j + 1) - ToMonth(j)
  /\ ToMonth(j) + d - 31 < ToYear(i + 1) - ToYear(i)
  /\ ToYear(i) + ToMonth(j) + d - 31 < ToCentury(n + 1) - ToCentury(n)

DateOf(n, i, j, d) == Date(100 * (n - 49) + i + j \div 11, j + 2 - 12 * (j \div 11), d)

Valid(serial) == serial \in Nat /\ serial <= XL_MAX_SERIAL_DATE
Made(serial) == IF serial < 60 THEN serial + 1 ELSE serial

\* Each of its divisions finds the century, year and month in which the day is.
LEMMA CenturyFound ==
  ASSUME NEW l \in Int, 2483589 <= l, l <= 5442053, NEW n, n = (4 * l) \div 146097
  PROVE  n \in 67..148 /\ ToCentury(n) <= l /\ l < ToCentury(n + 1)
  BY SMT DEF ToCentury

LEMMA YearFound ==
  ASSUME NEW l \in Nat, l <= 36524, NEW i, i = (4000 * (l + 1)) \div 1461001
  PROVE  i \in 0..99 /\ ToYear(i) <= l /\ l < ToYear(i + 1)
  BY SMT DEF ToYear

LEMMA MonthFound ==
  ASSUME NEW l \in 31..396, NEW j, j = (80 * l) \div 2447
  PROVE  j \in 1..12 /\ ToMonth(j) < l /\ l <= ToMonth(j + 1)
  BY SMT DEF ToMonth

\* What is divided and what comes of it.
LEMMA Starts ==
  /\ \A n \in 67..149 : (146097 * n + 3) \div 4 = ToCentury(n) /\ ToCentury(n) \in Int
  /\ \A n \in 67..148 : ToCentury(n + 1) - ToCentury(n) = 36524 + (IF n % 4 = 0 THEN 1 ELSE 0)
  /\ \A i \in 0..100 : (1461 * i) \div 4 = ToYear(i) /\ ToYear(i) \in Nat
  /\ \A i \in 0..99 : ToYear(i + 1) - ToYear(i) = 365 + (IF (i + 1) % 4 = 0 THEN 1 ELSE 0)
  /\ \A j \in 1..13 : ToMonth(j) \in Nat /\ ToMonth(j) >= 30
<1>1. \A n \in 67..149 : (146097 * n + 3) \div 4 = ToCentury(n) /\ ToCentury(n) \in Int
  BY SMT DEF ToCentury
<1>2. \A n \in 67..148 : ToCentury(n + 1) - ToCentury(n) = 36524 + (IF n % 4 = 0 THEN 1 ELSE 0)
  BY SMT DEF ToCentury
<1>3. \A i \in 0..100 : (1461 * i) \div 4 = ToYear(i) /\ ToYear(i) \in Nat
  BY SMT DEF ToYear
<1>4. \A i \in 0..99 : ToYear(i + 1) - ToYear(i) = 365 + (IF (i + 1) % 4 = 0 THEN 1 ELSE 0)
  BY SMT DEF ToYear
<1>5. \A j \in 1..13 : ToMonth(j) \in Nat /\ ToMonth(j) >= 30
  BY SMT DEF ToMonth
<1>. QED BY <1>1, <1>2, <1>3, <1>4, <1>5, SMT

\* Every valid serial number but the leap day's is converted to the date of its day.
LEMMA DayFound ==
  ASSUME NEW serial, Valid(serial), serial # 60
  PROVE  \E n, i, j, d \in Int :
           IsDay(Made(serial), n, i, j, d) /\ SerialDateToYMD(serial) = DateOf(n, i, j, d)
<1>. DEFINE t  == Made(serial)
            l0 == t + 68569 + 2415019
            n  == Quotient(4 * l0, 146097)
            l1 == l0 - Quotient(146097 * n + 3, 4)
            i  == Quotient(4000 * (l1 + 1), 1461001)
            l2 == l1 - Quotient(1461 * i, 4) + 31
            j  == Quotient(80 * l2, 2447)
            d  == l2 - Quotient(2447 * j, 80)
<1>1. t \in Int /\ l0 \in Int /\ 2483589 <= l0 /\ l0 <= 5442053 /\ l0 = t + 2483588
  BY SMT DEF Made, Valid, XL_MAX_SERIAL_DATE
<1>2. SerialDateToYMD(serial) =
        Date(100 * (n - 49) + i + Quotient(j, 11), j + 2 - 12 * Quotient(j, 11), d)
  BY SMT DEF SerialDateToYMD, Made
<1>. HIDE DEF l0, t
<1>3. n \in 67..148 /\ ToCentury(n) <= l0 /\ l0 < ToCentury(n + 1)
  <2>1. n = (4 * l0) \div 146097
    BY <1>1, SMT DEF Quotient
  <2>. QED BY <1>1, <2>1, CenturyFound, SMT
<1>. HIDE DEF n
<1>4. l1 = l0 - ToCentury(n) /\ l1 \in Nat /\ l1 <= 36524 /\ l1 < ToCentury(n + 1) - ToCentury(n)
  <2>1. Quotient(146097 * n + 3, 4) = ToCentury(n) /\ ToCentury(n) \in Int /\ ToCentury(n + 1) \in Int
    BY <1>3, Starts, SMT DEF Quotient
  <2>2. ToCentury(n + 1) - ToCentury(n) <= 36525
    BY <1>3, Starts, SMT
  <2>. QED BY <1>1, <1>3, <2>1, <2>2, SMT
<1>. HIDE DEF l1
<1>5. i \in 0..99 /\ ToYear(i) <= l1 /\ l1 < ToYear(i + 1)
  <2>1. i = (4000 * (l1 + 1)) \div 1461001
    BY <1>4, SMT DEF Quotient
  <2>. QED BY <1>4, <2>1, YearFound, SMT
<1>. HIDE DEF i
<1>6. l2 = l1 - ToYear(i) + 31 /\ l2 \in 31..396 /\ l2 - 31 < ToYear(i + 1) - ToYear(i)
  <2>1. Quotient(1461 * i, 4) = ToYear(i) /\ ToYear(i) \in Int /\ ToYear(i + 1) \in Int
    BY <1>5, Starts, SMT DEF Quotient
  <2>2. ToYear(i + 1) - ToYear(i) <= 366
    BY <1>5, Starts, SMT
  <2>. QED BY <1>4, <1>5, <2>1, <2>2, SMT
<1>. HIDE DEF l2
<1>7. j \in 1..12 /\ ToMonth(j) < l2 /\ l2 <= ToMonth(j + 1)
  <2>1. j = (80 * l2) \div 2447
    BY <1>6, SMT DEF Quotient
  <2>. QED BY <1>6, <2>1, MonthFound, SMT
<1>. HIDE DEF j
<1>8. d = l2 - ToMonth(j) /\ d \in 1..31
  <2>1. Quotient(2447 * j, 80) = ToMonth(j)
    BY <1>7, SMT DEF Quotient, ToMonth
  <2>2. ToMonth(j + 1) - ToMonth(j) <= 31 /\ ToMonth(j) \in Int /\ ToMonth(j + 1) \in Int
    BY <1>7, SMT DEF ToMonth
  <2>. QED BY <1>6, <1>7, <2>1, <2>2, SMT
<1>. HIDE DEF d
<1>9. Quotient(j, 11) = j \div 11
  BY <1>7, SMT DEF Quotient
<1>10. SerialDateToYMD(serial) = DateOf(n, i, j, d)
  BY <1>2, <1>9 DEF DateOf
<1>11. /\ ToCentury(n) \in Int /\ ToCentury(n + 1) \in Int /\ ToYear(i) \in Int /\ ToYear(i + 1) \in Int
       /\ ToMonth(j) \in Int /\ ToMonth(j + 1) \in Int
  BY <1>3, <1>5, <1>7, Starts, SMT
<1>12. IsDay(t, n, i, j, d)
  <2>1. t + 2483588 = ToCentury(n) + ToYear(i) + ToMonth(j) + d - 31
    BY <1>1, <1>4, <1>6, <1>8, <1>11, SMT
  <2>2. d <= ToMonth(j + 1) - ToMonth(j)
    BY <1>6, <1>7, <1>8, <1>11, SMT
  <2>3. ToMonth(j) + d - 31 < ToYear(i + 1) - ToYear(i)
    BY <1>6, <1>8, <1>11, SMT
  <2>4. ToYear(i) + ToMonth(j) + d - 31 < ToCentury(n + 1) - ToCentury(n)
    BY <1>4, <1>6, <1>8, <1>11, SMT
  <2>. QED BY <1>3, <1>5, <1>7, <1>8, <2>1, <2>2, <2>3, <2>4 DEF IsDay
<1>13. n \in Int /\ i \in Int /\ j \in Int /\ d \in Int
  BY <1>3, <1>5, <1>7, <1>8, SMT
<1>. QED BY <1>10, <1>12, <1>13, SMT DEF t

\* No two dates are of one day.
LEMMA OneDate ==
  ASSUME NEW t \in Int, NEW n, NEW i, NEW j, NEW d, IsDay(t, n, i, j, d),
         NEW n2, NEW i2, NEW j2, NEW d2, IsDay(t, n2, i2, j2, d2)
  PROVE  n = n2 /\ i = i2 /\ j = j2 /\ d = d2
<1>. DEFINE c == ToCentury(n)
            c2 == ToCentury(n2)
            y == ToYear(i)
            y2 == ToYear(i2)
            m == ToMonth(j)
            m2 == ToMonth(j2)
<1>1. /\ n \in 67..148 /\ i \in 0..99 /\ j \in 1..12 /\ d \in 1..31
      /\ n2 \in 67..148 /\ i2 \in 0..99 /\ j2 \in 1..12 /\ d2 \in 1..31
  BY DEF IsDay
<1>2. /\ c \in Int /\ c2 \in Int /\ y \in Nat /\ y2 \in Nat /\ m \in Nat /\ m2 \in Nat /\ m >= 30 /\ m2 >= 30
      /\ ToCentury(n + 1) \in Int /\ ToCentury(n2 + 1) \in Int
      /\ ToYear(i + 1) \in Int /\ ToYear(i2 + 1) \in Int
      /\ ToMonth(j + 1) \in Int /\ ToMonth(j2 + 1) \in Int
  BY <1>1, Starts, SMT
<1>3. n = n2
  <2>1. /\ c <= t + 2483588 /\ t + 2483588 < ToCentury(n + 1)
        /\ c2 <= t + 2483588 /\ t + 2483588 < ToCentury(n2 + 1)
    BY <1>1, <1>2, SMT DEF IsDay
  <2>2. n < n2 => ToCentury(n + 1) <= c2
    BY <1>1, SMT DEF ToCentury
  <2>3. n2 < n => ToCentury(n2 + 1) <= c
    BY <1>1, SMT DEF ToCentury
  <2>. HIDE DEF c, c2
  <2>. QED BY <1>1, <1>2, <2>1, <2>2, <2>3, SMT
<1>4. i = i2
  <2>1. y + m + d = y2 + m2 + d2
    BY <1>1, <1>2, <1>3, SMT DEF IsDay
  <2>2. /\ y <= y + m + d - 31 /\ y + m + d - 31 < ToYear(i + 1)
        /\ y2 <= y2 + m2 + d2 - 31 /\ y2 + m2 + d2 - 31 < ToYear(i2 + 1)
    BY <1>1, <1>2, SMT DEF IsDay
  <2>3. i < i2 => ToYear(i + 1) <= y2
    BY <1>1, SMT DEF ToYear
  <2>4. i2 < i => ToYear(i2 + 1) <= y
    BY <1>1, SMT DEF ToYear
  <2>. HIDE DEF y, y2, m, m2
  <2>. QED BY <1>1, <1>2, <2>1, <2>2, <2>3, <2>4, SMT
<1>5. j = j2
  <2>1. m + d = m2 + d2
    BY <1>1, <1>2, <1>3, <1>4, SMT DEF IsDay
  <2>2. m + d <= ToMonth(j + 1) /\ m2 + d2 <= ToMonth(j2 + 1)
    BY <1>1, <1>2, SMT DEF IsDay
  <2>3. j < j2 => ToMonth(j + 1) <= m2
    BY <1>1, SMT DEF ToMonth
  <2>4. j2 < j => ToMonth(j2 + 1) <= m
    BY <1>1, SMT DEF ToMonth
  <2>. HIDE DEF m, m2
  <2>. QED BY <1>1, <1>2, <2>1, <2>2, <2>3, <2>4, SMT
<1>6. d = d2
  BY <1>1, <1>2, <1>3, <1>4, <1>5, SMT DEF IsDay
<1>. QED BY <1>3, <1>4, <1>5, <1>6

\* The date of a day is converted to the number of the day, made up for if it is early.
LEMMA DayCounted ==
  ASSUME NEW t \in Int, NEW n, NEW i, NEW j, NEW d, IsDay(t, n, i, j, d),
         DateOf(n, i, j, d) # Date(1900, 2, 29)
  PROVE  SerialDateFromYMD(DateOf(n, i, j, d)) = IF t < 60 THEN t - 1 ELSE t
<1>. DEFINE date == DateOf(n, i, j, d)
            q == Quotient(date.month - 14, 12)
            s == Quotient(1461 * (date.year + 4800 + q), 4)
                   + Quotient(367 * (date.month - 2 - 12 * q), 12)
                   - Quotient(3 * Quotient(date.year + 4900 + q, 100), 4)
                   + date.day - 2415019 - 32075
<1>1. n \in 67..148 /\ i \in 0..99 /\ j \in 1..12 /\ d \in 1..31
  BY DEF IsDay
<1>2. /\ date.year = 100 * (n - 49) + i + j \div 11
      /\ date.month = j + 2 - 12 * (j \div 11)
      /\ date.day = d
  BY DEF DateOf, Date
<1>3. SerialDateFromYMD(date) = IF s < 60 THEN s - 1 ELSE s
  BY DEF SerialDateFromYMD
<1>. HIDE DEF date
<1>4. j \div 11 \in {0, 1} /\ q = -(j \div 11)
  <2>1. j \div 11 = IF j < 11 THEN 0 ELSE 1
    BY <1>1, SMT
  <2>2. CASE j < 11
    <3>1. 14 - date.month \in 2..11
      BY <1>1, <1>2, <2>1, <2>2, SMT
    <3>2. \A u \in 2..11 : u \div 12 = 0
      BY SMT
    <3>. QED BY <1>1, <1>2, <2>1, <2>2, <3>1, <3>2, SMT DEF Quotient
  <2>3. CASE ~(j < 11)
    <3>1. 14 - date.month \in 12..13
      BY <1>1, <1>2, <2>1, <2>3, SMT
    <3>2. \A u \in 12..13 : u \div 12 = 1
      BY SMT
    <3>. QED BY <1>1, <1>2, <2>1, <2>3, <3>1, <3>2, SMT DEF Quotient
  <2>. QED BY <2>2, <2>3
<1>. HIDE DEF q
<1>5. /\ date.year + 4800 + q = 100 * (n - 1) + i
      /\ date.year + 4900 + q = 100 * n + i
      /\ date.month - 2 - 12 * q = j
  BY <1>1, <1>2, <1>4, SMT
<1>6. Quotient(1461 * (100 * (n - 1) + i), 4) = 36525 * (n - 1) + ToYear(i)
  BY <1>1, SMT DEF Quotient, ToYear
<1>7. Quotient(367 * j, 12) = ToMonth(j)
  BY <1>1, SMT DEF Quotient, ToMonth
<1>8. Quotient(3 * Quotient(100 * n + i, 100), 4) = n - (n + 3) \div 4
  <2>1. Quotient(100 * n + i, 100) = n
    BY <1>1, SMT DEF Quotient
  <2>2. Quotient(3 * n, 4) = n - (n + 3) \div 4
    BY <1>1, SMT DEF Quotient
  <2>. QED BY <2>1, <2>2
<1>9. s = 36525 * (n - 1) + ToYear(i) + ToMonth(j) - (n - (n + 3) \div 4) + d - 2415019 - 32075
  BY <1>2, <1>5, <1>6, <1>7, <1>8
<1>. HIDE DEF s
<1>10. s = t
  <2>1. t + 2483588 = 36524 * n + (n + 3) \div 4 + ToYear(i) + ToMonth(j) + d - 31
    BY DEF IsDay, ToCentury
  <2>2. (n + 3) \div 4 \in Int /\ ToYear(i) \in Int /\ ToMonth(j) \in Int
    BY <1>1, Starts, SMT
  <2>. QED BY <1>1, <1>9, <2>1, <2>2, SMT
<1>. QED BY <1>3, <1>10 DEF date

\* The years' leap days, in the terms of the conversion.
LEMMA LeapYears ==
  ASSUME NEW n \in 67..148, NEW i \in 0..99, NEW y \in Int, y = 100 * (n - 49) + i + 1
  PROVE  IsLeap(y) <=> y = 1900 \/ ((i + 1) % 4 = 0 /\ (i = 99 => n % 4 = 0))
<1>1. y % 4 = (i + 1) % 4
  BY SMT
<1>2. y % 100 = 0 <=> i = 99
  BY SMT
<1>3. i = 99 => (y % 400 = 0 <=> n % 4 = 0) /\ (i + 1) % 4 = 0
  BY SMT
<1>4. y % 400 = 0 => y % 100 = 0
  BY SMT
<1>. QED BY <1>1, <1>2, <1>3, <1>4, SMT DEF IsLeap

\* The date of the day after, but for the 28 February 1900.
LEMMA DayAfter ==
  ASSUME NEW t \in Int, t < XL_MAX_SERIAL_DATE, NEW n, NEW i, NEW j, NEW d, IsDay(t, n, i, j, d),
         DateOf(n, i, j, d) # Date(1900, 2, 28)
  PROVE  \E n2, i2, j2, d2 \in Int :
           IsDay(t + 1, n2, i2, j2, d2) /\ DateOf(n2, i2, j2, d2) = Following(DateOf(n, i, j, d))
<1>. DEFINE Goal == \E n2, i2, j2, d2 \in Int :
              IsDay(t + 1, n2, i2, j2, d2) /\ DateOf(n2, i2, j2, d2) = Following(DateOf(n, i, j, d))
            date == DateOf(n, i, j, d)
            length == DaysIn(date.year, date.month)
<1>. SUFFICES Goal
  OBVIOUS
<1>1. n \in 67..148 /\ i \in 0..99 /\ j \in 1..12 /\ d \in 1..31
  BY DEF IsDay
<1>2. /\ date.year = 100 * (n - 49) + i + j \div 11
      /\ date.month = j + 2 - 12 * (j \div 11)
      /\ date.day = d
  BY DEF DateOf, Date
<1>. HIDE DEF date
<1>3. /\ d < length => Following(date) = Date(date.year, date.month, d + 1)
      /\ ~(d < length) /\ d = length /\ date.month < 12 =>
           Following(date) = Date(date.year, date.month + 1, 1)
      /\ ~(d < length) /\ ~(date.month < 12) => Following(date) = Date(date.year + 1, 1, 1)
  <2>1. ASSUME d < length PROVE Following(date) = Date(date.year, date.month, d + 1)
    <3>1. length \in 28..31
      BY SMT DEF DaysIn
    <3>2. ~(d = length)
      BY <1>1, <2>1, <3>1, SMT
    <3>. QED BY <1>2, <2>1, <3>2 DEF Following
  <2>2. ASSUME ~(d < length), d = length, date.month < 12
        PROVE  Following(date) = Date(date.year, date.month + 1, 1)
    BY <1>2, <2>2 DEF Following
  <2>3. ASSUME ~(d < length), ~(date.month < 12)
        PROVE  Following(date) = Date(date.year + 1, 1, 1)
    BY <1>2, <2>3 DEF Following
  <2>. QED BY <2>1, <2>2, <2>3
<1>. HIDE DEF length, Goal
<1>4. /\ ToCentury(n) \in Int /\ ToYear(i) \in Nat /\ ToMonth(j) \in Nat /\ ToMonth(j + 1) \in Nat
      /\ ToCentury(n + 1) - ToCentury(n) = 36524 + (IF n % 4 = 0 THEN 1 ELSE 0)
      /\ ToYear(i + 1) - ToYear(i) = 365 + (IF (i + 1) % 4 = 0 THEN 1 ELSE 0)
  BY <1>1, Starts, SMT
<1>5. /\ t + 2483588 = ToCentury(n) + ToYear(i) + ToMonth(j) + d - 31
      /\ d <= ToMonth(j + 1) - ToMonth(j)
      /\ ToMonth(j) + d - 31 < 365 + (IF (i + 1) % 4 = 0 THEN 1 ELSE 0)
      /\ ToYear(i) + ToMonth(j) + d - 31 < 36524 + (IF n % 4 = 0 THEN 1 ELSE 0)
  BY <1>4 DEF IsDay
<1>. DEFINE IsNext(n2, i2, j2, d2) ==
              IsDay(t + 1, n2, i2, j2, d2) /\ DateOf(n2, i2, j2, d2) = Following(date)
<1>6. ASSUME NEW n2, NEW i2, NEW j2, NEW d2, IsNext(n2, i2, j2, d2)
      PROVE  Goal
  <2>1. n2 \in Int /\ i2 \in Int /\ j2 \in Int /\ d2 \in Int
    <3>1. n2 \in 67..148 /\ i2 \in 0..99 /\ j2 \in 1..12 /\ d2 \in 1..31
      BY <1>6 DEF IsDay
    <3>. QED BY <3>1, SMT
  <2>. QED BY <1>6, <2>1 DEF Goal, date
<1>. HIDE DEF Next
<1>7. ASSUME j < 12 PROVE Goal
  <2>1. /\ ToMonth(j + 1) - ToMonth(j) = length
        /\ ToMonth(j + 1) <= 367 /\ length \in 30..31
    <3>1. /\ j \div 11 = IF j = 11 THEN 1 ELSE 0
          /\ date.month = IF j = 11 THEN 1 ELSE j + 2
      BY <1>1, <1>2, <1>7, SMT
    <3>2. length = IF j \in {2, 4, 7, 9} THEN 30 ELSE 31
      BY <1>1, <1>7, <3>1, SMT DEF length, DaysIn
    <3>3. ToMonth(j + 1) - ToMonth(j) = IF j \in {2, 4, 7, 9} THEN 30 ELSE 31
      BY <1>1, <1>7, SMT DEF ToMonth
    <3>4. ToMonth(j + 1) <= 367
      BY <1>1, <1>7, SMT DEF ToMonth
    <3>. QED BY <3>2, <3>3, <3>4, SMT
  <2>2. ToYear(i) <= 36159
    BY <1>1, SMT DEF ToYear
  <2>3. ASSUME d < length PROVE Goal
    <3>1. IsDay(t + 1, n, i, j, d + 1)
      BY <1>1, <1>4, <1>5, <2>1, <2>2, <2>3, SMT DEF IsDay
    <3>2. DateOf(n, i, j, d + 1) = Following(date)
      <4>1. Following(date) = Date(date.year, date.month, d + 1)
        BY <1>3, <2>3
      <4>. QED BY <1>2, <4>1 DEF DateOf
    <3>3. IsNext(n, i, j, d + 1)
      BY <3>1, <3>2 DEF IsNext
    <3>. QED BY <1>6, <3>3
  <2>4. ASSUME ~(d < length) PROVE Goal
    <3>1. d = length
      BY <1>1, <1>5, <2>1, <2>4, SMT
    <3>2. ToMonth(j + 1) - 30 < 365 /\ ToMonth(j + 2) - ToMonth(j + 1) >= 1 /\ ToMonth(j + 2) \in Int
      BY <1>1, <1>7, SMT DEF ToMonth
    <3>3. IsDay(t + 1, n, i, j + 1, 1)
      <4>1. t + 1 + 2483588 = ToCentury(n) + ToYear(i) + ToMonth(j + 1) + 1 - 31
        BY <1>1, <1>4, <1>5, <2>1, <3>1, SMT
      <4>2. ToMonth(j + 1) + 1 - 31 < ToYear(i + 1) - ToYear(i)
        BY <1>4, <2>1, SMT
      <4>3. ToYear(i) + ToMonth(j + 1) + 1 - 31 < ToCentury(n + 1) - ToCentury(n)
        BY <1>4, <2>1, <2>2, SMT
      <4>4. 1 <= ToMonth(j + 1 + 1) - ToMonth(j + 1)
        BY <1>1, <1>7, SMT DEF ToMonth
      <4>5. j + 1 \in 1..12 /\ 1 \in 1..31
        BY <1>1, <1>7, SMT
      <4>. QED BY <1>1, <4>1, <4>2, <4>3, <4>4, <4>5 DEF IsDay
    <3>4. DateOf(n, i, j + 1, 1) = Following(date)
      <4>1. CASE j = 10
        <5>1. date.month = 12 /\ 10 \div 11 = 0 /\ 11 \div 11 = 1
          BY <1>2, <4>1, SMT
        <5>2. Following(date) = Date(date.year + 1, 1, 1)
          BY <1>3, <2>4, <3>1, <5>1, SMT
        <5>3. date.year = 100 * (n - 49) + i /\ 100 * (n - 49) + i + 1 = date.year + 1 /\ 11 + 2 - 12 * 1 = 1
          BY <1>1, <1>2, <4>1, <5>1, SMT
        <5>. QED BY <4>1, <5>1, <5>2, <5>3, SMT DEF DateOf
      <4>2. CASE j # 10
        <5>1. date.month < 12 /\ (j + 1) \div 11 = j \div 11 /\ j \div 11 \in {0, 1}
          BY <1>1, <1>2, <1>7, <4>2, SMT
        <5>2. Following(date) = Date(date.year, date.month + 1, 1)
          BY <1>3, <2>4, <3>1, <5>1, SMT
        <5>3. date.month + 1 = j + 1 + 2 - 12 * ((j + 1) \div 11)
          BY <1>1, <1>2, <5>1, SMT
        <5>4. date.year = 100 * (n - 49) + i + (j + 1) \div 11
          BY <1>2, <5>1
        <5>. QED BY <5>2, <5>3, <5>4 DEF DateOf
      <4>. QED BY <4>1, <4>2
    <3>5. IsNext(n, i, j + 1, 1)
      BY <3>3, <3>4 DEF IsNext
    <3>. QED BY <1>6, <3>5
  <2>. QED BY <2>3, <2>4
<1>8. ASSUME j = 12 PROVE Goal
  <2>. DEFINE y == 100 * (n - 49) + i + 1
              full == IF (i + 1) % 4 = 0 /\ (i = 99 => n % 4 = 0) THEN 29 ELSE 28
  <2>1. date.year = y /\ date.month = 2 /\ y \in Int
    <3>1. 12 \div 11 = 1
      BY SMT
    <3>. QED BY <1>1, <1>2, <1>8, <3>1, SMT
  <2>2. length = IF IsLeap(y) THEN 29 ELSE 28
    BY <2>1 DEF length, DaysIn
  <2>3. ToMonth(12) = 367 /\ ToMonth(1) = 30 /\ ToMonth(2) = 61 /\ ToMonth(13) = 397
    BY SMT DEF ToMonth
  <2>4. (i < 99 => ToYear(i) <= 35795) /\ (i = 99 => ToYear(i) = 36159)
    BY <1>1, SMT DEF ToYear
  <2>5. full \in {28, 29}
    OBVIOUS
  <2>6. d <= full
    <3>1. d < 29 + (IF (i + 1) % 4 = 0 THEN 1 ELSE 0)
      BY <1>1, <1>5, <1>8, <2>3, SMT
    <3>2. i = 99 => d < 29 + (IF n % 4 = 0 THEN 1 ELSE 0)
      BY <1>1, <1>5, <1>8, <2>3, <2>4, SMT
    <3>. QED BY <1>1, <3>1, <3>2, SMT
  <2>7. y = 1900 => full = 28 /\ d # 28
    <3>1. ASSUME y = 1900 PROVE n = 67 /\ i = 99
      BY <1>1, <3>1, SMT
    <3>2. 67 % 4 = 3
      BY SMT
    <3>3. y = 1900 => d # 28
      <4>1. date = Date(date.year, date.month, d)
        BY <1>2 DEF date, DateOf, Date
      <4>2. date # Date(1900, 2, 28)
        BY DEF date
      <4>. QED BY <2>1, <4>1, <4>2
    <3>. QED BY <3>1, <3>2, <3>3, SMT
  <2>8. length = IF y = 1900 THEN 29 ELSE full
    <3>0. y = 100 * (n - 49) + i + 1 /\ y \in Int
      BY <2>1
    <3>. HIDE DEF y
    <3>1. IsLeap(y) <=> y = 1900 \/ ((i + 1) % 4 = 0 /\ (i = 99 => n % 4 = 0))
      BY <1>1, <3>0, LeapYears, SMT
    <3>. QED BY <2>2, <3>1, <2>7, SMT
  <2>. HIDE DEF y
  <2>9. ASSUME d < full PROVE Goal
    <3>1. IsDay(t + 1, n, i, j, d + 1)
      <4>1. t + 1 + 2483588 = ToCentury(n) + ToYear(i) + ToMonth(j) + (d + 1) - 31
        BY <1>1, <1>4, <1>5, SMT
      <4>2. d + 1 <= 29 /\ d + 1 \in 1..31
        BY <1>1, <2>5, <2>9, SMT
      <4>3. d + 1 <= ToMonth(j + 1) - ToMonth(j)
        BY <1>8, <2>3, <4>2, SMT
      <4>4. ToMonth(j) + (d + 1) - 31 < ToYear(i + 1) - ToYear(i)
        BY <1>1, <1>4, <1>8, <2>3, <2>9, <4>2, SMT
      <4>5. ToYear(i) + ToMonth(j) + (d + 1) - 31 < ToCentury(n + 1) - ToCentury(n)
        <5>1. CASE i = 99
          BY <1>1, <1>4, <1>8, <2>3, <2>4, <2>9, <5>1, SMT
        <5>2. CASE i < 99
          BY <1>1, <1>4, <1>8, <2>3, <2>4, <4>2, <5>2, SMT
        <5>. QED BY <1>1, <5>1, <5>2, SMT
      <4>. QED BY <1>1, <4>1, <4>2, <4>3, <4>4, <4>5 DEF IsDay
    <3>2. d < length
      BY <1>1, <2>5, <2>7, <2>8, <2>9, SMT
    <3>3. DateOf(n, i, j, d + 1) = Following(date)
      <4>1. Following(date) = Date(date.year, date.month, d + 1)
        BY <1>3, <3>2
      <4>. QED BY <1>2, <4>1 DEF DateOf
    <3>4. IsNext(n, i, j, d + 1)
      BY <3>1, <3>3 DEF IsNext
    <3>. QED BY <1>6, <3>4
  <2>10. ASSUME ~(d < full) PROVE Goal
    <3>1. d = full /\ y # 1900 /\ d = length
      BY <1>1, <2>5, <2>6, <2>7, <2>8, <2>10, SMT
    <3>2. Following(date) = Date(y, 3, 1)
      <4>1. ~(d < length) /\ date.month < 12 /\ date.month + 1 = 3
        BY <2>1, <2>5, <3>1, SMT
      <4>. QED BY <1>3, <2>1, <3>1, <4>1
    <3>3. ASSUME i < 99 PROVE Goal
      <4>1. IsDay(t + 1, n, i + 1, 1, 1)
        <5>1. /\ i + 1 \in 0..99 /\ i + 1 <= 99 /\ ToYear(i + 1) <= 36159
              /\ ToYear(i + 1 + 1) - ToYear(i + 1) >= 1 /\ ToYear(i + 1) \in Int /\ ToYear(i + 1 + 1) \in Int
          BY <1>1, <3>3, SMT DEF ToYear
        <5>2. t + 1 + 2483588 = ToCentury(n) + ToYear(i + 1) + ToMonth(1) + 1 - 31
          BY <1>1, <1>4, <1>5, <1>8, <2>3, <3>1, <3>3, <5>1, SMT
        <5>3. 1 <= ToMonth(1 + 1) - ToMonth(1) /\ 1 \in 1..12 /\ 1 \in 1..31
          BY <2>3, SMT
        <5>4. ToMonth(1) + 1 - 31 < ToYear(i + 1 + 1) - ToYear(i + 1)
          BY <2>3, <5>1, SMT
        <5>5. ToYear(i + 1) + ToMonth(1) + 1 - 31 < ToCentury(n + 1) - ToCentury(n)
          BY <1>4, <2>3, <5>1, SMT
        <5>. QED BY <1>1, <5>1, <5>2, <5>3, <5>4, <5>5 DEF IsDay
      <4>2. 100 * (n - 49) + (i + 1) + 1 \div 11 = y /\ 1 + 2 - 12 * (1 \div 11) = 3
        BY <1>1, SMT DEF y
      <4>3. DateOf(n, i + 1, 1, 1) = Following(date)
        BY <3>2, <4>2 DEF DateOf
      <4>4. IsNext(n, i + 1, 1, 1)
        BY <4>1, <4>3 DEF IsNext
      <4>. QED BY <1>6, <4>4
    <3>4. ASSUME i = 99 PROVE Goal
      <4>1. ToCentury(n + 1) = t + 1 + 2483588
        <5>1. full = 28 + (IF n % 4 = 0 THEN 1 ELSE 0)
          <6>1. (99 + 1) % 4 = 0
            BY SMT
          <6>. QED BY <3>4, <6>1, SMT
        <5>2. t + 2483588 = ToCentury(n) + 36159 + 367 + d - 31
          <6>1. ToMonth(j) = 367
            BY <1>8, <2>3
          <6>2. ToYear(i) = 36159
            BY <2>4, <3>4
          <6>3. t + 2483588 = ToCentury(n) + ToYear(i) + ToMonth(j) + d - 31
            BY <1>5
          <6>. QED BY <6>1, <6>2, <6>3
        <5>3. ToCentury(n + 1) \in Int
          BY <1>1, SMT DEF ToCentury
        <5>4. d = 28 + (IF n % 4 = 0 THEN 1 ELSE 0)
          BY <3>1, <5>1
        <5>5. ToCentury(n + 1) - ToCentury(n) = 36524 + (IF n % 4 = 0 THEN 1 ELSE 0)
          BY <1>4
        <5>6. ToCentury(n) \in Int
          BY <1>4
        <5>. QED BY <5>2, <5>3, <5>4, <5>5, <5>6, SMT
      <4>2. n + 1 \in 67..148
        <5>1. n = 148 => ToCentury(n + 1) = 5442114
          BY SMT DEF ToCentury
        <5>2. t + 1 + 2483588 <= 5442053
          BY SMT DEF XL_MAX_SERIAL_DATE
        <5>. QED BY <1>1, <4>1, <5>1, <5>2, SMT
      <4>3. IsDay(t + 1, n + 1, 0, 1, 1)
        <5>1. ToYear(0) = 0 /\ ToYear(0 + 1) = 365
          BY SMT DEF ToYear
        <5>2. ToCentury(n + 1 + 1) - ToCentury(n + 1) >= 1 /\ ToCentury(n + 1) \in Int /\ ToCentury(n + 1 + 1) \in Int
          BY <4>2, SMT DEF ToCentury
        <5>3. t + 1 + 2483588 = ToCentury(n + 1) + ToYear(0) + ToMonth(1) + 1 - 31
          BY <2>3, <4>1, <5>1, <5>2, SMT
        <5>4. 1 <= ToMonth(1 + 1) - ToMonth(1) /\ 1 \in 1..12 /\ 1 \in 1..31 /\ 0 \in 0..99
          BY <2>3, SMT
        <5>5. ToMonth(1) + 1 - 31 < ToYear(0 + 1) - ToYear(0)
          BY <2>3, <5>1, SMT
        <5>6. ToYear(0) + ToMonth(1) + 1 - 31 < ToCentury(n + 1 + 1) - ToCentury(n + 1)
          BY <2>3, <5>1, <5>2, SMT
        <5>. QED BY <4>2, <5>3, <5>4, <5>5, <5>6 DEF IsDay
      <4>4. 100 * (n + 1 - 49) + 0 + 1 \div 11 = y /\ 1 + 2 - 12 * (1 \div 11) = 3
        BY <1>1, <3>4, SMT DEF y
      <4>5. DateOf(n + 1, 0, 1, 1) = Following(date)
        <5>1. DateOf(n + 1, 0, 1, 1) = Date(100 * (n + 1 - 49) + 0 + 1 \div 11, 1 + 2 - 12 * (1 \div 11), 1)
          BY <1>1, SMT DEF DateOf
        <5>. QED BY <3>2, <4>4, <5>1
      <4>6. IsNext(n + 1, 0, 1, 1)
        BY <4>3, <4>5 DEF IsNext
      <4>. QED BY <1>6, <4>6
    <3>. QED BY <1>1, <3>3, <3>4, SMT
  <2>. QED BY <2>9, <2>10
<1>. QED BY <1>1, <1>7, <1>8, SMT

\* The leap day which was not is no day's date.
LEMMA NoLeapDay ==
  ASSUME NEW t \in Int, NEW n, NEW i, NEW j, NEW d, IsDay(t, n, i, j, d)
  PROVE  DateOf(n, i, j, d) # Date(1900, 2, 29)
<1>. SUFFICES ASSUME DateOf(n, i, j, d) = Date(1900, 2, 29) PROVE FALSE
  OBVIOUS
<1>1. n \in 67..148 /\ i \in 0..99 /\ j \in 1..12 /\ d \in 1..31
  BY DEF IsDay
<1>2. 100 * (n - 49) + i + j \div 11 = 1900 /\ j + 2 - 12 * (j \div 11) = 2 /\ d = 29
  BY DEF DateOf, Date
<1>3. j = 12 /\ n = 67 /\ i = 99
  <2>1. j \div 11 = IF j < 11 THEN 0 ELSE 1
    BY <1>1, SMT
  <2>2. j = 12
    BY <1>1, <1>2, <2>1, SMT
  <2>. QED BY <1>1, <1>2, <2>1, <2>2, SMT
<1>4. ToYear(99) = 36159 /\ ToMonth(12) = 367 /\ ToCentury(67 + 1) - ToCentury(67) = 36524
  BY SMT DEF ToYear, ToMonth, ToCentury
<1>5. ToYear(99) + ToMonth(12) + 29 - 31 < ToCentury(67 + 1) - ToCentury(67)
  BY <1>2, <1>3 DEF IsDay
<1>. QED BY <1>4, <1>5, SMT

\* The days around it.
LEMMA AroundLeapDay ==
  /\ SerialDateToYMD(59) = Date(1900, 2, 28)
  /\ SerialDateToYMD(60) = Date(1900, 2, 29)
  /\ SerialDateToYMD(61) = Date(1900, 3, 1)
  /\ SerialDateFromYMD(Date(1900, 2, 28)) = 60
  /\ SerialDateFromYMD(Date(1900, 2, 29)) = 60
  /\ Following(Date(1900, 2, 28)) = Date(1900, 2, 29)
  /\ Following(Date(1900, 2, 29)) = Date(1900, 3, 1)
<1>0. /\ ToCentury(67) = 2447125 /\ ToCentury(68) = 2483649 /\ ToCentury(69) = 2520174
      /\ ToYear(0) = 0 /\ ToYear(1) = 365 /\ ToYear(99) = 36159 /\ ToYear(100) = 36525
      /\ ToMonth(1) = 30 /\ ToMonth(2) = 61 /\ ToMonth(12) = 367 /\ ToMonth(13) = 397
      /\ 12 \div 11 = 1 /\ 1 \div 11 = 0
  BY SMT DEF ToCentury, ToYear, ToMonth
<1>1. SerialDateToYMD(59) = Date(1900, 2, 28)
  <2>1. Made(59) = 60 /\ Valid(59) /\ 59 # 60
    BY SMT DEF Made, Valid, XL_MAX_SERIAL_DATE
  <2>2. IsDay(60, 67, 99, 12, 28)
    BY <1>0, SMT DEF IsDay
  <2>3. DateOf(67, 99, 12, 28) = Date(1900, 2, 28)
    BY <1>0, SMT DEF DateOf
  <2>4. PICK n, i, j, d \in Int : IsDay(60, n, i, j, d) /\ SerialDateToYMD(59) = DateOf(n, i, j, d)
    BY <2>1, DayFound
  <2>5. 60 \in Int
    BY SMT
  <2>6. n = 67 /\ i = 99 /\ j = 12 /\ d = 28
    BY <2>2, <2>4, <2>5, OneDate
  <2>. QED BY <2>3, <2>4, <2>6
<1>2. SerialDateToYMD(60) = Date(1900, 2, 29)
  BY SMT DEF SerialDateToYMD
<1>3. SerialDateToYMD(61) = Date(1900, 3, 1)
  <2>1. Made(61) = 61 /\ Valid(61) /\ 61 # 60
    BY SMT DEF Made, Valid, XL_MAX_SERIAL_DATE
  <2>2. IsDay(61, 68, 0, 1, 1)
    BY <1>0, SMT DEF IsDay
  <2>3. DateOf(68, 0, 1, 1) = Date(1900, 3, 1)
    BY <1>0, SMT DEF DateOf
  <2>4. PICK n, i, j, d \in Int : IsDay(61, n, i, j, d) /\ SerialDateToYMD(61) = DateOf(n, i, j, d)
    BY <2>1, DayFound
  <2>5. 61 \in Int
    BY SMT
  <2>6. n = 68 /\ i = 0 /\ j = 1 /\ d = 1
    BY <2>2, <2>4, <2>5, OneDate
  <2>. QED BY <2>3, <2>4, <2>6
<1>4. SerialDateFromYMD(Date(1900, 2, 28)) = 60
  BY SMT DEF SerialDateFromYMD, Quotient, Date
<1>5. SerialDateFromYMD(Date(1900, 2, 29)) = 60
  BY SMT DEF SerialDateFromYMD
<1>6. DaysIn(1900, 2) = 29
  BY SMT DEF DaysIn, IsLeap
<1>7. Following(Date(1900, 2, 28)) = Date(1900, 2, 29)
  BY <1>6, SMT DEF Following, Date
<1>8. Following(Date(1900, 2, 29)) = Date(1900, 3, 1)
  BY <1>6, SMT DEF Following, Date
<1>. QED BY <1>1, <1>2, <1>3, <1>4, <1>5, <1>7, <1>8

\* A date is read back, and the next day's is the next of the calendar.
LEMMA DatesAreDays ==
  ASSUME NEW serial, Valid(serial)
  PROVE  /\ \/ SerialDateToYMD(serial) = Date(1900, 2, 28)
            \/ SerialDateFromYMD(SerialDateToYMD(serial)) = serial
         /\ serial < XL_MAX_SERIAL_DATE =>
              SerialDateToYMD(serial + 1) = Following(SerialDateToYMD(serial))
<1>. DEFINE Goal == /\ \/ SerialDateToYMD(serial) = Date(1900, 2, 28)
                       \/ SerialDateFromYMD(SerialDateToYMD(serial)) = serial
                    /\ serial < XL_MAX_SERIAL_DATE =>
                         SerialDateToYMD(serial + 1) = Following(SerialDateToYMD(serial))
<1>. SUFFICES Goal
  OBVIOUS
<1>0. serial \in Int /\ 59 + 1 = 60 /\ 60 + 1 = 61
  BY SMT DEF Valid
<1>1. ASSUME serial = 59 PROVE Goal
  BY <1>0, <1>1, AroundLeapDay
<1>2. ASSUME serial = 60 PROVE Goal
  BY <1>0, <1>2, AroundLeapDay
<1>3. ASSUME serial # 59, serial # 60 PROVE Goal
  <2>. DEFINE t == Made(serial)
              date == SerialDateToYMD(serial)
  <2>1. /\ t \in Int /\ serial = (IF t < 60 THEN t - 1 ELSE t)
        /\ serial < XL_MAX_SERIAL_DATE => t < XL_MAX_SERIAL_DATE
        /\ Made(serial + 1) = t + 1 /\ serial + 1 # 60
    BY <1>0, <1>3, SMT DEF Made, XL_MAX_SERIAL_DATE
  <2>. HIDE DEF t
  <2>2. PICK n, i, j, d \in Int : IsDay(t, n, i, j, d) /\ date = DateOf(n, i, j, d)
    BY <1>3, DayFound DEF t
  <2>. HIDE DEF date
  <2>3. SerialDateFromYMD(date) = serial
    <3>1. DateOf(n, i, j, d) # Date(1900, 2, 29)
      BY <2>1, <2>2, NoLeapDay
    <3>. QED BY <2>1, <2>2, <3>1, DayCounted
  <2>4. date # Date(1900, 2, 28)
    BY <1>3, <2>3, AroundLeapDay
  <2>5. ASSUME serial < XL_MAX_SERIAL_DATE PROVE SerialDateToYMD(serial + 1) = Following(date)
    <3>1. PICK n2, i2, j2, d2 \in Int : IsDay(t + 1, n2, i2, j2, d2) /\ DateOf(n2, i2, j2, d2) = Following(date)
      BY <2>1, <2>2, <2>4, <2>5, DayAfter
    <3>2. Valid(serial + 1)
      BY <1>0, <2>5, SMT DEF Valid, XL_MAX_SERIAL_DATE
    <3>3. PICK n3, i3, j3, d3 \in Int :
            IsDay(t + 1, n3, i3, j3, d3) /\ SerialDateToYMD(serial + 1) = DateOf(n3, i3, j3, d3)
      BY <2>1, <3>2, DayFound
    <3>4. t + 1 \in Int
      BY <2>1, SMT
    <3>5. n2 = n3 /\ i2 = i3 /\ j2 = j3 /\ d2 = d3
      BY <3>1, <3>3, <3>4, OneDate
    <3>. QED BY <3>1, <3>3, <3>5
  <2>. QED BY <2>3, <2>5 DEF date
<1>. QED BY <1>1, <1>2, <1>3

\* Date.cpp:22,82: the serial number of every day which Excel has is converted to a date
\* which is converted back to it, but for the 28th of February 1900, and the dates of days
\* which follow each other do so in Excel's calendar.
THEOREM DatesFollowDays == Spec => []DatesFollow
<1>1. AnswerInv => DatesFollow
  <2>. SUFFICES ASSUME AnswerInv, Returned("date") PROVE
         /\ result = Date(1900, 2, 28) \/ SerialDateFromYMD(result) = call.serial
         /\ call.serial < XL_MAX_SERIAL_DATE => SerialDateToYMD(call.serial + 1) = Following(result)
    BY DEF DatesFollow
  <2>1. call.fn = "date" /\ at = "done" /\ call \in Calls
    BY DEF Returned, AnswerInv
  <2>2. call.serial \in 0..XL_MAX_SERIAL_DATE
    BY <2>1, CallConstants
  <2>3. result = SerialDateToYMD(call.serial)
    BY <2>1 DEF AnswerInv, Answer
  <2>4. Valid(call.serial)
    BY <2>2 DEF Valid
  <2>. QED BY <2>3, <2>4, DatesAreDays
<1>. QED BY <1>1, CallsAnswered, PTL

-----------------------------------------------------------------------------
(***************************************************************************)
(* Addresses. A number is read by a recursion over its characters, which is *)
(* unrolled here; what stands in a text is read as if it stood alone.      *)
(***************************************************************************)
\* Unsigned's recursion, unrolled: f is its function of the first n characters of s from
\* position p on.
Horner(s, p, n, radix, base, f) ==
  f = [i \in 0..n |-> IF i = 0 THEN 0 ELSE f[i - 1] * radix + s[p + i - 1] - base]

\* The recursion defines a function, for texts of every length.
LEMMA HornerExists ==
  ASSUME NEW s, NEW p, NEW n \in Nat, NEW radix, NEW base
  PROVE  \E f : Horner(s, p, n, radix, base, f)
<1>. DEFINE Bad == {l \in Nat : ~\E f : Horner(s, p, l, radix, base, f)}
<1>. SUFFICES ASSUME Bad # {} PROVE FALSE
  OBVIOUS
<1>1. PICK m \in Bad : \A i \in Bad : m <= i
  <2>1. Bad \subseteq Nat
    OBVIOUS
  <2>. HIDE DEF Bad
  <2>. QED BY <2>1, Least
<1>2. CASE m = 0
  <2>1. Horner(s, p, 0, radix, base, [i \in 0..0 |-> 0])
    BY DEF Horner
  <2>. QED BY <1>2, <2>1
<1>3. CASE m > 0
  <2>1. m - 1 \in Nat /\ m - 1 \notin Bad
    BY <1>1, <1>3
  <2>2. PICK g : Horner(s, p, m - 1, radix, base, g)
    BY <2>1
  <2>. DEFINE h == [i \in 0..m |-> IF i = 0 THEN 0 ELSE g[i - 1] * radix + s[p + i - 1] - base]
  <2>3. \A i \in 0..m - 1 : h[i] = g[i]
    BY <2>1, <2>2 DEF Horner
  <2>4. \A i \in 0..m : h[i] = IF i = 0 THEN 0 ELSE h[i - 1] * radix + s[p + i - 1] - base
    <3>. TAKE i \in 0..m
    <3>1. CASE i = 0
      BY <3>1
    <3>2. CASE i # 0
      <4>1. h[i] = g[i - 1] * radix + s[p + i - 1] - base
        BY <3>2
      <4>2. h[i - 1] = g[i - 1]
        BY <2>3, <3>2
      <4>. QED BY <4>1, <4>2, <3>2
    <3>. QED BY <3>1, <3>2
  <2>5. h = [i \in 0..m |-> IF i = 0 THEN 0 ELSE h[i - 1] * radix + s[p + i - 1] - base]
    <3>. DEFINE e(i) == IF i = 0 THEN 0 ELSE h[i - 1] * radix + s[p + i - 1] - base
    <3>1. h = [i \in 0..m |-> h[i]]
      OBVIOUS
    <3>2. \A i \in 0..m : h[i] = e(i)
      BY <2>4
    <3>. HIDE DEF h, e
    <3>3. h = [i \in 0..m |-> e(i)]
      BY <3>1, <3>2, Zenon
    <3>. QED BY <3>3 DEF e
  <2>. QED BY <2>5 DEF Horner
<1>. QED BY <1>2, <1>3

\* Unsigned is its value at the last place.
LEMMA UnsignedIs ==
  ASSUME NEW s, NEW p, NEW n \in Nat, NEW radix, NEW base
  PROVE \E f : Horner(s, p, n, radix, base, f) /\ Unsigned(s, p, n, radix, base) = f[n]
<1>. DEFINE v == CHOOSE f : Horner(s, p, n, radix, base, f)
<1>1. Horner(s, p, n, radix, base, v)
  BY HornerExists
<1>2. Unsigned(s, p, n, radix, base) = v[n]
  BY DEF Unsigned, Horner
<1>. HIDE DEF v
<1>. QED BY <1>1, <1>2

\* The text w stands in s from position p on.
StandsAt(s, p, w) ==
  p + Len(w) <= Len(s) + 1 /\ \A i \in 1..Len(w) : s[p + i - 1] = w[i]

\* What Unsigned computes of w is v.
Numeral(w, v, radix, base) ==
  \A f : Horner(w, 1, Len(w), radix, base, f) => f[Len(w)] = v

\* A text of some of the characters, followed by none of them unless a reader
\* which takes so many at most has reached its end.
Of(w, Chars) == \A i \in 1..Len(w) : w[i] \in Chars
Ends(s, p, w, most, Chars) ==
  Len(w) <= most /\ (Len(w) < most => At(s, p + Len(w)) \notin Chars)

\* As many characters as are followed by another, or as a reader takes at most.
LEMMA RunIs ==
  ASSUME NEW s, NEW p \in Nat, NEW most \in Nat, NEW Chars, NEW n \in 0..most,
         \A i \in 0..n - 1 : At(s, p + i) \in Chars,
         n < most => At(s, p + n) \notin Chars
  PROVE  Run(s, p, most, Chars) = n
<1>. DEFINE Is(l) == /\ \A i \in 0..l - 1 : At(s, p + i) \in Chars
                     /\ l < most => At(s, p + l) \notin Chars
<1>1. Is(n)
  OBVIOUS
<1>2. ASSUME NEW l \in 0..most, Is(l)
      PROVE  l = n
  <2>1. CASE l < n
    BY <1>2, <2>1
  <2>2. CASE n < l
    BY <1>2, <2>2
  <2>. QED BY <2>1, <2>2
<1>3. Run(s, p, most, Chars) = CHOOSE l \in 0..most : Is(l)
  BY DEF Run
<1>. HIDE DEF Is
<1>. QED BY <1>1, <1>2, <1>3

\* A text is read where it stands as it is read alone.
LEMMA UnsignedStands ==
  ASSUME NEW s \in Seq(Int), NEW p \in Nat \ {0}, NEW w \in Seq(Int), NEW v, NEW radix, NEW base,
         StandsAt(s, p, w), Numeral(w, v, radix, base)
  PROVE  Unsigned(s, p, Len(w), radix, base) = v
<1>1. PICK f : Horner(s, p, Len(w), radix, base, f) /\ Unsigned(s, p, Len(w), radix, base) = f[Len(w)]
  BY UnsignedIs
<1>. DEFINE e(i) == IF i = 0 THEN 0 ELSE f[i - 1] * radix + s[p + i - 1] - base
            g(i) == IF i = 0 THEN 0 ELSE f[i - 1] * radix + w[1 + i - 1] - base
<1>2. ASSUME NEW i \in 0..Len(w)
      PROVE  e(i) = g(i)
  BY DEF StandsAt
<1>3. f = [i \in 0..Len(w) |-> e(i)]
  BY <1>1 DEF Horner
<1>4. f = [i \in 0..Len(w) |-> g(i)]
  <2>. HIDE DEF e, g
  <2>. QED BY <1>2, <1>3
<1>5. Horner(w, 1, Len(w), radix, base, f)
  BY <1>4 DEF Horner
<1>. QED BY <1>1, <1>5 DEF Numeral

\* A reader of a number takes the text which stands where it begins.
LEMMA NumberStands ==
  ASSUME NEW s \in Seq(Nat), NEW p \in Nat \ {0}, NEW most \in Nat, NEW Chars \in SUBSET Nat,
         NEW w \in Seq(Nat), NEW v \in Nat, NEW radix, NEW base, NEW max \in Nat,
         StandsAt(s, p, w), Numeral(w, v, radix, base),
         Of(w, Chars), Ends(s, p, w, most, Chars),
         v - 1 <= max
  PROVE  Number(s, p, most, Chars, radix, base, max) = [val |-> v - 1, next |-> p + Len(w)]
<1>1. Run(s, p, most, Chars) = Len(w)
  <2>1. \A i \in 0..Len(w) - 1 : At(s, p + i) \in Chars
    <3>. TAKE i \in 0..Len(w) - 1
    <3>1. i + 1 \in 1..Len(w) /\ p + i <= Len(s)
      <4>1. p + Len(w) <= Len(s) + 1
        BY DEF StandsAt
      <4>. QED BY <4>1
    <3>2. s[p + i] = w[i + 1] /\ w[i + 1] \in Chars
      <4>1. s[p + (i + 1) - 1] = w[i + 1]
        BY <3>1 DEF StandsAt
      <4>. QED BY <3>1, <4>1 DEF Of
    <3>. QED BY <3>1, <3>2 DEF At
  <2>2. Len(w) \in 0..most /\ (Len(w) < most => At(s, p + Len(w)) \notin Chars)
    BY DEF Ends
  <2>. QED BY <2>1, <2>2, RunIs
<1>2. Unsigned(s, p, Len(w), radix, base) = v
  <2>1. s \in Seq(Int) /\ w \in Seq(Int)
    OBVIOUS
  <2>. QED BY <2>1, UnsignedStands
<1>. QED BY <1>1, <1>2 DEF Number

\* If two texts joined stand in s, each of them does.
LEMMA StandsApart ==
  ASSUME NEW s \in Seq(Nat), NEW p \in Nat \ {0}, NEW u \in Seq(Nat), NEW w \in Seq(Nat),
         StandsAt(s, p, u \o w)
  PROVE  /\ StandsAt(s, p, u)
         /\ StandsAt(s, p + Len(u), w)
         /\ u \o w \in Seq(Nat) /\ Len(u \o w) = Len(u) + Len(w)
<1>1. u \o w \in Seq(Nat) /\ Len(u \o w) = Len(u) + Len(w)
  OBVIOUS
<1>2. \A i \in 1..Len(u) : s[p + i - 1] = u[i]
  <2>. TAKE i \in 1..Len(u)
  <2>1. (u \o w)[i] = u[i]
    OBVIOUS
  <2>2. i \in 1..Len(u \o w)
    BY <1>1
  <2>. QED BY <2>1, <2>2 DEF StandsAt
<1>3. \A i \in 1..Len(w) : s[p + Len(u) + i - 1] = w[i]
  <2>. TAKE i \in 1..Len(w)
  <2>1. (u \o w)[Len(u) + i] = w[i]
    BY ONLY u \in Seq(Nat), w \in Seq(Nat), i \in 1..Len(w)
  <2>2. Len(u) + i \in 1..Len(u \o w)
    BY <1>1
  <2>3. s[p + (Len(u) + i) - 1] = (u \o w)[Len(u) + i]
    BY <2>2 DEF StandsAt
  <2>. QED BY <2>1, <2>3
<1>. QED BY <1>1, <1>2, <1>3 DEF StandsAt

\* One character more counts as a place.
LEMMA HornerPlace ==
  ASSUME NEW w, NEW radix, NEW base, NEW f, NEW n \in Nat, Horner(w, 1, n, radix, base, f)
  PROVE  f[0] = 0 /\ \A i \in 1..n : f[i] = f[i - 1] * radix + w[i] - base
<1>1. f[0] = 0
  BY DEF Horner
<1>2. ASSUME NEW i \in 1..n
      PROVE  f[i] = f[i - 1] * radix + w[i] - base
  <2>1. f[i] = f[i - 1] * radix + w[1 + i - 1] - base
    BY DEF Horner
  <2>2. 1 + i - 1 = i
    OBVIOUS
  <2>. QED BY <2>1, <2>2
<1>. QED BY <1>1, <1>2

\* The name of a column counts its letters in base 26, which have no zero.
LEMMA ColumnNameRead ==
  ASSUME NEW col \in Nat, col < XL_MAX_COLS
  PROVE  LET w == ColumnName(col)
         IN  /\ w \in Seq(Nat) /\ w # <<>> /\ Len(w) <= 3 /\ Of(w, Letters)
             /\ Numeral(w, col + 1, 26, 0)
<1>. DEFINE w == ColumnName(col)
            two == col - 26
            three == col - 26 - 26 * 26
<1>1. CASE col < 26
  <2>1. w = <<col + 1>>
    BY <1>1 DEF ColumnName
  <2>2. Numeral(w, col + 1, 26, 0)
    <3>. SUFFICES ASSUME NEW f, Horner(w, 1, 1, 26, 0, f) PROVE f[1] = col + 1
      BY <2>1 DEF Numeral
    <3>1. f[0] = 0 /\ f[1] = f[0] * 26 + w[1] - 0
      BY HornerPlace
    <3>. QED BY <3>1, <2>1
  <2>. QED BY <2>1, <2>2, <1>1 DEF Letters, Of
<1>2. CASE col >= 26 /\ three < 0
  <2>. DEFINE a == two \div 26 + 1
              b == (two % 26) + 1
  <2>1. w = <<a, b>>
    BY <1>2 DEF ColumnName
  <2>2. a \in 1..26 /\ b \in 1..26 /\ a * 26 + b = col + 1
    BY <1>2
  <2>3. Numeral(w, col + 1, 26, 0)
    <3>. SUFFICES ASSUME NEW f, Horner(w, 1, 2, 26, 0, f) PROVE f[2] = col + 1
      BY <2>1 DEF Numeral
    <3>1. f[0] = 0 /\ f[1] = f[0] * 26 + w[1] - 0 /\ f[2] = f[1] * 26 + w[2] - 0
      BY HornerPlace
    <3>. HIDE DEF a, b
    <3>. QED BY <3>1, <2>1, <2>2
  <2>. HIDE DEF a, b
  <2>. QED BY <2>1, <2>2, <2>3 DEF Letters, Of
<1>3. CASE three >= 0
  <2>. DEFINE a == three \div (26 * 26) + 1
              b == ((three \div 26) % 26) + 1
              c == (three % 26) + 1
  <2>1. w = <<a, b, c>>
    BY <1>3 DEF ColumnName
  <2>2. a \in 1..26 /\ b \in 1..26 /\ c \in 1..26 /\ (a * 26 + b) * 26 + c = col + 1
    <3>1. three \in Nat /\ three <= 15681
      <4>1. XL_MAX_COLS = 16384
        BY SMT DEF XL_MAX_COLS
      <4>2. three \in Int /\ three <= 15681
        BY <4>1, SMT
      <4>. QED BY <1>3, <4>2, SMT
    <3>2. three \div (26 * 26) = (three \div 26) \div 26
      BY <3>1, SMT
    <3>3. a \in 1..26 /\ b \in 1..26 /\ c \in 1..26
      BY <3>1, <3>2, SMT
    <3>. DEFINE q == three \div 26
    <3>4. q \in Nat /\ 26 * q + (three % 26) = three /\ 26 * (q \div 26) + (q % 26) = q
      BY <3>1, SMT
    <3>. HIDE DEF q
    <3>5. a = (q \div 26) + 1 /\ b = (q % 26) + 1
      BY <3>2 DEF q
    <3>. QED BY <3>1, <3>3, <3>4, <3>5, SMT
  <2>3. Numeral(w, col + 1, 26, 0)
    <3>. SUFFICES ASSUME NEW f, Horner(w, 1, 3, 26, 0, f) PROVE f[3] = col + 1
      BY <2>1 DEF Numeral
    <3>1. /\ f[0] = 0 /\ f[1] = f[0] * 26 + w[1] - 0
          /\ f[2] = f[1] * 26 + w[2] - 0 /\ f[3] = f[2] * 26 + w[3] - 0
      BY HornerPlace
    <3>. HIDE DEF a, b, c
    <3>. QED BY <3>1, <2>1, <2>2
  <2>. HIDE DEF a, b, c
  <2>. QED BY <2>1, <2>2, <2>3 DEF Letters, Of
<1>. QED BY <1>1, <1>2, <1>3 DEF XL_MAX_COLS

\* The places of a number of rows.
LEMMA Tens ==
  /\ 10^0 = 1 /\ 10^1 = 10 /\ 10^2 = 100 /\ 10^3 = 1000 /\ 10^4 = 10000
  /\ 10^5 = 100000 /\ 10^6 = 1000000 /\ 10^7 = 10000000
BY SMT

\* How many places a number has.
Places(n) == CHOOSE p \in 1..7 : n < 10^p /\ (p > 1 => n >= 10^(p - 1))

\* A number of rows has seven figures at most, one of columns five.
LEMMA PlacesOf ==
  ASSUME NEW n \in Nat, n <= XL_MAX_ROWS
  PROVE  Places(n) \in 1..7 /\ n < 10^Places(n) /\ (n <= XL_MAX_COLS => Places(n) <= 5)
<1>. DEFINE Is(p) == n < 10^p /\ (p > 1 => n >= 10^(p - 1))
<1>1. \E p \in 1..7 : Is(p)
  <2>1. /\ Is(1) <=> n < 10
        /\ Is(2) <=> n < 100 /\ n >= 10
        /\ Is(3) <=> n < 1000 /\ n >= 100
        /\ Is(4) <=> n < 10000 /\ n >= 1000
        /\ Is(5) <=> n < 100000 /\ n >= 10000
        /\ Is(6) <=> n < 1000000 /\ n >= 100000
        /\ Is(7) <=> n < 10000000 /\ n >= 1000000
    BY Tens, SMT
  <2>2. \/ n < 10
        \/ n < 100 /\ n >= 10
        \/ n < 1000 /\ n >= 100
        \/ n < 10000 /\ n >= 1000
        \/ n < 100000 /\ n >= 10000
        \/ n < 1000000 /\ n >= 100000
        \/ n < 10000000 /\ n >= 1000000
    BY SMT DEF XL_MAX_ROWS
  <2>. HIDE DEF Is
  <2>. QED BY <2>1, <2>2, SMT
<1>2. Places(n) \in 1..7 /\ Is(Places(n))
  BY <1>1 DEF Places
<1>3. ASSUME n <= XL_MAX_COLS
      PROVE  Places(n) # 6 /\ Places(n) # 7
  <2>1. ~Is(6) /\ ~Is(7)
    <3>1. /\ Is(6) => n >= 10^5
          /\ Is(7) => n >= 10^6
      BY SMT
    <3>. QED BY <1>3, <3>1, Tens, SMT DEF XL_MAX_COLS
  <2>. HIDE DEF Is
  <2>. QED BY <2>1, <1>2
<1>. HIDE DEF Is
<1>4. n < 10^Places(n)
  BY <1>2 DEF Is
<1>. QED BY <1>2, <1>3, <1>4

\* The number without its last digits.
LEMMA DecimalPlace ==
  ASSUME NEW n \in Nat, n <= XL_MAX_ROWS, NEW i \in 1..7
  PROVE  /\ n \div 10^(i - 1) \in Nat /\ n \div 10^i \in Nat
         /\ (n \div 10^(i - 1)) % 10 \in 0..9
         /\ (n \div 10^i) * 10 + ((n \div 10^(i - 1)) % 10) = n \div 10^(i - 1)
<1>1. CASE i = 1
  <2>1. 10^(i - 1) = 1 /\ 10^i = 10
    BY <1>1, Tens, SMT
  <2>2. /\ n \div 1 \in Nat /\ n \div 10 \in Nat /\ (n \div 1) % 10 \in 0..9
        /\ (n \div 10) * 10 + ((n \div 1) % 10) = n \div 1
    <3>. DEFINE q == n \div 1
                r == n \div 10
    <3>1. /\ q \in Nat /\ 1 * q <= n /\ n < 1 * q + 1
          /\ r \in Nat /\ 10 * r <= n /\ n < 10 * r + 10
      BY SMT
    <3>. HIDE DEF q, r
    <3>2. 10 * r <= q /\ q <= 10 * r + 9
      BY <3>1, SMT
    <3>3. q % 10 \in 0..9 /\ r * 10 + (q % 10) = q
      BY <3>1, <3>2, SMT
    <3>. QED BY <3>1, <3>3 DEF q, r
  <2>. QED BY <2>1, <2>2, SMT
<1>2. CASE i = 2
  <2>1. 10^(i - 1) = 10 /\ 10^i = 100
    BY <1>2, Tens, SMT
  <2>2. /\ n \div 10 \in Nat /\ n \div 100 \in Nat /\ (n \div 10) % 10 \in 0..9
        /\ (n \div 100) * 10 + ((n \div 10) % 10) = n \div 10
    <3>. DEFINE q == n \div 10
                r == n \div 100
    <3>1. /\ q \in Nat /\ 10 * q <= n /\ n < 10 * q + 10
          /\ r \in Nat /\ 100 * r <= n /\ n < 100 * r + 100
      BY SMT
    <3>. HIDE DEF q, r
    <3>2. 10 * r <= q /\ q <= 10 * r + 9
      BY <3>1, SMT
    <3>3. q % 10 \in 0..9 /\ r * 10 + (q % 10) = q
      BY <3>1, <3>2, SMT
    <3>. QED BY <3>1, <3>3 DEF q, r
  <2>. QED BY <2>1, <2>2, SMT
<1>3. CASE i = 3
  <2>1. 10^(i - 1) = 100 /\ 10^i = 1000
    BY <1>3, Tens, SMT
  <2>2. /\ n \div 100 \in Nat /\ n \div 1000 \in Nat /\ (n \div 100) % 10 \in 0..9
        /\ (n \div 1000) * 10 + ((n \div 100) % 10) = n \div 100
    <3>. DEFINE q == n \div 100
                r == n \div 1000
    <3>1. /\ q \in Nat /\ 100 * q <= n /\ n < 100 * q + 100
          /\ r \in Nat /\ 1000 * r <= n /\ n < 1000 * r + 1000
      BY SMT
    <3>. HIDE DEF q, r
    <3>2. 10 * r <= q /\ q <= 10 * r + 9
      BY <3>1, SMT
    <3>3. q % 10 \in 0..9 /\ r * 10 + (q % 10) = q
      BY <3>1, <3>2, SMT
    <3>. QED BY <3>1, <3>3 DEF q, r
  <2>. QED BY <2>1, <2>2, SMT
<1>4. CASE i = 4
  <2>1. 10^(i - 1) = 1000 /\ 10^i = 10000
    BY <1>4, Tens, SMT
  <2>2. /\ n \div 1000 \in Nat /\ n \div 10000 \in Nat /\ (n \div 1000) % 10 \in 0..9
        /\ (n \div 10000) * 10 + ((n \div 1000) % 10) = n \div 1000
    <3>. DEFINE q == n \div 1000
                r == n \div 10000
    <3>1. /\ q \in Nat /\ 1000 * q <= n /\ n < 1000 * q + 1000
          /\ r \in Nat /\ 10000 * r <= n /\ n < 10000 * r + 10000
      BY SMT
    <3>. HIDE DEF q, r
    <3>2. 10 * r <= q /\ q <= 10 * r + 9
      BY <3>1, SMT
    <3>3. q % 10 \in 0..9 /\ r * 10 + (q % 10) = q
      BY <3>1, <3>2, SMT
    <3>. QED BY <3>1, <3>3 DEF q, r
  <2>. QED BY <2>1, <2>2, SMT
<1>5. CASE i = 5
  <2>1. 10^(i - 1) = 10000 /\ 10^i = 100000
    BY <1>5, Tens, SMT
  <2>2. /\ n \div 10000 \in Nat /\ n \div 100000 \in Nat /\ (n \div 10000) % 10 \in 0..9
        /\ (n \div 100000) * 10 + ((n \div 10000) % 10) = n \div 10000
    <3>. DEFINE q == n \div 10000
                r == n \div 100000
    <3>1. /\ q \in Nat /\ 10000 * q <= n /\ n < 10000 * q + 10000
          /\ r \in Nat /\ 100000 * r <= n /\ n < 100000 * r + 100000
      BY SMT
    <3>. HIDE DEF q, r
    <3>2. 10 * r <= q /\ q <= 10 * r + 9
      BY <3>1, SMT
    <3>3. q % 10 \in 0..9 /\ r * 10 + (q % 10) = q
      BY <3>1, <3>2, SMT
    <3>. QED BY <3>1, <3>3 DEF q, r
  <2>. QED BY <2>1, <2>2, SMT
<1>6. CASE i = 6
  <2>1. 10^(i - 1) = 100000 /\ 10^i = 1000000
    BY <1>6, Tens, SMT
  <2>2. /\ n \div 100000 \in Nat /\ n \div 1000000 \in Nat /\ (n \div 100000) % 10 \in 0..9
        /\ (n \div 1000000) * 10 + ((n \div 100000) % 10) = n \div 100000
    <3>. DEFINE q == n \div 100000
                r == n \div 1000000
    <3>1. /\ q \in Nat /\ 100000 * q <= n /\ n < 100000 * q + 100000
          /\ r \in Nat /\ 1000000 * r <= n /\ n < 1000000 * r + 1000000
      BY SMT
    <3>. HIDE DEF q, r
    <3>2. 10 * r <= q /\ q <= 10 * r + 9
      BY <3>1, SMT
    <3>3. q % 10 \in 0..9 /\ r * 10 + (q % 10) = q
      BY <3>1, <3>2, SMT
    <3>. QED BY <3>1, <3>3 DEF q, r
  <2>. QED BY <2>1, <2>2, SMT
<1>7. CASE i = 7
  <2>1. 10^(i - 1) = 1000000 /\ 10^i = 10000000
    BY <1>7, Tens, SMT
  <2>2. /\ n \div 1000000 \in Nat /\ n \div 10000000 \in Nat /\ (n \div 1000000) % 10 \in 0..9
        /\ (n \div 10000000) * 10 + ((n \div 1000000) % 10) = n \div 1000000
    <3>. DEFINE q == n \div 1000000
                r == n \div 10000000
    <3>1. /\ q \in Nat /\ 1000000 * q <= n /\ n < 1000000 * q + 1000000
          /\ r \in Nat /\ 10000000 * r <= n /\ n < 10000000 * r + 10000000
      BY SMT
    <3>. HIDE DEF q, r
    <3>2. 10 * r <= q /\ q <= 10 * r + 9
      BY <3>1, SMT
    <3>3. q % 10 \in 0..9 /\ r * 10 + (q % 10) = q
      BY <3>1, <3>2, SMT
    <3>. QED BY <3>1, <3>3 DEF q, r
  <2>. QED BY <2>1, <2>2, SMT
<1>. QED BY <1>1, <1>2, <1>3, <1>4, <1>5, <1>6, <1>7

\* A number written in figures is the number they count.
LEMMA DecimalRead ==
  ASSUME NEW n \in Nat, n <= XL_MAX_ROWS
  PROVE  LET w == Decimal(n)
         IN  /\ w \in Seq(Nat) /\ w # <<>> /\ Len(w) <= 7 /\ Of(w, Digits)
             /\ n <= XL_MAX_COLS => Len(w) <= 5
             /\ Numeral(w, n, 10, Zero)
<1>. DEFINE places == Places(n)
            d(i) == (n \div 10^(places - i)) % 10
            w == Decimal(n)
<1>1. w = [i \in 1..places |-> Zero + d(i)]
  BY DEF Decimal, Places
<1>2. places \in 1..7 /\ n < 10^places /\ (n <= XL_MAX_COLS => places <= 5)
  BY PlacesOf
<1>3. ASSUME NEW i \in 1..places
      PROVE  /\ d(i) \in 0..9
             /\ n \div 10^(places - i) \in Nat /\ n \div 10^(places - i + 1) \in Nat
             /\ (n \div 10^(places - (i - 1))) * 10 + d(i) = n \div 10^(places - i)
  <2>1. places - i + 1 \in 1..7
    BY <1>2
  <2>2. (places - i + 1) - 1 = places - i /\ places - (i - 1) = places - i + 1
    BY <1>2
  <2>. HIDE DEF places
  <2>. QED BY <2>1, <2>2, DecimalPlace
<1>4. w \in Seq(Nat) /\ Len(w) = places /\ \A i \in 1..places : w[i] = Zero + d(i) /\ w[i] \in Digits
  <2>1. \A i \in 1..places : Zero + d(i) \in Digits /\ Zero + d(i) \in Nat
    BY <1>3 DEF Digits, Zero
  <2>. HIDE DEF places, d, w
  <2>2. places \in Nat
    BY <1>2
  <2>3. w \in [1..places -> Nat] /\ \A i \in 1..places : w[i] = Zero + d(i)
    BY <1>1, <2>1
  <2>4. w \in Seq(Nat) /\ Len(w) = places
    BY <2>2, <2>3
  <2>. QED BY <2>1, <2>3, <2>4
<1>5. Numeral(w, n, 10, Zero)
  <2>. SUFFICES ASSUME NEW f, Horner(w, 1, places, 10, Zero, f) PROVE f[places] = n
    BY <1>4 DEF Numeral
  <2>1. f[0] = 0 /\ \A i \in 1..places : f[i] = f[i - 1] * 10 + w[i] - Zero
    BY <1>2, HornerPlace
  <2>2. ASSUME NEW i \in 1..places, f[i - 1] = n \div 10^(places - (i - 1))
        PROVE  f[i] = n \div 10^(places - i)
    <3>1. f[i] = f[i - 1] * 10 + (Zero + d(i)) - Zero
      BY <2>1, <1>4
    <3>. QED BY <3>1, <2>2, <1>3 DEF Zero
  <2>. DEFINE Wrong == {i \in 0..places : f[i] # n \div 10^(places - i)}
  <2>3. 0 \notin Wrong
    <3>1. n \div 10^places = 0
      BY <1>2, Tens
    <3>. QED BY <3>1, <2>1, <1>2
  <2>4. Wrong = {}
    <3>. SUFFICES ASSUME Wrong # {} PROVE FALSE
      OBVIOUS
    <3>1. PICK m \in Wrong : \A i \in Wrong : m <= i
      <4>1. Wrong \subseteq Nat
        BY <1>2
      <4>. HIDE DEF Wrong
      <4>. QED BY <4>1, Least
    <3>2. m \in 1..places /\ m - 1 \in 0..places /\ m - 1 \notin Wrong
      BY <2>3, <3>1, <1>2
    <3>. QED BY <3>1, <3>2, <2>2
  <2>5. f[places] = n \div 10^(places - places)
    BY <2>4, <1>2
  <2>6. places - places = 0 /\ n \div 1 = n
    <3>. HIDE DEF places
    <3>1. places \in Nat
      BY <1>2
    <3>. QED BY <3>1, SMT
  <2>7. 10^(places - places) = 1
    <3>1. 10^0 = 1
      BY SMT
    <3>. QED BY <2>6, <3>1, Zenon
  <2>. QED BY <2>5, <2>6, <2>7, Zenon
<1>. HIDE DEF places, w
<1>6. /\ w \in Seq(Nat) /\ w # <<>> /\ Len(w) <= 7 /\ Of(w, Digits)
      /\ n <= XL_MAX_COLS => Len(w) <= 5
      /\ Numeral(w, n, 10, Zero)
  <2>1. w # <<>>
    BY <1>2, <1>4
  <2>. QED BY <1>2, <1>4, <1>5, <2>1 DEF Of
<1>. QED BY <1>6 DEF w

\* The letters of a column, of which the reader takes three at most.
LEMMA ColumnReadBack ==
  ASSUME NEW s \in Seq(Nat), NEW p \in Nat \ {0}, NEW col \in 0..XL_MAX_COLS - 1,
         StandsAt(s, p, ColumnName(col)),
         At(s, p + Len(ColumnName(col))) \notin Letters
  PROVE  ColLetters(s, p) = [val |-> col, next |-> p + Len(ColumnName(col))]
<1>. DEFINE w == ColumnName(col)
<1>1. col \in Nat /\ col < XL_MAX_COLS /\ col + 1 \in Nat /\ (col + 1) - 1 = col
  <2>1. XL_MAX_COLS \in Nat
    BY SMT DEF XL_MAX_COLS
  <2>. QED BY <2>1
<1>2. /\ w \in Seq(Nat) /\ Len(w) <= 3 /\ Of(w, Letters)
      /\ Numeral(w, col + 1, 26, 0)
  BY <1>1, ColumnNameRead
<1>3. Letters \in SUBSET Nat /\ XL_MAX_COLS \in Nat /\ (col + 1) - 1 <= XL_MAX_COLS
  BY <1>1, SMT DEF Letters, XL_MAX_COLS
<1>. HIDE DEF w
<1>4. StandsAt(s, p, w) /\ Ends(s, p, w, 3, Letters)
  BY <1>2 DEF Ends, w
<1>. DEFINE v == col + 1
<1>5. v \in Nat /\ Numeral(w, v, 26, 0) /\ v - 1 <= XL_MAX_COLS /\ v - 1 = col
  BY <1>1, <1>2, <1>3
<1>. HIDE DEF v
<1>6. Number(s, p, 3, Letters, 26, 0, XL_MAX_COLS) = [val |-> v - 1, next |-> p + Len(w)]
  <2>1. 3 \in Nat /\ 0 \in Nat
    OBVIOUS
  <2>. QED BY <2>1, <1>2, <1>3, <1>4, <1>5, NumberStands
<1>. QED BY <1>5, <1>6 DEF ColLetters, w

\* The sizes of the sheet.
LEMMA SheetSize == XL_MAX_ROWS \in Nat /\ XL_MAX_COLS \in Nat /\ XL_MAX_COLS <= XL_MAX_ROWS
BY SMT DEF XL_MAX_ROWS, XL_MAX_COLS

\* Two texts joined are a text.
LEMMA TextsJoined ==
  ASSUME NEW u \in Seq(Nat), NEW w \in Seq(Nat)
  PROVE  u \o w \in Seq(Nat) /\ Len(u \o w) = Len(u) + Len(w)
OBVIOUS

\* The number of a row or a column, of which a reader takes as many figures as
\* the largest has.
Figures(most, max) ==
  \/ most = 7 /\ max = XL_MAX_ROWS
  \/ most = 5 /\ max = XL_MAX_COLS

\* The figures of a row's or a column's number.
LEMMA DigitsReadBack ==
  ASSUME NEW s \in Seq(Nat), NEW p \in Nat \ {0}, NEW n \in Nat, NEW max, NEW most,
         n < max, Figures(most, max),
         StandsAt(s, p, Decimal(n + 1)),
         At(s, p + Len(Decimal(n + 1))) \notin Digits
  PROVE  Number(s, p, most, Digits, 10, Zero, max) = [val |-> n, next |-> p + Len(Decimal(n + 1))]
<1>. DEFINE w == Decimal(n + 1)
<1>0. /\ max \in Nat /\ max <= XL_MAX_ROWS /\ XL_MAX_ROWS \in Nat /\ XL_MAX_COLS \in Nat
      /\ most \in Nat /\ (most = 7 \/ (most = 5 /\ max = XL_MAX_COLS))
  BY SheetSize DEF Figures
<1>1. n + 1 \in Nat /\ n + 1 <= XL_MAX_ROWS /\ (n + 1) - 1 = n /\ (n + 1) - 1 <= max
  BY <1>0
<1>2. /\ w \in Seq(Nat) /\ Len(w) <= 7 /\ Of(w, Digits)
      /\ n + 1 <= XL_MAX_COLS => Len(w) <= 5
      /\ Numeral(w, n + 1, 10, Zero)
  BY <1>1, DecimalRead
<1>3. Digits \in SUBSET Nat
  BY DEF Digits, Zero
<1>. HIDE DEF w
<1>4. Len(w) <= most
  <2>1. CASE most = 7
    BY <1>2, <2>1
  <2>2. CASE most = 5 /\ max = XL_MAX_COLS
    <3>1. n + 1 <= XL_MAX_COLS
      BY <1>0, <2>2
    <3>. QED BY <1>2, <2>2, <3>1
  <2>. QED BY <1>0, <2>1, <2>2
<1>5. StandsAt(s, p, w) /\ Ends(s, p, w, most, Digits)
  BY <1>4 DEF Ends, w
<1>. DEFINE v == n + 1
<1>6. v \in Nat /\ Numeral(w, v, 10, Zero) /\ v - 1 <= max
  BY <1>1, <1>2
<1>. HIDE DEF v
<1>7. Number(s, p, most, Digits, 10, Zero, max) = [val |-> v - 1, next |-> p + Len(w)]
  BY <1>6, <1>0, <1>2, <1>3, <1>4, <1>5, NumberStands
<1>. QED BY <1>1, <1>7 DEF v, w

\* A character of the address.
LEMMA CharsApart ==
  /\ Letters \in SUBSET Nat /\ Digits \in SUBSET Nat
  /\ 0 \notin Letters \cup Digits /\ Colon \notin Letters \cup Digits
  /\ Letters \cap Digits = {}
  /\ LetterR \in Letters /\ LetterC \in Letters /\ LetterR # 0 /\ LetterC # 0
  /\ Colon \in Nat \ {0} /\ LetterC # Colon
BY DEF Letters, Digits, Zero, Colon, LetterR, LetterC

\* The text which stands in s is its first character at a position, and what
\* follows a text at the end of s is no character.
LEMMA AtStands ==
  ASSUME NEW s \in Seq(Nat), NEW p \in Nat \ {0}, NEW w \in Seq(Nat), StandsAt(s, p, w)
  PROVE  /\ w # <<>> => At(s, p) = w[1] /\ p <= Len(s)
         /\ p + Len(w) > Len(s) => At(s, p + Len(w)) = 0
<1>1. ASSUME w # <<>>
      PROVE  At(s, p) = w[1] /\ p <= Len(s)
  <2>1. Len(w) \in Nat /\ Len(w) >= 1
    BY <1>1
  <2>2. p + Len(w) <= Len(s) + 1 /\ s[p + 1 - 1] = w[1]
    BY <2>1 DEF StandsAt
  <2>3. p <= Len(s) /\ p + 1 - 1 = p
    BY <2>1, <2>2
  <2>. QED BY <2>2, <2>3 DEF At
<1>2. p + Len(w) > Len(s) => At(s, p + Len(w)) = 0
  BY DEF At
<1>. QED BY <1>1, <1>2

\* What is written of a row and a column.
LEMMA WrittenChars ==
  ASSUME NEW row \in 0..XL_MAX_ROWS - 1, NEW col \in 0..XL_MAX_COLS - 1
  PROVE  /\ ColumnName(col) \in Seq(Nat) /\ ColumnName(col) # <<>>
         /\ Decimal(row + 1) \in Seq(Nat) /\ Decimal(row + 1) # <<>> /\ Decimal(row + 1)[1] \in Digits
         /\ Decimal(col + 1) \in Seq(Nat) /\ Decimal(col + 1) # <<>> /\ Decimal(col + 1)[1] \in Digits
         /\ row \in Nat /\ row < XL_MAX_ROWS /\ XL_MAX_ROWS \in Nat
         /\ col \in Nat /\ col < XL_MAX_COLS /\ XL_MAX_COLS \in Nat /\ XL_MAX_COLS <= XL_MAX_ROWS
<1>1. XL_MAX_ROWS \in Nat /\ XL_MAX_COLS \in Nat /\ XL_MAX_COLS <= XL_MAX_ROWS
  BY SheetSize
<1>2. /\ row \in Nat /\ row < XL_MAX_ROWS /\ row + 1 \in Nat /\ row + 1 <= XL_MAX_ROWS
      /\ col \in Nat /\ col < XL_MAX_COLS /\ col + 1 \in Nat /\ col + 1 <= XL_MAX_ROWS
  BY <1>1
<1>3. ASSUME NEW n \in Nat, n + 1 <= XL_MAX_ROWS
      PROVE  Decimal(n + 1) \in Seq(Nat) /\ Decimal(n + 1) # <<>> /\ Decimal(n + 1)[1] \in Digits
  <2>. DEFINE w == Decimal(n + 1)
  <2>1. n + 1 \in Nat
    OBVIOUS
  <2>2. w \in Seq(Nat) /\ Of(w, Digits) /\ w # <<>>
    BY <1>3, <2>1, DecimalRead
  <2>. HIDE DEF w
  <2>3. Len(w) >= 1
    BY <2>2
  <2>. QED BY <2>2, <2>3 DEF Of, w
<1>4. ColumnName(col) \in Seq(Nat) /\ ColumnName(col) # <<>>
  BY <1>2, ColumnNameRead
<1>. QED BY <1>1, <1>2, <1>3, <1>4

\* An address in the A1 style which stands in s and is not followed by a digit.
LEMMA A1ReadBack ==
  ASSUME NEW s \in Seq(Nat), NEW p \in Nat \ {0},
         NEW row \in 0..XL_MAX_ROWS - 1, NEW col \in 0..XL_MAX_COLS - 1,
         StandsAt(s, p, WriteA1(row, col)),
         At(s, p + Len(WriteA1(row, col))) \notin Digits
  PROVE  /\ ColLetters(s, p).val = col
         /\ RowNumber(s, ColLetters(s, p).next) = [val |-> row, next |-> p + Len(WriteA1(row, col))]
<1>. DEFINE name == ColumnName(col)
            figures == Decimal(row + 1)
            q == p + Len(name)
<1>1. /\ name \in Seq(Nat) /\ name # <<>>
      /\ figures \in Seq(Nat) /\ figures # <<>> /\ figures[1] \in Digits
      /\ row \in Nat /\ row < XL_MAX_ROWS /\ XL_MAX_ROWS \in Nat
  BY WrittenChars
<1>2. /\ StandsAt(s, p, name) /\ StandsAt(s, q, figures)
      /\ Len(WriteA1(row, col)) = Len(name) + Len(figures)
  <2>. HIDE DEF name, figures
  <2>1. StandsAt(s, p, name \o figures)
    BY DEF WriteA1, name, figures
  <2>2. Len(name \o figures) = Len(name) + Len(figures)
    BY <1>1, <2>1, StandsApart
  <2>. QED BY <1>1, <2>1, <2>2, StandsApart DEF WriteA1, name, figures
<1>3. q \in Nat \ {0} /\ p + Len(WriteA1(row, col)) = q + Len(figures)
  <2>. HIDE DEF name, figures
  <2>. QED BY <1>1, <1>2
<1>4. At(s, q) \in Digits
  <2>. HIDE DEF name, figures, q
  <2>. QED BY <1>1, <1>2, <1>3, AtStands
<1>5. ColLetters(s, p) = [val |-> col, next |-> q]
  <2>1. At(s, q) \notin Letters
    BY <1>4, CharsApart
  <2>. QED BY <1>2, <2>1, ColumnReadBack
<1>6. RowNumber(s, q) = [val |-> row, next |-> q + Len(figures)]
  <2>1. At(s, q + Len(figures)) \notin Digits
    BY <1>3
  <2>2. Figures(7, XL_MAX_ROWS)
    BY DEF Figures
  <2>3. row \in Nat /\ row < XL_MAX_ROWS /\ q \in Nat \ {0} /\ StandsAt(s, q, Decimal(row + 1))
    BY <1>1, <1>2, <1>3
  <2>4. At(s, q + Len(Decimal(row + 1))) \notin Digits
    BY <2>1
  <2>. HIDE DEF q, figures
  <2>5. Number(s, q, 7, Digits, 10, Zero, XL_MAX_ROWS) = [val |-> row, next |-> q + Len(Decimal(row + 1))]
    BY ONLY s \in Seq(Nat), <2>2, <2>3, <2>4, DigitsReadBack
  <2>. QED BY <2>5 DEF RowNumber, figures
<1>. HIDE DEF q, figures
<1>. QED BY <1>3, <1>5, <1>6

\* An address in the R1C1 style: its R is a column's letter too.
ReadRC(s, p, row, col, q, e) ==
  /\ ColLetters(s, p).next = p + 1
  /\ RowNumber(s, p + 1) = [val |-> row, next |-> q]
  /\ Prefixed(s, p, LetterR, 7, XL_MAX_ROWS) = [val |-> row, next |-> q]
  /\ q <= Len(s) /\ At(s, q) = LetterC
  /\ Prefixed(s, q, LetterC, 5, XL_MAX_COLS) = [val |-> col, next |-> e]

\* An address in the R1C1 style which stands in s is read as its row and column.
LEMMA RCReadBack ==
  ASSUME NEW s \in Seq(Nat), NEW p \in Nat \ {0},
         NEW row \in 0..XL_MAX_ROWS - 1, NEW col \in 0..XL_MAX_COLS - 1,
         StandsAt(s, p, WriteRC(row, col)),
         At(s, p + Len(WriteRC(row, col))) \notin Digits
  PROVE  \E q \in Nat \ {0} : ReadRC(s, p, row, col, q, p + Len(WriteRC(row, col)))
<1>. DEFINE figures == Decimal(row + 1)
            figures2 == Decimal(col + 1)
            q == p + 1 + Len(figures)
<1>1. /\ figures \in Seq(Nat) /\ figures # <<>> /\ figures[1] \in Digits
      /\ figures2 \in Seq(Nat) /\ figures2 # <<>> /\ figures2[1] \in Digits
      /\ row \in Nat /\ row < XL_MAX_ROWS /\ XL_MAX_ROWS \in Nat
      /\ col \in Nat /\ col < XL_MAX_COLS /\ XL_MAX_COLS \in Nat /\ XL_MAX_COLS <= XL_MAX_ROWS
  BY WrittenChars
<1>2. <<LetterR>> \in Seq(Nat) /\ <<LetterC>> \in Seq(Nat) /\ Len(<<LetterR>>) = 1 /\ Len(<<LetterC>>) = 1
  BY DEF LetterR, LetterC
<1>3. /\ StandsAt(s, p, <<LetterR>>) /\ StandsAt(s, p + 1, figures)
      /\ StandsAt(s, q, <<LetterC>>) /\ StandsAt(s, q + 1, figures2)
      /\ Len(WriteRC(row, col)) = 1 + Len(figures) + 1 + Len(figures2)
  <2>. DEFINE r == <<LetterR>>
              c == <<LetterC>>
  <2>. HIDE DEF figures, figures2, r, c
  <2>1. r \in Seq(Nat) /\ c \in Seq(Nat) /\ Len(r) = 1 /\ Len(c) = 1
    BY <1>2 DEF r, c
  <2>2. WriteRC(row, col) = ((r \o figures) \o c) \o figures2
    BY DEF WriteRC, figures, figures2, r, c
  <2>3. /\ r \o figures \in Seq(Nat) /\ Len(r \o figures) = 1 + Len(figures)
        /\ (r \o figures) \o c \in Seq(Nat) /\ Len((r \o figures) \o c) = 1 + Len(figures) + 1
        /\ Len(((r \o figures) \o c) \o figures2) = 1 + Len(figures) + 1 + Len(figures2)
    <3>1. r \o figures \in Seq(Nat) /\ Len(r \o figures) = 1 + Len(figures)
      BY <1>1, <2>1, TextsJoined
    <3>. DEFINE rf == r \o figures
    <3>. HIDE DEF rf
    <3>2. rf \o c \in Seq(Nat) /\ Len(rf \o c) = Len(rf) + 1
      BY <2>1, <3>1, TextsJoined DEF rf
    <3>. DEFINE rfc == rf \o c
    <3>. HIDE DEF rfc
    <3>3. Len(rfc \o figures2) = Len(rfc) + Len(figures2)
      BY <1>1, <3>2, TextsJoined DEF rfc
    <3>. QED BY <3>1, <3>2, <3>3 DEF rf, rfc
  <2>4. StandsAt(s, p, ((r \o figures) \o c) \o figures2)
    BY <2>2
  <2>5. /\ StandsAt(s, p, (r \o figures) \o c)
        /\ StandsAt(s, p + Len((r \o figures) \o c), figures2)
    BY <1>1, <2>3, <2>4, StandsApart
  <2>6. /\ StandsAt(s, p, r \o figures)
        /\ StandsAt(s, p + Len(r \o figures), c)
    BY <2>1, <2>3, <2>5, StandsApart
  <2>7. /\ StandsAt(s, p, r)
        /\ StandsAt(s, p + Len(r), figures)
    BY <1>1, <2>1, <2>6, StandsApart
  <2>8. p + Len((r \o figures) \o c) = q + 1 /\ p + Len(r \o figures) = q /\ p + Len(r) = p + 1
    BY <1>1, <2>1, <2>3
  <2>. QED BY <2>2, <2>3, <2>5, <2>6, <2>7, <2>8 DEF r, c
<1>. HIDE DEF figures, figures2
<1>4. /\ p + 1 \in Nat \ {0} /\ q \in Nat \ {0} /\ q + 1 \in Nat \ {0}
      /\ q = p + 1 + Len(figures) /\ p + Len(WriteRC(row, col)) = q + 1 + Len(figures2)
  <2>. DEFINE l == Len(figures)
              l2 == Len(figures2)
              l3 == Len(WriteRC(row, col))
  <2>1. l \in Nat /\ l2 \in Nat
    BY <1>1
  <2>2. l3 = 1 + l + 1 + l2
    BY <1>3
  <2>3. q = p + 1 + l
    OBVIOUS
  <2>. HIDE DEF l, l2, l3, q
  <2>4. p + 1 \in Nat \ {0} /\ q \in Nat \ {0} /\ q + 1 \in Nat \ {0}
    BY <2>1, <2>3
  <2>5. p + l3 = q + 1 + l2
    BY <2>1, <2>2, <2>3
  <2>. QED BY <2>3, <2>4, <2>5 DEF l, l2, l3
<1>. HIDE DEF q
<1>5. /\ At(s, p) = LetterR /\ At(s, p + 1) \in Digits /\ At(s, q) = LetterC /\ q <= Len(s)
  <2>1. /\ <<LetterR>> # <<>> /\ <<LetterR>>[1] = LetterR
        /\ <<LetterC>> # <<>> /\ <<LetterC>>[1] = LetterC
    OBVIOUS
  <2>2. At(s, p) = LetterR
    BY <1>2, <1>3, <2>1, AtStands
  <2>3. At(s, p + 1) \in Digits
    BY <1>1, <1>3, <1>4, AtStands
  <2>4. At(s, q) = LetterC /\ q <= Len(s)
    BY <1>2, <1>3, <1>4, <2>1, AtStands
  <2>. QED BY <2>2, <2>3, <2>4
<1>6. Number(s, p + 1, 7, Digits, 10, Zero, XL_MAX_ROWS) = [val |-> row, next |-> q]
  <2>1. At(s, p + 1 + Len(figures)) \notin Digits
    BY <1>4, <1>5, CharsApart
  <2>2. Number(s, p + 1, 7, Digits, 10, Zero, XL_MAX_ROWS)
          = [val |-> row, next |-> p + 1 + Len(figures)]
    <3>1. Figures(7, XL_MAX_ROWS) /\ p + 1 \in Nat \ {0}
      BY <1>4 DEF Figures
    <3>2. row \in Nat /\ row < XL_MAX_ROWS /\ StandsAt(s, p + 1, figures)
      BY <1>1, <1>3
    <3>. QED BY <3>1, <3>2, <2>1, DigitsReadBack DEF figures
  <2>. QED BY <1>4, <2>2
<1>7. Number(s, q + 1, 5, Digits, 10, Zero, XL_MAX_COLS) = [val |-> col, next |-> q + 1 + Len(figures2)]
  <2>1. At(s, q + 1 + Len(figures2)) \notin Digits
    BY <1>4
  <2>2. Figures(5, XL_MAX_COLS) /\ q + 1 \in Nat \ {0}
    BY <1>4 DEF Figures
  <2>3. col \in Nat /\ col < XL_MAX_COLS /\ StandsAt(s, q + 1, figures2)
    BY <1>1, <1>3
  <2>. QED BY <2>1, <2>2, <2>3, DigitsReadBack DEF figures2
<1>8. ColLetters(s, p).next = p + 1
  <2>1. Run(s, p, 3, Letters) = 1
    <3>1. \A i \in 0..1 - 1 : At(s, p + i) \in Letters
      BY <1>5, CharsApart
    <3>2. At(s, p + 1) \notin Letters
      BY <1>5, CharsApart
    <3>. QED BY <3>1, <3>2, RunIs
  <2>. QED BY <2>1 DEF ColLetters, Number
<1>9. Prefixed(s, p, LetterR, 7, XL_MAX_ROWS) = [val |-> row, next |-> q]
  BY <1>5, <1>6 DEF Prefixed
<1>10. Prefixed(s, q, LetterC, 5, XL_MAX_COLS) = [val |-> col, next |-> p + Len(WriteRC(row, col))]
  BY <1>4, <1>5, <1>7 DEF Prefixed
<1>. QED BY <1>4, <1>5, <1>6, <1>8, <1>9, <1>10 DEF ReadRC, RowNumber

\* The text which is all of s stands in it, and what stands before a colon and
\* after it.
Both(s, u, w) == s = (u \o <<Colon>>) \o w

\* Two addresses with a colon between them stand in what they are joined to.
LEMMA Halves ==
  ASSUME NEW s \in Seq(Nat), NEW u \in Seq(Nat), NEW w \in Seq(Nat), Both(s, u, w)
  PROVE  /\ StandsAt(s, 1, u) /\ At(s, 1 + Len(u)) = Colon
         /\ StandsAt(s, 2 + Len(u), w) /\ 1 + Len(u) <= Len(s)
         /\ At(s, 2 + Len(u) + Len(w)) = 0
<1>. DEFINE c == <<Colon>>
<1>1. c \in Seq(Nat) /\ Len(c) = 1 /\ c # <<>> /\ c[1] = Colon
  BY DEF Colon
<1>. HIDE DEF c
<1>2. StandsAt(s, 1, (u \o c) \o w)
  BY DEF Both, StandsAt, c
<1>3. u \o c \in Seq(Nat) /\ Len(u \o c) = Len(u) + 1
  BY <1>1, TextsJoined
<1>4. Len(s) = Len(u) + 1 + Len(w)
  <2>1. Len((u \o c) \o w) = Len(u \o c) + Len(w)
    BY <1>3, TextsJoined
  <2>. QED BY <2>1, <1>3 DEF Both, c
<1>5. /\ StandsAt(s, 1, u \o c) /\ StandsAt(s, 1 + Len(u \o c), w)
  <2>1. 1 \in Nat \ {0}
    OBVIOUS
  <2>. QED BY <1>2, <1>3, <2>1, StandsApart
<1>6. StandsAt(s, 1, u) /\ StandsAt(s, 1 + Len(u), c)
  BY <1>1, <1>5, StandsApart
<1>7. 1 + Len(u) \in Nat \ {0} /\ 2 + Len(u) \in Nat \ {0} /\ 1 + Len(u \o c) = 2 + Len(u)
  BY <1>3
<1>8. At(s, 1 + Len(u)) = Colon /\ 1 + Len(u) <= Len(s)
  BY <1>1, <1>6, <1>7, AtStands
<1>9. At(s, 2 + Len(u) + Len(w)) = 0
  BY <1>4 DEF At
<1>. QED BY <1>5, <1>6, <1>7, <1>8, <1>9

\* A text stands in itself, and nothing follows it.
LEMMA WholeStands ==
  ASSUME NEW s \in Seq(Nat)
  PROVE  StandsAt(s, 1, s) /\ At(s, 1 + Len(s)) = 0
BY DEF StandsAt, At

\* The addresses of a sheet's cells are sequences of characters.
LEMMA AddressChars ==
  ASSUME NEW row \in 0..XL_MAX_ROWS - 1, NEW col \in 0..XL_MAX_COLS - 1
  PROVE  /\ WriteA1(row, col) \in Seq(Nat) /\ WriteRC(row, col) \in Seq(Nat)
         /\ row >= 0 /\ col >= 0
<1>1. /\ ColumnName(col) \in Seq(Nat) /\ Decimal(row + 1) \in Seq(Nat) /\ Decimal(col + 1) \in Seq(Nat)
      /\ row \in Nat /\ col \in Nat
  BY WrittenChars
<1>2. <<LetterR>> \in Seq(Nat) /\ <<LetterC>> \in Seq(Nat)
  BY DEF LetterR, LetterC
<1>3. WriteA1(row, col) \in Seq(Nat)
  BY <1>1, TextsJoined DEF WriteA1
<1>4. WriteRC(row, col) \in Seq(Nat)
  <2>1. <<LetterR>> \o Decimal(row + 1) \in Seq(Nat)
    BY <1>1, <1>2, TextsJoined
  <2>2. (<<LetterR>> \o Decimal(row + 1)) \o <<LetterC>> \in Seq(Nat)
    BY <1>2, <2>1, TextsJoined
  <2>. QED BY <1>1, <2>2, TextsJoined DEF WriteRC
<1>. QED BY <1>1, <1>3, <1>4

\* How an address which was read as far as a row's number goes on.
LEMMA ParsedCellA1 ==
  ASSUME NEW s \in Seq(Nat), NEW row, NEW col, NEW e,
         ColLetters(s, 1).val = col,
         RowNumber(s, ColLetters(s, 1).next) = [val |-> row, next |-> e],
         e > Len(s)
  PROVE  ParseAddress(s) = Read(row, row, col, col)
BY DEF ParseAddress

RangeA1(s, row, col, e, row2, col2) ==
  /\ ColLetters(s, 1).val = col
  /\ RowNumber(s, ColLetters(s, 1).next) = [val |-> row, next |-> e]
  /\ ~(e > Len(s)) /\ At(s, e) = Colon
  /\ ColLetters(s, e + 1).val = col2
  /\ RowNumber(s, ColLetters(s, e + 1).next).val = row2

\* A second address of the A1 style ends the range.
LEMMA ParsedRangeA1 ==
  ASSUME NEW s, NEW row, NEW col, NEW e, NEW row2, NEW col2,
         RangeA1(s, row, col, e, row2, col2)
  PROVE  ParseAddress(s) = Read(row, row2, col, col2)
BY DEF ParseAddress, RangeA1

\* An address of the R1C1 style which is all of the text.
LEMMA ParsedCellRC ==
  ASSUME NEW s \in Seq(Nat), NEW row, NEW col, NEW q, NEW e,
         RowNumber(s, ColLetters(s, 1).next) = [val |-> row, next |-> q],
         ~(q > Len(s)), At(s, q) # Colon,
         Prefixed(s, q, LetterC, 5, XL_MAX_COLS) = [val |-> col, next |-> e],
         e > Len(s)
  PROVE  ParseAddress(s) = Read(row, row, col, col)
BY DEF ParseAddress

RangeRC(s, row, col, q, e, row2, col2, q2) ==
  /\ RowNumber(s, ColLetters(s, 1).next) = [val |-> row, next |-> q]
  /\ ~(q > Len(s)) /\ At(s, q) # Colon
  /\ Prefixed(s, q, LetterC, 5, XL_MAX_COLS) = [val |-> col, next |-> e]
  /\ ~(e > Len(s)) /\ At(s, e) = Colon
  /\ Prefixed(s, e + 1, LetterR, 7, XL_MAX_ROWS) = [val |-> row2, next |-> q2]
  /\ Prefixed(s, q2, LetterC, 5, XL_MAX_COLS).val = col2

\* A second address of the R1C1 style ends the range.
LEMMA ParsedRangeRC ==
  ASSUME NEW s, NEW row, NEW col, NEW q, NEW e, NEW row2, NEW col2, NEW q2,
         RangeRC(s, row, col, q, e, row2, col2, q2)
  PROVE  ParseAddress(s) = Read(row, row2, col, col2)
BY DEF ParseAddress, RangeRC

\* An address is read back as the reference it was written for.
LEMMA AddressRead ==
  ASSUME NEW ref \in SheetRef, NEW a1 \in BOOLEAN
  PROVE  ParseAddress(LocalAddress(ref, a1)) = [ok |-> TRUE, ref |-> ref]
<1>. DEFINE r1 == ref.rwFirst
            r2 == ref.rwLast
            c1 == ref.colFirst
            c2 == ref.colLast
            s  == LocalAddress(ref, a1)
<1>1. /\ r1 \in 0..XL_MAX_ROWS - 1 /\ r2 \in 0..XL_MAX_ROWS - 1
      /\ c1 \in 0..XL_MAX_COLS - 1 /\ c2 \in 0..XL_MAX_COLS - 1
      /\ ref = Ref(r1, r2, c1, c2)
  BY DEF SheetRef, Ref
<1>. HIDE DEF r1, r2, c1, c2
<1>2. /\ WriteA1(r1, c1) \in Seq(Nat) /\ WriteRC(r1, c1) \in Seq(Nat)
      /\ WriteA1(r2, c2) \in Seq(Nat) /\ WriteRC(r2, c2) \in Seq(Nat)
      /\ r1 >= 0 /\ r2 >= 0 /\ c1 >= 0 /\ c2 >= 0
  BY <1>1, AddressChars
<1>3. Read(r1, r2, c1, c2) = [ok |-> TRUE, ref |-> ref]
  BY <1>1, <1>2 DEF Read
<1>4. 0 \notin Digits /\ Colon \notin Digits /\ LetterC # Colon /\ 0 # LetterC
  BY CharsApart
<1>5. 1 \in Nat \ {0} /\ <<Colon>> \in Seq(Nat)
  BY DEF Colon
<1>6. ASSUME NEW u \in Seq(Nat), NEW w \in Seq(Nat), s = u \o <<Colon>> \o w
      PROVE  /\ s \in Seq(Nat)
             /\ StandsAt(s, 1, u) /\ At(s, 1 + Len(u)) = Colon
             /\ StandsAt(s, 2 + Len(u), w) /\ ~(1 + Len(u) > Len(s))
             /\ At(s, 2 + Len(u) + Len(w)) = 0
             /\ 2 + Len(u) \in Nat \ {0} /\ (1 + Len(u)) + 1 = 2 + Len(u)
  <2>1. u \o <<Colon>> \in Seq(Nat)
    BY <1>5, TextsJoined
  <2>2. (u \o <<Colon>>) \o w \in Seq(Nat)
    BY <2>1, TextsJoined
  <2>3. s \in Seq(Nat) /\ Both(s, u, w)
    BY <1>6, <2>2 DEF Both
  <2>. HIDE DEF s
  <2>4. /\ StandsAt(s, 1, u) /\ At(s, 1 + Len(u)) = Colon
        /\ StandsAt(s, 2 + Len(u), w) /\ 1 + Len(u) <= Len(s)
        /\ At(s, 2 + Len(u) + Len(w)) = 0
    BY <2>3, Halves
  <2>5. ~(1 + Len(u) > Len(s))
    BY <2>3, <2>4
  <2>6. 2 + Len(u) \in Nat \ {0} /\ (1 + Len(u)) + 1 = 2 + Len(u)
    OBVIOUS
  <2>. QED BY <2>3, <2>4, <2>5, <2>6
<1>7. CASE r1 = r2 /\ c1 = c2 /\ a1
  <2>. DEFINE w == WriteA1(r1, c1)
  <2>1. s = w
    BY <1>7 DEF LocalAddress, r1, r2, c1, c2
  <2>2. w \in Seq(Nat) /\ StandsAt(w, 1, w) /\ At(w, 1 + Len(w)) \notin Digits
    BY <1>2, <1>4, WholeStands
  <2>3. /\ ColLetters(w, 1).val = c1
        /\ RowNumber(w, ColLetters(w, 1).next) = [val |-> r1, next |-> 1 + Len(w)]
    BY <1>1, <1>5, <2>2, A1ReadBack
  <2>. HIDE DEF w
  <2>4. 1 + Len(w) > Len(w)
    BY <2>2
  <2>5. ParseAddress(w) = Read(r1, r1, c1, c1)
    BY <2>2, <2>3, <2>4, ParsedCellA1
  <2>. QED BY <1>3, <1>7, <2>1, <2>5
<1>8. CASE r1 = r2 /\ c1 = c2 /\ ~a1
  <2>. DEFINE w == WriteRC(r1, c1)
  <2>1. s = w
    BY <1>8 DEF LocalAddress, r1, r2, c1, c2
  <2>2. w \in Seq(Nat) /\ StandsAt(w, 1, w) /\ At(w, 1 + Len(w)) \notin Digits
    BY <1>2, <1>4, WholeStands
  <2>3. PICK q \in Nat \ {0} : ReadRC(w, 1, r1, c1, q, 1 + Len(w))
    BY <1>1, <1>5, <2>2, RCReadBack
  <2>. HIDE DEF w
  <2>4. 1 + Len(w) > Len(w) /\ ~(q > Len(w))
    BY <2>2, <2>3 DEF ReadRC
  <2>5. /\ RowNumber(w, ColLetters(w, 1).next) = [val |-> r1, next |-> q] /\ At(w, q) # Colon
        /\ Prefixed(w, q, LetterC, 5, XL_MAX_COLS) = [val |-> c1, next |-> 1 + Len(w)]
    BY <1>4, <2>3 DEF ReadRC
  <2>6. ParseAddress(w) = Read(r1, r1, c1, c1)
    BY <2>2, <2>3, <2>4, <2>5, ParsedCellRC
  <2>. QED BY <1>3, <1>8, <2>1, <2>6
<1>9. CASE ~(r1 = r2 /\ c1 = c2) /\ a1
  <2>. DEFINE u == WriteA1(r1, c1)
              w == WriteA1(r2, c2)
  <2>1. s = u \o <<Colon>> \o w
    BY <1>9 DEF LocalAddress, r1, r2, c1, c2
  <2>. HIDE DEF s
  <2>2. /\ s \in Seq(Nat)
        /\ StandsAt(s, 1, u) /\ At(s, 1 + Len(u)) = Colon
        /\ StandsAt(s, 2 + Len(u), w) /\ ~(1 + Len(u) > Len(s))
        /\ At(s, 2 + Len(u) + Len(w)) = 0
        /\ 2 + Len(u) \in Nat \ {0} /\ (1 + Len(u)) + 1 = 2 + Len(u)
    BY <1>2, <1>6, <2>1
  <2>3. /\ ColLetters(s, 1).val = c1
        /\ RowNumber(s, ColLetters(s, 1).next) = [val |-> r1, next |-> 1 + Len(u)]
    BY <1>1, <1>4, <1>5, <2>2, A1ReadBack
  <2>4. /\ ColLetters(s, 2 + Len(u)).val = c2
        /\ RowNumber(s, ColLetters(s, 2 + Len(u)).next) = [val |-> r2, next |-> 2 + Len(u) + Len(w)]
    BY <1>1, <1>4, <2>2, A1ReadBack
  <2>. HIDE DEF u, w
  <2>. DEFINE e == 1 + Len(u)
  <2>5. RangeA1(s, r1, c1, e, r2, c2)
    BY <2>2, <2>3, <2>4 DEF RangeA1
  <2>. HIDE DEF e
  <2>6. ParseAddress(s) = Read(r1, r2, c1, c2)
    BY <2>5, ParsedRangeA1
  <2>. QED BY <1>3, <2>6 DEF s
<1>10. CASE ~(r1 = r2 /\ c1 = c2) /\ ~a1
  <2>. DEFINE u == WriteRC(r1, c1)
              w == WriteRC(r2, c2)
  <2>1. s = u \o <<Colon>> \o w
    BY <1>10 DEF LocalAddress, r1, r2, c1, c2
  <2>. HIDE DEF s
  <2>2. /\ s \in Seq(Nat)
        /\ StandsAt(s, 1, u) /\ At(s, 1 + Len(u)) = Colon
        /\ StandsAt(s, 2 + Len(u), w) /\ ~(1 + Len(u) > Len(s))
        /\ At(s, 2 + Len(u) + Len(w)) = 0
        /\ 2 + Len(u) \in Nat \ {0} /\ (1 + Len(u)) + 1 = 2 + Len(u)
    BY <1>2, <1>6, <2>1
  <2>3. PICK q \in Nat \ {0} : ReadRC(s, 1, r1, c1, q, 1 + Len(u))
    BY <1>1, <1>4, <1>5, <2>2, RCReadBack
  <2>4. PICK q2 \in Nat \ {0} : ReadRC(s, 2 + Len(u), r2, c2, q2, 2 + Len(u) + Len(w))
    BY <1>1, <1>4, <2>2, RCReadBack
  <2>. HIDE DEF u, w
  <2>5. /\ RowNumber(s, ColLetters(s, 1).next) = [val |-> r1, next |-> q]
        /\ Prefixed(s, q, LetterC, 5, XL_MAX_COLS) = [val |-> c1, next |-> 1 + Len(u)]
        /\ At(s, q) # Colon /\ ~(q > Len(s))
    BY <1>4, <2>2, <2>3 DEF ReadRC
  <2>. DEFINE e == 1 + Len(u)
  <2>6. /\ ~(e > Len(s)) /\ At(s, e) = Colon
        /\ Prefixed(s, q, LetterC, 5, XL_MAX_COLS) = [val |-> c1, next |-> e]
        /\ Prefixed(s, e + 1, LetterR, 7, XL_MAX_ROWS) = [val |-> r2, next |-> q2]
        /\ Prefixed(s, q2, LetterC, 5, XL_MAX_COLS).val = c2
    BY <2>2, <2>4, <2>5 DEF ReadRC
  <2>. HIDE DEF e
  <2>7. RangeRC(s, r1, c1, q, e, r2, c2, q2)
    BY <2>5, <2>6 DEF RangeRC
  <2>8. ParseAddress(s) = Read(r1, r2, c1, c2)
    BY <2>7, ParsedRangeRC
  <2>. QED BY <1>3, <2>8 DEF s
<1>. QED BY <1>7, <1>8, <1>9, <1>10


\* Caller.cpp:509: the address of every cell and range of a sheet, in either
\* style, is read as the reference it was written for.
THEOREM AddressesReadBack == Spec => []AddressReadBack
<1>1. AnswerInv => AddressReadBack
  <2>. SUFFICES ASSUME AnswerInv, Returned("address")
                PROVE  ParseAddress(result) = [ok |-> TRUE, ref |-> call.ref]
    BY DEF AddressReadBack
  <2>1. call.fn = "address" /\ at = "done" /\ call \in Calls
    BY DEF Returned, AnswerInv
  <2>2. call.ref \in SheetRef /\ call.a1 \in BOOLEAN
    BY <2>1, CallConstants
  <2>3. result = LocalAddress(call.ref, call.a1)
    BY <2>1 DEF AnswerInv, Answer
  <2>. QED BY <2>2, <2>3, AddressRead
<1>. QED BY <1>1, CallsAnswered, PTL

-----------------------------------------------------------------------------
(***************************************************************************)
(* Texts. The tokens of a text lie between cuts, the places at which a     *)
(* separator was found; joined up to a cut they are the text up to it.     *)
(***************************************************************************)
\* FlattenSeq's recursion, unrolled: g is its function of the sequences s.
Flattens(s, g) == g = [i \in 1..Len(s) |-> IF i = 1 THEN s[i] ELSE g[i - 1] \o s[i]]

\* A function which meets the recursion is the one which FlattenSeq takes.
LEMMA FlattenIs ==
  ASSUME NEW s, NEW g, Len(s) \in Nat \ {0}, Flattens(s, g)
  PROVE  FlattenSeq(s) = g[Len(s)]
<1>. DEFINE n == Len(s)
            h == CHOOSE f : Flattens(s, f)
<1>1. Flattens(s, h)
  BY DEF Flattens
<1>2. FlattenSeq(s) = h[n]
  BY DEF FlattenSeq, Flattens
<1>. HIDE DEF h
<1>. DEFINE Bad == {i \in Nat : i \in 1..n /\ g[i] # h[i]}
<1>3. Bad = {}
  <2>. SUFFICES ASSUME Bad # {} PROVE FALSE
    OBVIOUS
  <2>1. PICK m \in Bad : \A i \in Bad : m <= i
    <3>1. Bad \subseteq Nat
      OBVIOUS
    <3>. HIDE DEF Bad
    <3>. QED BY <3>1, Least
  <2>2. m \in 1..n /\ g[m] # h[m]
    BY <2>1
  <2>3. /\ g[m] = IF m = 1 THEN s[m] ELSE g[m - 1] \o s[m]
        /\ h[m] = IF m = 1 THEN s[m] ELSE h[m - 1] \o s[m]
    BY <2>2, <1>1 DEF Flattens
  <2>4. CASE m = 1
    BY <2>2, <2>3, <2>4
  <2>5. CASE m # 1
    <3>1. m - 1 \in Nat /\ m - 1 \in 1..n
      BY <2>2, <2>5
    <3>2. m - 1 \notin Bad
      BY <2>1, <2>2
    <3>3. g[m - 1] = h[m - 1]
      BY <3>1, <3>2
    <3>. QED BY <2>2, <2>3, <2>5, <3>3
  <2>. QED BY <2>4, <2>5
<1>4. g[n] = h[n]
  BY <1>3
<1>. HIDE DEF Bad
<1>. QED BY <1>2, <1>4, Zenon

\* Split's recursion: from each place on, the token there and, unless it is
\* the last, those from another place on.
Tokens(size, token, last, next, g) ==
  g = [p \in 0..size |-> IF p \in last THEN <<token[p]>> ELSE <<token[p]>> \o g[next[p]]]

Onward(size, last, next) == \A p \in 0..size : p \in last \/ (next[p] \in 0..size /\ next[p] > p)

\* The recursion defines a function if each place leads to a later one.
LEMMA TokensExist ==
  ASSUME NEW size \in Nat, NEW token, NEW last, NEW next, Onward(size, last, next)
  PROVE  \E g : Tokens(size, token, last, next, g)
<1>. DEFINE Some(p, g) == IF p \in last THEN <<token[p]>> ELSE <<token[p]>> \o g[next[p]]
            Holds(d, g) == \A p \in 0..size : size - p < d => g[p] = Some(p, g)
            Bad == {d \in Nat : ~\E g : Holds(d, g)}
<1>1. Bad = {}
  <2>. SUFFICES ASSUME Bad # {} PROVE FALSE
    OBVIOUS
  <2>1. PICK m \in Bad : m \in Nat /\ \A i \in Bad : m <= i
    <3>1. Bad \subseteq Nat
      OBVIOUS
    <3>. HIDE DEF Bad
    <3>. QED BY <3>1, Least
  <2>2. CASE m = 0
    <3>1. Holds(0, [p \in 0..size |-> 0])
      OBVIOUS
    <3>. QED BY <2>1, <2>2, <3>1
  <2>3. CASE m > 0
    <3>1. m - 1 \in Nat /\ m - 1 \notin Bad
      <4>. HIDE DEF Bad
      <4>. QED BY <2>1, <2>3
    <3>2. PICK g : Holds(m - 1, g)
      BY <3>1
    <3>. DEFINE h == [p \in 0..size |-> IF size - p < m - 1 THEN g[p] ELSE Some(p, g)]
    <3>3. ASSUME NEW p \in 0..size, size - p < m
          PROVE  h[p] = Some(p, h)
      <4>1. h[p] = Some(p, g)
        BY <3>2, <3>3
      <4>2. CASE p \in last
        BY <4>1, <4>2
      <4>3. CASE p \notin last
        <5>1. next[p] \in 0..size /\ next[p] > p
          BY <4>3 DEF Onward
        <5>2. size - next[p] < m - 1
              <6>. HIDE DEF Bad, Holds
          <6>1. next[p] \in Nat /\ m \in Nat /\ p \in Nat /\ size - p < m
            BY <2>1, <3>3, <5>1
          <6>. QED BY <5>1, <6>1
        <5>3. h[next[p]] = g[next[p]]
          BY <5>1, <5>2
        <5>. QED BY <4>1, <4>3, <5>3
      <4>. QED BY <4>2, <4>3
    <3>. HIDE DEF h, Some
    <3>4. Holds(m, h)
      BY <3>3
    <3>. QED BY <2>1, <3>4
  <2>. QED BY <2>1, <2>2, <2>3
<1>2. PICK g : Holds(size + 1, g)
  <2>1. size + 1 \in Nat
    OBVIOUS
  <2>. HIDE DEF Holds
  <2>. QED BY <1>1, <2>1
<1>. DEFINE h == [p \in 0..size |-> g[p]]
<1>3. \A p \in 0..size : g[p] = Some(p, g)
  BY <1>2
<1>4. ASSUME NEW p \in 0..size
      PROVE  h[p] = Some(p, h)
  <2>1. h[p] = Some(p, g)
    BY <1>3
  <2>2. CASE p \in last
    BY <2>1, <2>2
  <2>3. CASE p \notin last
    <3>1. next[p] \in 0..size
      BY <2>3 DEF Onward
    <3>2. h[next[p]] = g[next[p]]
      BY <3>1
    <3>. QED BY <2>1, <2>3, <3>2
  <2>. QED BY <2>2, <2>3
<1>5. h = [p \in 0..size |-> Some(p, h)]
  <2>1. h = [p \in 0..size |-> h[p]]
    OBVIOUS
  <2>. HIDE DEF h, Some
  <2>. QED BY <2>1, <1>4, Zenon
<1>. QED BY <1>5 DEF Tokens

\* The least of a set of places, if there is one.
LEMMA FirstPlace ==
  ASSUME NEW S \in SUBSET Nat, NEW n \in Nat
  PROVE  LET m == IF S = {} THEN n ELSE CHOOSE p \in S : \A q \in S : p <= q
         IN (S = {} /\ m = n) \/ (m \in S /\ \A q \in S : m <= q)
BY Least

\* What a part of a text is.
LEMMA PartIs ==
  ASSUME NEW s \in Seq(Nat), NEW a \in 1..Len(s), NEW b \in a..Len(s)
  PROVE  /\ SubSeq(s, a, b) \in Seq(Nat)
         /\ Len(SubSeq(s, a, b)) = b - a + 1
         /\ \A i \in 1..b - a + 1 : SubSeq(s, a, b)[i] = s[a + i - 1]
         /\ SubSeq(s, a, b)[1] = s[a]
<1>. DEFINE u == SubSeq(s, a, b)
<1>1. \A i \in a..b : s[i] \in Nat
  OBVIOUS
<1>2. a \in Int /\ b \in Int /\ a <= b
  OBVIOUS
<1>3. /\ u \in Seq(Nat)
      /\ Len(u) = IF a <= b THEN b - a + 1 ELSE 0
      /\ \A i \in 1..b - a + 1 : u[i] = s[a + i - 1]
  BY <1>1, <1>2, SubSeqProperties
<1>. HIDE DEF u
<1>4. u[1] = s[a]
  BY <1>2, <1>3
<1>. QED BY <1>2, <1>3, <1>4 DEF u

\* The place at which a separator was found, if it was.
LEMMA FoundAtIs ==
  ASSUME NEW text \in Seq(Nat), NEW sep \in Seq(Nat) \ {<<>>}, NEW prev \in 0..Len(text)
  PROVE  LET f == FoundAt(text, sep, prev)
         IN f \in prev..Len(text) /\ (f < Len(text) => text[f + 1] = sep[1])
<1>. DEFINE S == {p \in prev..Len(text) - Len(sep) : SubSeq(text, p + 1, p + Len(sep)) = sep}
            f == FoundAt(text, sep, prev)
<1>1. S \in SUBSET Nat /\ Len(text) \in Nat /\ Len(sep) \in Nat /\ Len(sep) >= 1
  BY EmptySeq, LenProperties
<1>2. (S = {} /\ f = Len(text)) \/ (f \in S /\ \A q \in S : f <= q)
  <2>1. f = IF S = {} THEN Len(text) ELSE CHOOSE p \in S : \A q \in S : p <= q
    BY DEF FoundAt
  <2>. HIDE DEF S, f
  <2>. QED BY <1>1, <2>1, FirstPlace
<1>3. CASE S = {} /\ f = Len(text)
  BY <1>1, <1>3
<1>4. CASE f \in S
  <2>1. f \in prev..Len(text) - Len(sep) /\ SubSeq(text, f + 1, f + Len(sep)) = sep
    BY <1>4
  <2>. HIDE DEF f, S
  <2>2. f \in Nat /\ f + Len(sep) <= Len(text) /\ prev <= f
    BY <1>1, <2>1
  <2>3. SubSeq(text, f + 1, f + Len(sep))[1] = text[f + 1]
    <3>. DEFINE a == f + 1
                b == f + Len(sep)
    <3>1. a \in 1..Len(text) /\ b \in a..Len(text)
      BY <1>1, <2>2
    <3>. HIDE DEF a, b
    <3>2. SubSeq(text, a, b)[1] = text[a]
      BY <3>1, PartIs
    <3>. QED BY <3>2 DEF a, b
  <2>4. f \in prev..Len(text) /\ text[f + 1] = sep[1]
    BY <1>1, <2>1, <2>2, <2>3
  <2>. QED BY <2>4 DEF f
<1>. QED BY <1>2, <1>3, <1>4

\* The place after a separator.
CharsOf(sep) == {sep[i] : i \in DOMAIN sep}

\* It is after the separator was found, and if separators which follow each other count
\* as one, it is not at a character of them.
LEMMA SkipIs ==
  ASSUME NEW text \in Seq(Nat), NEW sep \in Seq(Nat) \ {<<>>}, NEW p \in 0..Len(text) - 1,
         NEW consecutive \in BOOLEAN, text[p + 1] = sep[1]
  PROVE  LET s == Skip(text, sep, p, consecutive)
         IN /\ s \in 0..Len(text) /\ s > p
            /\ ~consecutive => s = p + 1
            /\ consecutive => s = Len(text) \/ text[s + 1] \notin CharsOf(sep)
<1>. DEFINE S == {q \in p..Len(text) - 1 : text[q + 1] \notin CharsOf(sep)}
            s == Skip(text, sep, p, consecutive)
<1>1. S \in SUBSET Nat /\ Len(text) \in Nat /\ p \in Nat /\ p < Len(text)
  OBVIOUS
<1>2. CASE ~consecutive
  BY <1>1, <1>2 DEF Skip
<1>3. CASE consecutive
  <2>1. (S = {} /\ s = Len(text)) \/ (s \in S /\ \A q \in S : s <= q)
    <3>1. s = IF S = {} THEN Len(text) ELSE CHOOSE q \in S : \A l \in S : q <= l
      BY <1>3 DEF Skip, CharsOf
    <3>. HIDE DEF S, s
    <3>. QED BY <1>1, <3>1, FirstPlace
  <2>2. p \notin S
    <3>1. sep[1] \in CharsOf(sep)
      BY EmptySeq, LenProperties DEF CharsOf
    <3>. QED BY <3>1
  <2>3. CASE s = Len(text)
    <3>. HIDE DEF s, S
    <3>1. s \in 0..Len(text) /\ s > p
      BY <1>1, <2>3
    <3>. QED BY <1>3, <2>3, <3>1 DEF s
  <2>4. CASE s \in S
    <3>1. s \in p..Len(text) - 1 /\ text[s + 1] \notin CharsOf(sep)
      BY <2>4
    <3>2. s # p
      BY <2>2, <2>4
    <3>. HIDE DEF s, S
    <3>3. s \in 0..Len(text) /\ s > p
      BY <1>1, <3>1, <3>2
    <3>. QED BY <1>3, <3>1, <3>3 DEF s
  <2>. QED BY <2>1, <2>3, <2>4
<1>. QED BY <1>2, <1>3

\* Split's function of the places.
TokenAt(text, sep) == [p \in 0..Len(text) |-> Text(SubSeq(text, p + 1, FoundAt(text, sep, p)))]
LastAt(text, sep) == {p \in 0..Len(text) : FoundAt(text, sep, p) = Len(text)}
NextAt(text, sep, consecutive) ==
  [p \in 0..Len(text) |-> Skip(text, sep, FoundAt(text, sep, p), consecutive)]

SplitBy(text, sep, consecutive, g) ==
  Tokens(Len(text), TokenAt(text, sep), LastAt(text, sep), NextAt(text, sep, consecutive), g)

\* Split's places lead to later ones.
LEMMA SplitsOnward ==
  ASSUME NEW text \in Seq(Nat), NEW sep \in Seq(Nat) \ {<<>>}, NEW consecutive \in BOOLEAN
  PROVE  Onward(Len(text), LastAt(text, sep), NextAt(text, sep, consecutive))
<1>. SUFFICES ASSUME NEW p \in 0..Len(text), p \notin LastAt(text, sep)
              PROVE  LET s == NextAt(text, sep, consecutive)[p] IN s \in 0..Len(text) /\ s > p
  BY DEF Onward
<1>. DEFINE f == FoundAt(text, sep, p)
            s == Skip(text, sep, f, consecutive)
<1>1. f \in p..Len(text) /\ f # Len(text) /\ (f < Len(text) => text[f + 1] = sep[1])
  BY FoundAtIs DEF LastAt
<1>. HIDE DEF f
<1>2. f \in 0..Len(text) - 1 /\ text[f + 1] = sep[1] /\ f \in Nat /\ f >= p /\ Len(text) \in Nat
  BY <1>1
<1>3. s \in 0..Len(text) /\ s > f
  BY <1>2, SkipIs
<1>. HIDE DEF s
<1>4. s \in 0..Len(text) /\ s > p
  BY <1>2, <1>3
<1>. QED BY <1>4 DEF NextAt, s, f

\* Split takes a function which meets the recursion.
LEMMA SplitIs ==
  ASSUME NEW text \in Seq(Nat), NEW sep \in Seq(Nat) \ {<<>>}, NEW consecutive \in BOOLEAN
  PROVE  \E g : SplitBy(text, sep, consecutive, g) /\ Split(text, sep, consecutive) = g[0]
<1>. DEFINE Step(g, p) == LET f == FoundAt(text, sep, p)
                              token == Text(SubSeq(text, p + 1, f))
                          IN IF f = Len(text) THEN <<token>>
                             ELSE <<token>> \o g[Skip(text, sep, f, consecutive)]
            h == CHOOSE g : g = [p \in 0..Len(text) |-> Step(g, p)]
<1>1. PICK g : SplitBy(text, sep, consecutive, g)
  <2>1. Len(text) \in Nat
    OBVIOUS
  <2>. QED BY <2>1, SplitsOnward, TokensExist DEF SplitBy
<1>2. ASSUME NEW e
      PROVE  SplitBy(text, sep, consecutive, e) <=> e = [p \in 0..Len(text) |-> Step(e, p)]
  <2>1. ASSUME NEW p \in 0..Len(text)
        PROVE  Step(e, p) = IF p \in LastAt(text, sep) THEN <<TokenAt(text, sep)[p]>>
                            ELSE <<TokenAt(text, sep)[p]>> \o e[NextAt(text, sep, consecutive)[p]]
    BY DEF LastAt, TokenAt, NextAt
  <2>. HIDE DEF Step
  <2>. QED BY <2>1, Zenon DEF SplitBy, Tokens
<1>3. h = [p \in 0..Len(text) |-> Step(h, p)]
  <2>. HIDE DEF Step
  <2>1. SplitBy(text, sep, consecutive, g) <=> g = [p \in 0..Len(text) |-> Step(g, p)]
    BY <1>2, Zenon
  <2>2. g = [p \in 0..Len(text) |-> Step(g, p)]
    BY <1>1, <2>1, Zenon
  <2>. QED BY <2>2, Zenon
<1>4. SplitBy(text, sep, consecutive, h)
  BY <1>2, <1>3
<1>5. Split(text, sep, consecutive) = h[0]
  BY DEF Split
<1>. HIDE DEF h, Step
<1>. QED BY <1>4, <1>5

TextCell == [type : {"str"}, val : Seq(Nat)]

\* The tokens r are what lies in the text between the places of a separator of
\* one character, c of them, from one place on.
Cuts(text, sep, from, r, c) ==
  /\ r \in Seq(TextCell) /\ r # <<>>
  /\ c \in [0..Len(r) -> 0..Len(text) + 1]
  /\ c[0] = from
  /\ \A i \in 1..Len(r) : c[i] > c[i - 1] /\ r[i] = Text(SubSeq(text, c[i - 1] + 1, c[i] - 1))
  /\ \A i \in 1..Len(r) - 1 : c[i] <= Len(text) /\ text[c[i]] = sep[1]
  /\ c[Len(r)] = Len(text) + 1

\* The token at a place p, and the others after it if a separator was found at f.
TokenTo(text, p, f) == Text(SubSeq(text, p + 1, f))

FirstToken(text, sep, consecutive, g, p, f) ==
  /\ f \in p..Len(text)
  /\ TokenTo(text, p, f) \in TextCell
  /\ f = Len(text) => g[p] = <<TokenTo(text, p, f)>>
  /\ f < Len(text) => text[f + 1] = sep[1]
  /\ f < Len(text) => g[p] = <<TokenTo(text, p, f)>> \o g[Skip(text, sep, f, consecutive)]

\* The tokens from a place on, by one step of the recursion.
LEMMA TokensFrom ==
  ASSUME NEW text \in Seq(Nat), NEW sep \in Seq(Nat) \ {<<>>}, NEW consecutive \in BOOLEAN,
         NEW g, SplitBy(text, sep, consecutive, g), NEW p \in 0..Len(text)
  PROVE  \E f : FirstToken(text, sep, consecutive, g, p, f)
<1>. DEFINE f == FoundAt(text, sep, p)
            token == TokenTo(text, p, f)
<1>1. f \in p..Len(text) /\ (f < Len(text) => text[f + 1] = sep[1])
  BY FoundAtIs
<1>2. g[p] = IF p \in LastAt(text, sep) THEN <<TokenAt(text, sep)[p]>>
             ELSE <<TokenAt(text, sep)[p]>> \o g[NextAt(text, sep, consecutive)[p]]
  BY DEF SplitBy, Tokens
<1>3. /\ TokenAt(text, sep)[p] = token
      /\ NextAt(text, sep, consecutive)[p] = Skip(text, sep, f, consecutive)
      /\ p \in LastAt(text, sep) <=> f = Len(text)
  BY DEF TokenAt, NextAt, LastAt, TokenTo
<1>. HIDE DEF f
<1>4. token \in TextCell
  <2>1. \A i \in p + 1..f : text[i] \in Nat
    BY <1>1
  <2>2. p + 1 \in Int /\ f \in Int
    BY <1>1
  <2>3. SubSeq(text, p + 1, f) \in Seq(Nat)
    BY <2>1, <2>2, SubSeqProperties
  <2>. QED BY <2>3 DEF TextCell, Text, TokenTo
<1>5. f < Len(text) => f # Len(text)
  BY <1>1
<1>. HIDE DEF token
<1>6. /\ f = Len(text) => g[p] = <<token>>
      /\ f < Len(text) => text[f + 1] = sep[1] /\ g[p] = <<token>> \o g[Skip(text, sep, f, consecutive)]
  BY <1>1, <1>2, <1>3, <1>5
<1>. QED BY <1>1, <1>4, <1>6 DEF token, FirstToken

\* A token before others which lie between cuts.
LEMMA CutBefore ==
  ASSUME NEW text \in Seq(Nat), NEW sep \in Seq(Nat) \ {<<>>},
         NEW p \in 0..Len(text), NEW f \in p..Len(text) - 1, text[f + 1] = sep[1],
         TokenTo(text, p, f) \in TextCell,
         NEW r, NEW c, Cuts(text, sep, f + 1, r, c)
  PROVE  \E d : Cuts(text, sep, p, <<TokenTo(text, p, f)>> \o r, d)
<1>. DEFINE token == TokenTo(text, p, f)
            n == Len(r)
            q == <<token>> \o r
            d == [i \in 0..n + 1 |-> IF i = 0 THEN p ELSE c[i - 1]]
<1>1. /\ r \in Seq(TextCell) /\ n \in Nat /\ n # 0
      /\ c \in [0..n -> 0..Len(text) + 1] /\ c[0] = f + 1
      /\ \A i \in 1..n : c[i] > c[i - 1] /\ r[i] = Text(SubSeq(text, c[i - 1] + 1, c[i] - 1))
      /\ \A i \in 1..n - 1 : c[i] <= Len(text) /\ text[c[i]] = sep[1]
      /\ c[n] = Len(text) + 1
  BY EmptySeq DEF Cuts
<1>2. token \in TextCell /\ p \in Nat /\ f \in Nat /\ Len(text) \in Nat /\ p <= f /\ f < Len(text)
  OBVIOUS
<1>. HIDE DEF n, token
<1>3. /\ d \in [0..n + 1 -> 0..Len(text) + 1]
      /\ d[0] = p /\ d[1] = f + 1 /\ d[n + 1] = Len(text) + 1
      /\ \A i \in 2..n + 1 : d[i] = c[i - 1]
  <2>1. p \in 0..Len(text) + 1
    BY <1>2
  <2>2. \A i \in 1..n + 1 : i - 1 \in 0..n
    BY <1>1
  <2>3. \A i \in 1..n + 1 : i \in 0..n + 1 /\ i # 0
    BY <1>1
  <2>4. \A i \in 1..n + 1 : d[i] = c[i - 1]
    BY <2>3
  <2>5. d[0] = p
    BY <1>1
  <2>6. d = [i \in 0..n + 1 |-> d[i]]
    OBVIOUS
  <2>. HIDE DEF d
  <2>7. \A i \in 0..n + 1 : d[i] \in 0..Len(text) + 1
    <3>. TAKE i \in 0..n + 1
    <3>1. CASE i = 0
      BY <2>1, <2>5, <3>1
    <3>2. CASE i # 0
      <4>1. i \in 1..n + 1
        BY <1>1, <3>2
      <4>2. c[i - 1] \in 0..Len(text) + 1
        BY <1>1, <2>2, <4>1
      <4>. QED BY <2>4, <4>1, <4>2
    <3>. QED BY <3>1, <3>2
  <2>8. d \in [0..n + 1 -> 0..Len(text) + 1]
    BY <2>6, <2>7
  <2>9. 1 \in 1..n + 1 /\ n + 1 \in 1..n + 1 /\ 1 - 1 = 0 /\ (n + 1) - 1 = n
    BY <1>1
  <2>10. d[1] = f + 1 /\ d[n + 1] = Len(text) + 1
    BY <1>1, <2>4, <2>9
  <2>11. \A i \in 2..n + 1 : d[i] = c[i - 1]
    BY <2>4
  <2>. QED BY <2>5, <2>8, <2>10, <2>11
<1>. HIDE DEF d
<1>4. /\ q \in Seq(TextCell) /\ Len(q) = n + 1 /\ q # <<>>
      /\ q[1] = token /\ \A i \in 2..n + 1 : q[i] = r[i - 1]
  BY <1>1, <1>2 DEF n
<1>. HIDE DEF q
<1>5. ASSUME NEW i \in 1..n + 1
      PROVE  d[i] > d[i - 1] /\ q[i] = Text(SubSeq(text, d[i - 1] + 1, d[i] - 1))
  <2>1. CASE i = 1
    <3>1. d[i] = f + 1 /\ d[i - 1] = p /\ d[i] - 1 = f
      BY <1>2, <1>3, <2>1
    <3>. QED BY <1>2, <1>4, <2>1, <3>1 DEF token, TokenTo
  <2>2. CASE i # 1
    <3>. DEFINE l == i - 1
    <3>1. l \in 1..n /\ i \in 2..n + 1
      BY <1>1, <2>2
    <3>2. d[l] = c[l - 1]
      <4>1. CASE l = 1
        BY <1>1, <1>3, <4>1
      <4>2. CASE l # 1
        <5>1. l \in 2..n + 1
          BY <1>1, <3>1, <4>2
        <5>. HIDE DEF l
        <5>. QED BY <1>3, <5>1
      <4>. QED BY <4>1, <4>2
    <3>3. d[i] = c[l] /\ q[i] = r[l]
      BY <1>3, <1>4, <3>1
    <3>. QED BY <1>1, <3>1, <3>2, <3>3
  <2>. QED BY <2>1, <2>2
<1>6. ASSUME NEW i \in 1..n
      PROVE  d[i] <= Len(text) /\ text[d[i]] = sep[1]
  <2>1. CASE i = 1
    BY <1>2, <1>3, <2>1
  <2>2. CASE i # 1
    <3>. DEFINE l == i - 1
    <3>1. l \in 1..n - 1 /\ i \in 2..n + 1
      BY <1>1, <2>2
    <3>2. d[i] = c[l]
      BY <1>3, <3>1
    <3>. QED BY <1>1, <3>1, <3>2
  <2>. QED BY <2>1, <2>2
<1>7. Cuts(text, sep, p, q, d)
  <2>1. Len(q) - 1 = n
    BY <1>1, <1>4
  <2>. QED BY <1>3, <1>4, <1>5, <1>6, <2>1 DEF Cuts
<1>. QED BY <1>7 DEF q, token

\* The one token which is all that is left of the text.
LEMMA LastCut ==
  ASSUME NEW text \in Seq(Nat), NEW sep \in Seq(Nat) \ {<<>>}, NEW p \in 0..Len(text),
         TokenTo(text, p, Len(text)) \in TextCell
  PROVE  \E d : Cuts(text, sep, p, <<TokenTo(text, p, Len(text))>>, d)
<1>. DEFINE token == TokenTo(text, p, Len(text))
            d == [i \in 0..1 |-> IF i = 0 THEN p ELSE Len(text) + 1]
            r == <<token>>
<1>1. p \in Nat /\ Len(text) \in Nat /\ p <= Len(text) /\ token \in TextCell
  OBVIOUS
<1>2. d \in [0..1 -> 0..Len(text) + 1] /\ d[0] = p /\ d[1] = Len(text) + 1 /\ d[1] - 1 = Len(text)
  BY <1>1
<1>. HIDE DEF d
<1>3. \A i \in 1..1 : d[i] > d[i - 1] /\ r[i] = TokenTo(text, d[i - 1], d[i] - 1)
  <2>1. d[1] > d[0] /\ r[1] = TokenTo(text, d[0], d[1] - 1)
    BY <1>1, <1>2
  <2>. HIDE DEF r
  <2>. QED BY <2>1
<1>. HIDE DEF token
<1>4. r \in Seq(TextCell) /\ Len(r) = 1 /\ r # <<>>
  BY <1>1
<1>. HIDE DEF r
<1>5. Cuts(text, sep, p, r, d)
  BY <1>1, <1>2, <1>3, <1>4 DEF Cuts, TokenTo
<1>. QED BY <1>5 DEF r, token

\* What is split at each separator of one character is cut there.
LEMMA SplitCuts ==
  ASSUME NEW text \in Seq(Nat), NEW sep \in Seq(Nat) \ {<<>>},
         NEW g, SplitBy(text, sep, FALSE, g)
  PROVE  \E c : Cuts(text, sep, 0, g[0], c)
<1>. DEFINE Left(p) == Len(text) - p
            Bad == {e \in Nat : \E p \in 0..Len(text) : Left(p) = e /\ ~\E c : Cuts(text, sep, p, g[p], c)}
<1>1. Bad = {}
  <2>. SUFFICES ASSUME Bad # {} PROVE FALSE
    OBVIOUS
  <2>1. PICK m \in Bad : \A i \in Bad : m <= i
    <3>1. Bad \subseteq Nat
      OBVIOUS
    <3>. HIDE DEF Bad
    <3>. QED BY <3>1, Least
  <2>2. PICK p \in 0..Len(text) : Left(p) = m /\ ~\E c : Cuts(text, sep, p, g[p], c)
    BY <2>1
  <2>3. PICK f : FirstToken(text, sep, FALSE, g, p, f)
    BY TokensFrom
  <2>4. /\ TokenTo(text, p, f) \in TextCell
        /\ f \in Nat /\ Len(text) \in Nat /\ p \in Nat /\ p <= f /\ f <= Len(text)
    BY <2>3 DEF FirstToken
  <2>5. CASE f = Len(text)
    <3>1. g[p] = <<TokenTo(text, p, Len(text))>>
      BY <2>3, <2>5 DEF FirstToken
    <3>2. TokenTo(text, p, Len(text)) \in TextCell
      BY <2>4, <2>5
    <3>. QED BY <2>2, <3>1, <3>2, LastCut
  <2>6. CASE f < Len(text)
    <3>1. /\ text[f + 1] = sep[1] /\ Skip(text, sep, f, FALSE) = f + 1
          /\ g[p] = <<TokenTo(text, p, f)>> \o g[f + 1]
      <4>1. f \in 0..Len(text) - 1 /\ text[f + 1] = sep[1]
        BY <2>3, <2>4, <2>6 DEF FirstToken
      <4>2. Skip(text, sep, f, FALSE) = f + 1
        BY <4>1 DEF Skip
      <4>. QED BY <2>3, <2>6, <4>1, <4>2 DEF FirstToken
    <3>2. f + 1 \in 0..Len(text) /\ f \in p..Len(text) - 1 /\ Left(f + 1) \in Nat /\ Left(f + 1) < m
      <4>1. m = Left(p)
        BY <2>2
      <4>. HIDE DEF Bad
      <4>. QED BY <2>4, <2>6, <4>1
    <3>3. Left(f + 1) \notin Bad
      <4>1. m \in Nat
        BY <2>1
      <4>. HIDE DEF Bad, Left
      <4>. QED BY <2>1, <3>2, <4>1
    <3>4. PICK c : Cuts(text, sep, f + 1, g[f + 1], c)
      BY <3>2, <3>3
    <3>5. \E d : Cuts(text, sep, p, <<TokenTo(text, p, f)>> \o g[f + 1], d)
      BY <2>4, <3>1, <3>2, <3>4, CutBefore
    <3>. QED BY <2>2, <3>1, <3>5
  <2>. QED BY <2>4, <2>5, <2>6
<1>2. 0 \in 0..Len(text) /\ Left(0) \in Nat
  OBVIOUS
<1>. QED BY <1>1, <1>2

\* All tokens but the last have characters.
Solid(r) == r \in Seq(TextCell) /\ r # <<>> /\ \A i \in 1..Len(r) - 1 : r[i].val # <<>>

\* A token before others all of which but the last have characters.
LEMMA SolidAfter ==
  ASSUME NEW t \in TextCell, NEW r, Solid(r)
  PROVE  /\ <<t>> \o r \in Seq(TextCell)
         /\ \A i \in 2..Len(<<t>> \o r) - 1 : (<<t>> \o r)[i].val # <<>>
         /\ t.val # <<>> => Solid(<<t>> \o r)
<1>. DEFINE q == <<t>> \o r
            n == Len(r)
<1>1. r \in Seq(TextCell) /\ n \in Nat /\ n # 0 /\ \A i \in 1..n - 1 : r[i].val # <<>>
  BY EmptySeq DEF Solid
<1>2. q \in Seq(TextCell) /\ Len(q) = n + 1 /\ q # <<>> /\ q[1] = t /\ \A i \in 2..n + 1 : q[i] = r[i - 1]
  BY <1>1
<1>. HIDE DEF q, n
<1>3. ASSUME NEW i \in 2..Len(q) - 1
      PROVE  q[i].val # <<>>
  <2>1. i \in 2..n + 1 /\ i - 1 \in 1..n - 1
    BY <1>1, <1>2
  <2>2. q[i] = r[i - 1]
    BY <1>2, <2>1
  <2>. QED BY <1>1, <2>1, <2>2
<1>4. ASSUME t.val # <<>>
      PROVE  Solid(q)
  <2>1. ASSUME NEW i \in 1..Len(q) - 1
        PROVE  q[i].val # <<>>
    <3>1. CASE i = 1
      BY <1>2, <1>4, <3>1
    <3>2. CASE i # 1
      <4>1. i \in 2..Len(q) - 1
        BY <1>1, <1>2, <3>2
      <4>. QED BY <1>3, <4>1
    <3>. QED BY <3>1, <3>2
  <2>. QED BY <1>2, <2>1 DEF Solid
<1>. QED BY <1>2, <1>3, <1>4 DEF q

\* From a place which is not at a separator's character on, if separators which
\* follow each other count as one.
LEMMA SplitSolid ==
  ASSUME NEW text \in Seq(Nat), NEW sep \in Seq(Nat) \ {<<>>},
         NEW g, SplitBy(text, sep, TRUE, g), NEW start0 \in 0..Len(text),
         start0 = Len(text) \/ text[start0 + 1] \notin CharsOf(sep)
  PROVE  Solid(g[start0])
<1>. DEFINE Left(p) == Len(text) - p
            Free(p) == p = Len(text) \/ text[p + 1] \notin CharsOf(sep)
            Bad == {e \in Nat : \E p \in 0..Len(text) : Left(p) = e /\ Free(p) /\ ~Solid(g[p])}
<1>1. Bad = {}
  <2>. SUFFICES ASSUME Bad # {} PROVE FALSE
    OBVIOUS
  <2>1. PICK m \in Bad : \A i \in Bad : m <= i
    <3>1. Bad \subseteq Nat
      OBVIOUS
    <3>. HIDE DEF Bad
    <3>. QED BY <3>1, Least
  <2>2. PICK p \in 0..Len(text) : Left(p) = m /\ Free(p) /\ ~Solid(g[p])
    BY <2>1
  <2>3. PICK f : FirstToken(text, sep, TRUE, g, p, f)
    BY TokensFrom
  <2>. DEFINE token == TokenTo(text, p, f)
  <2>4. /\ token \in TextCell
        /\ f \in Nat /\ Len(text) \in Nat /\ p \in Nat /\ p <= f /\ f <= Len(text)
    BY <2>3 DEF FirstToken
  <2>5. CASE f = Len(text)
    <3>1. g[p] = <<token>>
      BY <2>3, <2>5 DEF FirstToken
    <3>. HIDE DEF token
    <3>2. <<token>> \in Seq(TextCell) /\ Len(<<token>>) = 1 /\ <<token>> # <<>>
      BY <2>4
    <3>3. Solid(<<token>>)
      BY <3>2 DEF Solid
    <3>. QED BY <2>2, <3>1, <3>3
  <2>6. CASE f < Len(text)
    <3>. DEFINE s == Skip(text, sep, f, TRUE)
    <3>1. f \in 0..Len(text) - 1 /\ text[f + 1] = sep[1] /\ g[p] = <<token>> \o g[s]
      <4>1. text[f + 1] = sep[1] /\ g[p] = <<token>> \o g[s]
        BY <2>3, <2>6 DEF FirstToken
      <4>. HIDE DEF token, s
      <4>. QED BY <2>4, <2>6, <4>1
    <3>2. s \in 0..Len(text) /\ s > f /\ Free(s)
      BY <3>1, SkipIs
    <3>3. token.val # <<>>
      <4>1. sep[1] \in CharsOf(sep)
        BY EmptySeq, LenProperties DEF CharsOf
      <4>2. f # p
        BY <2>2, <2>6, <3>1, <4>1
      <4>3. p + 1 \in 1..Len(text) /\ f \in p + 1..Len(text)
        BY <2>4, <2>6, <4>2
      <4>4. Len(SubSeq(text, p + 1, f)) = f - (p + 1) + 1
        BY <4>3, PartIs
      <4>. DEFINE u == SubSeq(text, p + 1, f)
      <4>5. Len(u) # 0
        BY <2>4, <4>2, <4>4
      <4>6. token.val = u
        BY DEF Text, TokenTo
      <4>. HIDE DEF u, token
      <4>. QED BY <4>5, <4>6
    <3>. HIDE DEF s, token
    <3>4. Left(s) \in Nat /\ Left(s) < m
      <4>1. m = Left(p)
        BY <2>2
      <4>2. s \in Nat /\ s > f /\ s <= Len(text)
        BY <2>4, <3>2
      <4>. HIDE DEF Bad, Free
      <4>. QED BY <2>4, <2>6, <4>1, <4>2
    <3>5. Left(s) \notin Bad
      <4>1. m \in Nat
        BY <2>1
      <4>. HIDE DEF Bad, Left
      <4>. QED BY <2>1, <3>4, <4>1
    <3>6. Solid(g[s])
      BY <3>2, <3>4, <3>5
    <3>. QED BY <2>2, <2>4, <3>1, <3>3, <3>6, SolidAfter
  <2>. QED BY <2>4, <2>5, <2>6
<1>2. Left(start0) \in Nat /\ Free(start0)
  OBVIOUS
<1>. QED BY <1>1, <1>2

\* The parts of a text up to one place and from there up to another.
LEMMA PartsJoined ==
  ASSUME NEW s \in Seq(Nat), NEW a \in 0..Len(s), NEW b \in a + 1..Len(s)
  PROVE  SubSeq(s, 1, a) \o (SubSeq(s, a + 1, b - 1) \o <<s[b]>>) = SubSeq(s, 1, b)
<1>1. /\ a + 1 \in 1..Len(s) /\ b \in a + 1..Len(s)
      /\ 1 \in 1..Len(s) + 1 /\ a \in 1 - 1..Len(s) /\ b \in a..Len(s)
  OBVIOUS
<1>2. SubSeq(s, a + 1, b) = SubSeq(s, a + 1, b - 1) \o <<s[b]>>
  BY <1>1, SubSeqRecursiveSecond
<1>3. SubSeq(s, 1, a) \o SubSeq(s, a + 1, b) = SubSeq(s, 1, b)
  BY <1>1, ConcatAdjacentSubSeq
<1>. QED BY <1>2, <1>3

\* The array of one column which has the cells of r is its own view, and its
\* cells in order are r, if the last is not empty.
OneColumn(r) == [i \in DOMAIN r |-> <<r[i]>>]

\* A sequence of one cell.
LEMMA OneCell ==
  ASSUME NEW x
  PROVE  Len(<<x>>) = 1 /\ DOMAIN <<x>> = {1} /\ <<x>>[1] = x
OBVIOUS

\* Nothing of such an array is trimmed.
LEMMA ColumnView ==
  ASSUME NEW r \in Seq(TextCell), r # <<>>, r[Len(r)].val # <<>>
  PROVE  View(OneColumn(r)) = OneColumn(r)
<1>. DEFINE a == OneColumn(r)
            n == Len(r)
<1>1. n \in Nat \ {0} /\ DOMAIN r = 1..n /\ r[n] \in TextCell
  BY EmptySeq
<1>2. /\ DOMAIN a = 1..n /\ Len(a) = n /\ a # <<>>
      /\ \A i \in 1..n : a[i] = <<r[i]>> /\ Len(a[i]) = 1 /\ DOMAIN a[i] = {1} /\ a[i][1] = r[i]
  <2>1. DOMAIN a = 1..n /\ \A i \in 1..n : a[i] = <<r[i]>>
    BY <1>1 DEF OneColumn
  <2>2. a \in Seq({<<r[i]>> : i \in 1..n})
    BY <1>1, <2>1 DEF OneColumn
  <2>3. Len(a) = n
    BY <1>1, <2>1, <2>2
  <2>. HIDE DEF a
  <2>4. a # <<>>
    <3>1. DOMAIN a # DOMAIN <<>>
      BY <1>1, <2>1
    <3>. QED BY <3>1
  <2>5. ASSUME NEW i \in 1..n
        PROVE  a[i] = <<r[i]>> /\ Len(a[i]) = 1 /\ DOMAIN a[i] = {1} /\ a[i][1] = r[i]
    <3>1. a[i] = <<r[i]>>
      BY <2>1
    <3>2. Len(<<r[i]>>) = 1 /\ DOMAIN <<r[i]>> = {1} /\ <<r[i]>>[1] = r[i]
      BY OneCell
    <3>. QED BY <3>1, <3>2
  <2>. QED BY <2>1, <2>3, <2>4, <2>5
<1>3. NonEmpty(r[n])
  BY <1>1 DEF NonEmpty, TextCell, NA
<1>. HIDE DEF a, n
<1>4. TrimmedRows(a) = n
  <2>. DEFINE S == {i \in DOMAIN a : \E j \in DOMAIN a[i] : NonEmpty(a[i][j])}
  <2>1. n \in S /\ \A i \in S : i <= n
    BY <1>1, <1>2, <1>3
  <2>2. S # {} /\ TrimmedRows(a) = CHOOSE i \in S : \A l \in S : l <= i
    BY <2>1 DEF TrimmedRows, LastOf
  <2>3. \A i \in S : i \in Nat
    BY <1>1, <1>2
  <2>. HIDE DEF S
  <2>. QED BY <1>1, <2>1, <2>2, <2>3
<1>5. TrimmedCols(a) = 1
  <2>1. Width(a) = 1
    BY <1>1, <1>2 DEF Width
  <2>2. \E i \in 1..TrimmedRows(a) :
          (i - 1) * Width(a) + 1 - 1 < 1 * TrimmedRows(a) /\ NonEmpty(a[i][1])
    <3>1. n \in 1..TrimmedRows(a) /\ a[n][1] = r[n]
      BY <1>1, <1>2, <1>4
    <3>2. (n - 1) * 1 + 1 - 1 < 1 * n
      BY <1>1
    <3>. QED BY <1>3, <1>4, <2>1, <3>1, <3>2
  <2>. DEFINE S == {j \in 1..Width(a) : \E i \in 1..TrimmedRows(a) :
                      (i - 1) * Width(a) + j - 1 < j * TrimmedRows(a) /\ NonEmpty(a[i][j])}
  <2>3. S = {1}
    BY <2>1, <2>2
  <2>4. TrimmedCols(a) = LastOf(S)
    BY DEF TrimmedCols
  <2>. HIDE DEF S
  <2>. QED BY <2>3, <2>4 DEF LastOf
<1>6. ASSUME NEW i \in 1..n
      PROVE  SubSeq(a[i], 1, 1) = a[i]
  <2>1. a[i] = <<r[i]>>
    BY <1>2
  <2>. DEFINE x == r[i]
  <2>. HIDE DEF x
  <2>2. <<x>> \in Seq({x}) /\ Len(<<x>>) = 1
    OBVIOUS
  <2>3. SubSeq(<<x>>, 1, Len(<<x>>)) = <<x>>
    BY <2>2, SubSeqFull
  <2>. QED BY <2>1, <2>2, <2>3 DEF x
<1>7. View(a) = [i \in 1..n |-> a[i]]
  BY <1>4, <1>5, <1>6 DEF View
<1>8. a = [i \in 1..n |-> a[i]]
  BY <1>1 DEF a, OneColumn
<1>. QED BY <1>7, <1>8 DEF a

\* The cells of such an array in order are those of r.
LEMMA ColumnCells ==
  ASSUME NEW r \in Seq(TextCell), r # <<>>
  PROVE  FlattenSeq(OneColumn(r)) = r
<1>. DEFINE a == OneColumn(r)
            n == Len(r)
            g == [i \in 1..n |-> SubSeq(r, 1, i)]
<1>1. n \in Nat \ {0} /\ DOMAIN r = 1..n
  BY EmptySeq
<1>2. Len(a) = n /\ \A i \in 1..n : a[i] = <<r[i]>>
  <2>1. DOMAIN a = 1..n /\ \A i \in 1..n : a[i] = <<r[i]>>
    BY <1>1 DEF OneColumn
  <2>2. a \in Seq({<<r[i]>> : i \in 1..n})
    BY <1>1, <2>1 DEF OneColumn
  <2>. QED BY <1>1, <2>1, <2>2
<1>. HIDE DEF a, n
<1>3. ASSUME NEW i \in 1..n
      PROVE  SubSeq(r, 1, i) = IF i = 1 THEN a[i] ELSE g[i - 1] \o a[i]
  <2>1. CASE i = 1
    <3>1. SubSeq(r, 1, 1) = SubSeq(r, 1, 1 - 1) \o <<r[1]>> /\ SubSeq(r, 1, 1 - 1) = <<>>
      BY <1>1, SubSeqRecursiveSecond, SubSeqEmpty DEF n
    <3>2. <<>> \o <<r[1]>> = <<r[1]>>
      OBVIOUS
    <3>. QED BY <1>2, <2>1, <3>1, <3>2
  <2>2. CASE i # 1
    <3>1. i - 1 \in 1..n
      BY <1>1, <2>2
    <3>2. g[i - 1] = SubSeq(r, 1, i - 1)
      BY <3>1
    <3>3. SubSeq(r, 1, i) = SubSeq(r, 1, i - 1) \o <<r[i]>>
      BY <1>1, <2>2, SubSeqRecursiveSecond DEF n
    <3>. QED BY <1>2, <2>2, <3>2, <3>3
  <2>. QED BY <2>1, <2>2
<1>4. Flattens(a, g)
  BY <1>2, <1>3 DEF Flattens
<1>5. FlattenSeq(a) = g[n]
  <2>. HIDE DEF g
  <2>. QED BY <1>1, <1>2, <1>4, FlattenIs
<1>6. g[n] = r
  <2>1. SubSeq(r, 1, n) = r
    BY SubSeqFull DEF n
  <2>. QED BY <1>1, <2>1
<1>. QED BY <1>5, <1>6 DEF a

\* The text before a separator.
LEMMA WithoutSep ==
  ASSUME NEW text \in Seq(Nat) \ {<<>>}, NEW sep \in Seq(Nat), Len(sep) = 1
  PROVE  /\ text \o sep \in Seq(Nat) /\ Len(text \o sep) = Len(text) + 1
         /\ SubSeq(text \o sep, 1, Len(text)) = text
         /\ (text \o sep)[Len(text) + 1] = sep[1]
         /\ \A i \in 1..Len(text) : (text \o sep)[i] = text[i]
         /\ sep = <<sep[1]>>
<1>. DEFINE u == text \o sep
            n == Len(text)
<1>1. n \in Nat \ {0}
  BY EmptySeq
<1>2. /\ u \in Seq(Nat) /\ Len(u) = n + 1
      /\ \A i \in 1..n + 1 : u[i] = IF i <= n THEN text[i] ELSE sep[i - n]
  <2>1. text \in Seq(Nat) /\ sep \in Seq(Nat)
    OBVIOUS
  <2>2. /\ u \in Seq(Nat) /\ Len(u) = Len(text) + Len(sep)
        /\ \A i \in 1..Len(text) + Len(sep) :
             u[i] = IF i <= Len(text) THEN text[i] ELSE sep[i - Len(text)]
    BY <2>1, ConcatProperties
  <2>3. Len(text) + Len(sep) = n + 1
    OBVIOUS
  <2>. HIDE DEF u
  <2>. QED BY <2>2, <2>3
<1>3. SubSeq(u, 1, n) = text
  <2>1. SubSeq(u, 1, n) = SubSeq(text, 1, n)
    BY <1>1, SubSeqOfConcat1
  <2>. QED BY <2>1, SubSeqFull
<1>. HIDE DEF u
<1>4. u[n + 1] = sep[1]
  <2>. HIDE DEF n
  <2>. QED BY <1>1, <1>2
<1>5. \A i \in 1..n : u[i] = text[i]
  <2>. HIDE DEF n
  <2>. QED BY <1>1, <1>2
<1>6. sep = <<sep[1]>>
  OBVIOUS
<1>. QED BY <1>2, <1>3, <1>4, <1>5, <1>6 DEF u

\* Texts each with the separator after it.
WithSep(r, sep) == [i \in DOMAIN r |-> r[i].val \o sep]

\* There are as many of them as texts.
LEMMA WithSepIs ==
  ASSUME NEW r \in Seq(TextCell), NEW sep \in Seq(Nat)
  PROVE  /\ Len(WithSep(r, sep)) = Len(r)
         /\ \A i \in 1..Len(r) : WithSep(r, sep)[i] = r[i].val \o sep
<1>1. WithSep(r, sep) = [i \in 1..Len(r) |-> r[i].val \o sep]
  BY DEF WithSep
<1>2. \A i \in 1..Len(r) : r[i].val \o sep \in Seq(Nat)
  <2>. TAKE i \in 1..Len(r)
  <2>. DEFINE u == r[i].val
  <2>1. u \in Seq(Nat)
    <3>1. \A x \in TextCell : x.val \in Seq(Nat)
      BY DEF TextCell
    <3>2. r[i] \in TextCell
      OBVIOUS
    <3>. QED BY <3>1, <3>2
  <2>. HIDE DEF u
  <2>2. u \o sep \in Seq(Nat)
    BY <2>1, TextsJoined
  <2>. QED BY <2>2 DEF u
<1>3. WithSep(r, sep) \in Seq(Seq(Nat))
  BY <1>1, <1>2
<1>. QED BY <1>1, <1>3

\* The separator after the last text is left out.
LEMMA JoinedAs ==
  ASSUME NEW r \in Seq(TextCell), NEW text \in Seq(Nat) \ {<<>>}, NEW sep \in Seq(Nat), Len(sep) = 1,
         FlattenSeq(WithSep(r, sep)) = text \o sep
  PROVE  Joined(r, sep) = text
<1>1. (Len(text) + 1) - 1 = Len(text)
  OBVIOUS
<1>2. Joined(r, sep) = SubSeq(text \o sep, 1, Len(text \o sep) - Len(sep))
  BY DEF Joined, WithSep
<1>. QED BY <1>1, <1>2, WithoutSep

\* A text alone is joined to itself.
LEMMA OneJoined ==
  ASSUME NEW text \in Seq(Nat) \ {<<>>}, NEW sep \in Seq(Nat), Len(sep) = 1
  PROVE  Joined(<<Text(text)>>, sep) = text
<1>. DEFINE r == <<Text(text)>>
            s == WithSep(r, sep)
            g == [i \in 1..1 |-> text \o sep]
<1>1. Text(text) \in TextCell /\ Text(text).val = text
  BY DEF TextCell, Text
<1>2. r \in Seq(TextCell) /\ Len(r) = 1 /\ r[1] = Text(text)
  <2>. DEFINE x == Text(text)
  <2>. HIDE DEF x
  <2>1. x \in TextCell
    BY <1>1 DEF x
  <2>2. <<x>> \in Seq(TextCell) /\ Len(<<x>>) = 1 /\ <<x>>[1] = x
    BY <2>1
  <2>. QED BY <2>2 DEF x
<1>. HIDE DEF r
<1>3. Len(s) = 1 /\ s[1] = text \o sep
  <2>1. Len(s) = Len(r) /\ \A i \in 1..Len(r) : s[i] = r[i].val \o sep
    BY <1>2, WithSepIs
  <2>2. 1 \in 1..Len(r) /\ r[1].val = text
    BY <1>1, <1>2
  <2>3. s[1] = r[1].val \o sep
    BY <2>1, <2>2
  <2>. HIDE DEF s
  <2>. QED BY <1>2, <2>1, <2>2, <2>3
<1>. HIDE DEF s
<1>4. Flattens(s, g)
  <2>1. \A i \in 1..1 : i = 1 /\ text \o sep = s[i]
    BY <1>3
  <2>2. [i \in 1..1 |-> text \o sep] = [i \in 1..1 |-> IF i = 1 THEN s[i] ELSE g[i - 1] \o s[i]]
    BY <2>1
  <2>. QED BY <1>3, <2>2 DEF Flattens
<1>5. FlattenSeq(s) = g[1]
  <2>1. Len(s) \in Nat \ {0}
    BY <1>3
  <2>. HIDE DEF g
  <2>. QED BY <1>3, <1>4, <2>1, FlattenIs
<1>6. g[1] = text \o sep
  OBVIOUS
<1>. HIDE DEF g
<1>7. FlattenSeq(WithSep(r, sep)) = text \o sep
  BY <1>5, <1>6 DEF s
<1>8. Joined(r, sep) = text
  BY <1>2, <1>7, JoinedAs
<1>. QED BY <1>8 DEF r

\* The cuts are places of the text, in order.
CutPlaces(text, sep, r, c, n) ==
  /\ r \in Seq(TextCell) /\ r # <<>> /\ n \in Nat \ {0} /\ Len(text) \in Nat
  /\ c[0] = 0 /\ c[n] = Len(text) + 1
  /\ \A i \in 0..n : c[i] \in Nat /\ c[i] <= Len(text) + 1
  /\ \A i \in 1..n : c[i] > c[i - 1] /\ r[i] = Text(SubSeq(text, c[i - 1] + 1, c[i] - 1))
  /\ \A i \in 1..n - 1 : c[i] <= Len(text) /\ text[c[i]] = sep[1]

\* The cuts of a text are places of it, in order.
LEMMA CutsAre ==
  ASSUME NEW text \in Seq(Nat), NEW sep, NEW r, NEW c, Cuts(text, sep, 0, r, c)
  PROVE  CutPlaces(text, sep, r, c, Len(r))
<1>1. r \in Seq(TextCell) /\ r # <<>> /\ Len(text) \in Nat
  BY DEF Cuts
<1>2. Len(r) \in Nat \ {0}
  BY <1>1, EmptySeq
<1>3. c \in [0..Len(r) -> 0..Len(text) + 1]
  BY DEF Cuts
<1>4. \A i \in 0..Len(r) : c[i] \in Nat /\ c[i] <= Len(text) + 1
  <2>. DEFINE n == Len(r)
              size == Len(text)
  <2>1. size \in Nat /\ c \in [0..n -> 0..size + 1]
    BY <1>1, <1>3
  <2>. HIDE DEF n, size
  <2>2. \A i \in 0..n : c[i] \in Nat /\ c[i] <= size + 1
    BY <2>1
  <2>. QED BY <2>2 DEF n, size
<1>. QED BY <1>1, <1>2, <1>4 DEF Cuts, CutPlaces

\* The tokens between cuts are joined to the text.
LEMMA CutsJoined ==
  ASSUME NEW text \in Seq(Nat) \ {<<>>}, NEW sep \in Seq(Nat), Len(sep) = 1,
         NEW r, NEW c, Cuts(text, sep, 0, r, c)
  PROVE  Joined(r, sep) = text
<1>. DEFINE n == Len(r)
            size == Len(text)
            full == text \o sep
            s == WithSep(r, sep)
            g == [i \in 1..n |-> SubSeq(full, 1, c[i])]
<1>1. /\ r \in Seq(TextCell) /\ n \in Nat \ {0} /\ size \in Nat
      /\ c[0] = 0 /\ c[n] = size + 1
      /\ \A i \in 0..n : c[i] \in Nat /\ c[i] <= size + 1
      /\ \A i \in 1..n : c[i] > c[i - 1] /\ r[i] = Text(SubSeq(text, c[i - 1] + 1, c[i] - 1))
      /\ \A i \in 1..n - 1 : c[i] <= size /\ text[c[i]] = sep[1]
  <2>1. text \in Seq(Nat)
    OBVIOUS
  <2>2. CutPlaces(text, sep, r, c, n)
    BY <2>1, CutsAre
  <2>. QED BY <2>2 DEF CutPlaces
<1>2. /\ full \in Seq(Nat) /\ Len(full) = size + 1 /\ SubSeq(full, 1, size) = text
      /\ full[size + 1] = sep[1] /\ sep = <<sep[1]>>
      /\ \A i \in 1..size : full[i] = text[i]
  BY WithoutSep
<1>3. Len(s) = n /\ \A i \in 1..n : s[i] = r[i].val \o sep
  BY <1>1, WithSepIs
<1>. HIDE DEF n, size, s
<1>4. ASSUME NEW i \in 1..n
      PROVE  s[i] = SubSeq(full, c[i - 1] + 1, c[i] - 1) \o <<full[c[i]]>>
  <2>. DEFINE a == c[i - 1]
              b == c[i]
  <2>1. a \in Nat /\ b \in Nat /\ a < b /\ b <= size + 1 /\ r[i] = Text(SubSeq(text, a + 1, b - 1))
    <3>1. i - 1 \in 0..n /\ i \in 0..n
      BY <1>1
    <3>. QED BY <1>1, <3>1
  <2>2. full[b] = sep[1]
    <3>1. CASE i = n
      BY <1>1, <1>2, <3>1
    <3>2. CASE i # n
      <4>1. i \in 1..n - 1
        BY <1>1, <3>2
      <4>2. b <= size /\ text[b] = sep[1]
        BY <1>1, <4>1
      <4>3. b \in 1..size
        <5>1. size \in Nat
          BY <1>1
        <5>. QED BY <2>1, <4>2, <5>1
      <4>. HIDE DEF b
      <4>. QED BY <1>2, <4>2, <4>3
    <3>. QED BY <3>1, <3>2
  <2>. HIDE DEF a, b
  <2>3. SubSeq(full, a + 1, b - 1) = SubSeq(text, a + 1, b - 1)
    <3>1. CASE b - 1 < a + 1
      <4>1. a + 1 \in Int /\ b - 1 \in Int
        BY <2>1
      <4>2. SubSeq(full, a + 1, b - 1) = <<>>
        BY <3>1, <4>1, SubSeqEmpty
      <4>3. SubSeq(text, a + 1, b - 1) = <<>>
        BY <3>1, <4>1, SubSeqEmpty
      <4>. QED BY <4>2, <4>3
    <3>2. CASE ~(b - 1 < a + 1)
      <4>1. a + 1 \in 1..Len(text) /\ b - 1 \in 1..Len(text)
        BY <1>1, <2>1, <3>2 DEF size
      <4>. QED BY <4>1, SubSeqOfConcat1
    <3>. QED BY <3>1, <3>2
  <2>4. r[i].val = SubSeq(text, a + 1, b - 1)
    BY <2>1 DEF Text
  <2>5. s[i] = r[i].val \o <<full[b]>>
    BY <1>2, <1>3, <2>2
  <2>. HIDE DEF full
  <2>6. s[i] = SubSeq(full, a + 1, b - 1) \o <<full[b]>>
    BY <2>3, <2>4, <2>5
  <2>. QED BY <2>6 DEF a, b
<1>. HIDE DEF full
<1>5. ASSUME NEW i \in 1..n
      PROVE  SubSeq(full, 1, c[i]) = IF i = 1 THEN s[i] ELSE g[i - 1] \o s[i]
  <2>1. i - 1 \in 0..n /\ i \in 0..n
    BY <1>1
  <2>. DEFINE a == c[i - 1]
              b == c[i]
  <2>2. a \in Nat /\ b \in Nat /\ a < b /\ b <= size + 1
    BY <1>1, <2>1
  <2>3. s[i] = SubSeq(full, a + 1, b - 1) \o <<full[b]>>
    BY <1>4
  <2>4. i = 1 => a = 0
    BY <1>1
  <2>5. i # 1 => g[i - 1] = SubSeq(full, 1, a)
    <3>1. i # 1 => i - 1 \in 1..n
      BY <1>1
    <3>. QED BY <3>1
  <2>. HIDE DEF a, b, g
  <2>6. SubSeq(full, 1, a) \o s[i] = SubSeq(full, 1, b)
    <3>1. full \in Seq(Nat) /\ Len(full) = size + 1 /\ size \in Nat
      BY <1>1, <1>2
    <3>2. a \in 0..Len(full) /\ b \in a + 1..Len(full)
      BY <2>2, <3>1
    <3>3. SubSeq(full, 1, a) \o (SubSeq(full, a + 1, b - 1) \o <<full[b]>>) = SubSeq(full, 1, b)
      BY <3>1, <3>2, PartsJoined
    <3>. QED BY <2>3, <3>3
  <2>7. i = 1 => SubSeq(full, 1, b) = s[i]
    <3>1. i = 1 => a + 1 = 1
      BY <2>4
    <3>2. b \in 1..Len(full) /\ 1 \in 1..Len(full) /\ b \in 1..Len(full)
      BY <1>1, <1>2, <2>2
    <3>3. SubSeq(full, 1, b) = SubSeq(full, 1, b - 1) \o <<full[b]>>
      BY <1>2, <3>2, SubSeqRecursiveSecond
    <3>. QED BY <2>3, <3>1, <3>3
  <2>8. SubSeq(full, 1, b) = IF i = 1 THEN s[i] ELSE g[i - 1] \o s[i]
    BY <2>5, <2>6, <2>7
  <2>. QED BY <2>8 DEF b
<1>6. Flattens(s, g)
  <2>. DEFINE e(i) == IF i = 1 THEN s[i] ELSE g[i - 1] \o s[i]
  <2>1. g = [i \in 1..n |-> SubSeq(full, 1, c[i])]
    OBVIOUS
  <2>2. \A i \in 1..n : SubSeq(full, 1, c[i]) = e(i)
    BY <1>5
  <2>. HIDE DEF g, e
  <2>3. g = [i \in 1..n |-> e(i)]
    BY <2>1, <2>2, Zenon
  <2>. QED BY <1>3, <2>3 DEF Flattens, e
<1>7. g[n] = full
  <2>1. n \in 1..n /\ c[n] = size + 1
    BY <1>1
  <2>2. g[n] = SubSeq(full, 1, size + 1)
    BY <2>1
  <2>. QED BY <1>2, <2>2, SubSeqFull
<1>8. FlattenSeq(s) = full
  <2>1. Len(s) \in Nat \ {0}
    BY <1>1, <1>3
  <2>. HIDE DEF g
  <2>. QED BY <1>3, <1>6, <1>7, <2>1, FlattenIs
<1>. QED BY <1>1, <1>8, JoinedAs DEF s, full

\* What is split at one character and put together again.
LEMMA SplitJoined ==
  ASSUME NEW text \in Seq(Nat) \ {<<>>}, NEW sep \in Seq(Nat), Len(sep) = 1, text[Len(text)] # sep[1],
         NEW r, r = Split(text, sep, FALSE)
  PROVE  Concat(<<OneColumn(r)>>, sep) = text
<1>1. sep \in Seq(Nat) \ {<<>>} /\ FALSE \in BOOLEAN /\ text \in Seq(Nat)
  <2>1. ASSUME sep = <<>> PROVE FALSE
    <3>1. Len(<<>>) = 0
      OBVIOUS
    <3>. QED BY <2>1, <3>1
  <2>. QED BY <2>1
<1>2. PICK g : SplitBy(text, sep, FALSE, g) /\ r = g[0]
  BY <1>1, SplitIs
<1>3. PICK c : Cuts(text, sep, 0, r, c)
  BY <1>1, <1>2, SplitCuts
<1>. DEFINE n == Len(r)
<1>4. /\ r \in Seq(TextCell) /\ r # <<>> /\ n \in Nat \ {0} /\ Len(text) \in Nat
      /\ c[0] = 0 /\ c[n] = Len(text) + 1
      /\ \A i \in 0..n : c[i] \in Nat /\ c[i] <= Len(text) + 1
      /\ \A i \in 1..n : c[i] > c[i - 1] /\ r[i] = Text(SubSeq(text, c[i - 1] + 1, c[i] - 1))
      /\ \A i \in 1..n - 1 : c[i] <= Len(text) /\ text[c[i]] = sep[1]
  <2>1. CutPlaces(text, sep, r, c, n)
    BY <1>1, <1>3, CutsAre
  <2>. QED BY <2>1 DEF CutPlaces
<1>. HIDE DEF n
<1>5. r[n].val # <<>>
  <2>. DEFINE a == c[n - 1]
              b == c[n]
  <2>1. /\ a \in Nat /\ b = Len(text) + 1 /\ a < b
        /\ r[n] = Text(SubSeq(text, a + 1, b - 1))
    <3>1. n - 1 \in 0..n /\ n \in 1..n
      BY <1>4
    <3>. QED BY <1>4, <3>1
  <2>2. a # Len(text)
    <3>1. CASE n = 1
      <4>1. a = 0 /\ Len(text) # 0
        BY <1>1, <1>4, <3>1, EmptySeq
      <4>. QED BY <4>1
    <3>2. CASE n # 1
      <4>1. n - 1 \in 1..n - 1
        BY <1>4, <3>2
      <4>2. text[a] = sep[1]
        BY <1>4, <4>1
      <4>. QED BY <4>2
    <3>. QED BY <3>1, <3>2
  <2>. HIDE DEF a, b
  <2>3. a + 1 \in 1..Len(text) /\ Len(text) \in a + 1..Len(text) /\ b - 1 = Len(text)
    BY <2>1, <2>2
  <2>. DEFINE u == SubSeq(text, a + 1, Len(text))
  <2>4. Len(u) = Len(text) - (a + 1) + 1
    BY <2>3, PartIs
  <2>5. r[n].val = u
    <3>1. r[n] = Text(u)
      BY <2>1, <2>3
    <3>2. Text(u).val = u
      BY DEF Text
    <3>. HIDE DEF u
    <3>. QED BY <3>1, <3>2
  <2>. HIDE DEF u
  <2>6. u # <<>>
    BY <2>1, <2>3, <2>4
  <2>. QED BY <2>5, <2>6
<1>6. FlattenSeq(View(OneColumn(r))) = r
  BY <1>4, <1>5, ColumnView, ColumnCells DEF n
<1>7. Joined(r, sep) = text
  BY <1>3, CutsJoined
<1>. DEFINE args == <<OneColumn(r)>>
            texts == [i \in DOMAIN args |-> Text(Joined(FlattenSeq(View(args[i])), sep))]
<1>8. texts = <<Text(text)>>
  <2>1. DOMAIN args = {1} /\ args[1] = OneColumn(r)
    BY OneCell
  <2>. HIDE DEF args
  <2>2. texts = [i \in {1} |-> Text(text)]
    BY <1>6, <1>7, <2>1
  <2>. HIDE DEF texts
  <2>. QED BY <2>2
<1>9. Concat(args, sep) = Joined(texts, sep)
  BY DEF Concat
<1>. QED BY <1>8, <1>9, OneJoined

\* No token but the first and the last is empty.
LEMMA SplitCondensed ==
  ASSUME NEW text \in Seq(Nat), NEW sep \in Seq(Nat) \ {<<>>}, NEW r, r = Split(text, sep, TRUE)
  PROVE  \A i \in 2..Len(r) - 1 : r[i].val # <<>>
<1>1. PICK g : SplitBy(text, sep, TRUE, g) /\ r = g[0]
  BY SplitIs
<1>2. 0 \in 0..Len(text) /\ Len(text) \in Nat
  OBVIOUS
<1>3. PICK f : FirstToken(text, sep, TRUE, g, 0, f)
  BY <1>1, <1>2, TokensFrom
<1>. DEFINE token == TokenTo(text, 0, f)
            s == Skip(text, sep, f, TRUE)
<1>4. token \in TextCell /\ f \in 0..Len(text)
  BY <1>3 DEF FirstToken
<1>. HIDE DEF token
<1>5. CASE f = Len(text)
  <2>1. r = <<token>>
    BY <1>1, <1>3, <1>5 DEF FirstToken, token
  <2>. DEFINE l == Len(r)
  <2>2. l = 1
    BY <2>1, OneCell
  <2>. HIDE DEF l
  <2>3. \A i \in 2..l - 1 : r[i].val # <<>>
    BY <2>2
  <2>. QED BY <2>3 DEF l
<1>6. CASE f # Len(text)
  <2>1. r = <<token>> \o g[s] /\ text[f + 1] = sep[1]
    <3>1. f < Len(text)
      BY <1>2, <1>4, <1>6
    <3>. QED BY <1>1, <1>3, <3>1 DEF FirstToken, token
  <2>2. f \in 0..Len(text) - 1
    BY <1>2, <1>4, <1>6
  <2>3. s \in 0..Len(text) /\ (s = Len(text) \/ text[s + 1] \notin CharsOf(sep))
    BY <2>1, <2>2, SkipIs
  <2>. HIDE DEF s
  <2>4. Solid(g[s])
    BY <1>1, <2>3, SplitSolid
  <2>. QED BY <1>4, <2>1, <2>4, SolidAfter
<1>. QED BY <1>5, <1>6

\* xloSplit.cpp:18, xloConcat.cpp:14: each text which does not end with the
\* separator is what its tokens are joined to, and separators which follow each
\* other leave no empty token in the middle.
THEOREM SplitsRejoin == Spec => []SplitRejoins
<1>1. AnswerInv => SplitRejoins
  <2>. SUFFICES ASSUME AnswerInv, Returned("split") PROVE SplitRejoins
    BY DEF SplitRejoins
  <2>1. call.fn = "split" /\ at = "done" /\ call \in Calls
    BY DEF Returned, AnswerInv
  <2>. DEFINE text == call.text
              sep == call.sep
  <2>2. text \in Seq(Nat) /\ sep \in Seq(Nat) \ {<<>>} /\ call.consecutive \in BOOLEAN
    BY <2>1, CallConstants
  <2>3. result = Split(text, sep, call.consecutive)
    BY <2>1 DEF AnswerInv, Answer
  <2>. HIDE DEF text, sep
  <2>4. ASSUME ~call.consecutive, Len(sep) = 1, text # <<>>, Last(text) # sep[1]
        PROVE  Concat(<<[i \in DOMAIN result |-> <<result[i]>>]>>, sep) = text
    <3>1. text \in Seq(Nat) \ {<<>>} /\ sep \in Seq(Nat) /\ text[Len(text)] # sep[1]
      BY <2>2, <2>4 DEF Last
    <3>2. result = Split(text, sep, FALSE)
      BY <2>2, <2>3, <2>4
    <3>3. Concat(<<OneColumn(result)>>, sep) = text
      BY <2>4, <3>1, <3>2, SplitJoined
    <3>. QED BY <3>3 DEF OneColumn
  <2>5. ASSUME call.consecutive
        PROVE  \A i \in 2..Len(result) - 1 : result[i].val # <<>>
    <3>1. result = Split(text, sep, TRUE)
      BY <2>2, <2>3, <2>5
    <3>. QED BY <2>2, <3>1, SplitCondensed
  <2>. QED BY <2>4, <2>5 DEF SplitRejoins, text, sep
<1>. QED BY <1>1, CallsAnswered, PTL

-----------------------------------------------------------------------------
(***************************************************************************)
(* Blocks. A fold over a sequence adds its parts from the last place of a  *)
(* set of places on; for the first places the values are a walk, one part  *)
(* after the other. Totals, flattened sequences and the writing of a block *)
(* are such walks.                                                         *)
(***************************************************************************)
\* The largest of a set of places.
LEMMA MaxIs ==
  ASSUME NEW n \in Nat, NEW t \in SUBSET (1..n), t # {}
  PROVE  Max(t) \in t /\ \A i \in t : i <= Max(t)
<1>. DEFINE S == {n - i : i \in t}
<1>1. S \subseteq Nat /\ S # {}
  <2>1. \A i \in t : n - i \in Nat
    OBVIOUS
  <2>2. PICK i \in t : TRUE
    OBVIOUS
  <2>3. n - i \in S
    BY <2>2
  <2>. QED BY <2>1, <2>3
<1>2. PICK m \in S : \A i \in S : m <= i
  <2>. HIDE DEF S
  <2>. QED BY <1>1, Least
<1>3. PICK x \in t : m = n - x
  BY <1>2
<1>4. \A i \in t : x >= i
  <2>. TAKE i \in t
  <2>1. m <= n - i
    BY <1>2
  <2>2. i \in 1..n /\ x \in 1..n
    OBVIOUS
  <2>3. i \in Int /\ x \in Int
    BY <2>2
  <2>. HIDE DEF S
  <2>. QED BY <1>3, <2>1, <2>3
<1>. HIDE DEF S
<1>5. Max(t) \in t /\ \A i \in t : Max(t) >= i
  BY <1>4 DEF Max
<1>6. \A i \in t : i \in Int
  OBVIOUS
<1>. QED BY <1>5, <1>6

\* The last of the first places is their largest, and those before it are left.
LEMMA MaxOfFirst ==
  ASSUME NEW n \in Nat \ {0}
  PROVE  1..n # {} /\ Max(1..n) = n /\ (1..n) \ {n} = 1..n - 1
<1>. DEFINE t == 1..n
<1>1. t \in SUBSET (1..n) /\ t # {} /\ n \in t /\ n \in Nat
  OBVIOUS
<1>. HIDE DEF t
<1>2. Max(t) \in t /\ \A i \in t : i <= Max(t)
  BY <1>1, MaxIs
<1>3. n <= Max(t) /\ Max(t) \in t
  BY <1>1, <1>2
<1>4. Max(1..n) = n
  BY <1>3 DEF t
<1>. QED BY <1>4

\* FoldLeft's recursion over the sets of places of a sequence of length n: its
\* function g, where st gives the result of a step from the place and the
\* result of the places before.
Folds(n, base, st, g) ==
  g = [t \in SUBSET (1..n) |-> IF t = {} THEN base ELSE st[<<Max(t), g[t \ {Max(t)}]>>]]

Steps(n, Y, base, st) == base \in Y /\ st \in [(1..n) \X Y -> Y]

\* The recursion defines a function.
LEMMA FoldExists ==
  ASSUME NEW n \in Nat, NEW Y, NEW base, NEW st, Steps(n, Y, base, st)
  PROVE  \E g \in [SUBSET (1..n) -> Y] : Folds(n, base, st, g)
<1>. DEFINE Body(g, t) == IF t = {} THEN base ELSE st[<<Max(t), g[t \ {Max(t)}]>>]
            Holds(m, g) == /\ g \in [SUBSET (1..n) -> Y]
                           /\ \A t \in SUBSET (1..n) : t \subseteq 1..m => g[t] = Body(g, t)
            Bad == {m \in Nat : m <= n /\ ~\E g : Holds(m, g)}
<1>1. ASSUME NEW t \in SUBSET (1..n), t # {}
      PROVE  Max(t) \in 1..n /\ t \ {Max(t)} \in SUBSET (1..n)
  BY <1>1, MaxIs
<1>2. Bad = {}
  <2>. SUFFICES ASSUME Bad # {} PROVE FALSE
    OBVIOUS
  <2>1. PICK m \in Bad : \A i \in Bad : m <= i
    <3>1. Bad \subseteq Nat
      OBVIOUS
    <3>. HIDE DEF Bad
    <3>. QED BY <3>1, Least
  <2>2. m \in Nat /\ m <= n /\ ~\E g : Holds(m, g)
    <3>. HIDE DEF Holds
    <3>. QED BY <2>1
  <2>3. CASE m = 0
    <3>. DEFINE g == [t \in SUBSET (1..n) |-> base]
    <3>1. g \in [SUBSET (1..n) -> Y]
      BY DEF Steps
    <3>2. \A t \in SUBSET (1..n) : t \subseteq 1..0 => g[t] = Body(g, t)
      OBVIOUS
    <3>3. Holds(0, g)
      BY <3>1, <3>2
    <3>. QED BY <2>2, <2>3, <3>3
  <2>4. CASE m # 0
    <3>1. m - 1 \in Nat /\ m - 1 <= n /\ m - 1 < m
      BY <2>2, <2>4
    <3>2. m - 1 \notin Bad
      <4>. HIDE DEF Bad
      <4>. QED BY <2>1, <2>2, <3>1
    <3>3. PICK g : Holds(m - 1, g)
      BY <3>1, <3>2
    <3>. DEFINE h == [t \in SUBSET (1..n) |-> IF t \subseteq 1..m - 1 THEN g[t] ELSE Body(g, t)]
    <3>4. h \in [SUBSET (1..n) -> Y]
      <4>1. ASSUME NEW t \in SUBSET (1..n)
            PROVE  g[t] \in Y /\ Body(g, t) \in Y
        <5>1. \A e \in SUBSET (1..n) : g[e] \in Y
          BY <3>3
        <5>2. CASE t = {}
          BY <5>1, <5>2 DEF Steps
        <5>3. CASE t # {}
          <6>1. <<Max(t), g[t \ {Max(t)}]>> \in (1..n) \X Y
            BY <1>1, <5>1, <5>3
          <6>. QED BY <5>1, <5>3, <6>1 DEF Steps
        <5>. QED BY <5>2, <5>3
      <4>. HIDE DEF Body
      <4>. QED BY <4>1
    <3>5. ASSUME NEW t \in SUBSET (1..n), t \subseteq 1..m
          PROVE  h[t] = Body(h, t)
      <4>1. h[t] = Body(g, t)
        BY <3>3
      <4>2. CASE t = {}
        BY <4>1, <4>2
      <4>3. CASE t # {}
        <5>. DEFINE e == t \ {Max(t)}
        <5>1. e \in SUBSET (1..n)
          BY <1>1, <4>3
        <5>2. e \subseteq 1..m - 1
          <6>1. Max(t) \in t /\ \A i \in t : i <= Max(t)
            BY <4>3, MaxIs
          <6>2. ASSUME NEW i \in e
                PROVE  i \in 1..m - 1
            <7>1. i \in t /\ i # Max(t) /\ i <= Max(t) /\ Max(t) \in 1..m /\ i \in 1..m
              BY <3>5, <6>1
            <7>. QED BY <2>2, <7>1
          <6>. QED BY <6>2
        <5>3. h[e] = g[e]
          BY <5>1, <5>2
        <5>. QED BY <4>1, <4>3, <5>3
      <4>. QED BY <4>2, <4>3
    <3>. HIDE DEF h, Body
    <3>6. Holds(m, h)
      BY <3>4, <3>5
    <3>. QED BY <2>2, <3>6
  <2>. QED BY <2>3, <2>4
<1>3. \E g : Holds(n, g)
  <2>. HIDE DEF Holds
  <2>1. n \in Nat /\ n <= n
    OBVIOUS
  <2>. QED BY <1>2, <2>1
<1>4. PICK g : Holds(n, g)
  BY <1>3
<1>5. \A t \in SUBSET (1..n) : g[t] = Body(g, t)
  BY <1>4
<1>6. g = [t \in SUBSET (1..n) |-> g[t]]
  BY <1>4
<1>7. g = [t \in SUBSET (1..n) |-> Body(g, t)]
  <2>. HIDE DEF Body, Holds
  <2>. QED BY <1>5, <1>6
<1>. QED BY <1>4, <1>7 DEF Folds

\* What holds of 0, and of i if it holds of i - 1, holds of all numbers up to n.
LEMMA UpTo ==
  ASSUME NEW n \in Nat, NEW P, 0 \in P, \A i \in 1..n : i - 1 \in P => i \in P
  PROVE  \A i \in 0..n : i \in P
<1>. DEFINE Bad == {i \in Nat : i <= n /\ i \notin P}
<1>1. Bad = {}
  <2>. SUFFICES ASSUME Bad # {} PROVE FALSE
    OBVIOUS
  <2>1. PICK m \in Bad : \A i \in Bad : m <= i
    <3>1. Bad \subseteq Nat
      OBVIOUS
    <3>. HIDE DEF Bad
    <3>. QED BY <3>1, Least
  <2>2. m \in Nat /\ m <= n /\ m \notin P
    BY <2>1
  <2>3. m # 0
    BY <2>2
  <2>4. m \in 1..n /\ m - 1 \in Nat /\ m - 1 <= n /\ m - 1 < m
    BY <2>2, <2>3
  <2>5. m - 1 \notin Bad
    <3>. HIDE DEF Bad
    <3>. QED BY <2>1, <2>2, <2>4
  <2>6. m - 1 \in P
    BY <2>4, <2>5
  <2>. QED BY <2>2, <2>4, <2>6
<1>. QED BY <1>1

\* The first places: those before the last of them are the first but one.
LEMMA FirstPlaces ==
  ASSUME NEW n \in Nat, NEW i \in 1..n
  PROVE  /\ 1..i \in SUBSET (1..n) /\ 1..i # {} /\ Max(1..i) = i /\ (1..i) \ {i} = 1..i - 1
         /\ i - 1 \in 0..n
<1>1. i \in Nat \ {0} /\ 1..i \in SUBSET (1..n) /\ i - 1 \in 0..n
  OBVIOUS
<1>. QED BY <1>1, MaxOfFirst

-----------------------------------------------------------------------------
(***************************************************************************)
(* Sums. Those of the first places of w are s.                             *)
(***************************************************************************)
Sums(w, n, s) == s \in [0..n -> Nat] /\ s[0] = 0 /\ \A i \in 1..n : s[i] = s[i - 1] + w[i]

\* Total() is the last of the sums.
LEMMA TotalExists ==
  ASSUME NEW n \in Nat, NEW w \in [1..n -> Nat]
  PROVE  \E s : Sums(w, n, s) /\ Total(w) = s[n]
<1>. DEFINE st == [p \in (1..n) \X Nat |-> p[2] + w[p[1]]]
            Onto(g) == [t \in SUBSET (1..n) |-> IF t = {} THEN 0 ELSE g[t \ {Max(t)}] + w[Max(t)]]
            h == CHOOSE g : g = Onto(g)
            a == [i \in 0..n |-> h[1..i]]
<1>1. Steps(n, Nat, 0, st)
  BY DEF Steps
<1>2. PICK g \in [SUBSET (1..n) -> Nat] : Folds(n, 0, st, g)
  BY <1>1, FoldExists
<1>3. g = Onto(g)
  <2>1. ASSUME NEW t \in SUBSET (1..n), t # {}
        PROVE  st[<<Max(t), g[t \ {Max(t)}]>>] = g[t \ {Max(t)}] + w[Max(t)]
    <3>1. Max(t) \in 1..n /\ t \ {Max(t)} \in SUBSET (1..n)
      BY <2>1, MaxIs
    <3>. DEFINE m == Max(t)
                e == g[t \ {m}]
    <3>2. m \in 1..n /\ e \in Nat
      BY <1>2, <3>1
    <3>. HIDE DEF m, e
    <3>3. st[<<m, e>>] = e + w[m]
      BY <3>2
    <3>. QED BY <3>3 DEF m, e
  <2>. HIDE DEF st
  <2>. QED BY <1>2, <2>1 DEF Folds
<1>4. h = Onto(h)
  BY <1>3
<1>5. Total(w) = h[1..n]
  <2>1. DOMAIN w = 1..n
    OBVIOUS
  <2>. QED BY <2>1 DEF Total, FoldLeft, MapThenFoldSet
<1>. HIDE DEF h
<1>6. a[0] = 0
  <2>1. 1..0 = {} /\ {} \in SUBSET (1..n) /\ 0 \in 0..n
    OBVIOUS
  <2>2. h[{}] = 0
    BY <1>4, <2>1
  <2>. QED BY <2>1, <2>2
<1>7. ASSUME NEW i \in 1..n
      PROVE  a[i] = a[i - 1] + w[i]
  <2>1. /\ 1..i \in SUBSET (1..n) /\ 1..i # {} /\ Max(1..i) = i /\ (1..i) \ {i} = 1..i - 1
        /\ i - 1 \in 0..n /\ i \in 0..n
    BY FirstPlaces
  <2>2. h[1..i] = h[1..i - 1] + w[i]
    BY <1>4, <2>1
  <2>. QED BY <2>1, <2>2
<1>8. \A i \in 0..n : a[i] \in Nat
  <2>. DEFINE P == {i \in 0..n : a[i] \in Nat}
  <2>. HIDE DEF a
  <2>1. 0 \in P
    BY <1>6
  <2>2. ASSUME NEW i \in 1..n, i - 1 \in P
        PROVE  i \in P
    <3>1. w[i] \in Nat
      OBVIOUS
    <3>. QED BY <1>7, <2>2, <3>1
  <2>. HIDE DEF P
  <2>3. \A i \in 0..n : i \in P
    BY <2>1, <2>2, UpTo
  <2>. QED BY <2>3 DEF P
<1>9. Sums(w, n, a)
  <2>1. a = [i \in 0..n |-> a[i]]
    OBVIOUS
  <2>. HIDE DEF a
  <2>2. a \in [0..n -> Nat]
    BY <1>8, <2>1
  <2>. QED BY <1>6, <1>7, <2>2 DEF Sums
<1>10. Total(w) = a[n]
  BY <1>5
<1>. HIDE DEF a
<1>. QED BY <1>9, <1>10

\* Sums are of one kind.
LEMMA SumsAreOne ==
  ASSUME NEW n \in Nat, NEW w, NEW s, NEW t, Sums(w, n, s), Sums(w, n, t)
  PROVE  s = t
<1>. DEFINE P == {i \in 0..n : s[i] = t[i]}
<1>1. 0 \in P
  BY DEF Sums
<1>2. ASSUME NEW i \in 1..n, i - 1 \in P
      PROVE  i \in P
  BY <1>2 DEF Sums
<1>. HIDE DEF P
<1>3. \A i \in 0..n : i \in P
  BY <1>1, <1>2, UpTo
<1>. QED BY <1>3 DEF P, Sums

\* A total is known by any function which has the sums.
LEMMA TotalIs ==
  ASSUME NEW n \in Nat, NEW w \in [1..n -> Nat], NEW s, Sums(w, n, s)
  PROVE  Total(w) = s[n]
<1>1. PICK t : Sums(w, n, t) /\ Total(w) = t[n]
  BY TotalExists
<1>2. s = t
  BY <1>1, SumsAreOne
<1>. QED BY <1>1, <1>2

\* The sums of the first places of w.
Prefix(w) == CHOOSE s : Sums(w, Len(w), s)

\* The sums of the first places exist, and the last is the total.
LEMMA PrefixIs ==
  ASSUME NEW n \in Nat, NEW w \in [1..n -> Nat]
  PROVE  Sums(w, n, Prefix(w)) /\ Total(w) = Prefix(w)[n] /\ Total(w) \in Nat
<1>1. Len(w) = n
  OBVIOUS
<1>2. PICK s : Sums(w, n, s)
  BY TotalExists
<1>3. Sums(w, n, Prefix(w))
  BY <1>1, <1>2 DEF Prefix
<1>4. Prefix(w)[n] \in Nat
  BY <1>3 DEF Sums
<1>. QED BY <1>3, <1>4, TotalIs

\* Sums grow.
LEMMA SumsGrow ==
  ASSUME NEW n \in Nat, NEW w \in [1..n -> Nat], NEW s, Sums(w, n, s),
         NEW i \in 0..n, NEW j \in i..n
  PROVE  s[i] \in Nat /\ s[j] \in Nat /\ s[i] <= s[j]
<1>. DEFINE P == {e \in 0..n : e < i \/ s[i] <= s[e]}
<1>1. \A e \in 0..n : s[e] \in Nat
  BY DEF Sums
<1>2. 0 \in P
  <2>1. i = 0 => s[i] <= s[0]
    BY <1>1
  <2>. QED BY <2>1
<1>3. ASSUME NEW e \in 1..n, e - 1 \in P
      PROVE  e \in P
  <2>1. s[e] = s[e - 1] + w[e] /\ w[e] \in Nat /\ s[e - 1] \in Nat /\ s[e] \in Nat /\ s[i] \in Nat
    BY <1>1 DEF Sums
  <2>2. CASE e < i
    BY <2>2
  <2>3. CASE e = i
    BY <2>1, <2>3
  <2>4. CASE e > i
    <3>1. s[i] <= s[e - 1]
      BY <1>3, <2>4
    <3>2. s[i] <= s[e]
      BY <2>1, <3>1
    <3>. QED BY <3>2
  <2>. QED BY <2>2, <2>3, <2>4
<1>. HIDE DEF P
<1>4. \A e \in 0..n : e \in P
  BY <1>2, <1>3, UpTo
<1>5. j \in 0..n /\ j >= i
  OBVIOUS
<1>. QED BY <1>1, <1>4, <1>5 DEF P

\* Each place up to the total is in one segment.
LEMMA SegmentExists ==
  ASSUME NEW n \in Nat, NEW w \in [1..n -> Nat], NEW s, Sums(w, n, s),
         NEW p \in 1..s[n]
  PROVE  \E i \in 1..n : s[i - 1] < p /\ p <= s[i]
<1>1. \A e \in 0..n : s[e] \in Nat
  BY DEF Sums
<1>2. SUFFICES ASSUME \A i \in 1..n : ~(s[i - 1] < p /\ p <= s[i])
               PROVE  FALSE
  OBVIOUS
<1>. DEFINE P == {e \in 0..n : s[e] < p}
<1>3. p \in Nat /\ p > 0 /\ p <= s[n]
  BY <1>1
<1>4. 0 \in P
  BY <1>3 DEF Sums
<1>5. ASSUME NEW e \in 1..n, e - 1 \in P
      PROVE  e \in P
  <2>1. s[e] \in Nat /\ s[e - 1] < p /\ ~(p <= s[e])
    BY <1>1, <1>2, <1>5
  <2>. QED BY <1>3, <2>1
<1>. HIDE DEF P
<1>6. \A e \in 0..n : e \in P
  BY <1>4, <1>5, UpTo
<1>7. n \in 0..n
  OBVIOUS
<1>. QED BY <1>1, <1>3, <1>6, <1>7 DEF P

\* Segments do not overlap.
LEMMA SegmentIsOne ==
  ASSUME NEW n \in Nat, NEW w \in [1..n -> Nat], NEW s, Sums(w, n, s),
         NEW p \in Nat, NEW i \in 1..n, NEW j \in 1..n,
         s[i - 1] < p, p <= s[i], s[j - 1] < p, p <= s[j]
  PROVE  i = j
<1>1. ASSUME NEW a \in 1..n, NEW b \in 1..n, a < b, p <= s[a], s[b - 1] < p
      PROVE  FALSE
  <2>1. a \in 0..n /\ b - 1 \in a..n
    BY <1>1
  <2>2. s[a] \in Nat /\ s[b - 1] \in Nat /\ s[a] <= s[b - 1]
    BY <2>1, SumsGrow
  <2>. QED BY <1>1, <2>2
<1>. QED BY <1>1

\* Totals add up.
LEMMA TotalOfSums ==
  ASSUME NEW n \in Nat, NEW u \in [1..n -> Nat], NEW v \in [1..n -> Nat]
  PROVE  /\ [i \in 1..n |-> u[i] + v[i]] \in [1..n -> Nat]
         /\ Total([i \in 1..n |-> u[i] + v[i]]) = Total(u) + Total(v)
<1>. DEFINE w == [i \in 1..n |-> u[i] + v[i]]
            a == Prefix(u)
            b == Prefix(v)
            s == [i \in 0..n |-> a[i] + b[i]]
<1>1. w \in [1..n -> Nat]
  OBVIOUS
<1>2. Sums(u, n, a) /\ Total(u) = a[n] /\ Sums(v, n, b) /\ Total(v) = b[n]
  BY PrefixIs
<1>. HIDE DEF a, b
<1>3. Sums(w, n, s)
  <2>1. \A i \in 0..n : a[i] \in Nat /\ b[i] \in Nat
    BY <1>2 DEF Sums
  <2>2. s \in [0..n -> Nat]
    BY <2>1
  <2>3. s[0] = 0
    BY <1>2 DEF Sums
  <2>4. ASSUME NEW i \in 1..n
        PROVE  s[i] = s[i - 1] + w[i]
    <3>1. i - 1 \in 0..n /\ i \in 0..n
      OBVIOUS
    <3>2. a[i] = a[i - 1] + u[i] /\ b[i] = b[i - 1] + v[i]
      BY <1>2 DEF Sums
    <3>3. a[i - 1] \in Nat /\ b[i - 1] \in Nat /\ u[i] \in Nat /\ v[i] \in Nat
      BY <2>1, <3>1
    <3>4. s[i] = a[i] + b[i] /\ s[i - 1] = a[i - 1] + b[i - 1] /\ w[i] = u[i] + v[i]
      BY <3>1
    <3>. QED BY <3>2, <3>3, <3>4
  <2>. QED BY <2>2, <2>3, <2>4 DEF Sums
<1>4. Total(w) = s[n]
  BY <1>1, <1>3, TotalIs
<1>5. n \in 0..n
  OBVIOUS
<1>. QED BY <1>1, <1>2, <1>4, <1>5

\* Greater numbers have no less a total.
LEMMA TotalGrows ==
  ASSUME NEW n \in Nat, NEW u \in [1..n -> Nat], NEW v \in [1..n -> Nat],
         \A i \in 1..n : u[i] <= v[i]
  PROVE  Total(u) <= Total(v)
<1>. DEFINE d == [i \in 1..n |-> v[i] - u[i]]
            e == [i \in 1..n |-> u[i] + d[i]]
<1>1. d \in [1..n -> Nat]
  <2>1. ASSUME NEW i \in 1..n
        PROVE  v[i] - u[i] \in Nat
    <3>1. u[i] \in Nat /\ v[i] \in Nat /\ u[i] <= v[i]
      OBVIOUS
    <3>. QED BY <3>1
  <2>. QED BY <2>1
<1>2. e = v
  <2>1. ASSUME NEW i \in 1..n
        PROVE  u[i] + d[i] = v[i]
    <3>1. u[i] \in Nat /\ v[i] \in Nat /\ d[i] = v[i] - u[i]
      OBVIOUS
    <3>. QED BY <3>1
  <2>. HIDE DEF d
  <2>. QED BY <2>1
<1>. HIDE DEF d
<1>3. Total(e) = Total(u) + Total(d)
  BY <1>1, TotalOfSums
<1>4. Total(u) \in Nat /\ Total(d) \in Nat
  BY <1>1, PrefixIs
<1>. HIDE DEF e
<1>. QED BY <1>2, <1>3, <1>4

\* The total of n times a number.
LEMMA TotalOfOne ==
  ASSUME NEW n \in Nat, NEW c \in Nat
  PROVE  [i \in 1..n |-> c] \in [1..n -> Nat] /\ Total([i \in 1..n |-> c]) = n * c
<1>. DEFINE w == [i \in 1..n |-> c]
            s == [i \in 0..n |-> i * c]
<1>1. w \in [1..n -> Nat]
  OBVIOUS
<1>2. \A i \in 0..n : i * c \in Nat
  OBVIOUS
<1>3. \A i \in 1..n : i * c = (i - 1) * c + c
  OBVIOUS
<1>4. Sums(w, n, s)
  <2>1. s \in [0..n -> Nat]
    BY <1>2
  <2>2. 0 * c = 0 /\ s[0] = 0 * c
    OBVIOUS
  <2>3. ASSUME NEW i \in 1..n
        PROVE  s[i] = s[i - 1] + w[i]
    <3>1. i \in 0..n /\ i - 1 \in 0..n
      OBVIOUS
    <3>2. s[i] = i * c /\ s[i - 1] = (i - 1) * c /\ w[i] = c
      BY <3>1
    <3>. QED BY <1>3, <3>2
  <2>. HIDE DEF s, w
  <2>. QED BY <2>1, <2>2, <2>3 DEF Sums
<1>5. Total(w) = s[n]
  BY <1>1, <1>4, TotalIs
<1>6. n \in 0..n
  OBVIOUS
<1>. QED BY <1>1, <1>5, <1>6

\* Zeros at the end add nothing.
Extends(n, m, w, v) ==
  /\ n \in Nat /\ m \in Nat /\ m <= n
  /\ w \in [1..n -> Nat] /\ v \in [1..m -> Nat]
  /\ \A i \in 1..n : w[i] = IF i <= m THEN v[i] ELSE 0

\* What is added to v to make it as long as w does not count.
LEMMA TotalExtended ==
  ASSUME NEW n, NEW m, NEW w, NEW v, Extends(n, m, w, v)
  PROVE  Total(w) = Total(v)
<1>0. /\ n \in Nat /\ m \in Nat /\ m <= n
      /\ w \in [1..n -> Nat] /\ v \in [1..m -> Nat]
      /\ \A i \in 1..n : w[i] = IF i <= m THEN v[i] ELSE 0
  BY DEF Extends
<1>. USE <1>0
<1>. DEFINE a == Prefix(v)
            s == [i \in 0..n |-> IF i <= m THEN a[i] ELSE a[m]]
<1>1. Sums(v, m, a) /\ Total(v) = a[m]
  BY PrefixIs
<1>. HIDE DEF a
<1>2. Sums(w, n, s)
  <2>1. \A i \in 0..m : a[i] \in Nat
    BY <1>1 DEF Sums
  <2>2. s \in [0..n -> Nat]
    BY <2>1
  <2>3. s[0] = 0
    BY <1>1 DEF Sums
  <2>4. ASSUME NEW i \in 1..n
        PROVE  s[i] = s[i - 1] + w[i]
    <3>1. /\ s[i] = IF i <= m THEN a[i] ELSE a[m]
          /\ s[i - 1] = IF i - 1 <= m THEN a[i - 1] ELSE a[m]
      OBVIOUS
    <3>2. CASE i <= m
      <4>1. i \in 1..m /\ i - 1 <= m
        BY <3>2
      <4>. QED BY <1>1, <3>1, <3>2, <4>1 DEF Sums
    <3>3. CASE i = m + 1
      <4>1. s[i] = a[m] /\ s[i - 1] = a[m] /\ w[i] = 0
        BY <3>1, <3>3
      <4>. QED BY <2>1, <4>1
    <3>4. CASE i > m + 1
      <4>1. s[i] = a[m] /\ s[i - 1] = a[m] /\ w[i] = 0
        BY <3>1, <3>4
      <4>. QED BY <2>1, <4>1
    <3>. QED BY <3>2, <3>3, <3>4
  <2>. HIDE DEF s
  <2>. QED BY <2>2, <2>3, <2>4 DEF Sums
<1>3. Total(w) = s[n]
  BY <1>2, TotalIs
<1>4. s[n] = a[m]
  OBVIOUS
<1>. QED BY <1>1, <1>3, <1>4

\* The total of the totals of segments is that of the whole. The segments of x
\* are as long as w has them, and their totals are v.
Segments(n, w, s, x, v) ==
  /\ n \in Nat /\ w \in [1..n -> Nat] /\ Sums(w, n, s)
  /\ x \in [1..s[n] -> Nat] /\ v \in [1..n -> Nat]
  /\ \A i \in 1..n : v[i] = Total([j \in 1..w[i] |-> x[s[i - 1] + j]])

\* It does not matter whether the places or the segments are added up.
LEMMA TotalOfSegments ==
  ASSUME NEW n, NEW w, NEW s, NEW x, NEW v, Segments(n, w, s, x, v)
  PROVE  Total(x) = Total(v)
<1>0. /\ n \in Nat /\ w \in [1..n -> Nat] /\ Sums(w, n, s)
      /\ x \in [1..s[n] -> Nat] /\ v \in [1..n -> Nat]
      /\ \A i \in 1..n : v[i] = Total([j \in 1..w[i] |-> x[s[i - 1] + j]])
  BY DEF Segments
<1>. USE <1>0
<1>. DEFINE size == s[n]
            a == Prefix(x)
            b == Prefix(v)
            P == {i \in 0..n : a[s[i]] = b[i]}
<1>1. /\ \A i \in 0..n : s[i] \in Nat
      /\ s[0] = 0 /\ \A i \in 1..n : s[i] = s[i - 1] + w[i]
      /\ size \in Nat
  BY DEF Sums
<1>. HIDE DEF size
<1>2. Sums(x, size, a) /\ Total(x) = a[size] /\ Sums(v, n, b) /\ Total(v) = b[n]
  BY <1>1, PrefixIs DEF size
<1>. HIDE DEF a, b
<1>3. 0 \in P
  BY <1>1, <1>2 DEF Sums
<1>4. ASSUME NEW i \in 1..n, i - 1 \in P
      PROVE  i \in P
  <2>. DEFINE q == s[i - 1]
              m == w[i]
              y == [j \in 1..m |-> x[q + j]]
              c == Prefix(y)
              Q == {j \in 0..m : a[q + j] = a[q] + c[j]}
  <2>1. q \in Nat /\ m \in Nat /\ s[i] = q + m /\ i - 1 \in 0..n /\ i \in 0..n
    BY <1>1
  <2>2. q + m <= size
    <3>1. n \in i..n
      OBVIOUS
    <3>. QED BY <2>1, <3>1, SumsGrow DEF size
  <2>3. v[i] = Total(y)
    OBVIOUS
  <2>. HIDE DEF q, m
  <2>4. \A j \in 1..m : q + j \in 1..size
    BY <1>1, <2>1, <2>2
  <2>5. y \in [1..m -> Nat]
    BY <2>4 DEF size
  <2>. HIDE DEF y
  <2>6. Sums(y, m, c) /\ Total(y) = c[m]
    BY <2>1, <2>5, PrefixIs
  <2>. HIDE DEF c
  <2>7. \A e \in 0..size : a[e] \in Nat
    BY <1>2 DEF Sums
  <2>8. 0 \in Q
    <3>1. q + 0 = q /\ q \in 0..size
      BY <1>1, <2>1, <2>2
    <3>2. c[0] = 0 /\ a[q] \in Nat
      BY <2>6, <2>7, <3>1 DEF Sums
    <3>3. 0 \in 0..m /\ a[q + 0] = a[q] + c[0]
      BY <2>1, <3>1, <3>2
    <3>. QED BY <3>3
  <2>9. ASSUME NEW j \in 1..m, j - 1 \in Q
        PROVE  j \in Q
    <3>1. a[q + j] = a[(q + j) - 1] + x[q + j]
      BY <1>2, <2>4 DEF Sums
    <3>2. (q + j) - 1 = q + (j - 1)
      BY <2>1
    <3>3. a[q + (j - 1)] = a[q] + c[j - 1]
      BY <2>9
    <3>4. c[j] = c[j - 1] + y[j] /\ c[j - 1] \in Nat /\ y[j] = x[q + j]
      <4>1. j - 1 \in 0..m
        BY <2>1
      <4>2. c[j] = c[j - 1] + y[j] /\ c[j - 1] \in Nat
        BY <2>6, <4>1 DEF Sums
      <4>. QED BY <4>2 DEF y
    <3>5. x[q + j] \in Nat /\ a[q] \in Nat
      <4>1. q \in 0..size
        BY <1>1, <2>1, <2>2
      <4>. QED BY <2>4, <2>7, <4>1 DEF size
    <3>6. a[q + j] = a[q] + c[j]
      BY <3>1, <3>2, <3>3, <3>4, <3>5
    <3>7. j \in 0..m
      BY <2>1
    <3>. QED BY <3>6, <3>7
  <2>. HIDE DEF Q
  <2>10. \A j \in 0..m : j \in Q
    BY <2>1, <2>8, <2>9, UpTo
  <2>11. m \in 0..m
    BY <2>1
  <2>12. a[q + m] = a[q] + c[m]
    BY <2>10, <2>11 DEF Q
  <2>13. a[q] = b[i - 1]
    BY <1>4 DEF q
  <2>14. b[i] = b[i - 1] + v[i]
    BY <1>2 DEF Sums
  <2>15. a[s[i]] = b[i]
    BY <2>1, <2>3, <2>6, <2>12, <2>13, <2>14
  <2>. QED BY <2>1, <2>15
<1>. HIDE DEF P
<1>5. \A i \in 0..n : i \in P
  BY <1>3, <1>4, UpTo
<1>6. n \in 0..n
  OBVIOUS
<1>7. a[s[n]] = b[n]
  BY <1>5, <1>6 DEF P
<1>. QED BY <1>2, <1>7 DEF size

\* Rows may be added up first, or columns.
LEMMA TotalsExchanged ==
  ASSUME NEW n \in Nat, NEW m \in Nat, NEW x \in [1..n -> [1..m -> Nat]]
  PROVE  /\ [i \in 1..n |-> Total(x[i])] \in [1..n -> Nat]
         /\ [j \in 1..m |-> Total([i \in 1..n |-> x[i][j]])] \in [1..m -> Nat]
         /\ Total([i \in 1..n |-> Total(x[i])]) = Total([j \in 1..m |-> Total([i \in 1..n |-> x[i][j]])])
<1>. DEFINE col(j) == [i \in 1..n |-> x[i][j]]
            w == [i \in 1..n |-> Total(x[i])]
            v == [j \in 1..m |-> Total(col(j))]
            upto(i) == [j \in 1..m |-> Prefix(col(j))[i]]
            s == [i \in 0..n |-> Total(upto(i))]
<1>1. ASSUME NEW i \in 1..n
      PROVE  x[i] \in [1..m -> Nat]
  OBVIOUS
<1>2. w \in [1..n -> Nat]
  <2>1. \A i \in 1..n : Total(x[i]) \in Nat
    BY <1>1, PrefixIs
  <2>. QED BY <2>1
<1>3. ASSUME NEW j \in 1..m
      PROVE  /\ col(j) \in [1..n -> Nat]
             /\ Sums(col(j), n, Prefix(col(j))) /\ Total(col(j)) = Prefix(col(j))[n]
             /\ Total(col(j)) \in Nat
  <2>1. col(j) \in [1..n -> Nat]
    BY <1>1
  <2>. HIDE DEF col
  <2>. QED BY <2>1, PrefixIs
<1>4. v \in [1..m -> Nat]
  <2>. HIDE DEF col
  <2>. QED BY <1>3
<1>5. ASSUME NEW i \in 0..n
      PROVE  upto(i) \in [1..m -> Nat]
  <2>1. ASSUME NEW j \in 1..m
        PROVE  Prefix(col(j))[i] \in Nat
    BY <1>3 DEF Sums
  <2>. HIDE DEF col
  <2>. QED BY <2>1
<1>6. Sums(w, n, s)
  <2>1. s \in [0..n -> Nat]
    <3>1. ASSUME NEW i \in 0..n
          PROVE  Total(upto(i)) \in Nat
      <4>1. upto(i) \in [1..m -> Nat]
        BY <1>5
      <4>. HIDE DEF upto
      <4>. QED BY <4>1, PrefixIs
    <3>. HIDE DEF upto
    <3>. QED BY <3>1
  <2>2. s[0] = 0
    <3>. DEFINE zero == [j \in 1..m |-> 0]
    <3>1. ASSUME NEW j \in 1..m
          PROVE  Prefix(col(j))[0] = 0
      BY <1>3 DEF Sums
    <3>2. upto(0) = zero
      <4>. HIDE DEF col
      <4>. QED BY <3>1
    <3>3. Total(zero) = m * 0
      <4>1. 0 \in Nat
        OBVIOUS
      <4>. QED BY <4>1, TotalOfOne
    <3>4. s[0] = Total(upto(0))
      <4>1. 0 \in 0..n
        OBVIOUS
      <4>. HIDE DEF upto
      <4>. QED BY <4>1
    <3>. HIDE DEF upto, zero, s
    <3>. QED BY <3>2, <3>3, <3>4
  <2>3. ASSUME NEW i \in 1..n
        PROVE  s[i] = s[i - 1] + w[i]
    <3>. DEFINE u == upto(i - 1)
                y == x[i]
                z == [j \in 1..m |-> u[j] + y[j]]
    <3>1. i - 1 \in 0..n /\ i \in 0..n
      OBVIOUS
    <3>2. u \in [1..m -> Nat] /\ y \in [1..m -> Nat]
      BY <1>1, <1>5, <3>1
    <3>3. ASSUME NEW j \in 1..m
          PROVE  Prefix(col(j))[i] = u[j] + y[j]
      <4>1. Prefix(col(j))[i] = Prefix(col(j))[i - 1] + col(j)[i]
        BY <1>3 DEF Sums
      <4>2. col(j)[i] = y[j] /\ u[j] = Prefix(col(j))[i - 1]
        OBVIOUS
      <4>. QED BY <4>1, <4>2
    <3>4. upto(i) = z
      <4>. HIDE DEF u, y, col
      <4>. QED BY <3>3
    <3>. HIDE DEF u, y
    <3>5. Total(z) = Total(u) + Total(y)
      BY <3>2, TotalOfSums
    <3>. HIDE DEF z, upto
    <3>6. s[i] = Total(upto(i)) /\ s[i - 1] = Total(u) /\ w[i] = Total(y)
      BY <3>1 DEF u, y
    <3>. QED BY <3>4, <3>5, <3>6
  <2>. HIDE DEF s, w
  <2>. QED BY <2>1, <2>2, <2>3 DEF Sums
<1>7. Total(w) = s[n]
  <2>. HIDE DEF w, s
  <2>. QED BY <1>2, <1>6, TotalIs
<1>8. s[n] = Total(upto(n))
  <2>1. n \in 0..n
    OBVIOUS
  <2>. HIDE DEF upto
  <2>. QED BY <2>1
<1>9. upto(n) = v
  <2>. HIDE DEF col
  <2>. QED BY <1>3
<1>. HIDE DEF upto, s
<1>10. Total(w) = Total(v)
  BY <1>7, <1>8, <1>9
<1>. QED BY <1>2, <1>4, <1>10

-----------------------------------------------------------------------------
(***************************************************************************)
(* What FlattenSeq and Largest return.                                     *)
(***************************************************************************)
Sizes(s) == [i \in 1..Len(s) |-> Len(s[i])]

\* The sequences of s lie one after the other in t.
Flattened(s, S, t) ==
  /\ Sizes(s) \in [1..Len(s) -> Nat]
  /\ Sums(Sizes(s), Len(s), Prefix(Sizes(s)))
  /\ t \in [1..Total(Sizes(s)) -> S]
  /\ \A i \in 1..Len(s) : \A j \in 1..Len(s[i]) :
       /\ Prefix(Sizes(s))[i - 1] + j \in 1..Total(Sizes(s))
       /\ t[Prefix(Sizes(s))[i - 1] + j] = s[i][j]

\* FlattenSeq puts every sequence where those before it end.
LEMMA FlattenAt ==
  ASSUME NEW S, NEW s \in Seq(Seq(S))
  PROVE  Flattened(s, S, FlattenSeq(s))
<1>. DEFINE n == Len(s)
            w == Sizes(s)
            a == Prefix(w)
            size == Total(w)
            InSegment(p, i) == a[i - 1] < p /\ p <= a[i]
            seg(p) == CHOOSE i \in 1..n : InSegment(p, i)
            t == [p \in 1..size |-> s[seg(p)][p - a[seg(p) - 1]]]
<1>1. n \in Nat /\ \A i \in 1..n : s[i] \in Seq(S) /\ Len(s[i]) \in Nat /\ w[i] = Len(s[i])
  BY DEF Sizes
<1>2. w \in [1..n -> Nat]
  BY <1>1 DEF Sizes
<1>. HIDE DEF w
<1>3. Sums(w, n, a) /\ size = a[n] /\ size \in Nat
  BY <1>1, <1>2, PrefixIs
<1>4. /\ a[0] = 0 /\ \A i \in 0..n : a[i] \in Nat
      /\ \A i \in 1..n : a[i] = a[i - 1] + w[i]
  BY <1>3 DEF Sums
<1>5. ASSUME NEW i \in 1..n, NEW j \in 1..w[i]
      PROVE  /\ a[i - 1] + j \in 1..size
             /\ InSegment(a[i - 1] + j, i)
  <2>1. i - 1 \in 0..n /\ i \in 0..n /\ n \in i..n
    BY <1>1
  <2>2. a[i] <= a[n]
    BY <1>1, <1>2, <1>3, <2>1, SumsGrow
  <2>3. a[i - 1] \in Nat /\ a[i] = a[i - 1] + w[i] /\ w[i] \in Nat /\ a[n] \in Nat
    BY <1>1, <1>4, <2>1
  <2>4. a[i - 1] < a[i - 1] + j /\ a[i - 1] + j <= a[i] /\ a[i - 1] + j <= a[n]
    BY <2>2, <2>3
  <2>. HIDE DEF a
  <2>. QED BY <1>3, <2>3, <2>4
<1>. HIDE DEF a, size
<1>6. ASSUME NEW p \in 1..size, NEW i \in 1..n, InSegment(p, i)
      PROVE  seg(p) = i
  <2>1. p \in Nat
    BY <1>3
  <2>2. seg(p) \in 1..n /\ InSegment(p, seg(p))
    <3>. HIDE DEF InSegment
    <3>. QED BY <1>6
  <2>. HIDE DEF seg
  <2>. QED BY <1>1, <1>2, <1>3, <1>6, <2>1, <2>2, SegmentIsOne
<1>7. ASSUME NEW p \in 1..size
      PROVE  /\ seg(p) \in 1..n /\ InSegment(p, seg(p))
             /\ p - a[seg(p) - 1] \in 1..w[seg(p)]
  <2>1. p \in 1..a[n]
    BY <1>3
  <2>2. \E i \in 1..n : InSegment(p, i)
    BY <1>1, <1>2, <1>3, <2>1, SegmentExists
  <2>3. seg(p) \in 1..n /\ InSegment(p, seg(p))
    <3>. HIDE DEF InSegment
    <3>. QED BY <2>2
  <2>. HIDE DEF seg
  <2>4. a[seg(p) - 1] \in Nat /\ w[seg(p)] \in Nat /\ a[seg(p)] = a[seg(p) - 1] + w[seg(p)] /\ p \in Nat
    <3>1. seg(p) - 1 \in 0..n
      BY <1>1, <2>3
    <3>. QED BY <1>2, <1>3, <1>4, <2>3, <3>1
  <2>5. p - a[seg(p) - 1] \in 1..w[seg(p)]
    BY <2>3, <2>4
  <2>. QED BY <2>3, <2>5
<1>8. t \in [1..size -> S]
  <2>1. ASSUME NEW p \in 1..size
        PROVE  s[seg(p)][p - a[seg(p) - 1]] \in S
    <3>1. seg(p) \in 1..n /\ p - a[seg(p) - 1] \in 1..w[seg(p)]
      BY <1>7
    <3>. HIDE DEF seg
    <3>2. s[seg(p)] \in Seq(S) /\ p - a[seg(p) - 1] \in 1..Len(s[seg(p)])
      BY <1>1, <3>1
    <3>. QED BY <3>2
  <2>. HIDE DEF seg
  <2>. QED BY <2>1
<1>9. ASSUME NEW i \in 1..n, NEW j \in 1..w[i]
      PROVE  t[a[i - 1] + j] = s[i][j]
  <2>. DEFINE p == a[i - 1] + j
  <2>1. p \in 1..size /\ InSegment(p, i)
    BY <1>5
  <2>2. seg(p) = i
    BY <1>6, <2>1
  <2>3. p - a[i - 1] = j
    <3>1. i - 1 \in 0..n
      BY <1>1
    <3>2. a[i - 1] \in Nat /\ j \in Nat
      BY <1>2, <1>4, <3>1
    <3>. QED BY <3>2
  <2>. HIDE DEF p, seg
  <2>4. t[p] = s[i][j]
    BY <2>1, <2>2, <2>3
  <2>. QED BY <2>4 DEF p
<1>. HIDE DEF t
<1>10. FlattenSeq(s) = t
  <2>1. CASE n = 0
    <3>1. s = <<>> /\ FlattenSeq(s) = s
      BY <1>1, <2>1, EmptySeq DEF FlattenSeq
    <3>2. size = 0
      BY <1>3, <1>4, <2>1
    <3>3. t = <<>>
      BY <1>8, <3>2
    <3>. QED BY <3>1, <3>3
  <2>2. CASE n # 0
    <3>. DEFINE g == [i \in 1..n |-> [p \in 1..a[i] |-> t[p]]]
                e(i) == IF i = 1 THEN s[i] ELSE g[i - 1] \o s[i]
    <3>1. ASSUME NEW i \in 0..n
          PROVE  /\ a[i] \in Nat /\ a[i] <= size
                 /\ [p \in 1..a[i] |-> t[p]] \in Seq(S)
                 /\ Len([p \in 1..a[i] |-> t[p]]) = a[i]
      <4>1. i \in 0..n /\ n \in i..n
        BY <1>1
      <4>2. a[i] \in Nat /\ a[i] <= size /\ size \in Nat
        BY <1>1, <1>2, <1>3, <4>1, SumsGrow
      <4>3. \A p \in 1..a[i] : p \in 1..size
        BY <4>2
      <4>4. [p \in 1..a[i] |-> t[p]] \in [1..a[i] -> S]
        BY <1>8, <4>3
      <4>. DEFINE m == a[i]
                  l == [p \in 1..m |-> t[p]]
      <4>5. m \in Nat /\ m <= size /\ l \in [1..m -> S]
        BY <4>2, <4>4
      <4>. HIDE DEF m, l
      <4>6. l \in Seq(S) /\ Len(l) = m
        BY <4>5
      <4>. QED BY <4>5, <4>6 DEF m, l
    <3>2. ASSUME NEW i \in 1..n
          PROVE  [p \in 1..a[i] |-> t[p]] = e(i)
      <4>. DEFINE q == a[i - 1]
                  h == [p \in 1..a[i] |-> t[p]]
                  l == [p \in 1..q |-> t[p]]
      <4>1. i - 1 \in 0..n /\ i \in 0..n
        BY <1>1
      <4>2. /\ q \in Nat /\ w[i] \in Nat /\ a[i] = q + w[i] /\ s[i] \in Seq(S) /\ Len(s[i]) = w[i]
            /\ l \in Seq(S) /\ Len(l) = q /\ h \in Seq(S) /\ Len(h) = a[i]
        BY <1>1, <1>4, <3>1, <4>1
      <4>3. \A p \in 1..q : l[p] = t[p] /\ h[p] = t[p]
        BY <4>2
      <4>4. \A j \in 1..w[i] : h[q + j] = s[i][j]
        <5>1. ASSUME NEW j \in 1..w[i]
              PROVE  h[q + j] = s[i][j]
          <6>1. q + j \in 1..a[i]
            BY <4>2
          <6>2. t[q + j] = s[i][j]
            BY <1>9
          <6>. QED BY <6>1, <6>2
        <5>. QED BY <5>1
      <4>5. i # 1 => e(i) = l \o s[i]
        <5>1. i # 1 => i - 1 \in 1..n
          BY <1>1
        <5>. QED BY <5>1
      <4>. HIDE DEF q, h, l, e
      <4>6. h = l \o s[i]
        <5>. DEFINE r == s[i]
                    lr == l \o r
        <5>3. l \in Seq(S) /\ r \in Seq(S) /\ Len(l) = q /\ Len(r) = w[i]
          BY <4>2
        <5>. HIDE DEF r
        <5>4. /\ l \o r \in Seq(S) /\ Len(l \o r) = Len(l) + Len(r)
              /\ \A p \in 1..Len(l) + Len(r) : (l \o r)[p] = IF p <= Len(l) THEN l[p] ELSE r[p - Len(l)]
          BY <5>3, ConcatProperties
        <5>. HIDE DEF lr
        <5>5. /\ lr \in Seq(S) /\ Len(lr) = q + w[i]
              /\ \A p \in 1..q + w[i] : lr[p] = IF p <= q THEN l[p] ELSE r[p - q]
          BY <5>3, <5>4 DEF lr
        <5>1. l \o s[i] \in Seq(S) /\ Len(l \o s[i]) = q + w[i]
          BY <5>5 DEF lr, r
        <5>2. ASSUME NEW p \in 1..q + w[i]
              PROVE  h[p] = (l \o s[i])[p]
          <6>1. CASE p <= q
            <7>1. p \in 1..q
              BY <4>2, <6>1
            <7>2. (l \o s[i])[p] = l[p]
              BY <5>5, <6>1 DEF lr, r
            <7>. QED BY <4>3, <7>1, <7>2
          <6>2. CASE ~(p <= q)
            <7>1. p - q \in 1..w[i] /\ q + (p - q) = p
              BY <4>2, <6>2
            <7>2. (l \o s[i])[p] = s[i][p - q]
              BY <5>5, <6>2 DEF lr, r
            <7>3. h[q + (p - q)] = s[i][p - q]
              BY <4>4, <7>1
            <7>. QED BY <7>1, <7>2, <7>3
          <6>. QED BY <6>1, <6>2
        <5>. QED BY <4>2, <5>1, <5>2, SeqEqual
      <4>7. i = 1 => l \o s[i] = s[i]
        <5>1. i = 1 => q = 0
          BY <1>4 DEF q
        <5>2. i = 1 => l = <<>>
          BY <4>2, <5>1, EmptySeq
        <5>. QED BY <4>2, <5>2, ConcatEmptySeq
      <4>8. i = 1 => e(i) = s[i]
        BY DEF e
      <4>9. h = e(i)
        BY <4>5, <4>6, <4>7, <4>8
      <4>. QED BY <4>9 DEF h
    <3>3. Flattens(s, g)
      <4>1. g = [i \in 1..n |-> [p \in 1..a[i] |-> t[p]]]
        OBVIOUS
      <4>. HIDE DEF g, e
      <4>2. g = [i \in 1..n |-> e(i)]
        BY <3>2, <4>1, Zenon
      <4>. QED BY <4>2 DEF Flattens, e
    <3>4. FlattenSeq(s) = g[n]
      <4>1. n \in Nat \ {0}
        BY <1>1, <2>2
      <4>. HIDE DEF g
      <4>. QED BY <3>3, <4>1, FlattenIs
    <3>5. g[n] = t
      <4>1. n \in 1..n
        BY <1>1, <2>2
      <4>2. g[n] = [p \in 1..size |-> t[p]]
        BY <1>3, <4>1
      <4>. QED BY <1>8, <4>2
    <3>. QED BY <3>4, <3>5
  <2>. QED BY <2>1, <2>2
<1>11. \A i \in 1..n : \A j \in 1..Len(s[i]) :
          a[i - 1] + j \in 1..size /\ t[a[i - 1] + j] = s[i][j]
  BY <1>1, <1>5, <1>9
<1>. QED BY <1>2, <1>3, <1>8, <1>10, <1>11 DEF Flattened, w, a, size

\* Largest() is no less than any of the numbers.
LEMMA LargestIs ==
  ASSUME NEW n \in Nat, NEW w \in [1..n -> Nat]
  PROVE  Largest(w) \in Nat /\ \A i \in 1..n : w[i] <= Largest(w)
<1>. DEFINE Over(e, m) == IF e > m THEN e ELSE m
            st == [p \in (1..n) \X Nat |-> Over(w[p[1]], p[2])]
            Onto(g) == [t \in SUBSET (1..n) |->
                          IF t = {} THEN 0 ELSE Over(w[Max(t)], g[t \ {Max(t)}])]
            h == CHOOSE g : g = Onto(g)
            a == [i \in 0..n |-> h[1..i]]
<1>1. Steps(n, Nat, 0, st)
  BY DEF Steps
<1>2. PICK g \in [SUBSET (1..n) -> Nat] : Folds(n, 0, st, g)
  BY <1>1, FoldExists
<1>3. g = Onto(g)
  <2>1. ASSUME NEW t \in SUBSET (1..n), t # {}
        PROVE  st[<<Max(t), g[t \ {Max(t)}]>>] = Over(w[Max(t)], g[t \ {Max(t)}])
    <3>1. Max(t) \in 1..n /\ t \ {Max(t)} \in SUBSET (1..n)
      BY <2>1, MaxIs
    <3>. DEFINE m == Max(t)
                e == g[t \ {m}]
    <3>2. m \in 1..n /\ e \in Nat
      BY <1>2, <3>1
    <3>. HIDE DEF m, e, Over
    <3>3. st[<<m, e>>] = Over(w[m], e)
      BY <3>2
    <3>. QED BY <3>3 DEF m, e
  <2>. HIDE DEF st, Over
  <2>. QED BY <1>2, <2>1 DEF Folds
<1>4. h = Onto(h)
  BY <1>3
<1>5. Largest(w) = h[1..n]
  <2>1. DOMAIN w = 1..n
    OBVIOUS
  <2>. QED BY <2>1 DEF Largest, FoldLeft, MapThenFoldSet
<1>. HIDE DEF h
<1>6. a[0] = 0
  <2>1. 1..0 = {} /\ {} \in SUBSET (1..n) /\ 0 \in 0..n
    OBVIOUS
  <2>2. h[{}] = 0
    BY <1>4, <2>1
  <2>. QED BY <2>1, <2>2
<1>7. ASSUME NEW i \in 1..n
      PROVE  a[i] = Over(w[i], a[i - 1])
  <2>1. /\ 1..i \in SUBSET (1..n) /\ 1..i # {} /\ Max(1..i) = i /\ (1..i) \ {i} = 1..i - 1
        /\ i - 1 \in 0..n /\ i \in 0..n
    BY FirstPlaces
  <2>. HIDE DEF Over
  <2>2. h[1..i] = Over(w[i], h[1..i - 1])
    BY <1>4, <2>1
  <2>. QED BY <2>1, <2>2
<1>8. a[n] = Largest(w)
  BY <1>5
<1>. HIDE DEF a
<1>. DEFINE P == {i \in 0..n : a[i] \in Nat /\ \A j \in 1..i : w[j] <= a[i]}
<1>9. 0 \in P
  BY <1>6
<1>10. ASSUME NEW i \in 1..n, i - 1 \in P
       PROVE  i \in P
  <2>1. a[i - 1] \in Nat /\ w[i] \in Nat /\ \A j \in 1..i - 1 : w[j] \in Nat /\ w[j] <= a[i - 1]
    BY <1>10
  <2>2. a[i] \in Nat /\ w[i] <= a[i] /\ a[i - 1] <= a[i]
    BY <1>7, <2>1
  <2>3. ASSUME NEW j \in 1..i
        PROVE  w[j] <= a[i]
    <3>1. j = i \/ j \in 1..i - 1
      OBVIOUS
    <3>. QED BY <2>1, <2>2, <3>1
  <2>. QED BY <2>2, <2>3
<1>. HIDE DEF P
<1>11. \A i \in 0..n : i \in P
  BY <1>9, <1>10, UpTo
<1>12. n \in 0..n
  OBVIOUS
<1>13. a[n] \in Nat /\ \A j \in 1..n : w[j] <= a[n]
  BY <1>11, <1>12 DEF P
<1>. QED BY <1>8, <1>13

-----------------------------------------------------------------------------
(***************************************************************************)
(* The parts of a layout: each argument fits its part, and with the gap    *)
(* the parts of a line are as wide as the block.                           *)
(***************************************************************************)
Arrays(args) == args \in Seq(Seq(Seq(Cell))) /\ \A n \in DOMAIN args : Array(args[n])

Parts(args) == [rows: Nat, cols: Nat, arg: 0..Len(args)]

\* A part takes no more of its argument than there is.
Fits(args) ==
  {p \in Parts(args) :
     IF p.arg = PADDING THEN p.rows = 0
     ELSE /\ p.arg \in DOMAIN args
          /\ \A i \in 1..p.rows : /\ i \in 1..Len(args[p.arg]) /\ args[p.arg][i] \in Seq(Cell)
                                  /\ p.cols <= Len(args[p.arg][i])}

\* An array's view is within it.
LEMMA ViewWithin ==
  ASSUME NEW a, Array(a)
  PROVE  /\ TrimmedRows(a) \in Nat /\ TrimmedRows(a) <= Len(a) /\ TrimmedCols(a) \in Nat
         /\ Len(a) \in Nat
         /\ \A i \in 1..Len(a) : a[i] \in Seq(Cell) /\ TrimmedCols(a) <= Len(a[i]) /\ Width(a) = Len(a[i])
<1>. DEFINE n == TrimmedRows(a)
            m == TrimmedCols(a)
<1>1. Len(a) \in Nat /\ DOMAIN a = 1..Len(a) /\ \A i \in 1..Len(a) : a[i] \in Seq(Cell)
  BY DEF Array
<1>2. n \in 0..Len(a)
  BY <1>1, LastOfWithin DEF TrimmedRows
<1>3. a # <<>> => 1 \in 1..Len(a) /\ Width(a) = Len(a[1])
  BY <1>1 DEF Width, Array
<1>4. Width(a) \in Nat
  BY <1>1, <1>3 DEF Width
<1>5. m \in 0..Width(a)
  BY <1>4, LastOfWithin DEF TrimmedCols
<1>6. ASSUME NEW i \in 1..Len(a)
      PROVE  a[i] \in Seq(Cell) /\ Width(a) = Len(a[i])
  <2>1. i \in DOMAIN a /\ 1 \in DOMAIN a /\ a # <<>>
    BY <1>1
  <2>. QED BY <2>1, <1>1, <1>3 DEF Array
<1>. HIDE DEF n, m
<1>. QED BY <1>1, <1>2, <1>4, <1>5, <1>6 DEF n, m

\* Each part of a line fits its argument, and a padding has no size.
LEMMA PartsFit ==
  ASSUME NEW args, Arrays(args), NEW line \in Seq(0..Len(args))
  PROVE  /\ DOMAIN LineParts(line, args) = 1..Len(line) /\ Len(line) \in Nat
         /\ \A m \in 1..Len(line) :
              /\ LineParts(line, args)[m] \in Fits(args)
              /\ LineParts(line, args)[m].arg = line[m]
              /\ line[m] = PADDING => LineParts(line, args)[m] = Part(0, 0, PADDING)
<1>1. DOMAIN line = 1..Len(line) /\ Len(line) \in Nat /\ Len(args) \in Nat
  BY DEF Arrays
<1>2. ASSUME NEW m \in 1..Len(line)
      PROVE  /\ LineParts(line, args)[m] \in Fits(args)
             /\ LineParts(line, args)[m].arg = line[m]
             /\ line[m] = PADDING => LineParts(line, args)[m] = Part(0, 0, PADDING)
  <2>. DEFINE p == LineParts(line, args)[m]
              a == args[line[m]]
  <2>1. line[m] \in 0..Len(args)
    BY <1>1
  <2>2. p = IF line[m] = PADDING THEN Part(0, 0, PADDING) ELSE Sized(a, line[m])
    BY <1>1 DEF LineParts
  <2>3. CASE line[m] = PADDING
    <3>1. p = Part(0, 0, PADDING) /\ 0 \in 0..Len(args)
      BY <1>1, <2>2, <2>3
    <3>2. Part(0, 0, PADDING) \in Fits(args) /\ Part(0, 0, PADDING).arg = PADDING
      BY <3>1 DEF Fits, Parts, Part, PADDING
    <3>. QED BY <2>3, <3>1, <3>2
  <2>4. CASE line[m] # PADDING
    <3>1. line[m] \in 1..Len(args) /\ line[m] \in DOMAIN args
      BY <1>1, <2>1, <2>4 DEF PADDING, Arrays
    <3>2. Array(a)
      BY <3>1 DEF Arrays
    <3>3. /\ TrimmedRows(a) \in Nat /\ TrimmedRows(a) <= Len(a) /\ TrimmedCols(a) \in Nat
          /\ Len(a) \in Nat
          /\ \A i \in 1..Len(a) : a[i] \in Seq(Cell) /\ TrimmedCols(a) <= Len(a[i]) /\ Width(a) = Len(a[i])
      BY <3>2, ViewWithin
    <3>4. p = Sized(a, line[m])
      BY <2>2, <2>4
    <3>. DEFINE e == line[m]
    <3>5. e \in 0..Len(args) /\ e \in DOMAIN args /\ e # PADDING /\ args[e] = a
      BY <2>1, <2>4, <3>1
    <3>. HIDE DEF e, p, a
    <3>6. /\ p.rows \in Nat /\ p.cols \in Nat /\ p.arg = e /\ p = Part(p.rows, p.cols, p.arg)
          /\ \A i \in 1..p.rows : i \in 1..Len(a) /\ a[i] \in Seq(Cell) /\ p.cols <= Len(a[i])
      <4>1. CASE Single(a)
        <5>1. p = Part(1, 1, e) /\ Len(a) = 1 /\ Width(a) = 1
          BY <3>4, <4>1 DEF Sized, Single, e
        <5>2. p.rows = 1 /\ p.cols = 1 /\ p.arg = e
          BY <5>1 DEF Part
        <5>3. \A i \in 1..p.rows : i \in 1..Len(a) /\ a[i] \in Seq(Cell) /\ p.cols <= Len(a[i])
          <6>1. ASSUME NEW i \in 1..p.rows
                PROVE  i \in 1..Len(a) /\ a[i] \in Seq(Cell) /\ p.cols <= Len(a[i])
            <7>1. i = 1 /\ i \in 1..Len(a)
              BY <5>1, <5>2
            <7>2. a[i] \in Seq(Cell) /\ Width(a) = Len(a[i])
              BY <3>3, <7>1
            <7>3. Len(a[i]) = 1 /\ p.cols = 1
              BY <5>1, <5>2, <7>2
            <7>4. p.cols <= Len(a[i])
              BY <7>3
            <7>. QED BY <7>1, <7>2, <7>4
          <6>. QED BY <6>1
        <5>. QED BY <5>1, <5>2, <5>3
      <4>2. CASE ~Single(a)
        <5>1. p = Part(TrimmedRows(a), TrimmedCols(a), e)
          BY <3>4, <4>2 DEF Sized, e
        <5>2. p.rows = TrimmedRows(a) /\ p.cols = TrimmedCols(a) /\ p.arg = e
          BY <5>1 DEF Part
        <5>3. \A i \in 1..p.rows : i \in 1..Len(a) /\ a[i] \in Seq(Cell) /\ p.cols <= Len(a[i])
          BY <3>3, <5>2
        <5>. QED BY <3>3, <5>1, <5>2, <5>3
      <4>. QED BY <4>1, <4>2
    <3>7. p \in Fits(args)
      <4>1. p \in Parts(args)
        BY <3>5, <3>6 DEF Parts, Part
      <4>. QED BY <3>5, <3>6, <4>1 DEF Fits
    <3>. QED BY <2>4, <3>6, <3>7 DEF p, e
  <2>. QED BY <2>3, <2>4
<1>3. DOMAIN LineParts(line, args) = 1..Len(line)
  BY <1>1 DEF LineParts
<1>. QED BY <1>1, <1>2, <1>3

\* The widths and heights of parts are numbers.
LEMMA Measures ==
  ASSUME NEW args, NEW n \in Nat, NEW parts, DOMAIN parts = 1..n, \A m \in 1..n : parts[m] \in Fits(args)
  PROVE  /\ Widths(parts) \in [1..n -> Nat] /\ \A m \in 1..n : Widths(parts)[m] = parts[m].cols
         /\ Heights(parts) \in [1..n -> Nat] /\ \A m \in 1..n : Heights(parts)[m] = parts[m].rows
<1>1. \A m \in 1..n : parts[m].cols \in Nat /\ parts[m].rows \in Nat
  BY DEF Fits, Parts
<1>. QED BY <1>1 DEF Widths, Heights

\* The first place of a line at which there is no argument, or 0.
IsGap(line, gap) ==
  IF \E m \in 1..Len(line) : line[m] = PADDING
  THEN gap \in 1..Len(line) /\ line[gap] = PADDING /\ \A m \in 1..Len(line) : line[m] = PADDING => gap <= m
  ELSE gap = 0

\* SelectInSeq finds the first padding of a line, if it has one.
LEMMA GapFound ==
  ASSUME NEW line, Len(line) \in Nat
  PROVE  IsGap(line, SelectInSeq(line, LAMBDA arg : arg = PADDING))
<1>. DEFINE S == {m \in 1..Len(line) : line[m] = PADDING}
            gap == SelectInSeq(line, LAMBDA arg : arg = PADDING)
<1>1. gap = IF S # {} THEN Min(S) ELSE 0
  BY DEF SelectInSeq
<1>2. CASE S = {}
  BY <1>1, <1>2 DEF IsGap
<1>3. CASE S # {}
  <2>1. S \subseteq Nat
    OBVIOUS
  <2>2. \E e \in S : \A m \in S : e <= m
    <3>. HIDE DEF S
    <3>. QED BY <1>3, <2>1, Least
  <2>3. Min(S) \in S /\ \A m \in S : Min(S) <= m
    <3>. HIDE DEF S
    <3>. QED BY <2>2 DEF Min
  <2>. DEFINE least == Min(S)
  <2>4. gap = least
    BY <1>1, <1>3
  <2>5. least \in S /\ \A m \in S : least <= m
    BY <2>3
  <2>. HIDE DEF least, gap
  <2>6. IsGap(line, least)
    BY <1>3, <2>5 DEF IsGap
  <2>. QED BY <2>4, <2>6 DEF gap
<1>. QED BY <1>2, <1>3

\* The parts of a line with the gap filled: those which are written, and perhaps
\* what is left at the end.
Gapless(line, args, total, filled) ==
  /\ Len(line) \in Nat /\ Len(filled) \in Nat /\ Len(line) <= Len(filled)
  /\ DOMAIN filled = 1..Len(filled)
  /\ \A m \in 1..Len(filled) :
       /\ filled[m] \in Fits(args)
       /\ m > Len(line) => filled[m].arg = PADDING
       /\ m <= Len(line) => /\ filled[m] = Padded(LineParts(line, args), total)[m]
                            /\ filled[m].arg = line[m]
                            /\ filled[m].rows = LineParts(line, args)[m].rows
                            /\ line[m] # PADDING => filled[m] = LineParts(line, args)[m]
  /\ Total(Widths(filled)) = total

\* With its gap filled a line is as wide as the block.
LEMMA GapIsFilled ==
  ASSUME NEW args, Arrays(args), NEW line \in Seq(0..Len(args)), NEW total \in Nat,
         Total(Widths(LineParts(line, args))) <= total
  PROVE  Gapless(line, args, total, WithGap(line, args, total))
<1>. DEFINE parts == LineParts(line, args)
            n == Len(line)
            taken == Total(Widths(parts))
            rest == total - taken
            left == Part(0, rest, PADDING)
            gap == SelectInSeq(line, LAMBDA arg : arg = PADDING)
            filled == WithGap(line, args, total)
            pad == Padded(parts, total)
            a == Prefix(Widths(parts))
<1>1. /\ DOMAIN parts = 1..n /\ n \in Nat
      /\ \A m \in 1..n : /\ parts[m] \in Fits(args) /\ parts[m].arg = line[m]
                         /\ line[m] = PADDING => parts[m] = Part(0, 0, PADDING)
  BY PartsFit
<1>2. IsGap(line, gap)
  BY <1>1, GapFound
<1>3. /\ Widths(parts) \in [1..n -> Nat] /\ \A m \in 1..n : Widths(parts)[m] = parts[m].cols
  BY <1>1, Measures
<1>4. Sums(Widths(parts), n, a) /\ taken = a[n] /\ taken \in Nat
  BY <1>1, <1>3, PrefixIs
<1>5. rest \in Nat /\ taken + rest = total
  BY <1>4
<1>6. left \in Fits(args) /\ left.arg = PADDING /\ left.cols = rest /\ left.rows = 0
  <2>1. 0 \in 0..Len(args) /\ left = [rows |-> 0, cols |-> rest, arg |-> 0]
    <3>1. Len(args) \in Nat
      BY DEF Arrays
    <3>. QED BY <3>1 DEF Part, PADDING
  <2>. HIDE DEF left, rest
  <2>. QED BY <1>5, <2>1 DEF Fits, Parts, PADDING
<1>7. filled = IF gap = 0 THEN Append(parts, left) ELSE [parts EXCEPT ![gap] = left]
  BY DEF WithGap
<1>8. ASSUME NEW m \in 1..n
      PROVE  pad[m] = IF m = gap THEN left ELSE parts[m]
  <2>1. pad[m] = IF parts[m].arg = PADDING /\ \A l \in 1..m - 1 : parts[l].arg # PADDING
                 THEN left ELSE parts[m]
    BY <1>1 DEF Padded
  <2>2. m = gap <=> parts[m].arg = PADDING /\ \A l \in 1..m - 1 : parts[l].arg # PADDING
    <3>. HIDE DEF parts, gap
    <3>1. ASSUME m = gap
          PROVE  parts[m].arg = PADDING /\ \A l \in 1..m - 1 : parts[l].arg # PADDING
      <4>1. line[m] = PADDING /\ \A l \in 1..n : line[l] = PADDING => m <= l
        BY <1>2, <3>1 DEF IsGap
      <4>2. ASSUME NEW l \in 1..m - 1
            PROVE  parts[l].arg # PADDING
        <5>1. l \in 1..n /\ ~(m <= l)
          BY <1>1
        <5>. QED BY <1>1, <4>1, <5>1
      <4>. QED BY <1>1, <4>1, <4>2
    <3>2. ASSUME parts[m].arg = PADDING, \A l \in 1..m - 1 : parts[l].arg # PADDING
          PROVE  m = gap
      <4>1. line[m] = PADDING
        BY <1>1, <3>2
      <4>2. gap \in 1..n /\ line[gap] = PADDING /\ gap <= m
        BY <1>2, <4>1 DEF IsGap
      <4>3. gap \notin 1..m - 1
        BY <1>1, <3>2, <4>2
      <4>. QED BY <1>1, <4>2, <4>3
    <3>. QED BY <3>1, <3>2
  <2>. HIDE DEF left, parts, gap, pad
  <2>. QED BY <2>1, <2>2
<1>. HIDE DEF left, rest, taken, filled, a, pad, gap, parts
<1>9. CASE gap = 0
  <2>1. filled = Append(parts, left)
    BY <1>7, <1>9
  <2>2. parts \in Seq(Fits(args)) /\ Len(parts) = n
    <3>1. parts = [m \in 1..n |-> parts[m]]
      BY <1>1 DEF parts, LineParts
    <3>2. parts \in [1..n -> Fits(args)]
      BY <1>1, <3>1
    <3>. QED BY <1>1, <3>2
  <2>3. /\ Len(filled) = n + 1 /\ filled \in Seq(Fits(args))
        /\ filled[n + 1] = left /\ \A m \in 1..n : filled[m] = parts[m]
    BY <1>6, <2>1, <2>2, AppendProperties
  <2>4. ASSUME NEW m \in 1..n
        PROVE  filled[m] = pad[m]
    <3>1. m # gap
      BY <1>9
    <3>. QED BY <1>8, <2>3, <3>1
  <2>5. DOMAIN filled = 1..n + 1 /\ \A m \in 1..n + 1 : filled[m] \in Fits(args)
    BY <1>1, <2>3
  <2>6. Total(Widths(filled)) = total
    <3>. DEFINE s == [i \in 0..n + 1 |-> IF i <= n THEN a[i] ELSE total]
                w == Widths(filled)
    <3>1. w \in [1..n + 1 -> Nat] /\ \A m \in 1..n + 1 : w[m] = filled[m].cols
      <4>1. n + 1 \in Nat
        BY <1>1
      <4>. QED BY <2>5, <4>1, Measures
    <3>. HIDE DEF w
    <3>2. \A i \in 0..n : a[i] \in Nat
      BY <1>4 DEF Sums
    <3>3. Sums(w, n + 1, s)
      <4>1. s \in [0..n + 1 -> Nat]
        BY <1>1, <3>2
      <4>2. s[0] = 0
        BY <1>1, <1>4 DEF Sums
      <4>3. ASSUME NEW i \in 1..n + 1
            PROVE  s[i] = s[i - 1] + w[i]
        <5>1. CASE i \in 1..n
          <6>1. s[i] = a[i] /\ s[i - 1] = a[i - 1] /\ w[i] = parts[i].cols
            BY <1>1, <2>3, <3>1, <5>1
          <6>2. a[i] = a[i - 1] + Widths(parts)[i]
            BY <1>4, <5>1 DEF Sums
          <6>. QED BY <1>3, <5>1, <6>1, <6>2
        <5>2. CASE i = n + 1
          <6>1. s[i] = total /\ s[i - 1] = a[n] /\ w[i] = rest
            BY <1>1, <1>6, <2>3, <3>1, <5>2
          <6>. QED BY <1>4, <1>5, <6>1
        <5>3. i \in 1..n \/ i = n + 1
          BY <1>1
        <5>. QED BY <5>1, <5>2, <5>3
      <4>. HIDE DEF s
      <4>. QED BY <4>1, <4>2, <4>3 DEF Sums
    <3>4. Total(w) = s[n + 1]
      <4>1. n + 1 \in Nat
        BY <1>1
      <4>. HIDE DEF s
      <4>. QED BY <3>1, <3>3, <4>1, TotalIs
    <3>5. s[n + 1] = total
      BY <1>1
    <3>. QED BY <3>4, <3>5 DEF w
  <2>7. ASSUME NEW m \in 1..n + 1
        PROVE  /\ m > n => filled[m].arg = PADDING
               /\ m <= n => /\ filled[m] = pad[m] /\ filled[m].arg = line[m]
                            /\ filled[m].rows = parts[m].rows
                            /\ line[m] # PADDING => filled[m] = parts[m]
    <3>1. m > n => m = n + 1
      BY <1>1
    <3>2. m <= n => m \in 1..n
      BY <1>1
    <3>. QED BY <1>1, <1>6, <2>3, <2>4, <3>1, <3>2
  <2>8. Len(filled) \in Nat /\ n <= Len(filled)
    BY <1>1, <2>3
  <2>. QED BY <1>1, <2>3, <2>5, <2>6, <2>7, <2>8 DEF Gapless, filled, pad, parts
<1>10. CASE gap # 0
  <2>1. gap \in 1..n /\ line[gap] = PADDING
    BY <1>2, <1>10 DEF IsGap
  <2>2. filled = [parts EXCEPT ![gap] = left]
    BY <1>7, <1>10
  <2>3. DOMAIN filled = 1..n /\ \A m \in 1..n : filled[m] = IF m = gap THEN left ELSE parts[m]
    BY <1>1, <2>1, <2>2
  <2>4. Len(filled) = n
    BY <1>1, <2>3
  <2>5. ASSUME NEW m \in 1..n
        PROVE  /\ filled[m] = pad[m] /\ filled[m].arg = line[m] /\ filled[m] \in Fits(args)
               /\ filled[m].rows = parts[m].rows
               /\ line[m] # PADDING => filled[m] = parts[m]
    <3>1. CASE m = gap
      <4>1. filled[m] = left /\ parts[m] = Part(0, 0, PADDING) /\ line[m] = PADDING
        BY <1>1, <2>1, <2>3, <3>1
      <4>2. pad[m] = left
        BY <1>8, <3>1
      <4>3. parts[m].rows = 0
        BY <4>1 DEF Part
      <4>. QED BY <1>6, <4>1, <4>2, <4>3
    <3>2. CASE m # gap
      BY <1>1, <1>8, <2>3, <3>2
    <3>. QED BY <3>1, <3>2
  <2>6. Total(Widths(filled)) = total
    <3>. DEFINE s == [i \in 0..n |-> IF i < gap THEN a[i] ELSE a[i] + rest]
                w == Widths(filled)
    <3>1. w \in [1..n -> Nat] /\ \A m \in 1..n : w[m] = filled[m].cols
      <4>1. DOMAIN filled = 1..n /\ \A m \in 1..n : filled[m] \in Fits(args)
        BY <2>3, <2>5
      <4>. QED BY <1>1, <4>1, Measures
    <3>. HIDE DEF w
    <3>2. \A i \in 0..n : a[i] \in Nat
      BY <1>4 DEF Sums
    <3>3. Sums(w, n, s)
      <4>1. s \in [0..n -> Nat]
        BY <1>5, <3>2
      <4>2. s[0] = 0
        BY <1>1, <1>4, <2>1 DEF Sums
      <4>3. ASSUME NEW i \in 1..n
            PROVE  s[i] = s[i - 1] + w[i]
        <5>1. i \in 0..n /\ i - 1 \in 0..n
          BY <1>1
        <5>2. a[i] = a[i - 1] + parts[i].cols
          BY <1>3, <1>4 DEF Sums
        <5>3. a[i] \in Nat /\ a[i - 1] \in Nat
          BY <3>2, <5>1
        <5>4. /\ s[i] = IF i < gap THEN a[i] ELSE a[i] + rest
              /\ s[i - 1] = IF i - 1 < gap THEN a[i - 1] ELSE a[i - 1] + rest
          BY <5>1
        <5>5. CASE i = gap
          <6>1. w[i] = rest /\ parts[i].cols = 0
            <7>1. parts[i] = Part(0, 0, PADDING)
              BY <1>1, <2>1, <5>5
            <7>. QED BY <1>6, <2>3, <3>1, <5>5, <7>1 DEF Part
          <6>2. s[i] = a[i] + rest /\ s[i - 1] = a[i - 1]
            BY <5>4, <5>5
          <6>. QED BY <1>5, <5>2, <5>3, <6>1, <6>2
        <5>6. CASE i < gap
          <6>1. w[i] = parts[i].cols /\ s[i] = a[i] /\ s[i - 1] = a[i - 1]
            BY <2>1, <2>3, <3>1, <5>4, <5>6
          <6>. QED BY <5>2, <6>1
        <5>7. CASE i > gap
          <6>1. w[i] = parts[i].cols /\ s[i] = a[i] + rest /\ s[i - 1] = a[i - 1] + rest
            BY <2>1, <2>3, <3>1, <5>4, <5>7
          <6>2. w[i] \in Nat
            BY <3>1
          <6>. DEFINE b == a[i]
                      c == a[i - 1]
                      d == w[i]
          <6>3. b \in Nat /\ c \in Nat /\ d \in Nat /\ b = c + d
            BY <5>2, <5>3, <6>1, <6>2
          <6>4. s[i] = b + rest /\ s[i - 1] = c + rest
            BY <6>1
          <6>. HIDE DEF b, c, d, s
          <6>5. s[i] = s[i - 1] + d
            BY <1>5, <6>3, <6>4
          <6>. QED BY <6>5 DEF d
        <5>. QED BY <2>1, <5>5, <5>6, <5>7
      <4>. HIDE DEF s
      <4>. QED BY <4>1, <4>2, <4>3 DEF Sums
    <3>4. Total(w) = s[n]
      <4>. HIDE DEF s
      <4>. QED BY <1>1, <3>1, <3>3, TotalIs
    <3>5. s[n] = a[n] + rest
      BY <1>1, <2>1
    <3>. QED BY <1>4, <1>5, <3>4, <3>5 DEF w
  <2>7. \A m \in 1..n : ~(m > n)
    BY <1>1
  <2>8. n <= Len(filled)
    BY <1>1, <2>4
  <2>. QED BY <1>1, <2>3, <2>4, <2>5, <2>6, <2>7, <2>8 DEF Gapless, filled, pad, parts
<1>. QED BY <1>9, <1>10 DEF filled

\* A line's row: each part has its cells in its place.
RowLaid(args, filled, i, row) ==
  /\ row \in [1..Total(Widths(filled)) -> Cell]
  /\ \A m \in 1..Len(filled) : \A j \in 1..filled[m].cols :
       /\ Prefix(Widths(filled))[m - 1] + j \in 1..Total(Widths(filled))
       /\ row[Prefix(Widths(filled))[m - 1] + j] =
            IF i <= filled[m].rows THEN args[filled[m].arg][i][j] ELSE NA

\* The rows of the parts, one after the other, are a row of the line.
LEMMA RowIsLaid ==
  ASSUME NEW args, NEW n \in Nat, NEW filled, Len(filled) = n, DOMAIN filled = 1..n,
         \A m \in 1..n : filled[m] \in Fits(args), NEW i \in Nat \ {0}
  PROVE  RowLaid(args, filled, i, FlattenSeq([m \in DOMAIN filled |-> RowOfPart(filled[m], args, i)]))
<1>. DEFINE s == [m \in DOMAIN filled |-> RowOfPart(filled[m], args, i)]
<1>1. NA \in Cell
  BY DEF NA, Cell, xlerrNA
<1>2. ASSUME NEW m \in 1..n
      PROVE  /\ filled[m].cols \in Nat
             /\ s[m] \in Seq(Cell) /\ Len(s[m]) = filled[m].cols
             /\ \A j \in 1..filled[m].cols :
                  s[m][j] = IF i <= filled[m].rows THEN args[filled[m].arg][i][j] ELSE NA
  <2>. DEFINE p == filled[m]
  <2>1. p \in Fits(args) /\ p.cols \in Nat /\ p.rows \in Nat
    BY DEF Fits, Parts
  <2>2. s[m] = RowOfPart(p, args, i)
    OBVIOUS
  <2>. HIDE DEF p, s
  <2>3. CASE i <= p.rows
    <3>. DEFINE r == args[p.arg][i]
                c == p.cols
    <3>1. p.arg # PADDING
      BY <2>1, <2>3 DEF Fits
    <3>2. i \in 1..p.rows
      BY <2>1, <2>3
    <3>3. r \in Seq(Cell) /\ c <= Len(r) /\ c \in Nat
      BY <2>1, <3>1, <3>2 DEF Fits
    <3>4. s[m] = SubSeq(r, 1, c)
      BY <2>2, <2>3 DEF RowOfPart
    <3>. HIDE DEF r, c
    <3>5. SubSeq(r, 1, c) \in Seq(Cell) /\ Len(SubSeq(r, 1, c)) = c /\ \A j \in 1..c : SubSeq(r, 1, c)[j] = r[j]
      BY <3>3, SubSeqProperties
    <3>. QED BY <2>1, <2>3, <3>4, <3>5 DEF r, c, p
  <2>4. CASE ~(i <= p.rows)
    <3>. DEFINE c == p.cols
    <3>1. s[m] = [j \in 1..c |-> NA]
      BY <2>2, <2>4 DEF RowOfPart, Row
    <3>2. c \in Nat
      BY <2>1
    <3>. HIDE DEF c
    <3>3. s[m] \in [1..c -> Cell]
      BY <1>1, <3>1
    <3>4. s[m] \in Seq(Cell) /\ Len(s[m]) = c /\ \A j \in 1..c : s[m][j] = NA
      BY <3>1, <3>2, <3>3
    <3>. QED BY <2>1, <2>4, <3>4 DEF c, p
  <2>. QED BY <2>3, <2>4
<1>3. s \in Seq(Seq(Cell)) /\ Len(s) = n
  <2>1. s = [m \in 1..n |-> s[m]]
    OBVIOUS
  <2>. HIDE DEF s
  <2>2. s \in [1..n -> Seq(Cell)]
    BY <1>2, <2>1
  <2>. QED BY <2>2
<1>4. Sizes(s) = Widths(filled)
  <2>1. \A m \in 1..n : Len(s[m]) = filled[m].cols
    BY <1>2
  <2>. HIDE DEF s
  <2>. QED BY <1>3, <2>1 DEF Sizes, Widths
<1>. HIDE DEF s
<1>5. Flattened(s, Cell, FlattenSeq(s))
  BY <1>3, FlattenAt
<1>. DEFINE row == FlattenSeq(s)
            a == Prefix(Widths(filled))
            size == Total(Widths(filled))
<1>6. /\ row \in [1..size -> Cell]
      /\ \A m \in 1..n : \A j \in 1..Len(s[m]) : a[m - 1] + j \in 1..size /\ row[a[m - 1] + j] = s[m][j]
  BY <1>3, <1>4, <1>5 DEF Flattened
<1>. HIDE DEF row, a, size
<1>7. \A m \in 1..n : \A j \in 1..filled[m].cols :
        /\ a[m - 1] + j \in 1..size
        /\ row[a[m - 1] + j] = IF i <= filled[m].rows THEN args[filled[m].arg][i][j] ELSE NA
  BY <1>2, <1>6
<1>8. RowLaid(args, filled, i, row)
  BY <1>6, <1>7 DEF RowLaid, a, size
<1>. QED BY <1>8 DEF row, s

-----------------------------------------------------------------------------
(***************************************************************************)
(* The rows which are promised, and where each part lies in them.          *)
(***************************************************************************)
Tall(layout, args) == [n \in 1..Len(layout) |-> Largest(Heights(LineParts(layout[n], args)))]

\* What a layout's size and parts are made of.
Sizes2D(layout, args, spec) ==
  /\ Len(layout) \in Nat /\ DOMAIN layout = 1..Len(layout)
  /\ Tall(layout, args) \in [1..Len(layout) -> Nat]
  /\ spec.rows = Total(Tall(layout, args)) /\ spec.cols \in Nat
  /\ spec.parts = FlattenSeq([n \in 1..Len(layout) |->
                    Append(Padded(LineParts(layout[n], args), spec.cols),
                           Part(Tall(layout, args)[n], 0, NEW_ROW))])
  /\ \A n \in 1..Len(layout) :
       /\ layout[n] \in Seq(0..Len(args))
       /\ Gapless(layout[n], args, spec.cols, WithGap(layout[n], args, spec.cols))
       /\ \A m \in 1..Len(layout[n]) : LineParts(layout[n], args)[m].rows <= Tall(layout, args)[n]

\* A layout's size is that of its lines, and its parts are theirs.
LEMMA LayoutSizes ==
  ASSUME NEW args, Arrays(args), NEW layout \in Seq(Seq(0..Len(args)))
  PROVE  Sizes2D(layout, args, LayoutOf(layout, args))
<1>. DEFINE n == Len(layout)
            parts(l) == LineParts(layout[l], args)
            lines == [l \in DOMAIN layout |-> parts(l)]
            wide == [l \in 1..n |-> Total(Widths(parts(l)))]
            tall == Tall(layout, args)
            total == Largest(wide)
            spec == LayoutOf(layout, args)
<1>1. n \in Nat /\ DOMAIN layout = 1..n /\ \A l \in 1..n : layout[l] \in Seq(0..Len(args))
  OBVIOUS
<1>2. ASSUME NEW l \in 1..n
      PROVE  /\ Widths(parts(l)) \in [1..Len(layout[l]) -> Nat]
             /\ Heights(parts(l)) \in [1..Len(layout[l]) -> Nat]
             /\ \A m \in 1..Len(layout[l]) : Heights(parts(l))[m] = parts(l)[m].rows
             /\ Len(layout[l]) \in Nat
  <2>1. /\ DOMAIN parts(l) = 1..Len(layout[l]) /\ Len(layout[l]) \in Nat
        /\ \A m \in 1..Len(layout[l]) : parts(l)[m] \in Fits(args)
    BY <1>1, PartsFit
  <2>. DEFINE p == parts(l)
              e == Len(layout[l])
  <2>2. DOMAIN p = 1..e /\ e \in Nat /\ \A m \in 1..e : p[m] \in Fits(args)
    BY <2>1
  <2>. HIDE DEF p, e
  <2>3. \A m \in 1..e : p[m].cols \in Nat /\ p[m].rows \in Nat
    BY <2>2 DEF Fits, Parts
  <2>4. /\ Widths(p) \in [1..e -> Nat] /\ Heights(p) \in [1..e -> Nat]
        /\ \A m \in 1..e : Heights(p)[m] = p[m].rows
    BY <2>2, <2>3 DEF Widths, Heights
  <2>. QED BY <2>2, <2>4 DEF p, e
<1>. HIDE DEF parts
<1>3. wide \in [1..n -> Nat]
  <2>1. ASSUME NEW l \in 1..n
        PROVE  Total(Widths(parts(l))) \in Nat
    BY <1>2, PrefixIs
  <2>. QED BY <2>1
<1>4. tall \in [1..n -> Nat] /\ \A l \in 1..n : tall[l] = Largest(Heights(parts(l)))
  <2>1. ASSUME NEW l \in 1..n
        PROVE  Largest(Heights(parts(l))) \in Nat
    BY <1>2, LargestIs
  <2>. QED BY <2>1 DEF Tall, parts
<1>5. total \in Nat /\ \A l \in 1..n : Total(Widths(parts(l))) <= total
  <2>1. \A l \in 1..n : wide[l] = Total(Widths(parts(l)))
    OBVIOUS
  <2>. HIDE DEF wide
  <2>. QED BY <1>1, <1>3, <2>1, LargestIs
<1>6. /\ lines = [l \in 1..n |-> parts(l)]
      /\ DOMAIN lines = 1..n /\ \A l \in 1..n : lines[l] = parts(l)
  BY <1>1
<1>7. /\ [l \in DOMAIN lines |-> Total(Widths(lines[l]))] = wide
      /\ [l \in DOMAIN lines |-> Largest(Heights(lines[l]))] = tall
  <2>. HIDE DEF lines
  <2>. QED BY <1>4, <1>6
<1>8. /\ spec.rows = Total(tall) /\ spec.cols = total
      /\ spec.parts = FlattenSeq([l \in DOMAIN lines |->
           Append(Padded(lines[l], total), Part(Largest(Heights(lines[l])), 0, NEW_ROW))])
  <2>1. spec = [rows |-> Total([l \in DOMAIN lines |-> Largest(Heights(lines[l]))]),
                cols |-> Largest([l \in DOMAIN lines |-> Total(Widths(lines[l]))]),
                parts |-> FlattenSeq([l \in DOMAIN lines |->
                  Append(Padded(lines[l], Largest([e \in DOMAIN lines |-> Total(Widths(lines[e]))])),
                         Part(Largest(Heights(lines[l])), 0, NEW_ROW))])]
    BY DEF LayoutOf, parts
  <2>. HIDE DEF lines, wide, tall, spec
  <2>. QED BY <1>7, <2>1
<1>9. [l \in DOMAIN lines |-> Append(Padded(lines[l], total), Part(Largest(Heights(lines[l])), 0, NEW_ROW))]
        = [l \in 1..n |-> Append(Padded(parts(l), total), Part(tall[l], 0, NEW_ROW))]
  <2>. HIDE DEF lines, tall, total
  <2>. QED BY <1>4, <1>6
<1>10. ASSUME NEW l \in 1..n
       PROVE  /\ layout[l] \in Seq(0..Len(args))
              /\ Gapless(layout[l], args, total, WithGap(layout[l], args, total))
              /\ \A m \in 1..Len(layout[l]) : parts(l)[m].rows <= tall[l]
  <2>1. layout[l] \in Seq(0..Len(args)) /\ Total(Widths(LineParts(layout[l], args))) <= total
    BY <1>1, <1>5 DEF parts
  <2>. HIDE DEF total
  <2>2. Gapless(layout[l], args, total, WithGap(layout[l], args, total))
    BY <1>5, <2>1, GapIsFilled
  <2>3. \A m \in 1..Len(layout[l]) : parts(l)[m].rows <= tall[l]
    <3>1. \A m \in 1..Len(layout[l]) : Heights(parts(l))[m] <= Largest(Heights(parts(l)))
      BY <1>2, LargestIs
    <3>. QED BY <1>2, <1>4, <3>1
  <2>. QED BY <2>1, <2>2, <2>3
<1>11. spec.parts = FlattenSeq([l \in 1..n |-> Append(Padded(parts(l), total), Part(tall[l], 0, NEW_ROW))])
  BY <1>8, <1>9
<1>. HIDE DEF spec, total, tall
<1>12. Sizes2D(layout, args, spec)
  BY <1>1, <1>4, <1>5, <1>8, <1>10, <1>11 DEF Sizes2D, parts, tall
<1>. QED BY <1>12 DEF spec

\* The rows of all lines, each with its parts in their places.
Promised(layout, args, total) ==
  FlattenSeq([n \in DOMAIN layout |-> RowsOfLine(layout[n], args, total)])

Laid(layout, args, spec, t) ==
  /\ t \in [1..spec.rows -> [1..spec.cols -> Cell]] /\ spec.rows \in Nat
  /\ Sums(Tall(layout, args), Len(layout), Prefix(Tall(layout, args)))
  /\ Prefix(Tall(layout, args))[Len(layout)] = spec.rows
  /\ \A n \in 1..Len(layout) : \A i \in 1..Tall(layout, args)[n] :
       /\ Prefix(Tall(layout, args))[n - 1] + i \in 1..spec.rows
       /\ RowLaid(args, WithGap(layout[n], args, spec.cols), i, t[Prefix(Tall(layout, args))[n - 1] + i])

\* In the rows which are promised each line has its own.
LEMMA PromisedIsLaid ==
  ASSUME NEW args, Arrays(args), NEW layout, NEW spec, Sizes2D(layout, args, spec)
  PROVE  Laid(layout, args, spec, Promised(layout, args, spec.cols))
<1>. DEFINE n == Len(layout)
            tall == Tall(layout, args)
            total == spec.cols
            filled(l) == WithGap(layout[l], args, total)
            row(l, i) == RowOfLine(layout[l], args, i, total)
            S == [1..total -> Cell]
            s == [l \in DOMAIN layout |-> RowsOfLine(layout[l], args, total)]
<1>1. /\ n \in Nat /\ DOMAIN layout = 1..n /\ tall \in [1..n -> Nat]
      /\ spec.rows = Total(tall) /\ total \in Nat
      /\ \A l \in 1..n : Gapless(layout[l], args, total, filled(l))
  BY DEF Sizes2D
<1>2. ASSUME NEW l \in 1..n, NEW i \in 1..tall[l]
      PROVE  RowLaid(args, filled(l), i, row(l, i)) /\ row(l, i) \in S
  <2>1. /\ Len(filled(l)) \in Nat /\ DOMAIN filled(l) = 1..Len(filled(l))
        /\ \A m \in 1..Len(filled(l)) : filled(l)[m] \in Fits(args)
        /\ Total(Widths(filled(l))) = total
    BY <1>1 DEF Gapless
  <2>2. i \in Nat \ {0}
    BY <1>1
  <2>3. row(l, i) = FlattenSeq([m \in DOMAIN filled(l) |-> RowOfPart(filled(l)[m], args, i)])
    BY DEF RowOfLine
  <2>. HIDE DEF filled, row
  <2>4. RowLaid(args, filled(l), i, row(l, i))
    BY <2>1, <2>2, <2>3, RowIsLaid
  <2>. QED BY <2>1, <2>4 DEF RowLaid
<1>3. ASSUME NEW l \in 1..n
      PROVE  s[l] \in Seq(S) /\ Len(s[l]) = tall[l] /\ \A i \in 1..tall[l] : s[l][i] = row(l, i)
  <2>1. s[l] = [i \in 1..tall[l] |-> row(l, i)]
    BY <1>1 DEF RowsOfLine, Tall
  <2>2. tall[l] \in Nat
    BY <1>1
  <2>. HIDE DEF s, row, S, tall
  <2>3. s[l] \in [1..tall[l] -> S]
    BY <1>2, <2>1
  <2>. QED BY <2>1, <2>2, <2>3
<1>4. s \in Seq(Seq(S)) /\ Len(s) = n
  <2>1. s = [l \in 1..n |-> s[l]]
    BY <1>1
  <2>. HIDE DEF s, S
  <2>2. s \in [1..n -> Seq(S)]
    BY <1>3, <2>1
  <2>. QED BY <1>1, <2>2
<1>5. Sizes(s) = tall
  <2>1. \A l \in 1..n : Len(s[l]) = tall[l]
    BY <1>3
  <2>. HIDE DEF s, tall
  <2>. QED BY <1>1, <1>4, <2>1 DEF Sizes
<1>6. Promised(layout, args, total) = FlattenSeq(s)
  BY DEF Promised
<1>. HIDE DEF s, S, tall, row, filled
<1>7. Flattened(s, S, FlattenSeq(s))
  BY <1>4, FlattenAt
<1>. DEFINE t == FlattenSeq(s)
            a == Prefix(tall)
<1>8. /\ t \in [1..spec.rows -> S]
      /\ \A l \in 1..n : \A i \in 1..tall[l] : a[l - 1] + i \in 1..spec.rows /\ t[a[l - 1] + i] = s[l][i]
  BY <1>1, <1>3, <1>4, <1>5, <1>7 DEF Flattened
<1>9. Sums(tall, n, a) /\ a[n] = spec.rows /\ spec.rows \in Nat
  BY <1>1, PrefixIs
<1>. HIDE DEF t, a
<1>10. \A l \in 1..n : \A i \in 1..tall[l] :
          a[l - 1] + i \in 1..spec.rows /\ RowLaid(args, filled(l), i, t[a[l - 1] + i])
  BY <1>2, <1>3, <1>8
<1>11. Laid(layout, args, spec, t)
  BY <1>8, <1>9, <1>10 DEF Laid, S, a, tall, filled
<1>. QED BY <1>6, <1>11 DEF t

-----------------------------------------------------------------------------
(***************************************************************************)
(* The block as it is written: what is promised up to the place where the  *)
(* next part goes, and NA beyond.                                          *)
(***************************************************************************)
States(r, c) == [row: Nat, col: Nat, out: [1..r -> [1..c -> Cell]]]

\* The rows of t down to top, and those down to low as far as left.
Canvas(t, r, c, top, low, left) ==
  [i \in 1..r |-> [j \in 1..c |-> IF i <= top \/ (i <= low /\ j <= left) THEN t[i][j] ELSE NA]]

StateAt(t, r, c, top, low, left) ==
  [row |-> top, col |-> left, out |-> Canvas(t, r, c, top, low, left)]

\* A part comes after left, in a line from the row top to the row low, and
\* reaches to next: that is where t has it, with NA below it.
InPlace(args, t, r, c, top, low, left, p, next) ==
  /\ top \in Nat /\ low \in Nat /\ left \in Nat /\ next \in Nat
  /\ top <= low /\ low <= r /\ next = left + p.cols /\ next <= c /\ top + p.rows <= low
  /\ \A i \in 1..low - top : \A j \in 1..p.cols :
       t[top + i][left + j] = IF i <= p.rows THEN args[p.arg][i][j] ELSE NA

\* The h rows of t after the row top, to the row low, have nothing beyond left.
Empty(t, c, top, h, low, left) ==
  /\ top \in Nat /\ h \in Nat /\ low = top + h /\ left \in Nat
  /\ \A i \in 1..h : \A j \in 1..c : j > left => t[top + i][j] = NA

NewRows == {Part(h, 0, NEW_ROW) : h \in Nat}

\* A part that is written leaves a state of the same kind.
LEMMA PutKeepsKind ==
  ASSUME NEW args, NEW r \in Nat, NEW c \in Nat, NEW y \in States(r, c),
         NEW p \in Fits(args) \cup NewRows
  PROVE  PutPart(args, y, p) \in States(r, c)
<1>1. y.row \in Nat /\ y.col \in Nat /\ y.out \in [1..r -> [1..c -> Cell]]
      /\ y = [row |-> y.row, col |-> y.col, out |-> y.out]
  BY DEF States
<1>2. CASE p.arg = NEW_ROW
  <2>1. p.rows \in Nat
    BY DEF Fits, Parts, NewRows, Part
  <2>2. NEW_ROW # PADDING
    BY DEF NEW_ROW, PADDING
  <2>3. PutPart(args, y, p) = [y EXCEPT !.row = @ + p.rows, !.col = 0]
    BY <1>2, <2>2 DEF PutPart
  <2>4. PutPart(args, y, p) = [row |-> y.row + p.rows, col |-> 0, out |-> y.out]
    BY <1>1, <2>3
  <2>. QED BY <1>1, <2>1, <2>4 DEF States
<1>3. CASE p.arg # NEW_ROW
  <2>1. p \in Fits(args)
    BY <1>3 DEF NewRows, Part
  <2>2. p.cols \in Nat /\ p.rows \in Nat
    BY <2>1 DEF Fits, Parts
  <2>3. CASE p.arg = PADDING
    <3>1. PutPart(args, y, p) = [y EXCEPT !.col = @ + p.cols]
      BY <1>3, <2>3 DEF PutPart
    <3>. QED BY <2>2, <3>1 DEF States
  <2>4. CASE p.arg # PADDING
    <3>. DEFINE a == args[p.arg]
                w == Written(y.out, a, p, y.row, y.col)
    <3>1. PutPart(args, y, p) = [y EXCEPT !.out = w, !.col = @ + p.cols]
      BY <1>3, <2>4 DEF PutPart
    <3>2. \A i \in 1..p.rows : a[i] \in Seq(Cell) /\ p.cols <= Len(a[i])
      BY <2>1, <2>4 DEF Fits
    <3>3. ASSUME NEW i \in 1..p.rows, NEW j \in 1..p.cols
          PROVE  a[i][j] \in Cell
      <4>. DEFINE e == a[i]
      <4>1. e \in Seq(Cell) /\ p.cols <= Len(e)
        BY <3>2
      <4>. HIDE DEF e
      <4>2. j \in 1..Len(e)
        BY <2>2, <4>1
      <4>3. e[j] \in Cell
        BY <4>1, <4>2
      <4>. QED BY <4>3 DEF e
    <3>. DEFINE v(i, j) == IF i - y.row \in 1..p.rows /\ j - y.col \in 1..p.cols
                           THEN a[i - y.row][j - y.col] ELSE y.out[i][j]
    <3>4. w = [i \in 1..r |-> [j \in 1..c |-> v(i, j)]]
      BY <1>1 DEF Written
    <3>5. ASSUME NEW i \in 1..r, NEW j \in 1..c
          PROVE  v(i, j) \in Cell
      <4>1. y.out[i][j] \in Cell
        BY <1>1
      <4>. HIDE DEF a
      <4>. QED BY <3>3, <4>1
    <3>. HIDE DEF v, w, a
    <3>6. w \in [1..r -> [1..c -> Cell]]
      BY <3>4, <3>5
    <3>7. PutPart(args, y, p) = [row |-> y.row, col |-> y.col + p.cols, out |-> w]
      BY <1>1, <3>1
    <3>. QED BY <1>1, <2>2, <3>6, <3>7 DEF States
  <2>. QED BY <2>3, <2>4
<1>. QED BY <1>2, <1>3

\* Writing a part extends what is written of its line.
LEMMA PutWrites ==
  ASSUME NEW args, NEW r \in Nat, NEW c \in Nat, NEW t, NEW top, NEW low, NEW left, NEW next,
         NEW p \in Fits(args), InPlace(args, t, r, c, top, low, left, p, next)
  PROVE  PutPart(args, StateAt(t, r, c, top, low, left), p) = StateAt(t, r, c, top, low, next)
<1>. DEFINE y == StateAt(t, r, c, top, low, left)
            out == Canvas(t, r, c, top, low, left)
            new == Canvas(t, r, c, top, low, next)
            a == args[p.arg]
            h == low - top
<1>0. /\ top \in Nat /\ low \in Nat /\ left \in Nat /\ h \in Nat
      /\ low = top + h /\ next = left + p.cols /\ p.rows <= h /\ low <= r /\ next <= c
  <2>1. p.rows \in Nat
    BY DEF Fits, Parts
  <2>. QED BY <2>1 DEF InPlace
<1>. HIDE DEF h
<1>1. y = [row |-> top, col |-> left, out |-> out]
  BY DEF StateAt
<1>2. p.rows \in Nat /\ p.cols \in Nat /\ p.arg \in 0..Len(args) /\ p.arg # NEW_ROW
  BY DEF Fits, Parts, NEW_ROW
<1>3. /\ out = [i \in 1..r |-> [j \in 1..c |->
                  IF i <= top \/ (i <= low /\ j <= left) THEN t[i][j] ELSE NA]]
      /\ new = [i \in 1..r |-> [j \in 1..c |->
                  IF i <= top \/ (i <= low /\ j <= next) THEN t[i][j] ELSE NA]]
  BY DEF Canvas
<1>. HIDE DEF out, new, y
<1>4. ASSUME NEW i \in 1..r, NEW j \in 1..c
      PROVE  LET old == IF i <= top \/ (i <= low /\ j <= left) THEN t[i][j] ELSE NA
                 now == IF i <= top \/ (i <= low /\ j <= next) THEN t[i][j] ELSE NA
             IN now = IF p.arg # PADDING /\ i - top \in 1..p.rows /\ j - left \in 1..p.cols
                      THEN a[i - top][j - left] ELSE old
  <2>1. CASE i - top \in 1..h /\ j - left \in 1..p.cols
    <3>1. t[top + (i - top)][left + (j - left)] =
             IF i - top <= p.rows THEN a[i - top][j - left] ELSE NA
      BY <2>1 DEF InPlace, h
    <3>2. top + (i - top) = i /\ left + (j - left) = j
      BY <1>0
    <3>3. t[i][j] = IF i - top <= p.rows THEN a[i - top][j - left] ELSE NA
      BY <3>1, <3>2
    <3>4. /\ ~(i <= top) /\ i <= low /\ ~(j <= left) /\ j <= next
          /\ i - top \in 1..p.rows <=> i - top <= p.rows
      BY <1>0, <1>2, <2>1
    <3>5. p.arg = PADDING => ~(i - top <= p.rows)
      <4>1. p.arg = PADDING => p.rows = 0
        BY DEF Fits
      <4>. QED BY <2>1, <4>1
    <3>. HIDE DEF a
    <3>. QED BY <2>1, <3>3, <3>4, <3>5
  <2>2. CASE ~(i - top \in 1..h /\ j - left \in 1..p.cols)
    <3>1. ~(i - top \in 1..p.rows /\ j - left \in 1..p.cols)
      BY <1>0, <1>2, <2>2
    <3>2. i <= top \/ (i <= low /\ j <= left) <=> i <= top \/ (i <= low /\ j <= next)
      BY <1>0, <1>2, <2>2
    <3>. QED BY <3>1, <3>2
  <2>. QED BY <2>1, <2>2
<1>5. CASE p.arg = PADDING
  <2>1. PutPart(args, y, p) = [y EXCEPT !.col = @ + p.cols]
    BY <1>2, <1>5 DEF PutPart
  <2>2. out = new
    BY <1>3, <1>4, <1>5
  <2>. QED BY <1>0, <1>1, <2>1, <2>2 DEF StateAt, y, new
<1>6. CASE p.arg # PADDING
  <2>1. PutPart(args, y, p) = [y EXCEPT !.out = Written(@, a, p, y.row, y.col), !.col = @ + p.cols]
    BY <1>2, <1>6 DEF PutPart
  <2>2. Written(out, a, p, top, left) = new
    <3>. DEFINE v(i, j) == IF i - top \in 1..p.rows /\ j - left \in 1..p.cols
                           THEN a[i - top][j - left] ELSE out[i][j]
    <3>1. Written(out, a, p, top, left) = [i \in 1..r |-> [j \in 1..c |-> v(i, j)]]
      BY <1>3 DEF Written
    <3>2. ASSUME NEW i \in 1..r, NEW j \in 1..c
          PROVE  v(i, j) = IF i <= top \/ (i <= low /\ j <= next) THEN t[i][j] ELSE NA
      <4>1. out[i][j] = IF i <= top \/ (i <= low /\ j <= left) THEN t[i][j] ELSE NA
        BY <1>3
      <4>. HIDE DEF a
      <4>. QED BY <1>4, <1>6, <4>1
    <3>. HIDE DEF v
    <3>. QED BY <1>3, <3>1, <3>2
  <2>3. PutPart(args, y, p) = [row |-> top, col |-> next, out |-> new]
    BY <1>0, <1>1, <2>1, <2>2
  <2>. QED BY <2>3 DEF StateAt, new, y
<1>. QED BY <1>5, <1>6 DEF y

\* The end of a line of which nothing is left to be written.
LEMMA PutEnds ==
  ASSUME NEW args, NEW r \in Nat, NEW c \in Nat, NEW t, NEW top, NEW low, NEW left, NEW h,
         Empty(t, c, top, h, low, left)
  PROVE  PutPart(args, StateAt(t, r, c, top, low, left), Part(h, 0, NEW_ROW))
           = StateAt(t, r, c, low, low, 0)
<1>. DEFINE y == StateAt(t, r, c, top, low, left)
            out == Canvas(t, r, c, top, low, left)
            new == Canvas(t, r, c, low, low, 0)
            p == Part(h, 0, NEW_ROW)
<1>0. top \in Nat /\ low \in Nat /\ left \in Nat /\ h \in Nat /\ low = top + h
  BY DEF Empty
<1>1. p.rows = h /\ p.arg = NEW_ROW
  BY DEF Part
<1>2. y = [row |-> top, col |-> left, out |-> out]
  BY DEF StateAt
<1>3. out = new
  <2>1. ASSUME NEW i \in 1..r, NEW j \in 1..c
        PROVE  (IF i <= top \/ (i <= low /\ j <= left) THEN t[i][j] ELSE NA)
                 = IF i <= low \/ (i <= low /\ j <= 0) THEN t[i][j] ELSE NA
    <3>1. CASE i - top \in 1..h /\ j > left
      <4>1. t[top + (i - top)][j] = NA
        BY <1>0, <3>1 DEF Empty
      <4>2. top + (i - top) = i
        BY <1>0
      <4>3. t[i][j] = NA
        BY <4>1, <4>2
      <4>. QED BY <3>1, <4>3
    <3>2. CASE ~(i - top \in 1..h /\ j > left)
      <4>1. i <= top \/ (i <= low /\ j <= left) <=> i <= low
        BY <1>0, <3>2
      <4>. QED BY <4>1
    <3>. QED BY <3>1, <3>2
  <2>. QED BY <2>1 DEF Canvas
<1>. HIDE DEF y, out, new, p
<1>4. PutPart(args, y, p) = [y EXCEPT !.row = @ + p.rows, !.col = 0]
  <2>1. NEW_ROW # PADDING
    BY DEF NEW_ROW, PADDING
  <2>. QED BY <1>1, <2>1 DEF PutPart
<1>5. PutPart(args, y, p) = [row |-> low, col |-> 0, out |-> new]
  BY <1>0, <1>1, <1>2, <1>3, <1>4
<1>. QED BY <1>5 DEF StateAt, y, new, p

\* What is written to a block of r rows and c columns, and from which state.
Writes(args, r, c, y, size, parts) ==
  /\ r \in Nat /\ c \in Nat /\ y \in States(r, c)
  /\ size \in Nat /\ parts \in [1..size -> Fits(args) \cup NewRows]

\* The places which the fold over the parts goes through.
Along(args, parts, size, y, a) ==
  /\ a[0] = y
  /\ \A i \in 1..size : a[i] = PutPart(args, a[i - 1], parts[i])

AllPut(args, y, parts) == FoldLeft(LAMBDA s, part : PutPart(args, s, part), y, parts)

\* The fold over the parts is a walk, one part a step.
LEMMA PutsAll ==
  ASSUME NEW args, NEW r, NEW c, NEW y, NEW size, NEW parts, Writes(args, r, c, y, size, parts)
  PROVE  \E a : Along(args, parts, size, y, a) /\ AllPut(args, y, parts) = a[size]
<1>. DEFINE Y == States(r, c)
            n == size
            st == [p \in (1..n) \X Y |-> PutPart(args, p[2], parts[p[1]])]
            Onto(g) == [t \in SUBSET (1..n) |->
                          IF t = {} THEN y ELSE PutPart(args, g[t \ {Max(t)}], parts[Max(t)])]
            h == CHOOSE g : g = Onto(g)
            a == [i \in 0..n |-> h[1..i]]
            last == AllPut(args, y, parts)
<1>0. /\ r \in Nat /\ c \in Nat /\ y \in States(r, c)
      /\ n \in Nat /\ parts \in [1..n -> Fits(args) \cup NewRows]
  BY DEF Writes
<1>. USE <1>0
<1>1. Steps(n, Y, y, st)
  <2>1. ASSUME NEW p \in (1..n) \X Y
        PROVE  PutPart(args, p[2], parts[p[1]]) \in Y
    <3>1. p[2] \in States(r, c) /\ parts[p[1]] \in Fits(args) \cup NewRows
      BY <1>0
    <3>. QED BY <3>1, PutKeepsKind
  <2>. HIDE DEF Y
  <2>2. st \in [(1..n) \X Y -> Y]
    BY <2>1
  <2>. QED BY <2>2 DEF Steps, Y
<1>2. PICK g \in [SUBSET (1..n) -> Y] : Folds(n, y, st, g)
  <2>. HIDE DEF Y, st
  <2>. QED BY <1>1, FoldExists
<1>3. g = Onto(g)
  <2>1. ASSUME NEW t \in SUBSET (1..n), t # {}
        PROVE  st[<<Max(t), g[t \ {Max(t)}]>>] = PutPart(args, g[t \ {Max(t)}], parts[Max(t)])
    <3>1. Max(t) \in 1..n /\ t \ {Max(t)} \in SUBSET (1..n)
      BY <2>1, MaxIs
    <3>. DEFINE m == Max(t)
                e == g[t \ {m}]
    <3>. HIDE DEF Y
    <3>2. m \in 1..n /\ e \in Y
      BY <1>2, <3>1
    <3>. HIDE DEF m, e
    <3>3. st[<<m, e>>] = PutPart(args, e, parts[m])
      BY <3>2
    <3>. QED BY <3>3 DEF m, e
  <2>. HIDE DEF st, Y
  <2>. QED BY <1>2, <2>1 DEF Folds
<1>4. h = Onto(h)
  BY <1>3
<1>5. last = h[1..n]
  <2>1. DOMAIN parts = 1..n
    BY <1>0
  <2>. QED BY <2>1 DEF AllPut, FoldLeft, MapThenFoldSet
<1>. HIDE DEF h
<1>6. a[0] = y
  <2>1. 1..0 = {} /\ {} \in SUBSET (1..n) /\ 0 \in 0..n
    OBVIOUS
  <2>2. h[{}] = y
    BY <1>4, <2>1
  <2>. QED BY <2>1, <2>2
<1>7. ASSUME NEW i \in 1..n
      PROVE  a[i] = PutPart(args, a[i - 1], parts[i])
  <2>1. /\ 1..i \in SUBSET (1..n) /\ 1..i # {} /\ Max(1..i) = i /\ (1..i) \ {i} = 1..i - 1
        /\ i - 1 \in 0..n /\ i \in 0..n
    BY FirstPlaces
  <2>2. h[1..i] = PutPart(args, h[1..i - 1], parts[i])
    BY <1>4, <2>1
  <2>. QED BY <2>1, <2>2
<1>. HIDE DEF last
<1>8. last = a[n]
  BY <1>5
<1>. HIDE DEF a
<1>9. Along(args, parts, size, y, a)
  BY <1>6, <1>7 DEF Along
<1>. QED BY <1>8, <1>9 DEF last

\* The rows of t after the row top, to the row low, are those of a line.
Placed(args, t, r, c, line, filled, top, h, low) ==
  /\ top \in Nat /\ h \in Nat /\ low = top + h /\ low <= r
  /\ Gapless(line, args, c, filled)
  /\ \A m \in 1..Len(line) : filled[m].rows <= h
  /\ \A i \in 1..h : RowLaid(args, filled, i, t[top + i])

\* The parts of a line, in the steps from q on to next, write the line.
LineSteps(args, line, filled, h, q, next, parts, a) ==
  /\ q \in Nat /\ next = q + (Len(line) + 1)
  /\ \A m \in 1..Len(line) : parts[q + m] = filled[m]
  /\ parts[next] = Part(h, 0, NEW_ROW)
  /\ \A m \in 1..Len(line) + 1 : a[q + m] = PutPart(args, a[q + (m - 1)], parts[q + m])

\* The steps of a line take the block from the line's top to its end.
LEMMA LineIsWritten ==
  ASSUME NEW args, NEW r \in Nat, NEW c \in Nat, NEW t, NEW line, NEW filled,
         NEW top, NEW h, NEW low, Placed(args, t, r, c, line, filled, top, h, low),
         NEW q, NEW next, NEW parts, NEW a, LineSteps(args, line, filled, h, q, next, parts, a),
         a[q] = StateAt(t, r, c, top, top, 0)
  PROVE  a[next] = StateAt(t, r, c, low, low, 0)
<1>. DEFINE n == Len(line)
            last == Len(filled)
            w == Widths(filled)
            x == Prefix(w)
            stage(left) == StateAt(t, r, c, top, low, left)
            P == {m \in 0..n : a[q + m] = stage(x[m])}
<1>0. /\ top \in Nat /\ h \in Nat /\ low = top + h /\ low <= r /\ q \in Nat
      /\ \A m \in 1..n : filled[m].rows <= h
  BY DEF Placed, LineSteps
<1>1. /\ n \in Nat /\ last \in Nat /\ n <= last /\ DOMAIN filled = 1..last
      /\ \A m \in 1..last : filled[m] \in Fits(args) /\ (m > n => filled[m].arg = PADDING)
      /\ Total(w) = c
  BY DEF Placed, Gapless
<1>2. /\ w \in [1..last -> Nat] /\ \A m \in 1..last : w[m] = filled[m].cols
  <2>1. \A m \in 1..last : filled[m].cols \in Nat
    BY <1>1 DEF Fits, Parts
  <2>. QED BY <1>1, <2>1 DEF Widths
<1>. HIDE DEF w
<1>3. Sums(w, last, x) /\ x[last] = c
  BY <1>1, <1>2, PrefixIs
<1>. HIDE DEF x
<1>4. x[0] = 0 /\ \A m \in 0..last : x[m] \in Nat /\ x[m] <= c
  <2>1. x[0] = 0
    BY <1>3 DEF Sums
  <2>2. ASSUME NEW m \in 0..last
        PROVE  x[m] \in Nat /\ x[m] <= c
    <3>1. last \in m..last
      BY <1>1
    <3>. QED BY <1>1, <1>2, <1>3, <3>1, SumsGrow
  <2>. QED BY <2>1, <2>2
<1>5. ASSUME NEW i \in 1..h, NEW m \in 1..last, NEW j \in 1..filled[m].cols
      PROVE  t[top + i][x[m - 1] + j] = IF i <= filled[m].rows THEN args[filled[m].arg][i][j] ELSE NA
  BY DEF Placed, RowLaid, x, w
<1>6. 0 \in P
  <2>1. Canvas(t, r, c, top, top, 0) = Canvas(t, r, c, top, low, 0)
    <3>1. ASSUME NEW i \in 1..r, NEW j \in 1..c
          PROVE  i <= top \/ (i <= top /\ j <= 0) <=> i <= top \/ (i <= low /\ j <= 0)
      OBVIOUS
    <3>. QED BY <3>1 DEF Canvas
  <2>2. stage(0) = a[q]
    BY <2>1 DEF StateAt
  <2>3. q + 0 = q /\ 0 \in 0..n
    BY <1>0, <1>1
  <2>. HIDE DEF stage
  <2>. QED BY <1>4, <2>2, <2>3
<1>7. ASSUME NEW m \in 1..n, m - 1 \in P
      PROVE  m \in P
  <2>. DEFINE p == filled[m]
              left == x[m - 1]
  <2>1. m \in 1..last /\ m - 1 \in 0..last /\ m \in 0..last /\ m \in 1..n + 1 /\ m \in 0..n
    BY <1>1
  <2>2. p \in Fits(args) /\ p.rows <= h
    BY <1>0, <1>1, <2>1
  <2>3. left \in Nat /\ x[m] = left + p.cols /\ left + p.cols <= c
    <3>1. x[m] = left + w[m]
      BY <1>3, <2>1 DEF Sums
    <3>2. w[m] = p.cols
      BY <1>2, <2>1
    <3>. QED BY <1>4, <2>1, <3>1, <3>2
  <2>5. a[q + m] = PutPart(args, a[q + (m - 1)], p)
    BY <2>1 DEF LineSteps
  <2>6. a[q + (m - 1)] = stage(left)
    BY <1>7
  <2>. DEFINE on == x[m]
  <2>7. InPlace(args, t, r, c, top, low, left, p, on)
    <3>1. \A i \in 1..h : \A j \in 1..p.cols :
            t[top + i][left + j] = IF i <= p.rows THEN args[p.arg][i][j] ELSE NA
      BY <1>5, <2>1
    <3>2. low - top = h /\ top + p.rows <= low /\ p.rows \in Nat
      BY <1>0, <2>2 DEF Fits, Parts
    <3>3. on \in Nat /\ on = left + p.cols /\ on <= c
      BY <1>4, <2>1, <2>3
    <3>. HIDE DEF p, left, on
    <3>. QED BY <1>0, <2>3, <3>1, <3>2, <3>3 DEF InPlace
  <2>. HIDE DEF p, left, on
  <2>8. PutPart(args, StateAt(t, r, c, top, low, left), p) = StateAt(t, r, c, top, low, on)
    BY <2>2, <2>7, PutWrites
  <2>9. a[q + m] = stage(on)
    BY <2>5, <2>6, <2>8
  <2>. HIDE DEF stage
  <2>. QED BY <2>1, <2>9 DEF on
<1>. HIDE DEF P
<1>8. \A m \in 0..n : m \in P
  BY <1>1, <1>6, <1>7, UpTo
<1>9. a[q + n] = stage(x[n]) /\ n \in 0..last
  <2>1. n \in 0..n /\ n \in 0..last
    BY <1>1
  <2>2. n \in P
    BY <1>8, <2>1
  <2>. HIDE DEF stage, n
  <2>. QED BY <2>1, <2>2 DEF P
<1>10. ASSUME NEW i \in 1..h, NEW j \in 1..c, j > x[n]
       PROVE  t[top + i][j] = NA
  <2>1. j \in 1..x[last]
    BY <1>3
  <2>2. PICK m \in 1..last : x[m - 1] < j /\ j <= x[m]
    BY <1>1, <1>2, <1>3, <2>1, SegmentExists
  <2>3. m > n
    <3>. SUFFICES ASSUME ~(m > n) PROVE FALSE
      OBVIOUS
    <3>1. m \in 0..last /\ n \in m..last
      BY <1>1
    <3>2. x[m] \in Nat /\ x[n] \in Nat /\ x[m] <= x[n]
      BY <1>1, <1>2, <1>3, <3>1, SumsGrow
    <3>. QED BY <1>10, <2>2, <3>2
  <2>4. m - 1 \in 0..last /\ m \in 1..last
    BY <1>1
  <2>5. x[m] = x[m - 1] + w[m] /\ w[m] = filled[m].cols /\ x[m - 1] \in Nat /\ w[m] \in Nat
    BY <1>2, <1>3, <1>4, <2>4 DEF Sums
  <2>. DEFINE e == j - x[m - 1]
  <2>6. e \in 1..filled[m].cols /\ x[m - 1] + e = j
    <3>1. j \in Nat /\ x[m - 1] < j /\ j <= x[m - 1] + w[m]
      BY <2>2, <2>5
    <3>. QED BY <2>5, <3>1
  <2>7. ~(i <= filled[m].rows)
    <3>1. filled[m].arg = PADDING /\ filled[m] \in Fits(args)
      BY <1>1, <2>3
    <3>2. filled[m].rows = 0
      BY <3>1 DEF Fits
    <3>. QED BY <3>2
  <2>. HIDE DEF e
  <2>8. t[top + i][x[m - 1] + e] = NA
    BY <1>5, <2>6, <2>7
  <2>. QED BY <2>6, <2>8
<1>11. PutPart(args, stage(x[n]), Part(h, 0, NEW_ROW)) = StateAt(t, r, c, low, low, 0)
  <2>. DEFINE left == x[n]
  <2>1. Empty(t, c, top, h, low, left)
    <3>1. left \in Nat
      BY <1>4, <1>9
    <3>. HIDE DEF left
    <3>2. \A i \in 1..h : \A j \in 1..c : j > left => t[top + i][j] = NA
      BY <1>10 DEF left
    <3>. QED BY <1>0, <3>1, <3>2 DEF Empty
  <2>. HIDE DEF left
  <2>2. PutPart(args, StateAt(t, r, c, top, low, left), Part(h, 0, NEW_ROW)) = StateAt(t, r, c, low, low, 0)
    BY <2>1, PutEnds
  <2>. QED BY <2>2 DEF left
<1>12. a[next] = PutPart(args, a[q + n], Part(h, 0, NEW_ROW))
  <2>1. n + 1 \in 1..n + 1 /\ (n + 1) - 1 = n
    BY <1>1
  <2>2. /\ next = q + (n + 1) /\ parts[next] = Part(h, 0, NEW_ROW)
        /\ \A m \in 1..n + 1 : a[q + m] = PutPart(args, a[q + (m - 1)], parts[q + m])
    BY DEF LineSteps
  <2>. HIDE DEF n
  <2>. QED BY <2>1, <2>2
<1>. HIDE DEF stage
<1>. QED BY <1>9, <1>11, <1>12

\* The parts of line l in the order in which they are written, and its end.
PartsOfLine(layout, args, spec, l) ==
  Append(Padded(LineParts(layout[l], args), spec.cols), Part(Tall(layout, args)[l], 0, NEW_ROW))

Parted(layout, args, spec, l) ==
  LET s == PartsOfLine(layout, args, spec, l)
      n == Len(layout[l])
  IN /\ s \in Seq(Fits(args) \cup NewRows) /\ Len(s) = n + 1 /\ n \in Nat
     /\ \A m \in 1..n : s[m] = WithGap(layout[l], args, spec.cols)[m]
     /\ s[n + 1] = Part(Tall(layout, args)[l], 0, NEW_ROW)

\* The parts of a line are those of the line with its gap, and its end.
LEMMA LineParted ==
  ASSUME NEW args, Arrays(args), NEW layout, NEW spec, Sizes2D(layout, args, spec),
         NEW l \in 1..Len(layout)
  PROVE  Parted(layout, args, spec, l)
<1>. DEFINE s == PartsOfLine(layout, args, spec, l)
            n == Len(layout[l])
            pad == Padded(LineParts(layout[l], args), spec.cols)
            filled == WithGap(layout[l], args, spec.cols)
            end == Part(Tall(layout, args)[l], 0, NEW_ROW)
            S == Fits(args) \cup NewRows
<1>1. /\ layout[l] \in Seq(0..Len(args)) /\ Gapless(layout[l], args, spec.cols, filled)
      /\ Tall(layout, args)[l] \in Nat
  BY DEF Sizes2D
<1>2. n \in Nat /\ \A m \in 1..n : filled[m] \in Fits(args) /\ filled[m] = pad[m]
  BY <1>1 DEF Gapless
<1>3. DOMAIN LineParts(layout[l], args) = 1..n
  BY <1>1, PartsFit
<1>4. pad = [m \in 1..n |-> pad[m]]
  BY <1>3 DEF Padded
<1>5. end \in NewRows
  BY <1>1 DEF NewRows
<1>. HIDE DEF pad, filled, end
<1>6. pad \in [1..n -> S]
  BY <1>2, <1>4
<1>7. pad \in Seq(S) /\ Len(pad) = n /\ end \in S
  BY <1>2, <1>5, <1>6
<1>8. s = Append(pad, end)
  BY DEF PartsOfLine, pad, end
<1>. HIDE DEF S, s, n
<1>9. /\ s \in Seq(S) /\ Len(s) = n + 1
      /\ s[n + 1] = end /\ \A m \in 1..n : s[m] = pad[m]
  BY <1>7, <1>8, AppendProperties
<1>10. \A m \in 1..n : s[m] = filled[m]
  BY <1>2, <1>9
<1>. QED BY <1>2, <1>9, <1>10 DEF Parted, s, n, S, end, filled

\* Each line of what is promised is in its place.
LEMMA LinePlaced ==
  ASSUME NEW args, NEW layout, NEW spec, Sizes2D(layout, args, spec),
         NEW t, Laid(layout, args, spec, t), NEW l \in 1..Len(layout)
  PROVE  Placed(args, t, spec.rows, spec.cols, layout[l], WithGap(layout[l], args, spec.cols),
                Prefix(Tall(layout, args))[l - 1], Tall(layout, args)[l], Prefix(Tall(layout, args))[l])
<1>. DEFINE n == Len(layout)
            tall == Tall(layout, args)
            top == Prefix(tall)
            line == layout[l]
            h == tall[l]
            up == top[l - 1]
            low == top[l]
            f == WithGap(line, args, spec.cols)
<1>1. /\ n \in Nat /\ l \in 1..n /\ tall \in [1..n -> Nat] /\ spec.rows \in Nat
      /\ Sums(tall, n, top) /\ top[n] = spec.rows
  BY DEF Sizes2D, Laid
<1>2. \A i \in 1..h : RowLaid(args, f, i, t[up + i])
  BY DEF Laid
<1>3. Gapless(line, args, spec.cols, f) /\ \A m \in 1..Len(line) : LineParts(line, args)[m].rows <= h
  BY DEF Sizes2D
<1>. HIDE DEF n, tall, top, line, f
<1>4. up \in Nat /\ h \in Nat /\ low = up + h /\ low <= spec.rows
  <2>1. n \in l..n /\ l - 1 \in 0..n /\ l \in 0..n
    BY <1>1
  <2>2. top[l] <= top[n]
    BY <1>1, <2>1, SumsGrow
  <2>. QED BY <1>1, <2>1, <2>2 DEF Sums
<1>5. ASSUME NEW m \in 1..Len(line)
      PROVE  f[m].rows <= h
  <2>. HIDE DEF h
  <2>1. m \in 1..Len(f) /\ m <= Len(line)
    BY <1>3 DEF Gapless
  <2>2. f[m].rows = LineParts(line, args)[m].rows
    BY <1>3, <2>1 DEF Gapless
  <2>. QED BY <1>3, <2>2
<1>. HIDE DEF h, up, low
<1>6. Placed(args, t, spec.rows, spec.cols, line, f, up, h, low)
  BY <1>2, <1>3, <1>4, <1>5 DEF Placed
<1>. QED BY <1>6 DEF up, h, low, f, line, top, tall

\* The block is what is promised.
LEMMA BlockIsPromised ==
  ASSUME NEW args, Arrays(args), NEW layout \in Seq(Seq(0..Len(args))),
         NEW spec, spec = LayoutOf(layout, args), spec.rows # 0, spec.cols # 0
  PROVE  Block(layout, args) = Promised(layout, args, spec.cols)
<1>. DEFINE n == Len(layout)
            tall == Tall(layout, args)
            top == Prefix(tall)
            filled(l) == WithGap(layout[l], args, spec.cols)
            s == [l \in 1..n |-> PartsOfLine(layout, args, spec, l)]
            S == Fits(args) \cup NewRows
            off == Prefix(Sizes(s))
            size == Total(Sizes(s))
            parts == spec.parts
            t == Promised(layout, args, spec.cols)
            r == spec.rows
            c == spec.cols
            y == StateAt(t, r, c, 0, 0, 0)
            last == AllPut(args, y, parts)
<1>1. Sizes2D(layout, args, spec)
  BY LayoutSizes
<1>2. n \in Nat /\ c \in Nat /\ tall \in [1..n -> Nat] /\ parts = FlattenSeq(s)
  BY <1>1 DEF Sizes2D, PartsOfLine
<1>3. /\ t \in [1..r -> [1..c -> Cell]] /\ r \in Nat
      /\ Sums(tall, n, top) /\ top[n] = r
      /\ \A l \in 1..n : Placed(args, t, r, c, layout[l], filled(l), top[l - 1], tall[l], top[l])
  <2>1. Laid(layout, args, spec, t)
    BY <1>1, PromisedIsLaid
  <2>2. ASSUME NEW l \in 1..n
        PROVE  Placed(args, t, r, c, layout[l], filled(l), top[l - 1], tall[l], top[l])
    <3>. HIDE DEF t
    <3>. QED BY <1>1, <2>1, LinePlaced
  <2>. QED BY <2>1, <2>2 DEF Laid
<1>4. ASSUME NEW l \in 1..n
      PROVE  /\ s[l] \in Seq(S) /\ Len(s[l]) = Len(layout[l]) + 1 /\ Len(layout[l]) \in Nat
             /\ \A m \in 1..Len(layout[l]) : s[l][m] = filled(l)[m]
             /\ s[l][Len(layout[l]) + 1] = Part(tall[l], 0, NEW_ROW)
  <2>. DEFINE e == PartsOfLine(layout, args, spec, l)
  <2>1. s[l] = e
    OBVIOUS
  <2>. HIDE DEF s, S, filled, tall
  <2>2. /\ e \in Seq(Fits(args) \cup NewRows) /\ Len(e) = Len(layout[l]) + 1 /\ Len(layout[l]) \in Nat
        /\ \A m \in 1..Len(layout[l]) : e[m] = WithGap(layout[l], args, spec.cols)[m]
        /\ e[Len(layout[l]) + 1] = Part(Tall(layout, args)[l], 0, NEW_ROW)
    <3>. HIDE DEF n
    <3>1. Parted(layout, args, spec, l)
      BY <1>1, LineParted DEF n
    <3>. QED BY <3>1 DEF Parted
  <2>. HIDE DEF e
  <2>. QED BY <2>1, <2>2 DEF S, filled, tall
<1>5. s \in Seq(Seq(S)) /\ Len(s) = n
  <2>1. s = [l \in 1..n |-> s[l]]
    OBVIOUS
  <2>. HIDE DEF s, S
  <2>2. s \in [1..n -> Seq(S)]
    BY <1>4, <2>1
  <2>3. n \in Nat
    BY <1>2
  <2>. HIDE DEF n
  <2>. QED BY <2>2, <2>3
<1>. HIDE DEF s, S, tall, filled, t, top
<1>6. Flattened(s, S, parts)
  BY <1>2, <1>5, FlattenAt
<1>7. /\ Sums(Sizes(s), n, off) /\ Sizes(s) \in [1..n -> Nat] /\ off[n] = size /\ size \in Nat
      /\ parts \in [1..size -> S]
      /\ \A l \in 1..n : /\ Sizes(s)[l] = Len(layout[l]) + 1
                         /\ \A m \in 1..Len(s[l]) : /\ off[l - 1] + m \in 1..size
                                                    /\ parts[off[l - 1] + m] = s[l][m]
  <2>1. \A l \in 1..n : Sizes(s)[l] = Len(layout[l]) + 1
    BY <1>4, <1>5 DEF Sizes
  <2>2. Sizes(s) \in [1..n -> Nat]
    BY <1>5, <1>6 DEF Flattened
  <2>3. Sums(Sizes(s), n, off) /\ off[n] = size /\ size \in Nat
    BY <1>2, <2>2, PrefixIs
  <2>. QED BY <1>5, <1>6, <2>1, <2>2, <2>3 DEF Flattened
<1>. HIDE DEF off, size
<1>8. y \in States(r, c) /\ y = [row |-> 0, col |-> 0, out |-> Filled(r, c, NA)]
  <2>1. NA \in Cell
    BY DEF NA, Cell, xlerrNA
  <2>2. Canvas(t, r, c, 0, 0, 0) = [i \in 1..r |-> [j \in 1..c |-> NA]]
    <3>1. ASSUME NEW i \in 1..r, NEW j \in 1..c
          PROVE  ~(i <= 0 \/ (i <= 0 /\ j <= 0))
      OBVIOUS
    <3>. QED BY <3>1 DEF Canvas
  <2>3. r \in Nat /\ c \in Nat
    BY <1>2, <1>3
  <2>. HIDE DEF r, c
  <2>4. y = [row |-> 0, col |-> 0, out |-> [i \in 1..r |-> [j \in 1..c |-> NA]]]
    BY <2>2 DEF StateAt
  <2>5. y = [row |-> 0, col |-> 0, out |-> Filled(r, c, NA)]
    BY <2>4 DEF Filled, Row
  <2>. DEFINE o == [i \in 1..r |-> [j \in 1..c |-> NA]]
  <2>6. o \in [1..r -> [1..c -> Cell]]
    BY <2>1
  <2>. HIDE DEF y, o
  <2>7. [row |-> 0, col |-> 0, out |-> o] \in States(r, c)
    BY <2>6 DEF States
  <2>8. y \in States(r, c)
    BY <2>4, <2>7 DEF o
  <2>. QED BY <2>5, <2>8
<1>. HIDE DEF y, parts, r, c
<1>9. PICK a : Along(args, parts, size, y, a) /\ last = a[size]
  <2>1. Writes(args, r, c, y, size, parts)
    BY <1>2, <1>3, <1>7, <1>8 DEF S, Writes
  <2>2. \E a : Along(args, parts, size, y, a) /\ AllPut(args, y, parts) = a[size]
    BY <2>1, PutsAll
  <2>. QED BY <2>2
<1>. HIDE DEF last
<1>. DEFINE P == {l \in 0..n : a[off[l]] = StateAt(t, r, c, top[l], top[l], 0)}
<1>10. 0 \in P
  <2>1. off[0] = 0 /\ top[0] = 0 /\ a[0] = y
    BY <1>3, <1>7, <1>9 DEF Sums, Along
  <2>. QED BY <1>2, <2>1 DEF y
<1>11. ASSUME NEW l \in 1..n, l - 1 \in P
       PROVE  l \in P
  <2>. DEFINE line == layout[l]
              e == Len(line)
              h == tall[l]
              q == off[l - 1]
              on == off[l]
              up == top[l - 1]
              low == top[l]
              f == filled(l)
  <2>1. l - 1 \in 0..n /\ l \in 0..n
    BY <1>2
  <2>3. /\ q \in Nat /\ on \in Nat /\ e \in Nat /\ on = q + (e + 1)
    <3>1. off[l] = off[l - 1] + Sizes(s)[l] /\ Sizes(s)[l] = Len(layout[l]) + 1
      BY <1>7 DEF Sums
    <3>2. off[l - 1] \in Nat /\ off[l] \in Nat /\ Len(layout[l]) \in Nat
      BY <1>4, <1>7, <2>1 DEF Sums
    <3>. QED BY <3>1, <3>2
  <2>4. Placed(args, t, r, c, line, f, up, h, low)
    BY <1>3
  <2>5. \A m \in 1..e + 1 : q + m \in 1..size /\ parts[q + m] = s[l][m]
    BY <1>4, <1>7
  <2>6. (\A m \in 1..e : parts[q + m] = f[m]) /\ parts[on] = Part(h, 0, NEW_ROW)
    <3>1. \A m \in 1..e : m \in 1..e + 1
      BY <2>3
    <3>2. e + 1 \in 1..e + 1
      BY <2>3
    <3>3. s[l][e + 1] = Part(h, 0, NEW_ROW) /\ \A m \in 1..e : s[l][m] = f[m]
      BY <1>4
    <3>. HIDE DEF q, on, e, h, f
    <3>. QED BY <2>3, <2>5, <3>1, <3>2, <3>3
  <2>7. \A m \in 1..e + 1 : a[q + m] = PutPart(args, a[q + (m - 1)], parts[q + m])
    <3>. HIDE DEF q, e
    <3>1. ASSUME NEW m \in 1..e + 1
          PROVE  q + m \in 1..size /\ (q + m) - 1 = q + (m - 1)
      <4>1. m \in Nat /\ q \in Nat
        BY <2>3
      <4>2. (q + m) - 1 = q + (m - 1)
        BY <4>1
      <4>. QED BY <2>5, <4>2
    <3>2. \A i \in 1..size : a[i] = PutPart(args, a[i - 1], parts[i])
      BY <1>9 DEF Along
    <3>3. ASSUME NEW m \in 1..e + 1
          PROVE  a[q + m] = PutPart(args, a[q + (m - 1)], parts[q + m])
      <4>. DEFINE i == q + m
      <4>1. i \in 1..size /\ i - 1 = q + (m - 1)
        BY <3>1
      <4>. HIDE DEF i
      <4>2. a[i] = PutPart(args, a[i - 1], parts[i])
        BY <3>2, <4>1
      <4>3. a[i] = PutPart(args, a[q + (m - 1)], parts[i])
        BY <4>1, <4>2
      <4>. QED BY <4>3 DEF i
    <3>. QED BY <3>3
  <2>8. a[q] = StateAt(t, r, c, up, up, 0)
    BY <1>11
  <2>9. LineSteps(args, line, f, h, q, on, parts, a)
    <3>. HIDE DEF q, on, h, f
    <3>. QED BY <2>3, <2>6, <2>7 DEF LineSteps
  <2>. HIDE DEF line, h, q, on, up, low, f
  <2>10. a[on] = StateAt(t, r, c, low, low, 0)
    BY <1>2, <1>3, <2>4, <2>8, <2>9, LineIsWritten
  <2>. QED BY <2>1, <2>10 DEF on, low
<1>. HIDE DEF P
<1>12. \A l \in 0..n : l \in P
  BY <1>2, <1>10, <1>11, UpTo
<1>13. last = StateAt(t, r, c, r, r, 0)
  <2>1. n \in 0..n
    BY <1>2
  <2>2. a[off[n]] = StateAt(t, r, c, top[n], top[n], 0)
    BY <1>12, <2>1 DEF P
  <2>. QED BY <1>3, <1>7, <1>9, <2>2
<1>14. last.out = t
  <2>1. Canvas(t, r, c, r, r, 0) = [i \in 1..r |-> [j \in 1..c |-> t[i][j]]]
    <3>1. \A i \in 1..r : i <= r
      BY <1>3
    <3>. QED BY <3>1 DEF Canvas
  <2>2. [i \in 1..r |-> [j \in 1..c |-> t[i][j]]] = t
    BY <1>3
  <2>. QED BY <1>13, <2>1, <2>2 DEF StateAt
<1>15. Block(layout, args) = last.out
  <2>1. r # 0 /\ c # 0
    BY DEF r, c
  <2>2. Block(layout, args)
          = IF r = 0 \/ c = 0 THEN <<<<NA>>>>
            ELSE AllPut(args, [row |-> 0, col |-> 0, out |-> Filled(r, c, NA)], parts).out
    BY DEF Block, AllPut, r, c, parts
  <2>. QED BY <1>8, <2>1, <2>2 DEF last
<1>. QED BY <1>14, <1>15 DEF t

-----------------------------------------------------------------------------
(***************************************************************************)
(* The room for text. The numbers of a table x are added up row by row.    *)
(***************************************************************************)
Whole(x) == Total([i \in DOMAIN x |-> Total(x[i])])

RowTotals(x, n) == [i \in 1..n |-> Total(x[i])]

\* A table's rows have totals, and their total is the whole.
LEMMA WholeIs ==
  ASSUME NEW n \in Nat, NEW m \in Nat, NEW x \in [1..n -> [1..m -> Nat]]
  PROVE  /\ RowTotals(x, n) \in [1..n -> Nat]
         /\ Whole(x) = Total(RowTotals(x, n)) /\ Whole(x) \in Nat
<1>. DEFINE w == [i \in 1..n |-> Total(x[i])]
<1>1. w \in [1..n -> Nat]
  <2>1. ASSUME NEW i \in 1..n
        PROVE  Total(x[i]) \in Nat
    <3>1. x[i] \in [1..m -> Nat]
      OBVIOUS
    <3>. QED BY <3>1, PrefixIs
  <2>. QED BY <2>1
<1>2. DOMAIN x = 1..n
  OBVIOUS
<1>3. [i \in DOMAIN x |-> Total(x[i])] = w
  BY <1>2
<1>4. Whole(x) = Total(w)
  BY <1>3 DEF Whole
<1>. HIDE DEF w
<1>5. Total(w) \in Nat
  BY <1>1, PrefixIs
<1>. QED BY <1>1, <1>4, <1>5 DEF w, RowTotals

\* Tables whose numbers are added up place by place.
LEMMA WholeOfSums ==
  ASSUME NEW n \in Nat, NEW m \in Nat,
         NEW x \in [1..n -> [1..m -> Nat]], NEW y \in [1..n -> [1..m -> Nat]],
         NEW z \in [1..n -> [1..m -> Nat]],
         \A i \in 1..n : \A j \in 1..m : z[i][j] = x[i][j] + y[i][j]
  PROVE  Whole(z) = Whole(x) + Whole(y)
<1>. DEFINE u == RowTotals(x, n)
            v == RowTotals(y, n)
            w == RowTotals(z, n)
<1>1. /\ u \in [1..n -> Nat] /\ Whole(x) = Total(u)
      /\ v \in [1..n -> Nat] /\ Whole(y) = Total(v)
      /\ Whole(z) = Total(w)
  <2>1. u \in [1..n -> Nat] /\ Whole(x) = Total(u)
    BY WholeIs
  <2>2. v \in [1..n -> Nat] /\ Whole(y) = Total(v)
    BY WholeIs
  <2>3. Whole(z) = Total(w)
    BY WholeIs
  <2>. QED BY <2>1, <2>2, <2>3
<1>2. ASSUME NEW i \in 1..n
      PROVE  Total(z[i]) = Total(x[i]) + Total(y[i])
  <2>. DEFINE a == x[i]
              b == y[i]
              d == z[i]
  <2>1. a \in [1..m -> Nat] /\ b \in [1..m -> Nat] /\ d \in [1..m -> Nat]
    OBVIOUS
  <2>2. \A j \in 1..m : d[j] = a[j] + b[j]
    OBVIOUS
  <2>. HIDE DEF a, b, d
  <2>3. d = [j \in 1..m |-> a[j] + b[j]]
    BY <2>1, <2>2
  <2>4. Total(d) = Total(a) + Total(b)
    BY <2>1, <2>3, TotalOfSums
  <2>. QED BY <2>4 DEF a, b, d
<1>3. w = [i \in 1..n |-> u[i] + v[i]]
  BY <1>2 DEF RowTotals
<1>. HIDE DEF u, v, w
<1>4. Total(w) = Total(u) + Total(v)
  BY <1>1, <1>3, TotalOfSums
<1>. QED BY <1>1, <1>4

\* A table with no smaller number anywhere has no smaller whole.
LEMMA WholeGrows ==
  ASSUME NEW n \in Nat, NEW m \in Nat,
         NEW x \in [1..n -> [1..m -> Nat]], NEW y \in [1..n -> [1..m -> Nat]],
         \A i \in 1..n : \A j \in 1..m : x[i][j] <= y[i][j]
  PROVE  Whole(x) <= Whole(y)
<1>. DEFINE u == RowTotals(x, n)
            v == RowTotals(y, n)
<1>1. /\ u \in [1..n -> Nat] /\ Whole(x) = Total(u)
      /\ v \in [1..n -> Nat] /\ Whole(y) = Total(v)
  BY WholeIs
<1>2. ASSUME NEW i \in 1..n
      PROVE  u[i] <= v[i]
  <2>. DEFINE a == x[i]
              b == y[i]
  <2>1. a \in [1..m -> Nat] /\ b \in [1..m -> Nat] /\ \A j \in 1..m : a[j] <= b[j]
    OBVIOUS
  <2>2. u[i] = Total(a) /\ v[i] = Total(b)
    BY DEF RowTotals
  <2>. HIDE DEF a, b, u, v
  <2>3. Total(a) <= Total(b)
    BY <2>1, TotalGrows
  <2>. QED BY <2>2, <2>3
<1>. HIDE DEF u, v
<1>3. Total(u) <= Total(v)
  BY <1>1, <1>2, TotalGrows
<1>. QED BY <1>1, <1>3

\* Every number is at most one.
LEMMA WholeOfOnes ==
  ASSUME NEW n \in Nat, NEW m \in Nat, NEW x \in [1..n -> [1..m -> Nat]],
         \A i \in 1..n : \A j \in 1..m : x[i][j] <= 1
  PROVE  Whole(x) <= n * m
<1>. DEFINE one == [j \in 1..m |-> 1]
            y == [i \in 1..n |-> one]
            w == [i \in 1..n |-> m]
<1>1. one \in [1..m -> Nat] /\ Total(one) = m
  <2>1. 1 \in Nat /\ m * 1 = m
    OBVIOUS
  <2>. QED BY <2>1, TotalOfOne
<1>2. y \in [1..n -> [1..m -> Nat]]
  BY <1>1
<1>3. \A i \in 1..n : \A j \in 1..m : x[i][j] <= y[i][j]
  OBVIOUS
<1>4. RowTotals(y, n) = w
  <2>. HIDE DEF one
  <2>. QED BY <1>1 DEF RowTotals
<1>5. Total(w) = n * m
  BY TotalOfOne
<1>. HIDE DEF y, w
<1>6. Whole(y) = n * m
  BY <1>2, <1>4, <1>5, WholeIs
<1>. QED BY <1>2, <1>3, <1>6, WholeGrows

-----------------------------------------------------------------------------
\* What the cells of a table take, and the length of their text.
Lengths(t, r, c) == [i \in 1..r |-> [j \in 1..c |-> StringLength(t[i][j])]]
Counts(t, r, c) == [i \in 1..r |-> [j \in 1..c |-> IF StringLength(t[i][j]) > 0 THEN 1 ELSE 0]]
StoredIn(t, r, c) == [i \in 1..r |-> [j \in 1..c |-> Stored(t[i][j])]]

\* A cell's text takes its length, and one for the count unless it is empty.
LEMMA CellLength ==
  ASSUME NEW c \in Cell
  PROVE  /\ StringLength(c) \in Nat
         /\ Stored(c) = StringLength(c) + (IF StringLength(c) > 0 THEN 1 ELSE 0)
<1>1. CASE c.type = "str"
  <2>. DEFINE s == c.val
  <2>1. s \in Seq(Nat)
    BY <1>1, TextConstants DEF Cell, Numeric
  <2>2. StringLength(c) = Len(s) /\ Stored(c) = IF s # <<>> THEN Len(s) + 1 ELSE 0
    BY <1>1 DEF StringLength, Stored
  <2>. HIDE DEF s
  <2>3. Len(s) \in Nat /\ (s # <<>> <=> Len(s) > 0)
    BY <2>1, EmptySeq
  <2>. QED BY <2>2, <2>3
<1>2. CASE c.type # "str"
  BY <1>2 DEF StringLength, Stored
<1>. QED BY <1>1, <1>2

\* The room for a text of that length holds each cell's text with its count.
LEMMA RoomSuffices ==
  ASSUME NEW r \in Nat, NEW c \in Nat, NEW t \in [1..r -> [1..c -> Cell]]
  PROVE  Whole(StoredIn(t, r, c)) <= TextRoom(Whole(Lengths(t, r, c)), r, c)
<1>. DEFINE x == Lengths(t, r, c)
            y == Counts(t, r, c)
            z == StoredIn(t, r, c)
<1>1. ASSUME NEW i \in 1..r, NEW j \in 1..c
      PROVE  /\ StringLength(t[i][j]) \in Nat
             /\ Stored(t[i][j]) = StringLength(t[i][j]) + (IF StringLength(t[i][j]) > 0 THEN 1 ELSE 0)
  <2>1. t[i][j] \in Cell
    OBVIOUS
  <2>. QED BY <2>1, CellLength
<1>2. x \in [1..r -> [1..c -> Nat]] /\ \A i \in 1..r : \A j \in 1..c : x[i][j] = StringLength(t[i][j])
  BY <1>1 DEF Lengths
<1>3. /\ y \in [1..r -> [1..c -> Nat]]
      /\ \A i \in 1..r : \A j \in 1..c : y[i][j] = IF StringLength(t[i][j]) > 0 THEN 1 ELSE 0
  BY DEF Counts
<1>4. z \in [1..r -> [1..c -> Nat]] /\ \A i \in 1..r : \A j \in 1..c : z[i][j] = Stored(t[i][j])
  <2>1. ASSUME NEW i \in 1..r, NEW j \in 1..c
        PROVE  Stored(t[i][j]) \in Nat
    <3>. DEFINE e == StringLength(t[i][j])
    <3>1. e \in Nat /\ Stored(t[i][j]) = e + (IF e > 0 THEN 1 ELSE 0)
      BY <1>1
    <3>. HIDE DEF e
    <3>. QED BY <3>1
  <2>. QED BY <2>1 DEF StoredIn
<1>. HIDE DEF x, y, z
<1>5. ASSUME NEW i \in 1..r, NEW j \in 1..c
      PROVE  z[i][j] = x[i][j] + y[i][j] /\ y[i][j] <= x[i][j] /\ y[i][j] <= 1
  <2>. DEFINE e == StringLength(t[i][j])
  <2>1. /\ e \in Nat /\ x[i][j] = e /\ y[i][j] = IF e > 0 THEN 1 ELSE 0
        /\ z[i][j] = e + (IF e > 0 THEN 1 ELSE 0)
    BY <1>1, <1>2, <1>3, <1>4
  <2>. HIDE DEF e
  <2>. QED BY <2>1
<1>6. Whole(z) = Whole(x) + Whole(y)
  BY <1>2, <1>3, <1>4, <1>5, WholeOfSums
<1>7. Whole(y) <= Whole(x)
  BY <1>2, <1>3, <1>5, WholeGrows
<1>8. Whole(y) <= r * c
  BY <1>3, <1>5, WholeOfOnes
<1>9. Whole(x) \in Nat /\ Whole(y) \in Nat
  BY <1>2, <1>3, WholeIs
<1>. DEFINE a == Whole(x)
            b == Whole(y)
            d == r * c
<1>10. d \in Nat
  OBVIOUS
<1>11. r * c * 2 = d * 2
  OBVIOUS
<1>12. TextRoom(a, r, c) = IF a > 0 THEN a + d * 2 ELSE 0
  BY <1>11 DEF TextRoom
<1>. HIDE DEF a, b, d
<1>13. a + b <= TextRoom(a, r, c)
  <2>1. a \in Nat /\ b \in Nat /\ b <= a /\ b <= d
    BY <1>7, <1>8, <1>9 DEF a, b, d
  <2>. QED BY <1>10, <1>12, <2>1
<1>. QED BY <1>6, <1>13 DEF a, b, x, z

-----------------------------------------------------------------------------
(***************************************************************************)
(* The text of a block is that of its arguments.                           *)
(***************************************************************************)
LEMMA TextLengthIs ==
  ASSUME NEW a, NEW v, NEW n \in Nat, NEW m \in Nat, DOMAIN v = 1..n,
         \A i \in 1..n : DOMAIN v[i] = 1..m /\ \A j \in 1..m : v[i][j] = a[i][j]
  PROVE  TextLength(v) = Whole(Lengths(a, n, m))
<1>. DEFINE x == Lengths(a, n, m)
<1>1. DOMAIN x = 1..n
  BY DEF Lengths
<1>2. ASSUME NEW i \in 1..n
      PROVE  [j \in DOMAIN v[i] |-> StringLength(v[i][j])] = x[i]
  BY DEF Lengths
<1>. HIDE DEF x
<1>3. [i \in DOMAIN v |-> Total([j \in DOMAIN v[i] |-> StringLength(v[i][j])])]
        = [i \in DOMAIN x |-> Total(x[i])]
  BY <1>1, <1>2
<1>. QED BY <1>3 DEF TextLength, Whole, x

\* A part has all text of its argument.
LEMMA PartText ==
  ASSUME NEW a, Array(a), NEW arg
  PROVE  LET p == Sized(a, arg)
         IN /\ Lengths(a, p.rows, p.cols) \in [1..p.rows -> [1..p.cols -> Nat]]
            /\ p.rows \in Nat /\ p.cols \in Nat
            /\ TextOf(a) = Whole(Lengths(a, p.rows, p.cols))
<1>. DEFINE p == Sized(a, arg)
            n == p.rows
            m == p.cols
            v == IF Single(a) THEN a ELSE View(a)
<1>1. /\ TrimmedRows(a) \in Nat /\ TrimmedRows(a) <= Len(a) /\ TrimmedCols(a) \in Nat
      /\ Len(a) \in Nat
      /\ \A i \in 1..Len(a) : a[i] \in Seq(Cell) /\ TrimmedCols(a) <= Len(a[i]) /\ Width(a) = Len(a[i])
  BY ViewWithin
<1>2. /\ n \in Nat /\ m \in Nat /\ n <= Len(a) /\ \A i \in 1..n : i \in 1..Len(a) /\ m <= Len(a[i])
      /\ DOMAIN v = 1..n /\ \A i \in 1..n : DOMAIN v[i] = 1..m /\ \A j \in 1..m : v[i][j] = a[i][j]
  <2>1. CASE Single(a)
    <3>1. n = 1 /\ m = 1 /\ v = a
      BY <2>1 DEF Sized, Part
    <3>2. Len(a) = 1 /\ Len(a[1]) = 1 /\ a[1] \in Seq(Cell)
      BY <1>1, <2>1 DEF Single
    <3>3. DOMAIN a = 1..1
      BY <3>2 DEF Array
    <3>4. DOMAIN a[1] = 1..1
      BY <3>2
    <3>. HIDE DEF n, m, v
    <3>. QED BY <3>1, <3>2, <3>3, <3>4
  <2>2. CASE ~Single(a)
    <3>1. n = TrimmedRows(a) /\ m = TrimmedCols(a) /\ v = View(a)
      BY <2>2 DEF Sized, Part
    <3>2. n \in Nat /\ m \in Nat /\ n <= Len(a) /\ v = [i \in 1..n |-> SubSeq(a[i], 1, m)]
      BY <1>1, <3>1 DEF View
    <3>. HIDE DEF n, m, v
    <3>3. ASSUME NEW i \in 1..n
          PROVE  /\ i \in 1..Len(a) /\ m <= Len(a[i])
                 /\ DOMAIN v[i] = 1..m /\ \A j \in 1..m : v[i][j] = a[i][j]
      <4>. DEFINE e == a[i]
      <4>1. i \in 1..Len(a) /\ v[i] = SubSeq(e, 1, m)
        BY <1>1, <3>2
      <4>2. e \in Seq(Cell) /\ m <= Len(e)
        BY <1>1, <3>1, <4>1
      <4>. HIDE DEF e
      <4>3. SubSeq(e, 1, m) \in Seq(Cell) /\ Len(SubSeq(e, 1, m)) = m /\ \A j \in 1..m : SubSeq(e, 1, m)[j] = e[j]
        BY <3>2, <4>2, SubSeqProperties
      <4>. QED BY <4>1, <4>2, <4>3 DEF e
    <3>4. DOMAIN v = 1..n
      BY <3>2
    <3>. QED BY <3>2, <3>3, <3>4
  <2>. QED BY <2>1, <2>2
<1>. HIDE DEF p, v
<1>3. ASSUME NEW i \in 1..n, NEW j \in 1..m
      PROVE  StringLength(a[i][j]) \in Nat
  <2>. DEFINE e == a[i]
  <2>1. e \in Seq(Cell) /\ m <= Len(e)
    BY <1>1, <1>2
  <2>. HIDE DEF e
  <2>2. e[j] \in Cell
    <3>1. j \in 1..Len(e)
      BY <1>2, <2>1
    <3>. QED BY <2>1, <3>1
  <2>. QED BY <2>2, CellLength DEF e
<1>. HIDE DEF n, m
<1>4. Lengths(a, n, m) \in [1..n -> [1..m -> Nat]]
  BY <1>3 DEF Lengths
<1>5. TextLength(v) = Whole(Lengths(a, n, m))
  <2>1. /\ n \in Nat /\ m \in Nat /\ DOMAIN v = 1..n
        /\ \A i \in 1..n : DOMAIN v[i] = 1..m /\ \A j \in 1..m : v[i][j] = a[i][j]
    BY <1>2
  <2>. QED BY <2>1, TextLengthIs
<1>6. TextOf(a) = TextLength(v)
  BY DEF TextOf, v
<1>. QED BY <1>2, <1>4, <1>5, <1>6 DEF n, m, p

\* The text of row i of a part.
TextOfRow(args, p, i) ==
  IF i <= p.rows THEN Total([j \in 1..p.cols |-> StringLength(args[p.arg][i][j])]) ELSE 0

\* A part's rows have the text of its argument, a padding's have none.
LEMMA PartRows ==
  ASSUME NEW args, Arrays(args), NEW p \in Fits(args), NEW h \in Nat, p.rows <= h
  PROVE  /\ [i \in 1..h |-> TextOfRow(args, p, i)] \in [1..h -> Nat]
         /\ p.arg = PADDING => Total([i \in 1..h |-> TextOfRow(args, p, i)]) = 0
         /\ p.arg # PADDING /\ p = Sized(args[p.arg], p.arg) =>
              Total([i \in 1..h |-> TextOfRow(args, p, i)]) = TextOf(args[p.arg])
<1>. DEFINE n == p.rows
            m == p.cols
            a == args[p.arg]
            z == [i \in 1..h |-> TextOfRow(args, p, i)]
<1>1. n \in Nat /\ m \in Nat /\ n <= h
  BY DEF Fits, Parts
<1>2. CASE p.arg = PADDING
  <2>1. n = 0
    BY <1>2 DEF Fits
  <2>2. z = [i \in 1..h |-> 0]
    BY <2>1 DEF TextOfRow
  <2>3. 0 \in Nat /\ h * 0 = 0
    OBVIOUS
  <2>4. [i \in 1..h |-> 0] \in [1..h -> Nat] /\ Total([i \in 1..h |-> 0]) = 0
    BY <2>3, TotalOfOne
  <2>. QED BY <1>2, <2>2, <2>4
<1>3. CASE p.arg # PADDING
  <2>. DEFINE x == Lengths(a, n, m)
  <2>1. p.arg \in DOMAIN args /\ \A i \in 1..n : a[i] \in Seq(Cell) /\ m <= Len(a[i])
    BY <1>3 DEF Fits
  <2>2. x \in [1..n -> [1..m -> Nat]]
    <3>1. ASSUME NEW i \in 1..n, NEW j \in 1..m
          PROVE  StringLength(a[i][j]) \in Nat
      <4>. DEFINE e == a[i]
      <4>1. e \in Seq(Cell) /\ m <= Len(e)
        BY <2>1
      <4>. HIDE DEF e
      <4>2. e[j] \in Cell
        <5>1. j \in 1..Len(e)
          BY <1>1, <4>1
        <5>. QED BY <4>1, <5>1
      <4>. QED BY <4>2, CellLength DEF e
    <3>. QED BY <3>1 DEF Lengths
  <2>3. RowTotals(x, n) \in [1..n -> Nat] /\ Whole(x) = Total(RowTotals(x, n))
    <3>. HIDE DEF x, n, m
    <3>. QED BY <1>1, <2>2, WholeIs
  <2>4. ASSUME NEW i \in 1..h
        PROVE  TextOfRow(args, p, i) = IF i <= n THEN RowTotals(x, n)[i] ELSE 0
    <3>1. i <= n => i \in 1..n
      BY <1>1
    <3>2. i <= n => x[i] = [j \in 1..m |-> StringLength(a[i][j])]
      BY <3>1 DEF Lengths
    <3>3. i <= n => RowTotals(x, n)[i] = Total(x[i])
      BY <3>1 DEF RowTotals
    <3>. HIDE DEF x
    <3>. QED BY <3>2, <3>3 DEF TextOfRow
  <2>. HIDE DEF x
  <2>5. z \in [1..h -> Nat] /\ \A i \in 1..h : z[i] = IF i <= n THEN RowTotals(x, n)[i] ELSE 0
    <3>1. ASSUME NEW i \in 1..h
          PROVE  TextOfRow(args, p, i) \in Nat
      <4>1. i <= n => i \in 1..n
        BY <1>1
      <4>. HIDE DEF n
      <4>. QED BY <2>3, <2>4, <4>1
    <3>. QED BY <2>4, <3>1
  <2>. HIDE DEF z
  <2>6. Total(z) = Total(RowTotals(x, n))
    <3>. DEFINE y == RowTotals(x, n)
    <3>1. y \in [1..n -> Nat] /\ \A i \in 1..h : z[i] = IF i <= n THEN y[i] ELSE 0
      BY <2>3, <2>5
    <3>. HIDE DEF y, n
    <3>2. Extends(h, n, z, y)
      BY <1>1, <2>5, <3>1 DEF Extends
    <3>3. Total(z) = Total(y)
      BY <3>2, TotalExtended
    <3>. QED BY <3>3 DEF y
  <2>7. p = Sized(a, p.arg) => TextOf(a) = Whole(x)
    <3>1. Array(a)
      BY <2>1 DEF Arrays
    <3>2. ASSUME p = Sized(a, p.arg)
          PROVE  TextOf(a) = Whole(x)
      <4>. DEFINE q == Sized(a, p.arg)
      <4>1. TextOf(a) = Whole(Lengths(a, q.rows, q.cols))
        <5>. HIDE DEF a
        <5>. QED BY <3>1, PartText
      <4>. QED BY <3>2, <4>1 DEF x
    <3>. QED BY <3>2
  <2>. QED BY <1>3, <2>3, <2>5, <2>6, <2>7 DEF z
<1>. QED BY <1>2, <1>3

\* The text of a row is that of the row's parts.
LEMMA RowText ==
  ASSUME NEW args, Arrays(args), NEW line, NEW filled, NEW c \in Nat, Gapless(line, args, c, filled),
         NEW i, NEW row, RowLaid(args, filled, i, row)
  PROVE  /\ [m \in 1..Len(filled) |-> TextOfRow(args, filled[m], i)] \in [1..Len(filled) -> Nat]
         /\ Total([j \in 1..c |-> StringLength(row[j])])
              = Total([m \in 1..Len(filled) |-> TextOfRow(args, filled[m], i)])
<1>. DEFINE n == Len(filled)
            w == Widths(filled)
            a == Prefix(w)
            x == [j \in 1..c |-> StringLength(row[j])]
            v == [m \in 1..n |-> TextOfRow(args, filled[m], i)]
            seg(m) == [j \in 1..w[m] |-> x[a[m - 1] + j]]
<1>1. n \in Nat /\ DOMAIN filled = 1..n /\ Total(w) = c /\ \A m \in 1..n : filled[m] \in Fits(args)
  BY DEF Gapless
<1>2. w \in [1..n -> Nat] /\ \A m \in 1..n : w[m] = filled[m].cols
  <2>1. \A m \in 1..n : filled[m].cols \in Nat
    BY <1>1 DEF Fits, Parts
  <2>. QED BY <1>1, <2>1 DEF Widths
<1>3. /\ row \in [1..c -> Cell]
      /\ \A m \in 1..n : \A j \in 1..filled[m].cols :
           /\ a[m - 1] + j \in 1..c
           /\ row[a[m - 1] + j] = IF i <= filled[m].rows THEN args[filled[m].arg][i][j] ELSE NA
  BY <1>1 DEF RowLaid
<1>. HIDE DEF w
<1>4. Sums(w, n, a) /\ a[n] = c
  BY <1>1, <1>2, PrefixIs
<1>5. x \in [1..c -> Nat]
  <2>1. ASSUME NEW j \in 1..c
        PROVE  StringLength(row[j]) \in Nat
    <3>1. row[j] \in Cell
      BY <1>3
    <3>. QED BY <3>1, CellLength
  <2>. QED BY <2>1
<1>. HIDE DEF a
<1>6. ASSUME NEW m \in 1..n
      PROVE  /\ seg(m) \in [1..w[m] -> Nat] /\ w[m] \in Nat
             /\ TextOfRow(args, filled[m], i) = Total(seg(m))
  <2>. DEFINE p == filled[m]
              e == w[m]
  <2>1. e \in Nat /\ p.cols = e
    BY <1>2
  <2>2. \A j \in 1..e : a[m - 1] + j \in 1..c /\ row[a[m - 1] + j] = IF i <= p.rows THEN args[p.arg][i][j] ELSE NA
    BY <1>3, <2>1
  <2>3. seg(m) \in [1..e -> Nat]
    <3>1. \A j \in 1..e : x[a[m - 1] + j] \in Nat
      BY <1>5, <2>2
    <3>. HIDE DEF x
    <3>. QED BY <3>1
  <2>4. seg(m) = [j \in 1..e |-> StringLength(row[a[m - 1] + j])]
    BY <2>2
  <2>. HIDE DEF p, seg
  <2>5. CASE i <= p.rows
    <3>1. \A j \in 1..e : row[a[m - 1] + j] = args[p.arg][i][j]
      BY <2>2, <2>5
    <3>2. seg(m) = [j \in 1..e |-> StringLength(args[p.arg][i][j])]
      BY <2>4, <3>1
    <3>3. TextOfRow(args, p, i) = Total([j \in 1..p.cols |-> StringLength(args[p.arg][i][j])])
      BY <2>5 DEF TextOfRow
    <3>. QED BY <2>1, <2>3, <3>2, <3>3 DEF p
  <2>6. CASE ~(i <= p.rows)
    <3>1. \A j \in 1..e : StringLength(row[a[m - 1] + j]) = 0
      <4>1. StringLength(NA) = 0
        BY DEF StringLength, NA
      <4>. QED BY <2>2, <2>6, <4>1
    <3>2. seg(m) = [j \in 1..e |-> 0]
      BY <2>4, <3>1
    <3>3. Total([j \in 1..e |-> 0]) = e * 0 /\ e * 0 = 0
      <4>. HIDE DEF e
      <4>1. 0 \in Nat /\ e * 0 = 0
        BY <2>1
      <4>. QED BY <2>1, <4>1, TotalOfOne
    <3>4. TextOfRow(args, p, i) = 0
      BY <2>6 DEF TextOfRow
    <3>. QED BY <2>1, <2>3, <3>2, <3>3, <3>4 DEF p
  <2>. QED BY <2>5, <2>6
<1>7. v \in [1..n -> Nat] /\ \A m \in 1..n : v[m] = Total(seg(m))
  <2>1. ASSUME NEW m \in 1..n
        PROVE  TextOfRow(args, filled[m], i) \in Nat
    <3>. DEFINE e == seg(m)
                z == w[m]
    <3>1. e \in [1..z -> Nat] /\ z \in Nat
      BY <1>6
    <3>. HIDE DEF e, z
    <3>2. Total(e) \in Nat
      BY <3>1, PrefixIs
    <3>. QED BY <1>6, <3>2 DEF e
  <2>. HIDE DEF seg
  <2>. QED BY <1>6, <2>1
<1>8. x \in [1..a[n] -> Nat]
  BY <1>4, <1>5
<1>9. \A m \in 1..n : v[m] = Total([j \in 1..w[m] |-> x[a[m - 1] + j]])
  BY <1>7
<1>. HIDE DEF x, v, n
<1>10. Total(x) = Total(v)
  <2>1. Segments(n, w, a, x, v)
    BY <1>1, <1>2, <1>4, <1>7, <1>8, <1>9 DEF Segments
  <2>. QED BY <2>1, TotalOfSegments
<1>. QED BY <1>7, <1>10 DEF x, v, n

\* The text of the h rows of t after the row top.
TextOfRows(t, c, top, h) ==
  Total([i \in 1..h |-> Total([j \in 1..c |-> StringLength(t[top + i][j])])])

\* The text of a line is that of its arguments.
LEMMA LineText ==
  ASSUME NEW args, Arrays(args), NEW r \in Nat, NEW c \in Nat, NEW t,
         NEW line \in Seq(0..Len(args)), NEW filled,
         NEW top, NEW h, NEW low, Placed(args, t, r, c, line, filled, top, h, low)
  PROVE  /\ TextsOf(line, args) \in [1..Len(line) -> Nat]
         /\ TextOfRows(t, c, top, h) = Total(TextsOf(line, args))
<1>. DEFINE n == Len(line)
            last == Len(filled)
            z == [i \in 1..h |-> [m \in 1..last |-> TextOfRow(args, filled[m], i)]]
            col(m) == [i \in 1..h |-> TextOfRow(args, filled[m], i)]
            row(i) == [j \in 1..c |-> StringLength(t[top + i][j])]
            texts == TextsOf(line, args)
            v == [m \in 1..last |-> Total(col(m))]
<1>1. /\ h \in Nat /\ Gapless(line, args, c, filled)
      /\ n \in Nat /\ last \in Nat /\ n <= last
      /\ \A m \in 1..n : filled[m].rows <= h
      /\ \A i \in 1..h : RowLaid(args, filled, i, t[top + i])
      /\ \A m \in 1..last :
           /\ filled[m] \in Fits(args)
           /\ m > n => filled[m].arg = PADDING
           /\ m <= n => /\ filled[m].arg = line[m]
                        /\ line[m] # PADDING => filled[m] = LineParts(line, args)[m]
  BY DEF Placed, Gapless
<1>2. ASSUME NEW i \in 1..h
      PROVE  z[i] \in [1..last -> Nat] /\ Total(row(i)) = Total(z[i])
  <2>1. z[i] = [m \in 1..last |-> TextOfRow(args, filled[m], i)]
    OBVIOUS
  <2>2. RowLaid(args, filled, i, t[top + i])
    BY <1>1
  <2>. HIDE DEF z
  <2>. QED BY <1>1, <2>1, <2>2, RowText
<1>3. z \in [1..h -> [1..last -> Nat]]
  <2>1. z = [i \in 1..h |-> z[i]]
    OBVIOUS
  <2>. HIDE DEF z
  <2>. QED BY <1>2, <2>1
<1>4. \A m \in 1..last : [i \in 1..h |-> z[i][m]] = col(m)
  OBVIOUS
<1>. HIDE DEF z, col, row
<1>5. Total([i \in 1..h |-> Total(row(i))]) = Total(v)
  <2>1. Total([i \in 1..h |-> Total(z[i])]) = Total([m \in 1..last |-> Total([i \in 1..h |-> z[i][m]])])
    BY <1>1, <1>3, TotalsExchanged
  <2>2. [i \in 1..h |-> Total(z[i])] = [i \in 1..h |-> Total(row(i))]
    BY <1>2
  <2>3. [m \in 1..last |-> Total([i \in 1..h |-> z[i][m]])] = v
    BY <1>4
  <2>. QED BY <2>1, <2>2, <2>3
<1>6. DOMAIN line = 1..n /\ \A m \in 1..n : line[m] \in 0..Len(args)
  OBVIOUS
<1>7. ASSUME NEW m \in 1..last
      PROVE  /\ v[m] \in Nat /\ v[m] = IF m <= n THEN texts[m] ELSE 0
  <2>. DEFINE p == filled[m]
  <2>1. p \in Fits(args) /\ v[m] = Total(col(m))
    BY <1>1
  <2>2. p.rows <= h
    <3>1. CASE m <= n
      <4>1. m \in 1..n
        BY <3>1
      <4>. QED BY <1>1, <4>1
    <3>2. CASE ~(m <= n)
      <4>1. m > n
        BY <1>1, <3>2
      <4>2. p.rows = 0
        BY <1>1, <4>1 DEF Fits
      <4>. QED BY <1>1, <4>2
    <3>. QED BY <3>1, <3>2
  <2>3. col(m) = [i \in 1..h |-> TextOfRow(args, p, i)]
    BY DEF col
  <2>4. m <= n => p.arg = line[m] /\ texts[m] = IF p.arg = PADDING THEN 0 ELSE TextOf(args[p.arg])
    BY <1>1, <1>6 DEF TextsOf
  <2>5. ~(m <= n) => p.arg = PADDING
    BY <1>1
  <2>6. p.arg # PADDING => p = Sized(args[p.arg], p.arg)
    <3>1. CASE m <= n
      <4>1. p.arg = line[m] /\ (p.arg # PADDING => p = LineParts(line, args)[m])
        BY <1>1, <3>1
      <4>2. line[m] # PADDING => LineParts(line, args)[m] = Sized(args[line[m]], line[m])
        <5>1. m \in DOMAIN line
          BY <1>6, <3>1
        <5>. QED BY <5>1 DEF LineParts
      <4>. HIDE DEF p
      <4>. QED BY <4>1, <4>2
    <3>. QED BY <2>5, <3>1
  <2>. HIDE DEF p, v, texts
  <2>7. /\ col(m) \in [1..h -> Nat]
        /\ p.arg = PADDING => Total(col(m)) = 0
        /\ p.arg # PADDING => Total(col(m)) = TextOf(args[p.arg])
    BY <1>1, <2>1, <2>2, <2>3, <2>6, PartRows
  <2>8. Total(col(m)) \in Nat
    BY <1>1, <2>7, PrefixIs
  <2>. QED BY <2>1, <2>4, <2>5, <2>7, <2>8
<1>8. texts \in [1..n -> Nat]
  <2>1. texts = [m \in 1..n |-> texts[m]]
    BY <1>6 DEF TextsOf
  <2>2. ASSUME NEW m \in 1..n
        PROVE  texts[m] \in Nat
    <3>1. m \in 1..last /\ m <= n
      BY <1>1
    <3>. HIDE DEF v, texts
    <3>. QED BY <1>7, <3>1
  <2>. HIDE DEF texts
  <2>. QED BY <2>1, <2>2
<1>9. v \in [1..last -> Nat]
  <2>1. \A m \in 1..last : Total(col(m)) \in Nat
    BY <1>7
  <2>. QED BY <2>1
<1>. HIDE DEF v, texts, n, last
<1>10. Total(v) = Total(texts)
  <2>1. last \in Nat /\ n \in Nat /\ n <= last
    BY <1>1
  <2>2. \A m \in 1..last : v[m] = IF m <= n THEN texts[m] ELSE 0
    BY <1>7
  <2>3. Extends(last, n, v, texts)
    BY <1>8, <1>9, <2>1, <2>2 DEF Extends
  <2>. QED BY <2>3, TotalExtended
<1>. QED BY <1>5, <1>8, <1>10 DEF texts, row, n, TextOfRows

\* The text of what is promised is that of the arguments.
LEMMA TextKept ==
  ASSUME NEW args, Arrays(args), NEW layout, NEW spec, Sizes2D(layout, args, spec),
         NEW t, Laid(layout, args, spec, t)
  PROVE  Whole(Lengths(t, spec.rows, spec.cols))
           = Total([l \in DOMAIN layout |-> Total(TextsOf(layout[l], args))])
<1>. DEFINE n == Len(layout)
            r == spec.rows
            c == spec.cols
            tall == Tall(layout, args)
            top == Prefix(tall)
            lengths == Lengths(t, r, c)
            x == RowTotals(lengths, r)
            texts(l) == TextsOf(layout[l], args)
            v == [l \in 1..n |-> Total(texts(l))]
<1>1. /\ n \in Nat /\ DOMAIN layout = 1..n /\ tall \in [1..n -> Nat] /\ r \in Nat /\ c \in Nat
      /\ Sums(tall, n, top) /\ top[n] = r /\ t \in [1..r -> [1..c -> Cell]]
      /\ \A l \in 1..n : layout[l] \in Seq(0..Len(args))
      /\ \A l \in 1..n : \A i \in 1..tall[l] : top[l - 1] + i \in 1..r
  BY DEF Sizes2D, Laid
<1>2. lengths \in [1..r -> [1..c -> Nat]]
  <2>1. ASSUME NEW i \in 1..r, NEW j \in 1..c
        PROVE  StringLength(t[i][j]) \in Nat
    <3>1. t[i][j] \in Cell
      BY <1>1
    <3>. QED BY <3>1, CellLength
  <2>. QED BY <2>1 DEF Lengths
<1>3. \A i \in 1..r : x[i] = Total([j \in 1..c |-> StringLength(t[i][j])])
  <2>1. \A i \in 1..r : lengths[i] = [j \in 1..c |-> StringLength(t[i][j])]
    BY DEF Lengths
  <2>. HIDE DEF lengths, r, c
  <2>. QED BY <2>1 DEF RowTotals
<1>. HIDE DEF lengths
<1>4. x \in [1..r -> Nat] /\ Whole(lengths) = Total(x)
  <2>. HIDE DEF r, c
  <2>. QED BY <1>1, <1>2, WholeIs
<1>5. ASSUME NEW l \in 1..n
      PROVE  /\ Total(texts(l)) \in Nat
             /\ Total(texts(l)) = Total([i \in 1..tall[l] |-> x[top[l - 1] + i]])
  <2>. DEFINE up == top[l - 1]
              h == tall[l]
              line == layout[l]
              f == WithGap(line, args, c)
  <2>1. Placed(args, t, r, c, line, f, up, h, top[l])
    BY LinePlaced
  <2>2. line \in Seq(0..Len(args))
    BY <1>1
  <2>3. \A i \in 1..h : x[up + i] = Total([j \in 1..c |-> StringLength(t[up + i][j])])
    <3>1. \A i \in 1..h : up + i \in 1..r
      BY <1>1
    <3>. HIDE DEF x, up, h, r, c
    <3>. QED BY <1>3, <3>1
  <2>. DEFINE low == top[l]
              s == TextsOf(line, args)
              e == Len(line)
  <2>4. Placed(args, t, r, c, line, f, up, h, low)
    BY <2>1
  <2>5. texts(l) = s /\ e \in Nat
    BY <2>2
  <2>. HIDE DEF up, h, line, f, low, r, c, x
  <2>6. s \in [1..e -> Nat] /\ TextOfRows(t, c, up, h) = Total(s)
    BY <1>1, <2>2, <2>4, LineText
  <2>7. [i \in 1..h |-> x[up + i]] = [i \in 1..h |-> Total([j \in 1..c |-> StringLength(t[up + i][j])])]
    BY <2>3
  <2>. HIDE DEF s, e, texts
  <2>8. Total(s) \in Nat
    BY <2>5, <2>6, PrefixIs
  <2>9. Total([i \in 1..h |-> x[up + i]]) = TextOfRows(t, c, up, h)
    BY <2>7 DEF TextOfRows
  <2>. QED BY <2>5, <2>6, <2>8, <2>9 DEF up, h
<1>. HIDE DEF texts, x, tall, top, r, c
<1>6. v \in [1..n -> Nat]
  BY <1>5
<1>7. Segments(n, tall, top, x, v)
  <2>1. \A l \in 1..n : v[l] = Total([i \in 1..tall[l] |-> x[top[l - 1] + i]])
    BY <1>5
  <2>. HIDE DEF v, n
  <2>. QED BY <1>1, <1>4, <1>6, <2>1 DEF Segments
<1>8. Total(x) = Total(v)
  <2>. HIDE DEF v, n
  <2>. QED BY <1>7, TotalOfSegments
<1>9. [l \in DOMAIN layout |-> Total(TextsOf(layout[l], args))] = v
  BY <1>1 DEF texts
<1>. QED BY <1>4, <1>8, <1>9 DEF lengths, r, c

\* What a block's cells take fits the room taken for it.
LEMMA BlockFits ==
  ASSUME NEW args, Arrays(args), NEW layout, NEW spec, spec = LayoutOf(layout, args),
         Sizes2D(layout, args, spec), NEW t, Laid(layout, args, spec, t)
  PROVE  Total([i \in DOMAIN t |-> Total([j \in DOMAIN t[i] |-> Stored(t[i][j])])])
           <= BlockRoom(layout, args)
<1>. DEFINE r == spec.rows
            c == spec.cols
            x == StoredIn(t, r, c)
            y == Lengths(t, r, c)
            z == Total([l \in DOMAIN layout |-> Total(TextsOf(layout[l], args))])
<1>1. r \in Nat /\ c \in Nat /\ t \in [1..r -> [1..c -> Cell]]
  BY DEF Sizes2D, Laid
<1>2. BlockRoom(layout, args) = TextRoom(z, r, c)
  BY DEF BlockRoom
<1>3. Whole(y) = z
  BY TextKept
<1>. HIDE DEF r, c, z
<1>4. Whole(x) <= TextRoom(Whole(y), r, c)
  BY <1>1, RoomSuffices
<1>5. Total([i \in DOMAIN t |-> Total([j \in DOMAIN t[i] |-> Stored(t[i][j])])]) = Whole(x)
  <2>1. DOMAIN x = 1..r /\ DOMAIN t = 1..r
    BY <1>1 DEF StoredIn
  <2>2. \A i \in 1..r : x[i] = [j \in DOMAIN t[i] |-> Stored(t[i][j])]
    BY <1>1 DEF StoredIn
  <2>. HIDE DEF x
  <2>3. [i \in DOMAIN t |-> Total([j \in DOMAIN t[i] |-> Stored(t[i][j])])] = [i \in DOMAIN x |-> Total(x[i])]
    BY <2>1, <2>2
  <2>. QED BY <2>3 DEF Whole
<1>. QED BY <1>2, <1>3, <1>4, <1>5

\* xloBlock.cpp:119, 139, 143: each line has its arguments beside one another with NA
\* below those which are lower, and the gap where the padding is; and the room
\* for text, taken before any part is written, is enough for all cells.
THEOREM BlocksLaidOut == Spec => []LaidOut
<1>1. AnswerInv => LaidOut
  <2>. SUFFICES ASSUME AnswerInv, Returned("block") PROVE LaidOut
    BY DEF LaidOut
  <2>1. call.fn = "block" /\ at = "done" /\ call \in Calls
    BY DEF Returned, AnswerInv
  <2>. DEFINE args == call.args
              layout == call.layout
              spec == LayoutOf(layout, args)
              t == Promised(layout, args, spec.cols)
  <2>2. Arrays(args) /\ layout \in Seq(Seq(0..Len(args)))
    BY <2>1, CallConstants DEF Arrays
  <2>3. result = Block(layout, args)
    BY <2>1 DEF AnswerInv, Answer
  <2>. HIDE DEF args, layout
  <2>4. ASSUME spec.rows > 0, spec.cols > 0
        PROVE  /\ result = FlattenSeq([n \in DOMAIN layout |-> RowsOfLine(layout[n], args, spec.cols)])
               /\ Total([i \in DOMAIN result |-> Total([j \in DOMAIN result[i] |-> Stored(result[i][j])])])
                    <= BlockRoom(layout, args)
    <3>1. Sizes2D(layout, args, spec)
      BY <2>2, LayoutSizes
    <3>2. spec.rows # 0 /\ spec.cols # 0
      BY <2>4
    <3>. DEFINE l == LayoutOf(layout, args)
    <3>3. Laid(layout, args, spec, t)
      BY <2>2, <3>1, PromisedIsLaid
    <3>4. Block(layout, args) = t
      BY <2>2, <3>2, BlockIsPromised
    <3>5. Total([i \in DOMAIN t |-> Total([j \in DOMAIN t[i] |-> Stored(t[i][j])])]) <= BlockRoom(layout, args)
      <4>. HIDE DEF t
      <4>. QED BY <2>2, <3>1, <3>3, BlockFits
    <3>6. t = FlattenSeq([n \in DOMAIN layout |-> RowsOfLine(layout[n], args, spec.cols)])
      BY DEF Promised
    <3>7. result = t
      BY <2>3, <3>4
    <3>. HIDE DEF t
    <3>. QED BY <3>5, <3>6, <3>7
  <2>. HIDE DEF t
  <2>5. LaidOut
    BY <2>4 DEF LaidOut, args, layout
  <2>. QED BY <2>5
<1>. QED BY <1>1, CallsAnswered, PTL
=============================================================================
