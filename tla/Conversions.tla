---------------------------- MODULE Conversions ----------------------------
(***************************************************************************)
(* Addresses and dates, each written and read back. Addresses of cells and *)
(* ranges are those of xlOil-XLL/Caller.cpp. A reference counts rows and   *)
(* columns from zero. An address is a sequence of characters: letters of   *)
(* either case are the numbers 1 to 26, digits 30 to 39.                   *)
(***************************************************************************)
EXTENDS Integers, Sequences

XL_MAX_ROWS == 1048576
XL_MAX_COLS == 16384

Letters == 1..26
Zero == 30
Digits == Zero..Zero + 9
Colon == 40
LetterR == 18
LetterC == 3

Ref(r1, r2, c1, c2) == [rwFirst |-> r1, rwLast |-> r2, colFirst |-> c1, colLast |-> c2]

\* The references to cells and ranges of a sheet, whichever corner comes first.
SheetRef == [rwFirst: 0..XL_MAX_ROWS - 1, rwLast: 0..XL_MAX_ROWS - 1,
             colFirst: 0..XL_MAX_COLS - 1, colLast: 0..XL_MAX_COLS - 1]

-----------------------------------------------------------------------------
\* unsignedToString<10>(), for numbers of up to seven digits.
Decimal(n) ==
  LET places == CHOOSE p \in 1..7 : n < 10^p /\ (p > 1 => n >= 10^(p - 1))
  IN [k \in 1..places |-> Zero + ((n \div 10^(places - k)) % 10)]

\* fillColumnNameCache(), writeColumn(): A to Z, then AA to ZZ, then AAA to XFZ.
ColumnName(col) ==
  LET two == col - 26
      three == col - 26 - 26 * 26
  IN IF col < 26 THEN <<col + 1>>
     ELSE IF three < 0 THEN <<two \div 26 + 1, (two % 26) + 1>>
     ELSE <<three \div (26 * 26) + 1, ((three \div 26) % 26) + 1, (three % 26) + 1>>

WriteA1(row, col) == ColumnName(col) \o Decimal(row + 1)
WriteRC(row, col) == <<LetterR>> \o Decimal(row + 1) \o <<LetterC>> \o Decimal(col + 1)

\* writeLocalAddress(), with room enough.
LocalAddress(ref, a1) ==
  LET Write(row, col) == IF a1 THEN WriteA1(row, col) ELSE WriteRC(row, col)
  IN IF ref.rwFirst = ref.rwLast /\ ref.colFirst = ref.colLast
     THEN Write(ref.rwFirst, ref.colFirst)
     ELSE Write(ref.rwFirst, ref.colFirst) \o <<Colon>> \o Write(ref.rwLast, ref.colLast)

-----------------------------------------------------------------------------
(***************************************************************************)
(* A parser starts at a position of the address and gives a value, -1 if   *)
(* there is none, with the position it has come to.                        *)
(***************************************************************************)
At(s, p) == IF p <= Len(s) THEN s[p] ELSE 0

\* How many of the next characters, most at most, are in Chars.
Run(s, p, most, Chars) ==
  CHOOSE k \in 0..most : /\ \A i \in 0..k - 1 : At(s, p + i) \in Chars
                         /\ k < most => At(s, p + k) \notin Chars

\* parseUnsigned(): the value of the first k characters, of which each counts
\* by how far it is above base.
Unsigned(s, p, k, radix, base) ==
  LET value[i \in 0..k] == IF i = 0 THEN 0 ELSE value[i - 1] * radix + s[p + i - 1] - base
  IN value[k]

\* The value less one, as references count from zero, unless it is too large.
Number(s, p, most, Chars, radix, base, max) ==
  LET k == Run(s, p, most, Chars)
      v == Unsigned(s, p, k, radix, base) - 1
  IN [val |-> IF v > max THEN -1 ELSE v, next |-> p + k]

\* Fault: letters are taken for digits from A = 0.
ColLettersFromZero(s, p) == Number(s, p, 3, Letters, 26, 1, XL_MAX_COLS)

ColLetters(s, p) == Number(s, p, 3, Letters, 26, 0, XL_MAX_COLS)
RowNumber(s, p) == Number(s, p, 7, Digits, 10, Zero, XL_MAX_ROWS)

\* readPrefixedNumber()
Prefixed(s, p, prefix, most, max) ==
  IF At(s, p) = prefix THEN Number(s, p + 1, most, Digits, 10, Zero, max)
                       ELSE [val |-> -1, next |-> p]

Unread == [ok |-> FALSE, ref |-> Ref(0, 0, 0, 0)]
Read(r1, r2, c1, c2) ==
  [ok |-> \A v \in {r1, r2, c1, c2} : v >= 0, ref |-> Ref(r1, r2, c1, c2)]

\* localAddressToXlRef(). What begins as A1 may turn out to be R1C1: its R has
\* been read as a column.
ParseAddress(s) ==
  LET col   == ColLetters(s, 1)
      row   == RowNumber(s, col.next)
      col2  == ColLetters(s, row.next + 1)
      row2  == RowNumber(s, col2.next)
      rcCol == Prefixed(s, row.next, LetterC, 5, XL_MAX_COLS)
      rcR2  == Prefixed(s, rcCol.next + 1, LetterR, 7, XL_MAX_ROWS)
      rcC2  == Prefixed(s, rcR2.next, LetterC, 5, XL_MAX_COLS)
  IN IF row.next > Len(s) THEN Read(row.val, row.val, col.val, col.val)
     ELSE IF At(s, row.next) = Colon THEN Read(row.val, row2.val, col.val, col2.val)
     ELSE IF rcCol.next > Len(s) THEN Read(row.val, row.val, rcCol.val, rcCol.val)
     ELSE IF At(s, rcCol.next) = Colon THEN Read(row.val, rcR2.val, rcCol.val, rcC2.val)
     ELSE Unread

-----------------------------------------------------------------------------
(***************************************************************************)
(* Excel's serial dates (xlOil-XLL/Date.cpp): day 1 is the first of        *)
(* January 1900, and there is a 29 February 1900.                          *)
(***************************************************************************)
XL_MAX_SERIAL_DATE == 2958465

\* The quotient rounded towards zero, as C++ rounds it.
Quotient(n, d) == IF n >= 0 THEN n \div d ELSE -((-n) \div d)

Date(y, m, d) == [year |-> y, month |-> m, day |-> d]

\* Fault: days before the leap day which was not are not made up for.
SerialDateToYMDUncompensated(serial) ==
  LET l0 == serial + 68569 + 2415019
      n  == Quotient(4 * l0, 146097)
      l1 == l0 - Quotient(146097 * n + 3, 4)
      i  == Quotient(4000 * (l1 + 1), 1461001)
      l2 == l1 - Quotient(1461 * i, 4) + 31
      j  == Quotient(80 * l2, 2447)
      l3 == Quotient(j, 11)
  IN Date(100 * (n - 49) + i + l3, j + 2 - 12 * l3, l2 - Quotient(2447 * j, 80))

\* excelSerialDateToYMD()
SerialDateToYMD(serial) ==
  LET l0 == (IF serial < 60 THEN serial + 1 ELSE serial) + 68569 + 2415019
      n  == Quotient(4 * l0, 146097)
      l1 == l0 - Quotient(146097 * n + 3, 4)
      i  == Quotient(4000 * (l1 + 1), 1461001)
      l2 == l1 - Quotient(1461 * i, 4) + 31
      j  == Quotient(80 * l2, 2447)
      l3 == Quotient(j, 11)
  IN IF serial = 60 THEN Date(1900, 2, 29)
     ELSE Date(100 * (n - 49) + i + l3, j + 2 - 12 * l3, l2 - Quotient(2447 * j, 80))

\* excelSerialDateFromYMD()
SerialDateFromYMD(date) ==
  LET y == date.year
      m == date.month
      q == Quotient(m - 14, 12)
      s == Quotient(1461 * (y + 4800 + q), 4)
           + Quotient(367 * (m - 2 - 12 * q), 12)
           - Quotient(3 * Quotient(y + 4900 + q, 100), 4)
           + date.day - 2415019 - 32075
  IN IF date = Date(1900, 2, 29) THEN 60 ELSE IF s < 60 THEN s - 1 ELSE s
=============================================================================
