---------------------------- MODULE MCRtdAsync ----------------------------
EXTENDS RtdAsyncProps
CONSTANTS a1, a2

\* An array formula over two cells, and a formula which replaces it in the second.
Apart == {<<1, 2>>, <<2, 2>>}
OneOf == [r \in Regions |-> IF r[1] = 1 THEN Args ELSE {a2, None}]
\* Array and single formula which start in one cell.
Shared == {<<1, 2>>, <<1, 1>>}
=============================================================================
