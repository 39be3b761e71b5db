----------------------------- MODULE MCSession -----------------------------
EXTENDS SessionProps
CONSTANTS b1, b2, c1

\* No name is the start of another, or one is.
Distinct == {<<w, w>> : w \in Books}
Nested == Distinct \union {<<b1, b2>>}
=============================================================================
