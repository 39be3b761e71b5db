------------------------------ MODULE MCEvents ------------------------------
EXTENDS EventsProps
\* Which free address a node gets makes no difference.
AnyAddress == Permutations(Addresses)
=============================================================================
