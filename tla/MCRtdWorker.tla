---------------------------- MODULE MCRtdWorker ----------------------------
EXTENDS RtdWorkerProps, RtdClaims, TLC
CONSTANTS t1, t2, p1, p2

\* Both publishers compete for one topic, so that they may be exchanged.
SameTopic == [p \in {p1, p2} |-> t1]
Exchange == Permutations({p1, p2})

OnlyP1 == [p \in {p1} |-> t1]
NoPubs == [p \in {} |-> t1]
=============================================================================
