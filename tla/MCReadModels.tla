----------------------------- MODULE MCReadModels -----------------------------
EXTENDS ReadModels, TLC

CONSTANT n

\* The anchor appears, then a neighbor, whose validity ends again.
History == <<{}, {Anchor}, {Anchor, n}, {Anchor}>>
MCNodesAt == [v \in 0 .. MaxVersion |-> History[v + 1]]
===============================================================================
