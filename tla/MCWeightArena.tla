--------------------------- MODULE MCWeightArena ---------------------------
\* Bounded instances of WeightArena.
EXTENDS WeightArena

\* All ranks share one segment.
OneGroup == [r \in Rank |-> 0]

=============================================================================
