----------------------------- MODULE MCRdmaRing -----------------------------
\* Bounded instances of RdmaRing.
EXTENDS RdmaRing, TLC

\* Consumers and configs are interchangeable.
RingSymmetry == Permutations(Consumers) \cup Permutations(Configs)

=============================================================================
