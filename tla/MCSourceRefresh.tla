---------------------------- MODULE MCSourceRefresh ----------------------------
EXTENDS SourceRefresh, TLC

CONSTANTS s1, r1, r2

\* Two mentions of one source.
MCSourceOf == [t \in Triads |-> s1]

MCSymmetry == Permutations(Clients)
=============================================================================
