--------------------------- MODULE MCDecisionStore ---------------------------
(* A small instance of DecisionStore. *)
EXTENDS DecisionStore, TLC

CONSTANTS c1, c2     \* clusters
CONSTANTS low, other \* references: one of each

MCClusters == {c1, c2}
MCReferences == {low, other}
MCPlainClusterOf == [r \in MCReferences |-> IF r = other THEN c2 ELSE c1]

\* One list, longer than MaxCandidates.
MCCandidateLists == {<<low, other>>}

\* Writers differ only in name.
Symmetry == Permutations(Writers)
=============================================================================
