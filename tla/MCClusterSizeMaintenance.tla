----------------------- MODULE MCClusterSizeMaintenance -----------------------
EXTENDS ClusterSizeMaintenance, TLC

CONSTANTS c1, c2          \* clusters
CONSTANTS low, high, other \* references: two scores of c1, one reference of c2

MCClusters == {c1, c2}
MCReferences == {low, high, other}
MCClusterOf == [r \in MCReferences |-> IF r = other THEN c2 ELSE c1]

\* One list, longer than MaxCandidates.
MCCandidateLists == {<<low, other>>}

\* Writers and decisions differ only in name.
MCSymmetry == Permutations(Writers) \union Permutations(Keys)
=============================================================================
