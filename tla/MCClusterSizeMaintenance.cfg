SPECIFICATION SizeSpec
CONSTANTS
  None = None
  c1 = c1
  c2 = c2
  low = low
  high = high
  other = other
  Keys = {k1, k2}
  Writers = {w1, w2}
  Clusters <- MCClusters
  References <- MCReferences
  ClusterOf <- MCClusterOf
  CandidateLists <- MCCandidateLists
  Times = {1, 2}
  MaxCandidates = 1
  MaxCalls = 3
  MaxReviews = 0
INVARIANTS
  SizeTypeOK
  SizesFollow
  VerifiedAtRest
SYMMETRY MCSymmetry
CHECK_DEADLOCK FALSE
