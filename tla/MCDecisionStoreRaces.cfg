SPECIFICATION Spec
CONSTANTS
  None = None
  c1 = c1
  c2 = c2
  low = low
  other = other
  Keys = {k1}
  Writers = {w1, w2}
  Clusters <- MCClusters
  References <- MCReferences
  ClusterOf <- MCPlainClusterOf
  CandidateLists <- MCCandidateLists
  Times = {1, 2, 3}
  MaxCandidates = 1
  MaxCalls = 3
  MaxReviews = 1
INVARIANTS
  TypeOK
  CallsConsistent
  AnswerIsLasting
PROPERTIES
  ImplementsRegister
  BoundaryAdvances
CHECK_DEADLOCK FALSE
SYMMETRY Symmetry
