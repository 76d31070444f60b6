SPECIFICATION FairCurationSpec
CONSTANTS
  k1 = k1
  k2 = k2
  c1 = c1
  c2 = c2
  A = A
  B = B
  None = None
  Keys = {k1, k2}
  Mentions = {k1}
  Curators = {c1, c2}
  Asks <- MCAsks
  Clusters = {A, B}
  Outcomes <- MCOutcomes
  Times = {1, 2, 3}
  BulkConcurrency = 1
  MaxRequests = 2
  MaxFaults = 1
  MaxChanges = 2
PROPERTIES AskedIsAnswered ReviewIsFinal
INVARIANTS TypeOK ReviewedHasAction CounterFollowsLog ToldAsRecorded PublishedWasRecorded
CHECK_DEADLOCK FALSE
