SPECIFICATION Spec
CONSTANTS
  A = A
  B = B
  None = None
  Ids = {1, 2, 3, 4, 5, 6, 7, 8}
  Clusters = {A, B}
  Times = {1, 2, 3}
  Confidences = {1, 2}
  Orderings <- MCSizeOrderings
  Filters <- MCNoFilters
  ActionFilters <- MCActionFilters
  Initial <- MCInitialScan
  Limit = 2
  MaxChanges = 0
  MaxRetries = 1
INVARIANT PagesCoverScan
CHECK_DEADLOCK FALSE
