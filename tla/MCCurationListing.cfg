SPECIFICATION Spec
CONSTANTS
  A = A
  B = B
  None = None
  Ids = {1, 2, 3, 4}
  Clusters = {A, B}
  Times = {1, 2, 3}
  Confidences = {1, 2}
  Orderings <- MCOrderings
  Filters <- MCFilters
  ActionFilters <- MCActionFilters
  Initial <- MCInitial
  Limit = 1
  MaxChanges = 2
  MaxRetries = 1
INVARIANTS TypeOK  DeliveredInOrder CountIsExact
CHECK_DEADLOCK FALSE
