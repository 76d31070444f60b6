SPECIFICATION Spec
CONSTANTS
  s1 = s1
  r1 = r1
  r2 = r2
  None = None
  Triads = {1, 2}
  Sources = {s1}
  SourceOf <- MCSourceOf
  Clients = {r1, r2}
  Times = {1, 2, 3}
  Limit = 1
  MaxFaults = 1
INVARIANTS TypeOK RefreshIsComplete
PROPERTY SnapshotAdvances
SYMMETRY MCSymmetry
CHECK_DEADLOCK FALSE
