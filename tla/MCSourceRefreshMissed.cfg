SPECIFICATION Spec
CONSTANTS
  s1 = s1
  r1 = r1
  r2 = r2
  None = None
  Triads = {1, 2}
  Sources = {s1}
  SourceOf <- MCSourceOf
  Clients = {r1}
  Times = {1, 2, 3}
  Limit = 1
  MaxFaults = 0
INVARIANT ChangesAreDelivered
SYMMETRY MCSymmetry
CHECK_DEADLOCK FALSE
