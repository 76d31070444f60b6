SPECIFICATION Spec
CONSTANTS
  None = None
  Draft = Draft
  i1 = i1
  i2 = i2
  r1 = r1
  r2 = r2
  k1 = k1
  Keys = {k1}
  Requests <- MCRequests
  Instances = {i1, i2}
  InstanceOf <- MCInstanceOf
  KeyOf <- MCKeyOf
  EREOutcomes = {match}
  Times <- MCTimes
  Bulk = {}
  Immediate = {}
  MaxTime = 2
  MaxResponses = 1
  MaxFaults = 0
PROPERTIES
  EngineAuthoritative
CHECK_DEADLOCK FALSE
