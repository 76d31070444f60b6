SPECIFICATION FairSpec
CONSTANTS
  None = None
  Draft = Draft
  i1 = i1
  i2 = i2
  r1 = r1
  r2 = r2
  k1 = k1
  Keys = {k1}
  Requests <- MCRequest
  Instances = {i1, i2}
  InstanceOf <- MCInstance
  KeyOf <- MCKey
  EREOutcomes = {match}
  Times <- MCTimes
  Bulk = {r1}
  Immediate = {}
  MaxTime = 2
  MaxResponses = 1
  MaxFaults = 2
PROPERTIES
  BegunIsAnswered
  OutcomeIsIntegrated
CHECK_DEADLOCK FALSE
