SPECIFICATION MCFairSpec
CONSTANTS
  e1 = e1
  e2 = e2
  e3 = e3
  Nodes = {e1, e2, e3}
  EcuName <- MCEcuName
  Preferred <- MCPreferTwo
  Requests <- MCRequests
  MaxRequests = 1
  MaxLost = 1
  Timely = TRUE
  SpuriousWakeups = FALSE
INVARIANTS UniqueAddress
PROPERTIES Stabilises AllAddressed RequestRepairs
CHECK_DEADLOCK FALSE
