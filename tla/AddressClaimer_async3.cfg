SPECIFICATION MCSpec
CONSTANTS
  e1 = e1
  e2 = e2
  e3 = e3
  Nodes = {e1, e2, e3}
  EcuName <- MCEcuName
  Preferred <- MCPreferTwo
  Requests <- MCRequests
  MaxRequests = 0
  MaxLost = 0
  Timely = FALSE
  SpuriousWakeups = TRUE
INVARIANTS TypeOK NoSilentConflict LowestKeepsFirstChoice
PROPERTIES YieldsToStronger
CHECK_DEADLOCK FALSE
