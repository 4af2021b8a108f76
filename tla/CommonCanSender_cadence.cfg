SPECIFICATION FairSpec
CONSTANTS
  Sets <- MCSets
  MaxDelay = 2
INVARIANTS TypeOK UniqueRings Cadence
PROPERTIES CallsTakeEffect Finishes
CHECK_DEADLOCK FALSE
