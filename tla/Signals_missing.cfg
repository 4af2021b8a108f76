SPECIFICATION Spec
CONSTANTS
  MICROS = 4
  MILLIS = 2
  CAPACITY = 3
  DM1_PGN = 65226
  FMS1_PGN = 64893
  Clients = {"p", "q"}
  Queries <- MCQueries
  MAX_SAMPLES = 3
  U32 = 6
  StartUp = 3
  MaxClock = 8
  MaxQueries = 1
  Files <- MCFiles
  Priorities = {0}
  Addresses = {3}
  None = None
  Uses <- MCZeroUses
INVARIANT MissingIsChanged
CHECK_DEADLOCK FALSE
