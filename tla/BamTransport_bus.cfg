SPECIFICATION Spec
CONSTANTS
  s1 = s1
  s2 = s2
  m1 = m1
  m2 = m2
  m3 = m3
  m4 = m4
  p1 = p1
  p2 = p2
  p3 = p3
  p4 = p4
  NoMessage = NoMessage
  Source = {s1, s2}
  Message = {m1, m2, m3, m4}
  Pgn = {p1, p2, p3, p4}
  SrcOf <- MCSrcOf
  PgnOf <- MCPgnOf
  Size <- MCSize
  Decode <- MCDecode
  Strays <- MCStrays
  MaxMessages = 4
  MaxAborts = 2
  MaxLost = 1
INVARIANTS TypeOK Contiguous NothingMissing
PROPERTIES ImplementsService
CHECK_DEADLOCK FALSE
ACTION_CONSTRAINT Tolerable
