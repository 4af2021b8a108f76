SPECIFICATION Spec
CONSTANTS
  s1 = s1
  s2 = s2
  m1 = m1
  m2 = m2
  m3 = m3
  m4 = m4
  p1 = p1
  p2 = p2
  p3 = p3
  p4 = p4
  NoMessage = NoMessage
  Source = {s1}
  Message = {m1, m2}
  Pgn = {p1, p2, p3, p4}
  SrcOf <- MCSrcOf
  PgnOf <- MCPgnOf
  Size <- MCSize
  Decode <- MCDecode
  Strays = {}
  MaxMessages = 2
  MaxAborts = 0
  MaxLost = 2
INVARIANTS WaitsForNewMessage
CHECK_DEADLOCK FALSE
