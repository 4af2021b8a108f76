SPECIFICATION FairSpec
CONSTANTS
  s1 = s1
  s2 = s2
  m1 = m1
  m2 = m2
  m3 = m3
  m4 = m4
  m5 = m5
  SffBits = {1}
  EffBits = {1, 2, 3, 4, 5}
  EFF_FLAG = 31
  mReceivers <- MCReceivers
  Backend <- MCBackend
  Frames <- MCFrames
  NoFrame = NoFrame
  Failure = Failure
  Message = {m1, m2, m3, m4, m5}
  Source = {s1, s2}
  Pgn = {0, 1, 2, 3, 4}
  SrcOf <- MCSrcOf
  PgnOf <- MCPgnOf
  Size <- MCSize
  Factory <- MCFactory
  NameOf <- MCNameOf
  Empty = "throw"
  FormatBits = {3, 4, 5}
  SpecificBits = {2}
  SourceBits = {1}
  SourceId <- MCSourceId
  DataId <- MCDataId
  TP_CM_ID = {4}
  TP_DT_ID = {5}
  Programs <- MCPrograms
  Traffic <- MCTraffic
  OnBusOf <- MCOnBusOf
INVARIANTS HandsOnWanted ShownIsSent
PROPERTIES EveryClaimShown MessageShown
CHECK_DEADLOCK FALSE
