SPECIFICATION MCFairSpec
CONSTANTS
  SffBits = {1}
  EffBits = {1, 2}
  EFF_FLAG = 31
  mReceivers <- MCReceivers
  Backend <- MCBackend
  Frames <- MCFrames
  NoFrame = NoFrame
  Failure = Failure
  Clients = {c1}
  Decode <- MCDecode
  Messages = {{}}
  Values = {7}
  None = None
  BufferSize = 1
  QueueSize = 2
  MaxAnswers = 1
INVARIANTS UnchangedIsShown
PROPERTIES ShowsUp ResetReturns
CHECK_DEADLOCK FALSE
