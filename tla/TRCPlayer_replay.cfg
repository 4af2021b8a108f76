SPECIFICATION FairSpec
CONSTANTS
  Frames <- MCFrames
  MaxFrames = 3
  Stamps = {0, 1, 5}
  SECOND = 2
  WORD = 4
  Cleared = Cleared
  Decode <- MCDecode
  Messages = {1, 10}
  MaxTime = 3
INVARIANTS ReplaysRecording SurvivesKill PosNamesLast ListIsLatest
PROPERTIES Ends
CHECK_DEADLOCK FALSE
