SPECIFICATION Spec
CONSTANTS
  Ifaces = {"can0", "can1"}
  Objects = {"x", "y"}
  Pgns = {1, 2}
  Pdu1 = {1}
  TP_CM_PGN = 3
  TP_DT_PGN = 4
  Sources = {10}
  Destinations = {255}
  BROADCAST = 255
  Values = {"a", "b", "long"}
  Packets <- MCPackets
  Periods = {0, 100, 200}
  Undefined = Undefined
  Free = Free
  NewSource = 10
  NewDestination = 255
  NewValue = "a"
  GuiPgns = {1}
  GuiPeriods = {100, 200}
  CliIfaces = {"can0"}
  CliPeriods = {0, 100}
  DM1_PGN = 2
  Statuses = {"on", "off"}
  NewStatus = "on"
  TtsIds <- MCTtsIds
  Tts = Tts
  Rates = {250, 500}
  Down = Down
  Peak = {"can1"}
  Clients = {"p", "q"}
  Requests <- MCRequests
  Invalid = "invalid"
  MaxRequests = 3
INVARIANTS TypeOK RingFollowsOwner DeletedIsSilent SentIsCurrent FewAnswersStuck AnswersFindAsker
CHECK_DEADLOCK FALSE
