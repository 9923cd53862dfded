SPECIFICATION FairSpec
CONSTANTS
  Modes = {"tools","plain"}
  ChanCap = 1
  PipeCap = 1
  TailLines = 1
  MaxFrames = 2
  MaxRequests = 2
  MaxLines = 2
INVARIANTS RequestsAnswered TextsBeforeResult LimitSeen
PROPERTY AgentEnds
CHECK_DEADLOCK FALSE
