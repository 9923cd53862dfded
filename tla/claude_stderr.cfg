SPECIFICATION FairSpec
CONSTANTS
  Modes = {"query"}
  ChanCap = 1
  PipeCap = 1
  TailLines = 1
  MaxFrames = 0
  MaxRequests = 0
  MaxLines = 4
PROPERTY LinesAreDropped
CHECK_DEADLOCK FALSE
