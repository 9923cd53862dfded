SPECIFICATION FairDispatch
CONSTANTS
  Calls = {c1,c2}
  c1 = c1
  c2 = c2
  s1 = s1
  s2 = s2
  Scenarios <- AllScenarios
  Modes = {"tools","plain"}
  ChanCap = 1
  PipeCap = 1
  TailLines = 1
  MaxFrames = 1
  MaxRequests = 0
  MaxLines = 1
  Sessions = {s1,s2}
  Resumed = s1
  CaptureFailureLimit = 2
  MaxMessages <- SomeMessages
  EnvKeys = {"A","B","C",""}
  Ambient = {"B"}
  BadKeys = {""}
  Probes = {c1}
  Windows <- SomeWindows
  FallbackReset = 300
  NoReset = NoReset
  Peers = {p1,p2}
  MaxBridgeConnections = 1
INVARIANTS ReportedIsOwn AnswerIsFresh EnvironmentIsolated LimitIsAhead WorkersBounded
PROPERTIES StreamsKeepContract CancelStopsHeadless ProbeEnds BridgeDropEnds
CHECK_DEADLOCK FALSE
