SPECIFICATION FairSpec
CONSTANTS
  ConfigEntries <- AllEntries
  Config <- AConfig
  Retry <- ARetry
  Options <- SomeOptions
  MaxRescans = 1
  ProbeResults = {"free","limitedUntil","limited","error"}
  Unset = Unset
  ExcludeProviders = {}
INVARIANTS PickedIsBest OnlyRepeatableRepeated NoWayBack LastErrorReported
PROPERTIES RunsEnd CanceledPollEnds
CHECK_DEADLOCK FALSE
