SPECIFICATION FairSpec
CONSTANTS
  ConfigEntries <- AllEntries
  Config <- AConfig
  Retry <- ARetry
  Options <- SomeOptions
  MaxRescans = 1
  ProbeResults = {"free","limitedUntil"}
  Unset = Unset
  Owners = {"pi","claude-terminal"}
  MaxDeltas = 1
INVARIANTS OneStreamAtATime CancelStopsSoon ServerErrorIsFresh ResumedOnOwner RepeatsAreBounded
PROPERTY CancelEndsRun
CHECK_DEADLOCK FALSE
