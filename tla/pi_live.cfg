SPECIFICATION FairSpec
CONSTANTS
  Keys = {k1}
  Entries = {e1}
  Streams = {s1}
  Cancellable = {s1}
  Callers = {c1}
  Closers = {x1}
  Kinds = {"steer","query"}
  Options <- SameOptions
  MaxCandidates = 1
  None = None
PROPERTIES CallersReturn CancelEndsStream ClosingIsFinal
CHECK_DEADLOCK FALSE
