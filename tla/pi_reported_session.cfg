SPECIFICATION Spec
CONSTANTS
  Keys = {k1,k2}
  Entries = {e1}
  Streams = {s1}
  Cancellable = {}
  Callers = {c1}
  Closers = {}
  Kinds = {"new"}
  Options <- SameOptions
  MaxCandidates = 1
  None = None
INVARIANT PromptRunsInReportedSession
CHECK_DEADLOCK FALSE
