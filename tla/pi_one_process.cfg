SPECIFICATION Spec
CONSTANTS
  Keys = {k1}
  Entries = {e1,e2}
  Streams = {s1,s2}
  Cancellable = {}
  Callers = {}
  Closers = {}
  Kinds = {}
  Options <- SameOptions
  MaxCandidates = 1
  None = None
INVARIANT OneProcessPerSession
CHECK_DEADLOCK FALSE
