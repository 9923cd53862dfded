SPECIFICATION Spec
CONSTANTS
  Keys = {k1}
  Entries = {e1}
  Streams = {s1,s2}
  Cancellable = {}
  Callers = {}
  Closers = {}
  Kinds = {}
  Options <- SameOptions
  MaxCandidates = 1
  None = None
INVARIANT TerminalChunkSent
CHECK_DEADLOCK FALSE
