SPECIFICATION OmpSpec
CONSTANTS
  Keys = {i1,i2,s1}
  Entries = {e1}
  Streams = {s1}
  Cancellable = {}
  Callers = {c1}
  Closers = {}
  Kinds = {"new"}
  Options <- SameOptions
  MaxCandidates = 1
  None = None
INVARIANT StoredIdIsReal
CHECK_DEADLOCK FALSE
