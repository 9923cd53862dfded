SPECIFICATION ThreeStartsSpec
CONSTANTS
  Keys = {i1,i2,s1,s2}
  Entries = {e1,e2}
  Streams = {s1,s2}
  Cancellable = {s1,s2}
  Callers = {c1}
  Closers = {x1}
  Kinds = {"steer","switch"}
  Options <- SameOptions
  MaxCandidates = 1
  None = None
SYMMETRY OmpSymmetry
INVARIANTS OpenSessionsDistinct StoredIdIsKey ReportedIsStored
CHECK_DEADLOCK FALSE
