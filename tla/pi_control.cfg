SPECIFICATION PiStartsSpec
CONSTANTS
  Keys = {k1,k2}
  Entries = {e1,e2}
  Streams = {s1,s2}
  Cancellable = {s1,s2}
  Callers = {c1,c2}
  Closers = {x1}
  Kinds = {"steer","new","switch"}
  Options <- SameOptions
  MaxCandidates = 2
  None = None
SYMMETRY Symmetry
INVARIANTS TypeOK OneCommandAtATime OpenSessionsDistinct WaitersAreWaiting RegistryInv DoneLeavesNothing RefusedNeverSent NoReplayAfterWrite
PROPERTY AnsweredOnce
CHECK_DEADLOCK FALSE
