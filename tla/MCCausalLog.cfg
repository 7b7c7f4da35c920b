SPECIFICATION Spec
CONSTANTS
  a = a
  b = b
  c = c
  EventIds = {a, b, c}
  NoEvent = NoEvent
  LogMax = 2
  EvictedMax = 1
  GraphDepth = 2
  Hops = 3
  MaxEntries = 4
  MaxTime = 1
  MaxQueue = 1
  MaxRestarts = 1
SYMMETRY IdSymmetry
INVARIANTS
  TypeOK
  IndexesExact
  FoundUnlessReused
  NoFalseBreak
  UnforkedCheckpointReaches
PROPERTIES
  RestoreKeepsNewest
CHECK_DEADLOCK FALSE
