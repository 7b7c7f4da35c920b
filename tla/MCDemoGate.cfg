SPECIFICATION Spec
CONSTANTS
  MaxU64 = 1000
  MaxU32 = 100
  Reserved = 40
  NoPolicy = NoPolicy
  p1 = p1
  p2 = p2
  p3 = p3
  Carries <- MCCarries
  MaxAge = 1
  MaxFuture = 1
  SafetyMargin = 1
  MaxDispersion = 1
  Dispersion = 0
  VerifyTimeout = 2
  MaxReplay = 1
  MaxQueued = 2
  Balance = 3
  MaxTokens = 2
  MaxTime = 3
  MaxSteps = 1
  MaxLife = 2
CHECK_DEADLOCK FALSE
INVARIANTS
  TypeOK
  RejectedLeavesDb
  RetainedWhileFresh
  TwiceOnlyWhenLate
PROPERTIES
  EveryGateEnds
