SPECIFICATION Spec
CONSTANTS
  paid = paid
  paid2 = paid2
  free = free
  free2 = free2
  Calls <- MCCalls
  MayPresent <- WantOfCalls
  Registered = {"k1"}
  NoKey = "none"
  EnvKey = "env"
  PerMinute = 2
  PerDay = 1
  Minute = 2
  Day = 2
  DelegateTimeout = 1
  Quota = 1
  MaxTime = 2
SYMMETRY FreeSymmetry
CHECK_DEADLOCK FALSE
INVARIANTS
  TypeOK
  AdmittedWithinLimits
  PaidThroughServer
  SealLagsByOverlap
