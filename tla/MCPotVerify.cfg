SPECIFICATION Spec
CONSTANTS
  MaxU64 = 1000
  MaxU32 = 100
  Reserved = 40
  NoPolicy = NoPolicy
  Never = Never
  Calls = {c1, c2}
  Requests <- MCRequests
  Confs <- MCConfs
  Issued <- MCIssued
  SelfKeys <- MCSelfKeys
  MaxSkew = 2
  MaxFutureSkew = 1
  ReplayTtl = 3
  AdmitTtl = 2
  FetchTimeout = 1
  MaxTime = 5
  MaxSends = 2
SYMMETRY CallSymmetry
CHECK_DEADLOCK FALSE
INVARIANTS
  TypeOK
  AcceptedIsGenuine
  V08TwiceOnlyWhenLate
  QuorumRecent
  ClaimedWasChecked
PROPERTIES
  AdmitOnceSpec
