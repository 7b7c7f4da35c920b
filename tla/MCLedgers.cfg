SPECIFICATION Spec
CONSTANTS
  MaxU64 = 1000
  MaxU32 = 100
  Reserved = 40
  NoPolicy = NoPolicy
  Nobody = Nobody
  Attempts = {a1, a2, a3}
  Frames <- MCFrames
  Policies <- MCPolicies
  Capacity = 1
  MaxAge = 1
  SafetyMargin = 1
  MaxTime = 4
SYMMETRY AttemptSymmetry
CHECK_DEADLOCK FALSE
INVARIANTS
  TypeOK
  TwiceOnlyAtTheEdge
  ClaimsMatchAnswers
