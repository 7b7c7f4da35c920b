SPECIFICATION Spec
CONSTANTS
  c1 = c1
  c2 = c2
  c3 = c3
  Claims <- MCClaims
  Capacity = 2
  MaxTai = 4
  MaxAge = 1
  MaxFuture = 1
  MaxDispersion = 0
  SafetyMargin = 1
  Millisecond = 2
SYMMETRY ClaimSymmetry
INVARIANTS
  TypeOK
  AdmittedAtMostOnce
  PrimaryKeyNeverFires
  RetainedWhileValid
PROPERTIES
  Durable
