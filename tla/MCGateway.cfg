SPECIFICATION Spec
CONSTANTS
  seal = seal
  verify = verify
  verify2 = verify2
  c1 = c1
  NoClaim = NoClaim
  Requests <- MCRequests
  MayAsk <- AskOfRequests
  Claims <- MCClaims
  MaxInflight = 2
  MaxPending = 2
  Capacity = 1
  MaxTai = 2
  MaxAge = 1
  MaxFuture = 0
  MaxDispersion = 0
  SafetyMargin = 1
  Millisecond = 1
INVARIANTS
  TypeOK
  ReceiptIsDurable
  SlotsExact
  MeteredBeforeSealed
PROPERTIES
  StoreSpec
  AdmitOnceSpec
  EveryRequestEnds
