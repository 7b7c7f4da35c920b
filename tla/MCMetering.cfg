SPECIFICATION Spec
CONSTANTS
  TicksPerHour = 2
  ReportWindow = 2
  MaxTicks = 8
  MaxUnits = 4
INVARIANTS
  TypeOK
  NeverOverbilled
  OnlyLateSealsAreLost
PROPERTIES
  ClosedBucketsReported
CHECK_DEADLOCK FALSE
