SPECIFICATION Spec
CONSTANTS
  TicksPerHour = 2
  ReportWindow = 2
  MaxTicks = 7
  MaxUnits = 3
PROPERTIES
  ClosedBucketsImmutable
CHECK_DEADLOCK FALSE
