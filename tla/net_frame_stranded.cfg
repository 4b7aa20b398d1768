SPECIFICATION FairNetSpec
CONSTANTS
  Capacity = 8
  Buffers = 2
  MaxAcks = 2
  ReturnsWhileStoring = TRUE
PROPERTY FaultReported
CHECK_DEADLOCK FALSE
