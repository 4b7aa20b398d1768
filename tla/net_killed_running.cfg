SPECIFICATION NetSpec
CONSTANTS
  Capacity = 8
  Buffers = 2
  MaxAcks = 2
  ReturnsWhileStoring = FALSE
INVARIANT StrictAllStop
CHECK_DEADLOCK FALSE
