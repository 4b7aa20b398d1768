SPECIFICATION FairNetSpec
CONSTANTS
  Capacity = 8
  Buffers = 2
  MaxAcks = 2
  ReturnsWhileStoring = FALSE
INVARIANTS NetTypeOK InputDrained AllStop
PROPERTIES CommandAnswered FaultReported
