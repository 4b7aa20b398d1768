SPECIFICATION Spec
CONSTANTS
  MaxPds = 1
  MaxThreads = 2
  InferiorId = {7}
  ThreadId = {1, 2, 3}
  VSpace = {5}
  Tcb = {tcb1, tcb2, tcb3}
  NoTcb = NoTcb
  GdbIdMod = 64
  WireMod = 2
  OneDigit = 16
  Junk = {0}
  FaultKinds = {}
  HostOps = {"H", "vCont", "D"}
  VContKinds = {"s", "c"}
  StrictHost = FALSE
  IdxLimit = 3
  NoThread = NoThread
INVARIANTS TypeOK LiveIdsUnique GdbIdsResolve
PROPERTIES KernelStepKnown GdbIdsNeverReused RefusesOnlyWhenFull
CHECK_DEADLOCK FALSE
SYMMETRY TcbSymmetry
