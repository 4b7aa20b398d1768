SPECIFICATION Spec
CONSTANTS
  MaxPds = 2
  MaxThreads = 3
  InferiorId = {7, 8}
  ThreadId = {1}
  VSpace = {5}
  Tcb = {tcb1, tcb2}
  NoTcb = NoTcb
  GdbIdMod = 64
  WireMod = 3
  OneDigit = 16
  Junk = {0, 1}
  FaultKinds = {"swbreak", "abort"}
  HostOps = {"g", "G", "H", "T", "vCont"}
  VContKinds = {"c", "C"}
  StrictHost = TRUE
  IdxLimit = 2
  NoThread = NoThread
INVARIANTS NeverStuck
CHECK_DEADLOCK FALSE
SYMMETRY TcbSymmetry
