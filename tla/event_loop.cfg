SPECIFICATION FairLoopSpec
CONSTANTS
  MaxPds = 2
  MaxThreads = 3
  InferiorId = {}
  ThreadId = {}
  VSpace = {}
  Tcb = {tcb1, tcb2}
  NoTcb = NoTcb
  GdbIdMod = 64
  WireMod = 3
  OneDigit = 16
  Junk = {0}
  FaultKinds = {"swbreak"}
  HostOps = {"D"}
  VContKinds = {"s", "c"}
  StrictHost = TRUE
  IdxLimit = 2
  NoThread = NoThread
  MaxNoise = 1
INVARIANTS LoopTypeOK AckQuiescent AllStop HostTargetAgrees StepIsolation NoLostWakeup NobodyWaitsInVain
PROPERTIES ContinueResumesAll InterruptStops FaultReported CommandAnswered
