SPECIFICATION Spec
CONSTANTS
  NumBreakpoints = 1
  NumWatchpoints = 2
  MaxThreads = 2
  t1 = t1
  t2 = t2
  Tcb <- MCTcb
  NoTcb = NoTcb
  Clear = Clear
  Point <- MCPoint
  Refused <- MCRefused
INVARIANTS TypeOK TableMatchesHost EntriesArmed NoStray
PROPERTY ImplementsDebugPoints
