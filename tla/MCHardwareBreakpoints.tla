----------------------- MODULE MCHardwareBreakpoints -----------------------
(***************************************************************************)
(* A small instance of HardwareBreakpoints: a breakpoint and three         *)
(* watchpoints, two of them at one address, for one breakpoint slot and    *)
(* two watchpoint slots; two threads, one of which cannot hold one of the  *)
(* watchpoints.                                                            *)
(***************************************************************************)
EXTENDS HardwareBreakpoints

CONSTANTS t1, t2

BreakA == [addr |-> 1, type |-> "exec", size |-> 0]
WatchA == [addr |-> 1, type |-> "write", size |-> 8]
WatchANarrow == [addr |-> 1, type |-> "write", size |-> 4]
WatchB == [addr |-> 2, type |-> "access", size |-> 8]

MCTcb == {t1, t2}
MCPoint == {BreakA, WatchA, WatchANarrow, WatchB}
MCRefused == {<<t2, WatchB>>}
=============================================================================
