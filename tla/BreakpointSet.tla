---------------------------- MODULE BreakpointSet ----------------------------
(***************************************************************************)
(* What software breakpoints promise: a debuggee's text is the program's   *)
(* own text with a BRK instruction at every inserted address and nowhere   *)
(* else, and a detach takes them all out.  set_software_breakpoint may     *)
(* refuse, in which case nothing changes.                                  *)
(***************************************************************************)
EXTENDS Naturals

CONSTANTS Mapped,   \* addresses of the instructions the debuggee has mapped
          Site,     \* addresses GDB sets breakpoints at
          Brk       \* the instruction AARCH64_BREAK_KGDB_DYN_DBG

VARIABLES inserted, mem

Text == [x \in Mapped |-> x]    \* an instruction is named by its address
Overlay(s) == [x \in Mapped |-> IF x \in s THEN Brk ELSE x]

Init == inserted = {} /\ mem = Text

Insert(a) == /\ inserted' = inserted \cup {a}
             /\ mem' = Overlay(inserted')
Remove(a) == /\ inserted' = inserted \ {a}
             /\ mem' = Overlay(inserted')
Clear == inserted' = {} /\ mem' = Text

Next == Clear \/ \E a \in Site : Insert(a) \/ Remove(a)

Spec == Init /\ [][Next]_<<inserted, mem>>
=============================================================================
