------------------------- MODULE SoftwareBreakpoints -------------------------
(***************************************************************************)
(* Software breakpoints of one inferior: set_software_breakpoint and       *)
(* unset_software_breakpoint (src/arch/arm/64/gdb.c) behind the packets    *)
(* Z0, z0 and D (src/gdb.c).                                               *)
(*                                                                         *)
(* An address counts instructions (4 bytes).  The kernel reads and writes  *)
(* words of 8 bytes, so the word at `a' holds the instructions at `a' (its *)
(* low half) and at `a + 1'.  GDB, external, is the environment: it sets a *)
(* breakpoint it has not set and unsets one it has, but may send a packet  *)
(* again when it missed the acknowledgement (MayResend).                   *)
(***************************************************************************)
EXTENDS Naturals, FiniteSets

CONSTANTS Mapped, Site, Brk,
          MaxSwBreaks,      \* MAX_SW_BREAKS
          MayResend

ASSUME AddressAssumption ==
  /\ Mapped \subseteq Nat \ {0}   \* the first page is never mapped
  /\ Site \subseteq Nat \ {0}
  /\ Brk \notin Nat
ASSUME TableAssumption == MaxSwBreaks \in Nat \ {0} /\ MayResend \in BOOLEAN

VARIABLES
  software_breakpoints,  \* the table: slots of [addr, lo, hi]; addr 0 is free
  mem,                   \* the debuggee's instructions
  inserted,              \* breakpoints GDB was told are in place
  last                   \* the packet GDB sent last

vars == <<software_breakpoints, mem, inserted, last>>

Index == 0 .. MaxSwBreaks - 1
Insn == Nat \cup {Brk}
Text == [x \in Mapped |-> x]
Overlay(s) == [x \in Mapped |-> IF x \in s THEN Brk ELSE x]
NullBreak == [addr |-> 0, lo |-> 0, hi |-> 0]

\* seL4_ARM_VSpace_Read_Word and Write_Word fail on an unmapped address.
Accessible(a) == {a, a + 1} \subseteq Mapped
\* Memory after the word [lo, hi] is written at a.
WithWord(m, a, lo, hi) == [m EXCEPT ![a] = lo, ![a + 1] = hi]

FirstWith(a) ==
  {i \in Index : /\ software_breakpoints[i].addr = a
                 /\ \A j \in 0 .. i - 1 : software_breakpoints[j].addr # a}

TypeOK ==
  /\ software_breakpoints \in [Index -> [addr : Nat, lo : Insn, hi : Insn]]
  /\ mem \in [Mapped -> Insn]
  /\ inserted \subseteq Site
  /\ last \in {<<"none", 0>>} \cup ({"Z0", "z0"} \X Site)

Init ==
  /\ software_breakpoints = [i \in Index |-> NullBreak]
  /\ mem = Text
  /\ inserted = {}
  /\ last = <<"none", 0>>

Sent(op, a) == /\ \/ a \notin inserted /\ op = "Z0"
                  \/ a \in inserted /\ op = "z0"
                  \/ MayResend /\ last = <<op, a>>
               /\ last' = <<op, a>>

\* The slot that remembers what was at a.
\* Mutant: the word is saved after the BRK was written.
SavedLate(a) == [addr |-> a, lo |-> Brk, hi |-> mem[a + 1]]
Saved(a) == [addr |-> a, lo |-> mem[a], hi |-> mem[a + 1]]
\* The text when no slot was free for a BRK already written.
\* Mutant: the BRK stays.
RefusedBrk(a) == WithWord(mem, a, Brk, mem[a + 1])
Refused(a) == WithWord(WithWord(mem, a, Brk, mem[a + 1]), a, mem[a], mem[a + 1])
\* The table without the breakpoint of slot i.
\* Mutants: the slot is kept; it is marked by an address nobody looks for.
FreedNot(i) == software_breakpoints
FreedOther(i) == [software_breakpoints EXCEPT ![i].addr = 0 - 1]
Freed(i) == [software_breakpoints EXCEPT ![i].addr = 0]

\* Z0: write the BRK, then look for a slot; without one put the word back.
SetSoftwareBreakpoint(a) ==
  /\ Sent("Z0", a)
  /\ \/ /\ Accessible(a)
        /\ \E i \in FirstWith(0) :
             software_breakpoints' =
               [software_breakpoints EXCEPT ![i] = Saved(a)]
        /\ mem' = WithWord(mem, a, Brk, mem[a + 1])
        /\ inserted' = inserted \cup {a}
     \/ /\ Accessible(a) /\ FirstWith(0) = {}
        /\ mem' = Refused(a)
        /\ UNCHANGED <<software_breakpoints, inserted>>
     \/ /\ ~Accessible(a)
        /\ UNCHANGED <<software_breakpoints, mem, inserted>>

\* z0: the whole saved word is written back.
UnsetSoftwareBreakpoint(a) ==
  /\ Sent("z0", a)
  /\ \/ \E i \in FirstWith(a) :
          /\ mem' = WithWord(mem, a, software_breakpoints[i].lo,
                                     software_breakpoints[i].hi)
          /\ software_breakpoints' = Freed(i)
     \/ FirstWith(a) = {} /\ UNCHANGED <<software_breakpoints, mem>>
  /\ inserted' = inserted \ {a}

\* D: every slot is unset in turn, so of the words that cover an instruction
\* the one in the last slot stays; then the table is cleared.  Free slots ask
\* to unset address 0, which is not mapped.
Covers(i, x) == software_breakpoints[i].addr \in {x, x - 1} \ {0}
\* Mutant: the last slot of the table is forgotten.
LastCoveringShort(x) ==
  {i \in 0 .. MaxSwBreaks - 2 :
     Covers(i, x) /\ \A j \in i + 1 .. MaxSwBreaks - 2 : ~Covers(j, x)}
LastCovering(x) ==
  {i \in Index : Covers(i, x) /\ \A j \in i + 1 .. MaxSwBreaks - 1 :
                                   ~Covers(j, x)}
Restored ==
  [x \in Mapped |->
     IF LastCovering(x) = {} THEN mem[x]
     ELSE LET b == software_breakpoints[CHOOSE i \in LastCovering(x) : TRUE]
          IN IF b.addr = x THEN b.lo ELSE b.hi]
Detach ==
  /\ mem' = Restored
  /\ software_breakpoints' = [i \in Index |-> NullBreak]
  /\ inserted' = {}
  /\ last' = <<"none", 0>>

Next == \/ \E a \in Site : \/ SetSoftwareBreakpoint(a)
                           \/ UnsetSoftwareBreakpoint(a)
        \/ Detach

Spec == Init /\ [][Next]_vars
-----------------------------------------------------------------------------
(* Properties *)

\* The debuggee's text has a BRK exactly where GDB was told a breakpoint is:
\* each other instruction is the program's own, whatever breakpoints were set
\* and unset before, refused or found in the way of one another.
BreakpointsInPlace == mem = Overlay(inserted)

\* The table knows each inserted breakpoint, once, and no other.
TableMatchesHost ==
  /\ {software_breakpoints[i].addr : i \in Index} \ {0} = inserted
  /\ \A i, j \in Index : software_breakpoints[i].addr # 0 /\
       software_breakpoints[i].addr = software_breakpoints[j].addr => i = j

\* The strengthening of BreakpointsInPlace that makes it inductive: a used slot
\* holds the two instructions the program has there.
SavedWordsTrue ==
  \A i \in Index : LET b == software_breakpoints[i] IN
    b.addr # 0 => Accessible(b.addr) /\ b.lo = b.addr /\ b.hi = b.addr + 1

\* "Clear any breakpoints/watchpoints" (handle_detach): when no breakpoint is
\* left in the table the program's text is what it was.
DetachRestoresText ==
  (\A i \in Index : software_breakpoints[i].addr = 0) => mem = Text

\* Set, unset and detach implement the abstract set of breakpoints.
Abstract == INSTANCE BreakpointSet
ImplementsSet == Abstract!Spec

\* No two of GDB's addresses share an 8-byte word.
Spaced == \A a \in Site : a + 1 \notin Site
=============================================================================
