------------------------ MODULE HardwareBreakpoints ------------------------
(***************************************************************************)
(* Hardware breakpoints and watchpoints of one inferior: the tables        *)
(* hardware_breakpoints and hardware_watchpoints of src/include/gdb.h, the *)
(* functions that set and unset an entry (src/arch/arm/64/gdb.c) behind    *)
(* the packets Z1-Z4, z1-z4 and D, and the enabling of the entries for a   *)
(* thread that registers late (src/gdb.c).                                 *)
(*                                                                         *)
(* The two tables are one here: its first slots are the breakpoints, the   *)
(* others the watchpoints, as the kernel numbers the debug registers of a  *)
(* TCB (seL4_FirstBreakpoint, seL4_FirstWatchpoint).  A point is what one  *)
(* slot describes; for a breakpoint its type is "exec" and its size 0.     *)
(* The kernel, external, keeps the registers of a TCB when its thread      *)
(* exits, and refuses a point some TCB cannot hold.  GDB, external, sets a *)
(* point it has not set and unsets one it has.                             *)
(***************************************************************************)
EXTENDS Naturals

CONSTANTS NumBreakpoints,   \* seL4_NumExclusiveBreakpoints
          NumWatchpoints,   \* seL4_NumExclusiveWatchpoints
          MaxThreads,       \* MAX_THREADS
          Tcb, NoTcb,       \* TCB capabilities; a free thread slot holds none
          Clear,            \* a debug register that is off
          Point,            \* points GDB asks for: [addr, type, size]
          Refused           \* pairs <<t, p>>: SetBreakpoint of p on t fails

AccessType == {"exec", "write", "read", "access"}
PointRecord == [addr : Nat, type : AccessType, size : Nat]

ASSUME SizeAssumption == /\ NumBreakpoints \in Nat
                         /\ NumWatchpoints \in Nat
                         /\ MaxThreads \in Nat
ASSUME PointAssumption ==
  /\ Point \subseteq PointRecord
  /\ \A p \in Point : p.addr # 0 /\ (p.type = "exec" => p.size = 0)
  /\ Clear \notin PointRecord
ASSUME TcbAssumption == NoTcb \notin Tcb /\ Refused \subseteq Tcb \X Point

VARIABLES
  threads,     \* which TCB each enabled thread has
  hardware,    \* the two tables; address 0 marks a free slot
  regs,        \* debug registers of each TCB
  inserted,    \* points GDB was told are in place
  tenure       \* how often a TCB was registered: 0, 1 or 2 (more than once)

vars == <<threads, hardware, regs, inserted, tenure>>

ThreadSlot == 0 .. MaxThreads - 1
BreakSlot == 0 .. NumBreakpoints - 1
WatchSlot == NumBreakpoints .. NumBreakpoints + NumWatchpoints - 1
Slot == BreakSlot \cup WatchSlot
SlotsFor(p) == IF p.type = "exec" THEN BreakSlot ELSE WatchSlot
RangeOf(i) == IF i \in BreakSlot THEN BreakSlot ELSE WatchSlot

Live == {threads[j] : j \in ThreadSlot} \ {NoTcb}
Used(i) == hardware[i].addr # 0
\* An entry of zeroes; seL4_BreakOnRead is 0.
NullPoint(i) ==
  [addr |-> 0, type |-> IF i \in BreakSlot THEN "exec" ELSE "read", size |-> 0]

\* The first slot of p's table that S holds for.
First(S) == {i \in S : \A j \in S : i <= j}
FreeFor(p) == First({i \in SlotsFor(p) : ~Used(i)})
\* Mutant: a watchpoint is looked up by its address alone.
HoldingByAddr(p) == First({i \in SlotsFor(p) : hardware[i].addr = p.addr})
Holding(p) == First({i \in SlotsFor(p) : hardware[i] = p})

Init ==
  /\ threads = [j \in ThreadSlot |-> NoTcb]
  /\ hardware = [i \in Slot |-> NullPoint(i)]
  /\ regs = [t \in Tcb |-> [i \in Slot |-> Clear]]
  /\ inserted = {}
  /\ tenure = [t \in Tcb |-> 0]

\* The registers when slot i is written on the threads ts.
Written(ts, i, value) ==
  [t \in Tcb |-> IF t \in ts THEN [regs[t] EXCEPT ![i] = value] ELSE regs[t]]

\* The loop over the threads stops at the first the kernel refuses.
Refuses(j, p) == threads[j] # NoTcb /\ <<threads[j], p>> \in Refused
Reached(p) == {threads[j] : j \in {k \in ThreadSlot :
                 \A m \in 0 .. k : ~Refuses(m, p)}} \ {NoTcb}

\* The table with p in slot i.
Entry(i, p) == [hardware EXCEPT ![i] = p]
\* Z1-Z4: the registers are written before the entry.  A refusal leaves them
\* armed on the threads already reached, and the slot free.
SetPoint(p) ==
  /\ p \notin inserted
  /\ \/ \E i \in FreeFor(p) :
          /\ regs' = Written(Reached(p), i, p)
          /\ \/ /\ Reached(p) = Live
                /\ hardware' = Entry(i, p)
                /\ inserted' = inserted \cup {p}
             \/ Reached(p) # Live /\ UNCHANGED <<hardware, inserted>>
     \/ FreeFor(p) = {} /\ UNCHANGED <<regs, hardware, inserted>>
  /\ UNCHANGED <<threads, tenure>>

\* The slot's address is cleared; its type and size stay.
Freed(i) == [hardware EXCEPT ![i].addr = 0]
\* The register of slot i.
\* Mutant: every watchpoint's register is the first one.
RegisterFirst(i) == IF i \in WatchSlot THEN NumBreakpoints ELSE i
Register(i) == i
UnsetPoint(p) ==
  /\ p \in inserted
  /\ \/ \E i \in Holding(p) : /\ hardware' = Freed(i)
                              /\ regs' = Written(Live, Register(i), Clear)
     \/ Holding(p) = {} /\ UNCHANGED <<hardware, regs>>
  /\ inserted' = inserted \ {p}
  /\ UNCHANGED <<threads, tenure>>

\* D: every slot's entry is unset in turn.  By then the slots before it have
\* address 0, so a free slot stands for the first one that was like it.
Zeroed(i) == [hardware[i] EXCEPT !.addr = 0]
\* Mutant: the breakpoints only.
UnsetByDetachBreaks == {i \in BreakSlot : Used(i)}
UnsetByDetach ==
  {i \in Slot : \/ Used(i)
                \/ \A k \in RangeOf(i) : k < i => Zeroed(k) # Zeroed(i)}
Detach ==
  /\ regs' = [t \in Tcb |-> [i \in Slot |->
                IF t \in Live /\ i \in UnsetByDetach THEN Clear ELSE regs[t][i]]]
  /\ hardware' = [i \in Slot |-> NullPoint(i)]
  /\ inserted' = {}
  /\ UNCHANGED <<threads, tenure>>

\* A thread that registers gets every entry; the kernel's errors are ignored.
\* Mutants: free slots too; the breakpoints only.
EnabledFree(t) ==
  [i \in Slot |-> IF <<t, hardware[i]>> \notin Refused
                  THEN hardware[i] ELSE regs[t][i]]
EnabledBreaks(t) ==
  [i \in Slot |-> IF Used(i) /\ i \in BreakSlot /\ <<t, hardware[i]>> \notin Refused
                  THEN hardware[i] ELSE regs[t][i]]
Enabled(t) ==
  [i \in Slot |-> IF Used(i) /\ <<t, hardware[i]>> \notin Refused
                  THEN hardware[i] ELSE regs[t][i]]
RegisterThread(t, j) ==
  /\ threads[j] = NoTcb /\ t \notin Live
  /\ threads' = [threads EXCEPT ![j] = t]
  /\ regs' = [regs EXCEPT ![t] = Enabled(t)]
  /\ tenure' = [tenure EXCEPT ![t] = IF @ = 0 THEN 1 ELSE 2]
  /\ UNCHANGED <<hardware, inserted>>

\* gdb_thread_exit leaves the debug registers as they are.
ThreadExit(j) ==
  /\ threads[j] # NoTcb
  /\ threads' = [threads EXCEPT ![j] = NoTcb]
  /\ UNCHANGED <<hardware, regs, inserted, tenure>>

Next == \/ \E p \in Point : SetPoint(p) \/ UnsetPoint(p)
        \/ Detach
        \/ \E t \in Tcb, j \in ThreadSlot : RegisterThread(t, j)
        \/ \E j \in ThreadSlot : ThreadExit(j)

Spec == Init /\ [][Next]_vars
-----------------------------------------------------------------------------
(* Properties *)

TypeOK ==
  /\ threads \in [ThreadSlot -> Tcb \cup {NoTcb}]
  /\ hardware \in [Slot -> PointRecord]
  /\ regs \in [Tcb -> [Slot -> Point \cup {Clear}]]
  /\ inserted \subseteq Point
  /\ tenure \in [Tcb -> 0 .. 2]

\* The tables hold each point GDB was told is in place, once, in the slots of
\* its kind, and no other: a z packet finds the very entry its Z packet made,
\* whatever points share its address.
TableMatchesHost ==
  /\ {hardware[i] : i \in {k \in Slot : Used(k)}} = inserted
  /\ \A i, k \in Slot : Used(i) /\ hardware[i] = hardware[k] => i = k
  /\ \A i \in Slot : hardware[i].type = "exec" <=> i \in BreakSlot

\* Every entry is armed on every live thread that can hold it: those live when
\* it was set, those that registered later, and those whose TCB came back with
\* the registers of an earlier life; a set the kernel refuses half way disturbs
\* no entry.
EntriesArmed ==
  \A t \in Live, i \in Slot :
    Used(i) /\ <<t, hardware[i]>> \notin Refused => regs[t][i] = hardware[i]

\* A live thread is armed with a point that is not the entry of the slot only if
\* its TCB was registered before, or the point is one that some TCB refuses, so
\* that a set of it was given up half way.
NoStray ==
  \A t \in Live, i \in Slot :
    tenure[t] = 1 /\ regs[t][i] # Clear /\ regs[t][i] # hardware[i] =>
      \E u \in Tcb : <<u, regs[t][i]>> \in Refused

\* Set, unset, detach, registration and exit implement the abstract debug
\* points.  All that the registers hold counts, those of freed slots, of refused
\* points and of TCBs without a thread included: a point that was taken out stays
\* armed only where it was a stray, and only a refusal or an exit makes strays.
StopsAt(t) == {regs[t][i] : i \in Slot} \ {Clear}
IsStray(t, i) ==
  regs[t][i] # Clear /\ ~(t \in Live /\ Used(i) /\ regs[t][i] = hardware[i])
StrayOn(t) == {regs[t][i] : i \in {k \in Slot : IsStray(t, k)}}
Abstract == INSTANCE DebugPoints
              WITH active <- inserted, live <- Live,
                   stops <- [t \in Tcb |-> StopsAt(t)],
                   stray <- [t \in Tcb |-> StrayOn(t)]
ImplementsDebugPoints == Abstract!Spec
=============================================================================
