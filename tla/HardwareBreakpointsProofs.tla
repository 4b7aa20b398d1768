---------------------- MODULE HardwareBreakpointsProofs ----------------------
(***************************************************************************)
(* Hardware breakpoints and watchpoints for every size of the tables, any  *)
(* threads and any points, whatever the kernel refuses: the invariant is   *)
(* inductive, and the component implements the abstract debug points.      *)
(***************************************************************************)
EXTENDS HardwareBreakpoints, TLAPS

\* A register only ever holds what its TCB can hold.
AcceptedOnly == \A t \in Tcb, i \in Slot : <<t, regs[t][i]>> \notin Refused
\* The registers of a TCB never registered are off.
FreshClear == \A t \in Tcb : tenure[t] = 0 =>
                t \notin Live /\ \A i \in Slot : regs[t][i] = Clear
\* No TCB has two thread slots.
OneSlotEach == \A j, k \in ThreadSlot :
                 threads[j] # NoTcb /\ threads[j] = threads[k] => j = k

IInv == /\ TypeOK /\ TableMatchesHost /\ EntriesArmed /\ NoStray
        /\ AcceptedOnly /\ FreshClear /\ OneSlotEach

\* The slots of a point's table are those of its kind.
LEMMA SlotKinds ==
  ASSUME NEW p \in Point, NEW i \in SlotsFor(p)
  PROVE  i \in Slot /\ i \in Nat /\ (p.type = "exec" <=> i \in BreakSlot)
BY SizeAssumption DEF SlotsFor, Slot, BreakSlot, WatchSlot

LEMMA PointFacts ==
  /\ \A p \in Point : p \in PointRecord /\ p.addr # 0 /\ p # Clear
  /\ \A t \in Tcb : <<t, Clear>> \notin Refused
  /\ NoTcb \notin Tcb
<1>1. Clear \notin Point
  BY PointAssumption
<1>2. \A t \in Tcb : <<t, Clear>> \notin Tcb \X Point
  BY <1>1
<1> QED
  BY <1>1, <1>2, PointAssumption, TcbAssumption

\* Each TCB's registers after slot i is written on the threads ts.
LEMMA WrittenFacts ==
  ASSUME TypeOK, NEW ts, NEW i \in Slot, NEW v \in Point \cup {Clear},
         regs' = Written(ts, i, v)
  PROVE  /\ regs' \in [Tcb -> [Slot -> Point \cup {Clear}]]
         /\ \A t \in Tcb, k \in Slot :
              regs'[t][k] = IF t \in ts /\ k = i THEN v ELSE regs[t][k]
BY DEF Written, TypeOK

\* An inserted point is found, in one slot.
LEMMA HoldingFacts ==
  ASSUME IInv, NEW p \in inserted
  PROVE  \E i \in Slot : /\ Holding(p) = {i} /\ hardware[i] = p
                         /\ \A k \in Slot : hardware[k] = p => k = i
<1>1. p \in Point
  BY DEF IInv, TypeOK
<1>2. PICK i \in Slot : Used(i) /\ hardware[i] = p
  BY DEF IInv, TableMatchesHost
<1>3. \A k \in Slot : hardware[k] = p => k = i
  BY <1>2 DEF IInv, TableMatchesHost
<1>4. i \in SlotsFor(p)
  BY <1>1, <1>2 DEF IInv, TableMatchesHost, SlotsFor, Slot
<1>5. SlotsFor(p) \subseteq Slot /\ i \in Nat
  BY <1>1, <1>4, SlotKinds
<1>6. {k \in SlotsFor(p) : hardware[k] = p} = {i}
  BY <1>2, <1>3, <1>4, <1>5
<1>7. Holding(p) = {i}
  BY <1>5, <1>6 DEF Holding, First
<1> QED
  BY <1>2, <1>3, <1>7

LEMMA InitIInv == Init => IInv
<1> SUFFICES ASSUME Init PROVE IInv
  OBVIOUS
<1>1. \A i \in Slot : hardware[i] = NullPoint(i) /\ ~Used(i)
  BY DEF Init, NullPoint, Used
<1>2. \A i \in Slot : NullPoint(i) \in PointRecord
  BY DEF NullPoint, PointRecord, AccessType
<1>3. TypeOK
  BY <1>2 DEF Init, TypeOK
<1>4. TableMatchesHost
  BY <1>1 DEF Init, TableMatchesHost, NullPoint
<1>5. Live = {}
  BY DEF Init, Live
<1> QED
  BY <1>1, <1>3, <1>4, <1>5, PointFacts
  DEF Init, IInv, EntriesArmed, NoStray, AcceptedOnly, FreshClear, OneSlotEach

\* When no thread refuses p each live thread was reached, and can hold p.
LEMMA ReachedFacts ==
  ASSUME TypeOK, NEW p \in Point
  PROVE  /\ Reached(p) \subseteq Live /\ Live \subseteq Tcb
         /\ \A t \in Reached(p) : <<t, p>> \notin Refused
         /\ Reached(p) # Live => \E t \in Live : <<t, p>> \in Refused
<1>1. Live \subseteq Tcb
  BY DEF Live, TypeOK
<1>2. Reached(p) \subseteq Live
  BY DEF Reached, Live
<1>3. \A k \in ThreadSlot : k \in 0 .. k
  BY SizeAssumption DEF ThreadSlot
<1>4. \A t \in Reached(p) : <<t, p>> \notin Refused
  BY <1>3 DEF Reached, Refuses
<1>5. ASSUME Reached(p) # Live
      PROVE  \E t \in Live : <<t, p>> \in Refused
  <2>1. PICK j \in ThreadSlot : threads[j] # NoTcb /\ threads[j] \notin Reached(p)
    BY <1>2, <1>5 DEF Live
  <2>2. PICK m \in 0 .. j : Refuses(m, p)
    BY <2>1 DEF Reached
  <2>3. m \in ThreadSlot
    BY SizeAssumption DEF ThreadSlot
  <2> QED
    BY <2>2, <2>3 DEF Refuses, Live
<1> QED
  BY <1>1, <1>2, <1>4, <1>5

\* What Z1-Z4 does to a slot and to the registers.
LEMMA SetFacts ==
  ASSUME IInv, NEW p \in Point, NEW i \in FreeFor(p),
         regs' = Written(Reached(p), i, p)
  PROVE  /\ i \in SlotsFor(p) /\ i \in Slot /\ ~Used(i)
         /\ (p.type = "exec" <=> i \in BreakSlot)
         /\ regs' \in [Tcb -> [Slot -> Point \cup {Clear}]]
         /\ \A t \in Tcb, k \in Slot : regs'[t][k] =
              IF t \in Reached(p) /\ k = i THEN p ELSE regs[t][k]
<1>1. i \in SlotsFor(p) /\ ~Used(i)
  BY DEF FreeFor, First
<1>2. i \in Slot /\ (p.type = "exec" <=> i \in BreakSlot)
  BY <1>1, SlotKinds
<1> QED
  BY <1>1, <1>2, WrittenFacts DEF IInv

\* set_hardware_breakpoint and set_hardware_watchpoint keep the invariant.
LEMMA SetIInv ==
  ASSUME IInv, NEW p \in Point, SetPoint(p)
  PROVE  IInv'
<1> USE DEF IInv
<1>1. UNCHANGED <<threads, tenure>> /\ Live' = Live /\ p \notin inserted
  BY DEF SetPoint, Live
<1>2. CASE UNCHANGED <<regs, hardware, inserted>>
  BY <1>1, <1>2 DEF TypeOK, TableMatchesHost, EntriesArmed, NoStray, Used,
                    AcceptedOnly, FreshClear, OneSlotEach
<1>3. ASSUME NEW i \in FreeFor(p), regs' = Written(Reached(p), i, p)
      PROVE  /\ AcceptedOnly' /\ FreshClear' /\ OneSlotEach'
             /\ \A t \in Live, k \in Slot : k # i => regs'[t][k] = regs[t][k]
  <2>1. AcceptedOnly'
    BY <1>3, SetFacts, ReachedFacts DEF AcceptedOnly
  <2>2. FreshClear'
    BY <1>1, <1>3, SetFacts, ReachedFacts DEF FreshClear
  <2>3. OneSlotEach'
    BY <1>1 DEF OneSlotEach
  <2> QED
    BY <1>3, <2>1, <2>2, <2>3, SetFacts, ReachedFacts
<1>4. ASSUME NEW i \in FreeFor(p), regs' = Written(Reached(p), i, p),
             Reached(p) = Live, hardware' = Entry(i, p),
             inserted' = inserted \cup {p}
      PROVE  IInv'
  <2>1. /\ i \in Slot /\ ~Used(i) /\ (p.type = "exec" <=> i \in BreakSlot)
        /\ \A t \in Live : regs'[t][i] = p /\ <<t, p>> \notin Refused
    BY <1>4, SetFacts, ReachedFacts
  <2>2. /\ hardware' \in [Slot -> PointRecord] /\ hardware'[i] = p
        /\ \A k \in Slot : k # i => hardware'[k] = hardware[k]
    BY <1>4, <2>1, PointFacts DEF Entry, TypeOK
  <2>3. Used(i)' /\ \A k \in Slot : k # i => (Used(k)' <=> Used(k))
    BY <2>1, <2>2, PointFacts DEF Used
  <2>4. TypeOK'
    BY <1>1, <1>4, <2>2, SetFacts DEF TypeOK
  <2>5. TableMatchesHost'
    <3>1. {hardware'[k] : k \in {m \in Slot : Used(m)'}} = inserted'
      BY <1>4, <2>1, <2>2, <2>3 DEF TableMatchesHost
    <3>2. ASSUME NEW k \in Slot, NEW m \in Slot, Used(k)', hardware'[k] = hardware'[m]
          PROVE  k = m
      <4>1. \A n \in Slot : Used(n) => hardware[n] # p
        BY <1>1 DEF TableMatchesHost
      <4>2. \A n \in Slot : Used(n) <=> hardware[n].addr # 0
        BY DEF Used
      <4> QED
        BY <2>1, <2>2, <2>3, <3>2, <4>1, <4>2, PointFacts DEF TableMatchesHost
    <3>3. \A k \in Slot : hardware'[k].type = "exec" <=> k \in BreakSlot
      BY <2>1, <2>2 DEF TableMatchesHost
    <3> QED
      BY <3>1, <3>2, <3>3 DEF TableMatchesHost
  <2>6. EntriesArmed'
    BY <1>1, <1>3, <1>4, <2>1, <2>2, <2>3 DEF EntriesArmed
  <2>7. NoStray'
    <3>1. \A t \in Live, k \in Slot :
            \/ regs'[t][k] = hardware'[k]
            \/ regs'[t][k] = regs[t][k] /\ hardware'[k] = hardware[k]
      BY <1>3, <1>4, <2>1, <2>2
    <3> QED
      BY <1>1, <3>1 DEF NoStray
  <2> QED
    BY <1>3, <1>4, <2>4, <2>5, <2>6, <2>7
<1>5. ASSUME NEW i \in FreeFor(p), regs' = Written(Reached(p), i, p),
             Reached(p) # Live, UNCHANGED <<hardware, inserted>>
      PROVE  IInv'
  <2>1. TypeOK' /\ TableMatchesHost'
    BY <1>1, <1>5, SetFacts DEF TypeOK, TableMatchesHost, Used
  <2>2. EntriesArmed'
    BY <1>1, <1>3, <1>5, SetFacts DEF EntriesArmed, Used
  <2>3. NoStray'
    <3>1. \E t \in Tcb : <<t, p>> \in Refused
      BY <1>5, ReachedFacts
    <3>2. \A t \in Live : regs'[t][i] = p \/ regs'[t][i] = regs[t][i]
      BY <1>5, SetFacts, ReachedFacts
    <3> QED
      BY <1>1, <1>3, <1>5, <3>1, <3>2 DEF NoStray
  <2> QED
    BY <1>3, <1>5, <2>1, <2>2, <2>3
<1> QED
  BY <1>2, <1>4, <1>5 DEF SetPoint

\* unset_hardware_breakpoint and unset_hardware_watchpoint: the entry and its
\* registers go, and nothing else.
LEMMA UnsetFacts ==
  ASSUME IInv, NEW p \in Point, UnsetPoint(p)
  PROVE  \E i \in Slot :
           /\ hardware[i] = p /\ Used(i) /\ ~Used(i)'
           /\ \A k \in Slot : k # i =>
                hardware[k] # p /\ hardware'[k] = hardware[k] /\ (Used(k)' <=> Used(k))
           /\ hardware' \in [Slot -> PointRecord]
           /\ hardware'[i].type = p.type
           /\ regs' \in [Tcb -> [Slot -> Point \cup {Clear}]]
           /\ \A t \in Tcb, k \in Slot : regs'[t][k] =
                IF t \in Live /\ k = i THEN Clear ELSE regs[t][k]
<1> USE DEF IInv
<1>1. PICK i \in Slot : /\ Holding(p) = {i} /\ hardware[i] = p
                        /\ \A k \in Slot : hardware[k] = p => k = i
  BY HoldingFacts DEF UnsetPoint
<1>2. hardware' = Freed(i) /\ regs' = Written(Live, i, Clear)
  BY <1>1 DEF UnsetPoint, Register
<1>3. /\ hardware' \in [Slot -> PointRecord]
      /\ hardware'[i].addr = 0 /\ hardware'[i].type = p.type
      /\ \A k \in Slot : k # i => hardware'[k] = hardware[k]
  BY <1>1, <1>2 DEF Freed, TypeOK, PointRecord
<1>4. Used(i) /\ ~Used(i)' /\ \A k \in Slot : k # i => (Used(k)' <=> Used(k))
  BY <1>1, <1>3, PointFacts DEF Used
<1>5. /\ regs' \in [Tcb -> [Slot -> Point \cup {Clear}]]
      /\ \A t \in Tcb, k \in Slot : regs'[t][k] =
           IF t \in Live /\ k = i THEN Clear ELSE regs[t][k]
  BY <1>2 DEF Written, TypeOK
<1>6. \A k \in Slot : k # i => /\ hardware[k] # p /\ hardware'[k] = hardware[k]
                               /\ (Used(k)' <=> Used(k))
  BY <1>1, <1>3, <1>4
<1> WITNESS i \in Slot
<1> QED
  BY <1>1, <1>3, <1>4, <1>5, <1>6

LEMMA UnsetIInv ==
  ASSUME IInv, NEW p \in Point, UnsetPoint(p)
  PROVE  IInv'
<1> USE DEF IInv
<1>1. /\ UNCHANGED <<threads, tenure>> /\ Live' = Live /\ Live \subseteq Tcb
      /\ inserted' = inserted \ {p}
  BY DEF UnsetPoint, Live, TypeOK
<1>2. PICK i \in Slot :
        /\ hardware[i] = p /\ Used(i) /\ ~Used(i)'
        /\ \A k \in Slot : k # i =>
             hardware[k] # p /\ hardware'[k] = hardware[k] /\ (Used(k)' <=> Used(k))
        /\ hardware' \in [Slot -> PointRecord]
        /\ hardware'[i].type = p.type
        /\ regs' \in [Tcb -> [Slot -> Point \cup {Clear}]]
        /\ \A t \in Tcb, k \in Slot : regs'[t][k] =
             IF t \in Live /\ k = i THEN Clear ELSE regs[t][k]
  BY UnsetFacts
<1>3. TypeOK'
  BY <1>1, <1>2 DEF TypeOK
<1>4. TableMatchesHost'
  <2>1. {hardware'[k] : k \in {m \in Slot : Used(m)'}} = inserted'
    BY <1>1, <1>2 DEF TableMatchesHost
  <2>2. \A k, m \in Slot : Used(k)' /\ hardware'[k] = hardware'[m] => k = m
    <3> SUFFICES ASSUME NEW k \in Slot, NEW m \in Slot, Used(k)',
                        hardware'[k] = hardware'[m]
                 PROVE  k = m
      OBVIOUS
    <3>1. k # i /\ (Used(m)' <=> Used(k)')
      BY <1>2 DEF Used
    <3>2. m # i
      BY <1>2, <3>1
    <3> QED
      BY <1>2, <3>1, <3>2 DEF TableMatchesHost
  <2>3. \A k \in Slot : hardware'[k].type = "exec" <=> k \in BreakSlot
    BY <1>2 DEF TableMatchesHost
  <2> QED
    BY <2>1, <2>2, <2>3 DEF TableMatchesHost
<1>5. EntriesArmed'
  BY <1>1, <1>2 DEF EntriesArmed
<1>6. NoStray'
  <2>1. \A t \in Live, k \in Slot :
          \/ regs'[t][k] = Clear
          \/ regs'[t][k] = regs[t][k] /\ hardware'[k] = hardware[k]
    BY <1>1, <1>2
  <2> QED
    BY <1>1, <2>1 DEF NoStray
<1>7. AcceptedOnly' /\ FreshClear' /\ OneSlotEach'
  BY <1>1, <1>2, PointFacts DEF AcceptedOnly, FreshClear, OneSlotEach
<1> QED
  BY <1>3, <1>4, <1>5, <1>6, <1>7

\* handle_detach empties the table and the registers of its entries.
LEMMA DetachIInv ==
  ASSUME IInv, Detach
  PROVE  IInv'
<1> USE DEF IInv
<1>1. /\ UNCHANGED <<threads, tenure>> /\ Live' = Live /\ Live \subseteq Tcb
      /\ inserted' = {}
  BY DEF Detach, Live, TypeOK
<1>2. \A i \in Slot : /\ hardware'[i] = NullPoint(i) /\ ~Used(i)'
                       /\ NullPoint(i) \in PointRecord
                       /\ (NullPoint(i).type = "exec" <=> i \in BreakSlot)
  BY DEF Detach, NullPoint, Used, PointRecord, AccessType
<1>3. /\ regs' \in [Tcb -> [Slot -> Point \cup {Clear}]]
      /\ \A t \in Tcb, k \in Slot :
           regs'[t][k] = Clear \/ regs'[t][k] = regs[t][k]
      /\ \A t \in Live, k \in Slot : Used(k) => regs'[t][k] = Clear
  BY <1>1 DEF Detach, TypeOK, UnsetByDetach
<1>4. TypeOK'
  BY <1>1, <1>2, <1>3 DEF TypeOK, Detach
<1>5. TableMatchesHost'
  BY <1>1, <1>2 DEF TableMatchesHost
<1>6. EntriesArmed'
  BY <1>2 DEF EntriesArmed
<1>7. NoStray'
  <2>1. \A t \in Live, k \in Slot : regs'[t][k] # Clear =>
          regs'[t][k] = regs[t][k] /\ regs[t][k] \in Point /\ ~Used(k)
    BY <1>1, <1>3 DEF TypeOK
  <2>2. \A t \in Live, k \in Slot : regs'[t][k] # Clear => regs[t][k] # hardware[k]
    BY <2>1, PointFacts DEF Used
  <2> QED
    BY <1>1, <2>1, <2>2 DEF NoStray
<1>8. AcceptedOnly' /\ FreshClear' /\ OneSlotEach'
  BY <1>1, <1>3, PointFacts DEF AcceptedOnly, FreshClear, OneSlotEach
<1> QED
  BY <1>4, <1>5, <1>6, <1>7, <1>8

\* gdb_register_thread enables every entry on the new thread.
LEMMA RegisterFacts ==
  ASSUME IInv, NEW t \in Tcb, NEW j \in ThreadSlot, RegisterThread(t, j)
  PROVE  /\ t \notin Live /\ Live' = Live \cup {t}
         /\ regs' \in [Tcb -> [Slot -> Point \cup {Clear}]]
         /\ \A u \in Tcb \ {t} : regs'[u] = regs[u]
         /\ \A i \in Slot : regs'[t][i] =
              IF Used(i) /\ <<t, hardware[i]>> \notin Refused
              THEN hardware[i] ELSE regs[t][i]
         /\ tenure' \in [Tcb -> 0 .. 2] /\ tenure'[t] # 0
         /\ (tenure'[t] = 1 => tenure[t] = 0)
         /\ \A u \in Tcb \ {t} : tenure'[u] = tenure[u]
<1> USE DEF IInv, RegisterThread
<1>1. t \notin Live /\ Live' = Live \cup {t}
  BY PointFacts DEF Live, TypeOK
<1>2. \A i \in Slot : Used(i) => hardware[i] \in Point
  BY DEF TableMatchesHost, TypeOK
<1>3. /\ regs' \in [Tcb -> [Slot -> Point \cup {Clear}]]
      /\ \A u \in Tcb \ {t} : regs'[u] = regs[u]
      /\ \A i \in Slot : regs'[t][i] =
           IF Used(i) /\ <<t, hardware[i]>> \notin Refused
           THEN hardware[i] ELSE regs[t][i]
  BY <1>2 DEF Enabled, TypeOK
<1>4. /\ tenure' \in [Tcb -> 0 .. 2] /\ tenure'[t] # 0
      /\ (tenure'[t] = 1 => tenure[t] = 0)
      /\ \A u \in Tcb \ {t} : tenure'[u] = tenure[u]
  BY DEF TypeOK
<1> QED
  BY <1>1, <1>3, <1>4

LEMMA RegisterIInv ==
  ASSUME IInv, NEW t \in Tcb, NEW j \in ThreadSlot, RegisterThread(t, j)
  PROVE  IInv'
<1> USE DEF IInv
<1>1. /\ UNCHANGED <<hardware, inserted>> /\ \A i \in Slot : Used(i)' <=> Used(i)
      /\ threads' = [threads EXCEPT ![j] = t] /\ Live \subseteq Tcb
  BY DEF RegisterThread, Used, Live, TypeOK
<1>2. TypeOK' /\ TableMatchesHost'
  BY <1>1, RegisterFacts DEF TypeOK, TableMatchesHost
<1>3. EntriesArmed'
  BY <1>1, RegisterFacts DEF EntriesArmed
<1>4. NoStray'
  <2>1. ASSUME NEW u \in Live', NEW i \in Slot, tenure'[u] = 1,
               regs'[u][i] # Clear, regs'[u][i] # hardware'[i]
        PROVE  \E v \in Tcb : <<v, regs'[u][i]>> \in Refused
    <3>1. CASE u = t
      <4>1. regs[t][i] = Clear
        BY <2>1, <3>1, RegisterFacts DEF FreshClear
      <4>2. regs'[t][i] = Clear \/ regs'[t][i] = hardware'[i]
        BY <1>1, <4>1, RegisterFacts
      <4> QED
        BY <2>1, <3>1, <4>2
    <3>2. CASE u # t
      <4>1. u \in Live /\ regs'[u] = regs[u] /\ tenure'[u] = tenure[u]
        BY <1>1, <2>1, <3>2, RegisterFacts
      <4> QED
        BY <1>1, <2>1, <4>1 DEF NoStray
    <3> QED
      BY <3>1, <3>2
  <2> QED
    BY <2>1 DEF NoStray
<1>5. AcceptedOnly'
  <2>1. ASSUME NEW u \in Tcb, NEW i \in Slot
        PROVE  <<u, regs'[u][i]>> \notin Refused
    <3>1. CASE u = t
      BY <3>1, RegisterFacts DEF AcceptedOnly
    <3>2. CASE u # t
      <4>1. regs'[u] = regs[u]
        BY <3>2, RegisterFacts
      <4> QED
        BY <4>1 DEF AcceptedOnly
    <3> QED
      BY <3>1, <3>2
  <2> QED
    BY <2>1 DEF AcceptedOnly
<1>7. FreshClear'
  <2>1. ASSUME NEW u \in Tcb, tenure'[u] = 0
        PROVE  u # t /\ u \notin Live' /\ regs'[u] = regs[u] /\ tenure[u] = 0
    BY <2>1, RegisterFacts DEF FreshClear
  <2> QED
    BY <2>1 DEF FreshClear
<1>6. OneSlotEach'
  BY <1>1, RegisterFacts DEF OneSlotEach, Live, TypeOK
<1> QED
  BY <1>2, <1>3, <1>4, <1>5, <1>6, <1>7

\* gdb_thread_exit: one thread less.
LEMMA ExitFacts ==
  ASSUME IInv, NEW j \in ThreadSlot, ThreadExit(j)
  PROVE  /\ threads[j] \in Live /\ Live' = Live \ {threads[j]}
         /\ threads' \in [ThreadSlot -> Tcb \cup {NoTcb}]
BY DEF IInv, ThreadExit, Live, OneSlotEach, TypeOK

LEMMA ExitIInv ==
  ASSUME IInv, NEW j \in ThreadSlot, ThreadExit(j)
  PROVE  IInv'
<1> USE DEF IInv
<1>1. /\ UNCHANGED <<hardware, regs, inserted, tenure>>
      /\ \A i \in Slot : Used(i)' <=> Used(i)
      /\ Live' \subseteq Live
      /\ threads' = [threads EXCEPT ![j] = NoTcb]
  BY ExitFacts DEF ThreadExit, Used
<1>2. TypeOK' /\ TableMatchesHost'
  BY <1>1, ExitFacts DEF TypeOK, TableMatchesHost
<1>3. EntriesArmed' /\ NoStray'
  BY <1>1 DEF EntriesArmed, NoStray
<1>4. AcceptedOnly' /\ FreshClear'
  BY <1>1 DEF AcceptedOnly, FreshClear
<1>5. OneSlotEach'
  BY <1>1 DEF OneSlotEach, TypeOK
<1> QED
  BY <1>2, <1>3, <1>4, <1>5

LEMMA NextIInv == IInv /\ [Next]_vars => IInv'
<1> SUFFICES ASSUME IInv, [Next]_vars PROVE IInv'
  OBVIOUS
<1>1. CASE UNCHANGED vars
  <2> USE <1>1 DEF vars, IInv
  <2>1. TypeOK' /\ TableMatchesHost' /\ OneSlotEach'
    BY DEF TypeOK, TableMatchesHost, OneSlotEach, Used
  <2>2. EntriesArmed' /\ NoStray'
    BY DEF EntriesArmed, NoStray, Used, Live
  <2>3. AcceptedOnly' /\ FreshClear'
    BY DEF AcceptedOnly, FreshClear, Live
  <2> QED
    BY <2>1, <2>2, <2>3
<1> QED
  BY <1>1, SetIInv, UnsetIInv, DetachIInv, RegisterIInv, ExitIInv DEF Next

\* The inductive invariant of the tables, the threads and their registers.
THEOREM Invariance == Spec => []IInv
  BY InitIInv, NextIInv, PTL DEF Spec

\* Every variable has its type: the registers of each thread, live or not, hold
\* nothing but points GDB may name and what clears a slot.
THEOREM TypeCorrect == Spec => []TypeOK
<1>1. IInv => TypeOK
  BY DEF IInv
<1> QED
  BY <1>1, Invariance, PTL

\* Every entry of the tables is armed on every live thread that can hold it,
\* however threads come, go and return and whatever the kernel refuses.
THEOREM EntriesAlwaysArmed == Spec => []EntriesArmed
<1>1. IInv => EntriesArmed
  BY DEF IInv
<1> QED
  BY <1>1, Invariance, PTL

\* A thread on a TCB not registered before is armed with a point that is not the
\* entry of its slot only if some TCB refuses that point.
THEOREM NoStrayEver == Spec => []NoStray
<1>1. IInv => NoStray
  BY DEF IInv
<1> QED
  BY <1>1, Invariance, PTL

\* The tables hold exactly the points GDB was told of, each in one slot of its
\* kind.
THEOREM TablesExact == Spec => []TableMatchesHost
<1>1. IInv => TableMatchesHost
  BY DEF IInv
<1> QED
  BY <1>1, Invariance, PTL

\* A live thread is armed, by the entries, with what it can hold of what GDB was
\* told is in place; what else its registers hold is stray.
LEMMA StopsFacts ==
  ASSUME IInv, NEW t \in Tcb
  PROVE  StopsAt(t) =
           StrayOn(t) \cup (IF t \in Live THEN inserted \cap Abstract!Holds(t)
                                          ELSE {})
<1> USE DEF IInv
<1>1. ASSUME NEW p \in StopsAt(t), p \notin StrayOn(t)
      PROVE  t \in Live /\ p \in inserted \cap Abstract!Holds(t)
  <2>1. PICK i \in Slot : p = regs[t][i] /\ p # Clear
    BY <1>1 DEF StopsAt
  <2>2. t \in Live /\ Used(i) /\ p = hardware[i]
    BY <1>1, <2>1 DEF StrayOn, IsStray
  <2>3. p \in inserted /\ <<t, p>> \notin Refused
    BY <2>1, <2>2 DEF TableMatchesHost, AcceptedOnly
  <2> QED
    BY <2>2, <2>3 DEF Abstract!Holds, TypeOK
<1>2. ASSUME t \in Live, NEW p \in inserted \cap Abstract!Holds(t)
      PROVE  p \in StopsAt(t)
  <2>1. PICK i \in Slot : Used(i) /\ p = hardware[i]
    BY DEF TableMatchesHost
  <2>2. regs[t][i] = p
    BY <1>2, <2>1 DEF EntriesArmed, Abstract!Holds
  <2> QED
    BY <2>2, PointFacts DEF StopsAt, Abstract!Holds
<1>3. StrayOn(t) \subseteq StopsAt(t)
  BY DEF StrayOn, StopsAt, IsStray
<1> QED
  BY <1>1, <1>2, <1>3

LEMMA MappedArmed == IInv => Abstract!Armed
  BY StopsFacts DEF Abstract!Armed

\* After a step a register is off, holds the entry of its slot, or is as stray as
\* it was before.
Settles(t, k) ==
  \/ regs'[t][k] = Clear
  \/ t \in Live' /\ Used(k)' /\ regs'[t][k] = hardware'[k]
  \/ regs'[t][k] = regs[t][k] /\ IsStray(t, k)

LEMMA StrayShrinks ==
  ASSUME NEW t \in Tcb, \A k \in Slot : Settles(t, k)
  PROVE  StrayOn(t)' \subseteq StrayOn(t)
<1>1. ASSUME NEW k \in Slot, IsStray(t, k)'
      PROVE  regs'[t][k] = regs[t][k] /\ IsStray(t, k)
  BY <1>1 DEF IsStray, Settles
<1> QED
  BY <1>1 DEF StrayOn

\* No step writes the registers of a thread that is not there, or is about to be.
LEMMA StraySame ==
  ASSUME NEW t \in Tcb, regs'[t] = regs[t], t \notin Live, t \notin Live'
  PROVE  StrayOn(t)' = StrayOn(t)
  BY DEF StrayOn, IsStray

\* The mapped variables.
Mapped == <<inserted, Live, [t \in Tcb |-> StopsAt(t)], [t \in Tcb |-> StrayOn(t)]>>

\* Fades and Refuse, of the mapped variables.
LEMMA MappedFades ==
  ASSUME NEW S, \A t \in Tcb : /\ StrayOn(t)' \subseteq StrayOn(t)
                               /\ t \notin S => StrayOn(t)' = StrayOn(t)
  PROVE  Abstract!Fades(S)
  BY DEF Abstract!Fades

LEMMA SetMaps ==
  ASSUME IInv, NEW p \in Point, SetPoint(p)
  PROVE  \/ Abstract!Insert(p) \/ Abstract!Refuse(p)
         \/ UNCHANGED Mapped
<1> USE DEF IInv
<1>1. Live' = Live
  BY DEF SetPoint, Live
<1>2. CASE UNCHANGED <<regs, hardware, inserted>>
  BY <1>1, <1>2 DEF Mapped, StopsAt, StrayOn, IsStray, Used
<1>3. ASSUME NEW i \in FreeFor(p), regs' = Written(Reached(p), i, p)
      PROVE  /\ i \in Slot /\ ~Used(i)
             /\ \A t \in Tcb, k \in Slot : regs'[t][k] =
                  IF t \in Reached(p) /\ k = i THEN p ELSE regs[t][k]
             /\ \A t \in Tcb : t \notin Live => StrayOn(t)' = StrayOn(t)
  <2>1. /\ i \in Slot /\ ~Used(i)
        /\ \A t \in Tcb, k \in Slot : regs'[t][k] =
             IF t \in Reached(p) /\ k = i THEN p ELSE regs[t][k]
    BY <1>3, SetFacts
  <2>2. \A t \in Tcb : t \notin Live => regs'[t] = regs[t]
    BY <1>3, ReachedFacts DEF Written, TypeOK
  <2> QED
    BY <1>1, <2>1, <2>2, StraySame
<1>4. ASSUME NEW i \in FreeFor(p), regs' = Written(Reached(p), i, p),
             Reached(p) = Live, hardware' = Entry(i, p),
             inserted' = inserted \cup {p}
      PROVE  Abstract!Insert(p)
  <2>1. ASSUME NEW t \in Live, NEW k \in Slot,
               ~(regs'[t][k] = Clear), ~(Used(k)' /\ regs'[t][k] = hardware'[k])
        PROVE  regs'[t][k] = regs[t][k] /\ IsStray(t, k)
    <3>1. hardware'[i] = p /\ Used(i)' /\ i \in Slot /\ t \in Tcb
      BY <1>3, <1>4, ReachedFacts, PointFacts DEF Entry, Used, TypeOK
    <3>2. k # i
      BY <1>3, <1>4, <2>1, <3>1
    <3>3. hardware'[k] = hardware[k] /\ (Used(k)' <=> Used(k))
      BY <1>4, <3>2 DEF Entry, Used, TypeOK
    <3>4. regs'[t][k] = regs[t][k]
      BY <1>3, <1>4, <3>1, <3>2
    <3> QED
      BY <2>1, <3>3, <3>4 DEF IsStray
  <2>2. \A t \in Live : \A k \in Slot : Settles(t, k)
    BY <1>1, <2>1 DEF Settles
  <2>3. Abstract!Fades(Live)
    BY <1>3, <1>4, <2>2, ReachedFacts, StrayShrinks, MappedFades
  <2>4. Live \subseteq {t \in Tcb : p \in Abstract!Holds(t)}
    BY <1>4, ReachedFacts DEF Abstract!Holds
  <2> QED
    BY <1>1, <1>4, <2>3, <2>4 DEF Abstract!Insert
<1>5. ASSUME NEW i \in FreeFor(p), regs' = Written(Reached(p), i, p),
             Reached(p) # Live, UNCHANGED <<hardware, inserted>>
      PROVE  Abstract!Refuse(p)
  <2>1. \E t \in Live : p \notin Abstract!Holds(t)
    BY <1>5, ReachedFacts DEF Abstract!Holds
  <2>2. ASSUME NEW t \in Tcb PROVE StrayOn(t)' \subseteq StrayOn(t) \cup {p}
    <3>1. ASSUME NEW k \in Slot, IsStray(t, k)', regs'[t][k] # p
          PROVE  regs'[t][k] = regs[t][k] /\ IsStray(t, k)
      BY <1>1, <1>3, <1>5, <3>1 DEF IsStray, Used
    <3> QED
      BY <3>1 DEF StrayOn
  <2> QED
    BY <1>1, <1>3, <1>5, <2>1, <2>2 DEF Abstract!Refuse
<1> QED
  BY <1>2, <1>4, <1>5 DEF SetPoint

LEMMA UnsetMaps ==
  ASSUME IInv, NEW p \in Point, UnsetPoint(p)
  PROVE  Abstract!Remove(p)
<1> USE DEF IInv
<1>1. Live' = Live /\ inserted' = inserted \ {p} /\ Live \subseteq Tcb
  BY DEF UnsetPoint, Live, TypeOK
<1>2. PICK i \in Slot :
        /\ \A k \in Slot : k # i =>
             hardware'[k] = hardware[k] /\ (Used(k)' <=> Used(k))
        /\ regs' \in [Tcb -> [Slot -> Point \cup {Clear}]]
        /\ \A t \in Tcb, k \in Slot : regs'[t][k] =
             IF t \in Live /\ k = i THEN Clear ELSE regs[t][k]
  BY UnsetFacts
<1>3. \A t \in Live : \A k \in Slot : Settles(t, k)
  BY <1>1, <1>2 DEF Settles, IsStray
<1>4. ASSUME NEW t \in Tcb, t \notin Live PROVE StrayOn(t)' = StrayOn(t)
  <2>1. \A k \in Slot : regs'[t][k] = regs[t][k]
    BY <1>2, <1>4
  <2> QED
    BY <1>1, <1>4, <2>1 DEF StrayOn, IsStray
<1>5. Abstract!Fades(Live)
  BY <1>1, <1>3, <1>4, StrayShrinks, MappedFades
<1> QED
  BY <1>1, <1>5 DEF Abstract!Remove

LEMMA DetachMaps ==
  ASSUME IInv, Detach
  PROVE  Abstract!ClearAll
<1> USE DEF IInv
<1>1. Live' = Live /\ inserted' = {} /\ Live \subseteq Tcb
  BY DEF Detach, Live, TypeOK
<1>2. \A t \in Tcb, k \in Slot :
        regs'[t][k] = IF t \in Live /\ k \in UnsetByDetach THEN Clear
                                                           ELSE regs[t][k]
  BY DEF Detach
<1>3. \A k \in Slot : Used(k) => k \in UnsetByDetach
  BY DEF UnsetByDetach
<1>4. \A t \in Live : \A k \in Slot : Settles(t, k)
  BY <1>1, <1>2, <1>3 DEF Settles, IsStray
<1>5. ASSUME NEW t \in Tcb, t \notin Live PROVE StrayOn(t)' = StrayOn(t)
  <2>1. \A k \in Slot : regs'[t][k] = regs[t][k]
    BY <1>2, <1>5
  <2> QED
    BY <1>1, <1>5, <2>1 DEF StrayOn, IsStray
<1>6. Abstract!Fades(Live)
  BY <1>1, <1>4, <1>5, StrayShrinks, MappedFades
<1> QED
  BY <1>1, <1>6 DEF Abstract!ClearAll

LEMMA RegisterMaps ==
  ASSUME IInv, NEW t \in Tcb, NEW j \in ThreadSlot, RegisterThread(t, j)
  PROVE  Abstract!Join(t)
<1> USE DEF IInv
<1>1. /\ t \notin Live /\ Live' = Live \cup {t}
      /\ \A u \in Tcb \ {t} : regs'[u] = regs[u]
      /\ \A k \in Slot : regs'[t][k] =
           IF Used(k) /\ <<t, hardware[k]>> \notin Refused
           THEN hardware[k] ELSE regs[t][k]
  BY RegisterFacts
<1>2. UNCHANGED <<hardware, inserted>> /\ \A k \in Slot : Used(k)' <=> Used(k)
  BY DEF RegisterThread, Used
<1>3. \A k \in Slot : Settles(t, k)
  BY <1>1, <1>2 DEF Settles, IsStray
<1>4. \A u \in Tcb \ {t} : StrayOn(u)' = StrayOn(u)
  BY <1>1, <1>2 DEF StrayOn, IsStray
<1>5. Abstract!Fades({t})
  BY <1>3, <1>4, StrayShrinks, MappedFades
<1> QED
  BY <1>1, <1>2, <1>5 DEF Abstract!Join

LEMMA ExitMaps ==
  ASSUME IInv, NEW j \in ThreadSlot, ThreadExit(j)
  PROVE  threads[j] \in Tcb /\ Abstract!Leave(threads[j])
<1> USE DEF IInv
<1>1. PICK t \in Tcb :
        t = threads[j] /\ t \in Live /\ Live' = Live \ {t} /\ Live \subseteq Tcb
  BY ExitFacts DEF Live, TypeOK
<1>2. UNCHANGED <<hardware, regs, inserted>> /\ \A k \in Slot : Used(k)' <=> Used(k)
  BY DEF ThreadExit, Used
<1>3. StrayOn(t)' = StopsAt(t)
  BY <1>1, <1>2 DEF StrayOn, StopsAt, IsStray
<1>4. \A u \in Tcb \ {t} : StrayOn(u)' = StrayOn(u)
  BY <1>1, <1>2 DEF StrayOn, IsStray
<1>5. [u \in Tcb |-> StrayOn(u)]' =
        [[u \in Tcb |-> StrayOn(u)] EXCEPT ![t] = [u \in Tcb |-> StopsAt(u)][t]]
  BY <1>1, <1>3, <1>4
<1>6. Abstract!Leave(t)
  BY <1>1, <1>2, <1>5 DEF Abstract!Leave
<1> QED
  BY <1>1, <1>6

\* Hardware breakpoints and watchpoints implement the abstract debug points,
\* whose threads stop at all their registers hold: a point that was removed, or
\* cleared by a detach, stays armed only where an earlier thread of the TCB or a
\* refused set had left it before.
THEOREM Refinement == Spec => ImplementsDebugPoints
<1>1. Init => Abstract!Init
  <2> SUFFICES ASSUME Init PROVE Abstract!Init
    OBVIOUS
  <2>1. Live = {}
    BY DEF Init, Live
  <2>2. \A t \in Tcb : StopsAt(t) = {} /\ StrayOn(t) = {}
    BY DEF Init, StopsAt, StrayOn, IsStray
  <2> QED
    BY <2>1, <2>2 DEF Init, Abstract!Init
<1>2. (IInv => Abstract!Armed)'
  BY MappedArmed, PTL
<1>3. IInv /\ IInv' /\ [Next]_vars => [Abstract!Next]_Mapped
  <2> SUFFICES ASSUME IInv, IInv', [Next]_vars PROVE [Abstract!Next]_Mapped
    OBVIOUS
  <2>1. Abstract!Armed'
    BY <1>2
  <2>2. CASE \E p \in Point : SetPoint(p)
    BY <2>1, <2>2, SetMaps DEF Abstract!Next
  <2>3. CASE \E p \in Point : UnsetPoint(p)
    BY <2>1, <2>3, UnsetMaps DEF Abstract!Next
  <2>4. CASE Detach
    BY <2>1, <2>4, DetachMaps DEF Abstract!Next
  <2>5. CASE \E t \in Tcb, j \in ThreadSlot : RegisterThread(t, j)
    BY <2>1, <2>5, RegisterMaps DEF Abstract!Next
  <2>6. CASE \E j \in ThreadSlot : ThreadExit(j)
    BY <2>1, <2>6, ExitMaps DEF Abstract!Next
  <2>7. CASE UNCHANGED vars
    BY <2>7 DEF vars, Mapped, Live, StopsAt, StrayOn, IsStray, Used
  <2> QED
    BY <2>2, <2>3, <2>4, <2>5, <2>6, <2>7 DEF Next
<1> QED
  BY <1>1, <1>3, Invariance, PTL
  DEF Spec, ImplementsDebugPoints, Abstract!Spec, Mapped
=============================================================================
