--------------------------- MODULE EventLoopProofs ---------------------------
(***************************************************************************)
(* The debugger of the sDDF serial example loses no wakeup, and it and GDB *)
(* agree on who runs: for every number of debuggees and threads, every set *)
(* of packets and every amount of line noise.                              *)
(*                                                                         *)
(* LinkInv ties what GDB waits for to what is on its way and to where the  *)
(* two coroutines wait; RunInv ties the threads the kernel runs to where   *)
(* the debugger is; OnePerPd and SelInv follow the thread GDB selected and *)
(* the threads it told to step.  Two restrictions are needed: GDB writes   *)
(* no registers, which resumes the thread (PlainHost), and the ids it      *)
(* sends are read as it wrote them (OneByteIds).                           *)
(***************************************************************************)
EXTENDS EventLoop, GdbCoreProofs, SequenceTheorems

Modes == {"idle", "main", "fault", "notified"}
States == {"none", "EventLoop", "Fault"}

\* What NoLostWakeup says of the sleeping debugger holds of the queue as soon
\* as fault has called t_fault: unless a character arrives, t_fault finds the
\* queue as the debugger left it when it went to sleep.
Covered == rx # <<>> => notif
WakeInv ==
  /\ mode \in Modes /\ state \in States
  /\ mode = "idle" => state # "none"
  /\ mode \in {"idle", "fault"} => Covered

LEMMA WakeInit == LoopInit => WakeInv
  BY DEF LoopInit, WakeInv, Modes, States, Covered

LEMMA WakeNext == WakeInv /\ [LoopNext]_loopVars => WakeInv'
<1> SUFFICES ASSUME WakeInv, [LoopNext]_loopVars
             PROVE  WakeInv'
  OBVIOUS
<1> USE DEF WakeInv, Modes, States, Covered, line
<1>1. CASE Wait
  BY <1>1 DEF Wait
<1>2. CASE Seek
  BY <1>2 DEF Seek, Take
<1>3. CASE ReadBody
  BY <1>3 DEF ReadBody, Take
<1>4. CASE AwaitAck
  BY <1>4 DEF AwaitAck, Take
<1>5. CASE AwaitStopAck
  <2>1. rx # <<>> /\ notif' = notif
    BY <1>5 DEF AwaitStopAck, Take
  <2>2. CASE mode = "fault"
    <3>1. notif'
      BY <2>1, <2>2
    <3>2. \/ mode' = "idle" /\ state' = "EventLoop"
          \/ mode' = mode /\ state' = state
      BY <1>5, <2>2 DEF AwaitStopAck, HandsOver
    <3> QED
      BY <2>2, <3>1, <3>2
  <2>3. CASE mode = "notified"
    BY <1>5, <2>3 DEF AwaitStopAck, HandsOver
  <2> QED
    BY <1>5, <2>2, <2>3 DEF AwaitStopAck
<1>6. CASE Notified
  BY <1>6 DEF Notified
<1>7. ASSUME NEW s \in Slot, NEW k \in FaultKinds, TakeFault(s, k)
      PROVE  WakeInv'
  BY <1>7 DEF TakeFault
<1>8. ASSUME NEW s \in Slot, ThreadFaults(s)
      PROVE  WakeInv'
  BY <1>8 DEF ThreadFaults, debugger
<1>9. CASE CharArrives
  BY <1>9 DEF CharArrives, debugger
<1>10. CASE LineNoise
  BY <1>10 DEF LineNoise, debugger
<1>11. CASE HostConnects
  BY <1>11 DEF HostConnects, debugger
<1>12. CASE HostSends \/ HostInterrupts
  BY <1>12 DEF HostSends, HostInterrupts, debugger
<1>13. CASE HostReadsAck \/ HostReadsReply
  BY <1>13 DEF HostReadsAck, HostReadsReply, debugger
<1>14. CASE HostResends
  BY <1>14 DEF HostResends, debugger
<1>15. CASE UNCHANGED loopVars
  BY <1>15 DEF loopVars, debugger
<1> QED
  BY <1>1, <1>2, <1>3, <1>4, <1>5, <1>6, <1>7, <1>8, <1>9, <1>10, <1>11, <1>12,
     <1>13, <1>14, <1>15 DEF LoopNext

\* The debugger never sleeps on a character it could read: gdb_get_char, the
\* two coroutines, fault and notified leave each character in rx_queue with a
\* notification that reaches the coroutine that waits.
THEOREM WakeupsKept == LoopSpec => []NoLostWakeup
<1>1. WakeInv => NoLostWakeup
  BY DEF WakeInv, Covered, NoLostWakeup
<1> QED
  BY <1>1, WakeInit, WakeNext, PTL DEF LoopSpec

-----------------------------------------------------------------------------
(* Types *)

HostPacket ==
  [op : SimpleOps \cup {"H", "T", "vCont"}, pid : Nat, tid : Nat,
   acts : Seq([kind : {"c", "s", "C", "S"}, pid : Int, tid : Int])]
HostChar == [tok : {"$", "+", "etx", "body", "damaged"}, pkt : HostPacket]
DebuggerChar ==
  [tok : {"+", "-", "packet"}, out : [msg : Messages, of : WireByte \X WireByte]]

TypeInv ==
  /\ TypeOK
  /\ mode \in Modes /\ state \in States
  /\ mainpc \in {"seek", "body", "dirty", "ack"}
  /\ detached \in BOOLEAN /\ notif \in BOOLEAN
  /\ rx \in Seq(HostChar) /\ wire \in Seq(HostChar)
  /\ tx \in Seq(DebuggerChar)
  /\ hostpc \in {"gone", "stopped", "acking", "waiting", "running"}
  /\ cur \in HostPacket
  /\ general \in Nat \X Nat /\ sig \in BOOLEAN /\ etx \in BOOLEAN

LEMMA PacketTyped ==
  /\ \A op \in SimpleOps : Packet(op) \in HostPacket
  /\ \A pid, tid \in Nat : ThreadPacket("H", pid, tid) \in HostPacket
  /\ NoPacket \in HostPacket
<1>1. <<>> \in Seq([kind : {"c", "s", "C", "S"}, pid : Int, tid : Int])
  OBVIOUS
<1>2. "unknown" \in SimpleOps
  BY DEF SimpleOps
<1> QED
  BY <1>1, <1>2 DEF Packet, ThreadPacket, NoPacket, HostPacket

\* The packets that resume.
LEMMA VContTyped ==
  ASSUME NEW x \in Nat \X Nat
  PROVE  StepPacket(x) \in HostPacket /\ ContinuePacket(x) \in HostPacket
<1> DEFINE Act == [kind : {"c", "s", "C", "S"}, pid : Int, tid : Int]
<1>1. \A a, b \in Act : <<a>> \in Seq(Act) /\ <<a, b>> \in Seq(Act)
  OBVIOUS
<1>2. \A acts \in Seq(Act) : VContPacket(acts) \in HostPacket
  BY DEF VContPacket, HostPacket
<1>3. \A k \in {"c", "s", "C", "S"} :
        /\ [kind |-> k, pid |-> x[1], tid |-> x[2]] \in Act
        /\ [kind |-> k, pid |-> x[1], tid |-> All] \in Act
  BY DEF All
<1> HIDE DEF Act
<1> QED
  BY <1>1, <1>2, <1>3 DEF StepPacket, ContinuePacket

LEMMA CharTyped ==
  ASSUME NEW pkt \in HostPacket, NEW m \in [msg : Messages, of : WireByte \X WireByte]
  PROVE  /\ \A c \in {"$", "+", "etx", "damaged"} : Char(c) \in HostChar
         /\ Body(pkt) \in HostChar
         /\ \A c \in {"+", "-"} : Sign(c) \in DebuggerChar
         /\ Sent(m) \in DebuggerChar
<1>1. Reply("") \in [msg : Messages, of : WireByte \X WireByte]
  BY ReplyType DEF Messages
<1> QED
  BY <1>1, PacketTyped DEF Char, Body, Sign, Sent, HostChar, DebuggerChar

\* What gdb_get_char takes off the queue.
LEMMA TakeTyped ==
  ASSUME TypeInv, Take
  PROVE  /\ rx' \in Seq(HostChar) /\ Head(rx) \in HostChar
         /\ UNCHANGED <<wire, noise, notif>>
         /\ Head(rx) = rx[1]
  BY HeadTailProperties DEF Take, TypeInv

LEMMA SuspendType ==
  ASSUME TypeOK, NEW ts \in [Tcb -> {"running", "suspended", "faulted"}], NEW pkt,
         NEW tbl
  PROVE  /\ SuspendAll(ts) \in [Tcb -> {"running", "suspended", "faulted"}]
         /\ TcbsAfter(pkt, ts) \in [Tcb -> {"running", "suspended", "faulted"}]
         /\ ResumeWoken(ts, tbl) \in [Tcb -> {"running", "suspended", "faulted"}]
  BY DEF SuspendAll, TcbsAfter, ResumeWoken

LEMMA ProcessType ==
  ASSUME TypeInv, NEW pkt \in HostPacket, NEW ack \in Seq(DebuggerChar),
         Process(pkt, ack)
  PROVE  /\ TypeOK' /\ PacketEffect
         /\ tx' \in Seq(DebuggerChar)
         /\ mainpc' \in {"seek", "ack"} /\ detached' \in BOOLEAN
<1>1. TypeOK /\ HandlePacket(pkt) /\ pkt.op \in SimpleOps \cup {"H", "T", "vCont"}
  BY DEF TypeInv, Process, HostPacket
<1>2. PacketEffect
  BY <1>1, HandlePacketEffect
<1>3. tcb_state' \in [Tcb -> {"running", "suspended", "faulted"}]
  <2> DEFINE before == IF Suspends(pkt) THEN SuspendAll(tcb_state) ELSE tcb_state
             after == TcbsAfter(pkt, before)
  <2>1. before \in [Tcb -> {"running", "suspended", "faulted"}]
    BY <1>1, SuspendType DEF TypeOK
  <2>2. after \in [Tcb -> {"running", "suspended", "faulted"}]
    BY <1>1, <2>1, SuspendType
  <2>3. tcb_state' = after \/ tcb_state' = ResumeWoken(after, threads')
    BY DEF Process
  <2> HIDE DEF after
  <2> QED
    BY <1>1, <2>2, <2>3, SuspendType, ZenonT(60)
<1>4. TypeOK'
  BY <1>1, <1>2, <1>3 DEF PacketEffect, TypeOK, registry
<1>5. Sent(output') \in DebuggerChar
  BY <1>2, PacketTyped, CharTyped DEF PacketEffect
<1>6. /\ tx \o ack \in Seq(DebuggerChar)
      /\ (tx \o ack) \o <<Sent(output')>> \in Seq(DebuggerChar)
  BY <1>5, ConcatProperties DEF TypeInv
<1> QED
  BY <1>2, <1>4, <1>6 DEF Process

\* One lemma for the steps of the debugger, one for those of the environment.
LEMMA DebuggerType ==
  ASSUME TypeInv,
         \/ Wait \/ Seek \/ ReadBody \/ AwaitAck \/ AwaitStopAck \/ Notified
         \/ \E s \in Slot, k \in FaultKinds : s \in Live /\ TakeFault(s, k)
  PROVE  TypeInv'
<1>1. CASE Wait
  BY <1>1 DEF Wait, TypeInv, TypeOK, coreVars, line, host, Modes, States
<1>2. CASE Notified
  BY <1>2, ZenonT(60) DEF Notified, TypeInv, TypeOK, coreVars, host, Modes, States
<1>3. output \in [msg : Messages, of : WireByte \X WireByte] /\ tx \in Seq(DebuggerChar)
  BY DEF TypeInv, TypeOK
<1>4. /\ Append(tx, Sent(output)) \in Seq(DebuggerChar)
      /\ Append(tx, Sign("-")) \in Seq(DebuggerChar)
      /\ <<Sign("+")>> \in Seq(DebuggerChar) /\ <<>> \in Seq(DebuggerChar)
  BY <1>3, PacketTyped, CharTyped
<1>5. ASSUME NEW pkt \in HostPacket, NEW ack \in Seq(DebuggerChar),
             Process(pkt, ack), Take, UNCHANGED <<mode, state, host>>
      PROVE  TypeInv'
  BY <1>5, ProcessType, TakeTyped DEF TypeInv, host
<1>6. ASSUME Take, UNCHANGED <<coreVars, detached, mode, state, host>>,
             mainpc' \in {"seek", "body", "dirty", "ack"}, tx' \in Seq(DebuggerChar)
      PROVE  TypeInv'
  BY <1>6, TakeTyped DEF TypeInv, TypeOK, coreVars, host
<1>7. CASE Seek
  <2>1. Packet("ctrl-c") \in HostPacket
    BY PacketTyped DEF SimpleOps
  <2> QED
    BY <1>3, <1>4, <1>5, <1>6, <1>7, <2>1 DEF Seek
<1>8. CASE ReadBody
  <2>1. Head(rx).pkt \in HostPacket
    BY <1>8, TakeTyped DEF ReadBody, HostChar
  <2> QED
    BY <1>3, <1>4, <1>5, <1>6, <1>8, <2>1 DEF ReadBody
<1>9. CASE AwaitAck
  <2>1. tcb_state' \in [Tcb -> {"running", "suspended", "faulted"}]
    <3>1. tcb_state' \in {tcb_state, ResumeWoken(tcb_state, threads)}
      BY <1>9 DEF AwaitAck
    <3> QED
      <4>1. TypeOK /\ tcb_state \in [Tcb -> {"running", "suspended", "faulted"}]
        BY DEF TypeInv, TypeOK
      <4>2. ResumeWoken(tcb_state, threads)
              \in [Tcb -> {"running", "suspended", "faulted"}]
        BY <4>1, SuspendType
      <4> QED
        BY <3>1, <4>1, <4>2
  <2>2. mainpc' \in {"seek", "body", "dirty", "ack"} /\ tx' \in Seq(DebuggerChar)
    BY <1>3, <1>4, <1>9 DEF AwaitAck
  <2>3. TypeOK'
    BY <1>9, <2>1 DEF AwaitAck, TypeInv, TypeOK, registry
  <2> QED
    BY <1>9, <2>2, <2>3, TakeTyped DEF AwaitAck, TypeInv, host
<1>10. CASE AwaitStopAck
  <2>1. mode' \in Modes /\ state' \in States /\ tx' \in Seq(DebuggerChar)
    BY <1>3, <1>4, <1>10 DEF AwaitStopAck, TypeInv, Modes, States
  <2> QED
    BY <1>10, <2>1, TakeTyped DEF AwaitStopAck, TypeInv, TypeOK, coreVars, host
<1>11. ASSUME NEW s \in Slot, NEW k \in FaultKinds, TakeFault(s, k)
       PROVE  TypeInv'
  <2>1. PacketEffect
    BY <1>11, HandleFaultEffect DEF TakeFault, TypeInv
  <2>2. tcb_state' \in [Tcb -> {"running", "suspended", "faulted"}]
    BY <1>11, SuspendType DEF TakeFault, TypeInv, TypeOK
  <2>3. TypeOK'
    BY <2>1, <2>2 DEF PacketEffect, TypeInv, TypeOK, registry
  <2>4. tx' \in Seq(DebuggerChar)
    <3>1. Sent(output') \in DebuggerChar
      BY <2>1, PacketTyped, CharTyped DEF PacketEffect
    <3> QED
      BY <1>3, <1>11, <3>1, ConcatProperties DEF TakeFault, FaultMessage
  <2> QED
    BY <1>11, <2>3, <2>4 DEF TakeFault, TypeInv, line, host, Modes
<1> QED
  BY <1>1, <1>2, <1>7, <1>8, <1>9, <1>10, <1>11

LEMMA HostSendsTyped ==
  ASSUME TypeOK
  PROVE  HostCommands \subseteq HostPacket /\ LiveNames \subseteq Nat \X Nat
<1>1. LiveNames \subseteq Nat \X Nat
  BY WireIdType DEF LiveNames, Live, WireByte
<1>2. \A x \in Nat \X Nat : ThreadPacket("H", x[1], x[2]) \in HostPacket
  BY PacketTyped
<1>3. \A op \in {"D", "g", "G"} : Packet(op) \in HostPacket
  BY PacketTyped DEF SimpleOps
<1> QED
  BY <1>1, <1>2, <1>3, VContTyped DEF HostCommands

LEMMA SendType ==
  ASSUME TypeInv, NEW pkt \in HostPacket, SendPacket(pkt)
  PROVE  /\ wire' \in Seq(HostChar) /\ cur' \in HostPacket
         /\ hostpc' = "acking"
<1>1. Char("$") \in HostChar /\ Body(pkt) \in HostChar
  BY CharTyped, ReplyType DEF TypeInv, TypeOK
<1>2. <<Char("$"), Body(pkt)>> \in Seq(HostChar)
  BY <1>1
<1> QED
  BY <1>2, ConcatProperties DEF SendPacket, TypeInv

LEMMA EnvironmentType ==
  ASSUME TypeInv,
         \/ \E s \in Slot : s \in Live /\ ThreadFaults(s)
         \/ CharArrives \/ LineNoise \/ HostConnects \/ HostSends
         \/ HostInterrupts \/ HostReadsAck \/ HostReadsReply \/ HostResends
  PROVE  TypeInv'
<1> USE DEF coreVars, debugger, line, host
<1>1. CASE \E s \in Slot : s \in Live /\ ThreadFaults(s)
  <2>1. tcb_state' \in [Tcb -> {"running", "suspended", "faulted"}]
    BY <1>1 DEF ThreadFaults, TypeInv, TypeOK
  <2> QED
    BY <1>1, <2>1 DEF ThreadFaults, TypeInv, TypeOK, registry
<1>2. \A c \in {"$", "+", "etx", "damaged"} : Char(c) \in HostChar
  BY PacketTyped, CharTyped DEF TypeInv, TypeOK
<1>3. CASE CharArrives
  <2>1. rx' \in Seq(HostChar) /\ wire' \in Seq(HostChar)
    BY <1>3, HeadTailProperties DEF CharArrives, TypeInv
  <2> QED
    BY <1>3, <2>1 DEF CharArrives, TypeInv, TypeOK
<1>4. CASE LineNoise
  <2>1. wire # <<>> /\ Tail(wire) \in Seq(HostChar)
    BY <1>4, HeadTailProperties DEF LineNoise, TypeInv
  <2>2. <<Char("damaged")>> \in Seq(HostChar)
    BY <1>2
  <2>3. wire' \in Seq(HostChar)
    BY <1>4, <2>1, <2>2, ConcatProperties DEF LineNoise
  <2> QED
    BY <1>4, <2>3 DEF LineNoise, TypeInv, TypeOK
<1>5. CASE HostConnects
  <2>1. Packet("qSupported") \in HostPacket
    BY PacketTyped DEF SimpleOps
  <2>2. Body(Packet("qSupported")) \in HostChar
    BY <2>1, CharTyped DEF TypeInv, TypeOK
  <2>3. <<Char("+"), Char("$"), Body(Packet("qSupported"))>> \in Seq(HostChar)
    BY <1>2, <2>2
  <2>4. wire' \in Seq(HostChar)
    BY <1>5, <2>3, ConcatProperties DEF HostConnects, TypeInv
  <2>5. NoId \in Nat \X Nat /\ <<>> \in Seq(DebuggerChar)
    BY DEF NoId
  <2> QED
    BY <1>5, <2>1, <2>4, <2>5 DEF HostConnects, TypeInv, TypeOK
<1>6. CASE HostSends
  <2>1. PICK pkt \in HostPacket : SendPacket(pkt)
    BY <1>6, HostSendsTyped DEF HostSends, TypeInv
  <2> QED
    BY <1>6, <2>1, SendType DEF HostSends, TypeInv, TypeOK
<1>7. CASE HostInterrupts
  <2>1. wire' \in Seq(HostChar)
    BY <1>2, <1>7 DEF HostInterrupts, TypeInv
  <2> QED
    BY <1>7, <2>1 DEF HostInterrupts, TypeInv, TypeOK
<1>8. CASE HostReadsAck
  <2>1. tx' \in Seq(DebuggerChar)
    BY <1>8, HeadTailProperties DEF HostReadsAck, TypeInv
  <2>2. wire' \in Seq(HostChar) /\ cur' \in HostPacket
        /\ hostpc' \in {"gone", "stopped", "acking", "waiting", "running"}
    <3>1. SendPacket(cur) => wire' \in Seq(HostChar) /\ cur' \in HostPacket
                             /\ hostpc' = "acking"
      BY SendType DEF TypeInv
    <3>2. wire \in Seq(HostChar) /\ cur \in HostPacket /\ hostpc = "acking"
      BY <1>8 DEF TypeInv, HostReadsAck
    <3>3. Append(wire, Char("+")) \in Seq(HostChar)
      BY <1>2, <3>2
    <3> QED
      BY <1>8, <3>1, <3>2, <3>3 DEF HostReadsAck
  <2> QED
    BY <1>8, <2>1, <2>2 DEF HostReadsAck, TypeInv, TypeOK
<1>9. CASE HostReadsReply
  <2>1. tx' \in Seq(DebuggerChar) /\ Head(tx) \in DebuggerChar
    BY <1>9, HeadTailProperties DEF HostReadsReply, TypeInv
  <2>2. Append(wire, Char("+")) \in Seq(HostChar)
    BY <1>2 DEF TypeInv
  <2>3. Head(tx).out.of \in Nat \X Nat /\ <<cur.pid, cur.tid>> \in Nat \X Nat
    BY <2>1 DEF DebuggerChar, HostPacket, TypeInv, WireByte
  <2>4. general' \in Nat \X Nat
    BY <1>9, <2>3 DEF HostReadsReply, TypeInv
  <2>5. wire' \in Seq(HostChar)
    BY <1>9, <2>2 DEF HostReadsReply, TypeInv
  <2>6. sig' \in BOOLEAN /\ etx' \in BOOLEAN
    BY <1>9 DEF HostReadsReply, TypeInv
  <2> QED
    BY <1>9, <2>1, <2>4, <2>5, <2>6 DEF HostReadsReply, TypeInv, TypeOK
<1>10. CASE HostResends
  BY <1>10, SendType DEF HostResends, TypeInv, TypeOK
<1> QED
  BY <1>1, <1>3, <1>4, <1>5, <1>6, <1>7, <1>8, <1>9, <1>10

LEMMA TypeNext == TypeInv /\ [LoopNext]_loopVars => TypeInv'
<1>1. CASE UNCHANGED loopVars
  BY <1>1 DEF loopVars, coreVars, debugger, line, host, TypeInv, TypeOK
<1> QED
  BY <1>1, DebuggerType, EnvironmentType DEF LoopNext

LEMMA TypeInit == LoopInit => TypeInv
<1> SUFFICES ASSUME LoopInit PROVE TypeInv
  OBVIOUS
<1>1. MaxPds \in Nat /\ 0 \in Th /\ NoThread \notin Slot
  BY CapacityAssumption, NoThreadAssumption DEF Th
<1>2. /\ TcbOf \in [Pd -> Tcb]
      /\ \A p, q \in Pd : TcbOf[p] = TcbOf[q] => p = q
  BY TcbAssumption DEF TcbOf
<1>3. RegisteredInferiors \in [Pd -> Inferior]
  BY <1>1 DEF RegisteredInferiors, Inferior, Pd
<1>4. RegisteredThreads \in [Slot -> Thread]
  BY <1>2 DEF RegisteredThreads, Thread, Slot, NullThread
<1>5. <<0, 0>> \in Slot
  BY <1>1, CapacityAssumption DEF Slot, Pd
<1>6. Reply("") \in [msg : Messages, of : WireByte \X WireByte] /\ NoId \in Nat \X Nat
  BY ReplyType DEF Messages, NoId
<1>7. TypeOK
  BY <1>1, <1>3, <1>4, <1>5, <1>6 DEF LoopInit, TypeOK
<1> QED
  <2>1. cur \in HostPacket /\ general \in Nat \X Nat
    BY <1>6, PacketTyped DEF LoopInit
  <2>2. /\ rx \in Seq(HostChar) /\ wire \in Seq(HostChar)
        /\ tx \in Seq(DebuggerChar)
    BY EmptySeq DEF LoopInit
  <2> QED
    BY <1>7, <2>1, <2>2 DEF LoopInit, TypeInv, Modes, States

\* Coroutines, queues and the packets in them have the types debugger.c gives
\* them, and the library's state those of gdb.h.
THEOREM LoopTypeCorrect == LoopSpec => []LoopTypeOK
<1>1. TypeInv => LoopTypeOK
  <2>1. ASSUME NEW S, NEW q \in Seq(S), NEW i \in DOMAIN q PROVE q[i] \in S
    BY LenProperties, ElementOfSeq
  <2>2. ASSUME TypeInv, NEW q \in Seq(HostChar), NEW i \in DOMAIN q
        PROVE  q[i].tok \in {"$", "+", "etx", "body", "damaged"}
    <3>1. q[i] \in HostChar
      BY <2>1
    <3> QED
      BY <3>1 DEF HostChar
  <2>3. ASSUME TypeInv, NEW i \in DOMAIN tx
        PROVE  tx[i].tok \in {"+", "-", "packet"}
    <3>1. tx[i] \in DebuggerChar
      BY <2>1, <2>3 DEF TypeInv
    <3> QED
      BY <3>1 DEF DebuggerChar
  <2> QED
    BY <2>2, <2>3 DEF TypeInv, LoopTypeOK, Modes, States
<1> QED
  BY <1>1, TypeInit, TypeNext, PTL DEF LoopSpec

-----------------------------------------------------------------------------
(* The line: at most one command of GDB and one acknowledgement of it *)

\* Everything GDB sent and the debugger has not taken yet.
Inbound == rx \o wire
Commands(q) == {i \in DOMAIN q : q[i].tok \in {"body", "damaged"}}
Signs(q) == {i \in DOMAIN q : q[i].tok # "packet"}

\* Of the bodies in q there is at most one, and it is pkt unless damaged.
Carries(q, pkt) ==
  /\ \A i, j \in Commands(q) : i = j
  /\ \A i \in DOMAIN q : q[i].tok = "body" => q[i].pkt = pkt

LinkInv ==
  /\ Carries(Inbound, cur)
  /\ \A i, j \in Signs(tx) : i = j
  /\ Signs(tx) # {} => Commands(Inbound) = {}
  /\ hostpc # "acking" => Commands(Inbound) = {} /\ Signs(tx) = {}
  /\ hostpc = "running" => cur.op = "vCont"
  /\ hostpc = "waiting" => cur.op # "vCont"

\* A sequence that took over each of its characters, in a place of its own,
\* from q, at most damaged, carries no more than q.
LEMMA Shrinks ==
  ASSUME NEW q, NEW r, NEW f, NEW pkt, Carries(q, pkt),
         \A i \in DOMAIN r :
           /\ f[i] \in DOMAIN q
           /\ \/ r[i] = q[f[i]]
              \/ q[f[i]].tok = "body" /\ r[i].tok = "damaged",
         \A i, j \in DOMAIN r : f[i] = f[j] => i = j
  PROVE  /\ Carries(r, pkt)
         /\ Commands(q) = {} => Commands(r) = {}
<1>1. \A i \in Commands(r) : f[i] \in Commands(q)
  BY DEF Commands
<1>2. \A i \in DOMAIN r : r[i].tok = "body" => r[i].pkt = pkt
  BY DEF Carries
<1>3. \A i, j \in Commands(r) : i = j
  BY <1>1 DEF Carries, Commands
<1> QED
  BY <1>1, <1>2, <1>3 DEF Carries

LEMMA ConcatTyped ==
  ASSUME NEW r \in Seq(HostChar), NEW w \in Seq(HostChar)
  PROVE  /\ r \o w \in Seq(HostChar)
         /\ Len(r) \in Nat /\ Len(w) \in Nat
         /\ DOMAIN (r \o w) = 1 .. Len(r) + Len(w)
         /\ \A i \in 1 .. Len(r) + Len(w) :
              (r \o w)[i] = IF i <= Len(r) THEN r[i] ELSE w[i - Len(r)]
  BY ConcatProperties, LenProperties

LEMMA TakeLink ==
  ASSUME TypeInv, TypeInv', Take, NEW pkt, Carries(Inbound, pkt)
  PROVE  /\ Carries(Inbound', pkt)
         /\ Commands(Inbound) = {} => Commands(Inbound') = {}
         /\ Head(rx).tok \in {"body", "damaged"}
              => Commands(Inbound) # {} /\ Commands(Inbound') = {}
         /\ Head(rx).tok = "body" => Head(rx).pkt = pkt
<1>1. /\ rx # <<>> /\ rx' = Tail(rx) /\ wire' = wire /\ Head(rx) = rx[1]
      /\ Len(rx) \in Nat \ {0} /\ Len(rx') = Len(rx) - 1
      /\ \A i \in 1 .. Len(rx') : rx'[i] = rx[i + 1]
  BY HeadTailProperties, EmptySeq DEF Take, TypeInv
<1>2. DOMAIN Inbound = 1 .. Len(rx) + Len(wire) /\ Len(wire) \in Nat
      /\ \A i \in 1 .. Len(rx) + Len(wire) :
           Inbound[i] = IF i <= Len(rx) THEN rx[i] ELSE wire[i - Len(rx)]
  BY ConcatTyped DEF TypeInv, Inbound
<1>3. DOMAIN Inbound' = 1 .. Len(rx') + Len(wire)
      /\ \A i \in 1 .. Len(rx') + Len(wire) :
           Inbound'[i] = IF i <= Len(rx') THEN rx'[i] ELSE wire[i - Len(rx')]
  BY <1>1, ConcatTyped DEF TypeInv, Inbound
<1> HIDE DEF Inbound
<1>4. \A i \in DOMAIN Inbound' : i + 1 \in DOMAIN Inbound
                                 /\ Inbound'[i] = Inbound[i + 1]
  BY <1>1, <1>2, <1>3
<1>5. 1 \in DOMAIN Inbound /\ Inbound[1] = Head(rx)
  BY <1>1, <1>2
<1>6. \A i \in DOMAIN Inbound' : i + 1 # 1
  BY <1>3
<1>7. Carries(Inbound', pkt) /\ (Commands(Inbound) = {} => Commands(Inbound') = {})
  <2> DEFINE f == [i \in DOMAIN Inbound' |-> i + 1]
  <2>1. \A i, j \in DOMAIN Inbound' : f[i] = f[j] => i = j
    BY <1>3
  <2>2. \A i \in DOMAIN Inbound' :
           /\ f[i] \in DOMAIN Inbound
           /\ \/ Inbound'[i] = Inbound[f[i]]
              \/ Inbound[f[i]].tok = "body" /\ Inbound'[i].tok = "damaged"
    BY <1>4
  <2> HIDE DEF f
  <2> QED
    BY <2>1, <2>2, Shrinks
<1>8. ASSUME Head(rx).tok \in {"body", "damaged"}
      PROVE  1 \in Commands(Inbound) /\ Commands(Inbound') = {}
  <2>1. 1 \in Commands(Inbound)
    BY <1>5, <1>8 DEF Commands
  <2>2. \A i \in Commands(Inbound') : i + 1 \in Commands(Inbound)
    BY <1>4 DEF Commands
  <2> QED
    BY <1>6, <2>1, <2>2 DEF Carries, Commands
<1> QED
  BY <1>5, <1>7, <1>8 DEF Carries

LEMMA ArrivesLink ==
  ASSUME TypeInv, CharArrives
  PROVE  Inbound' = Inbound
<1>1. /\ wire # <<>> /\ rx' = Append(rx, Head(wire)) /\ wire' = Tail(wire)
      /\ rx \in Seq(HostChar) /\ wire \in Seq(HostChar)
  BY DEF CharArrives, TypeInv
<1>2. /\ Head(wire) \in HostChar /\ Tail(wire) \in Seq(HostChar)
      /\ wire = <<Head(wire)>> \o Tail(wire)
  BY <1>1
<1>3. rx' = rx \o <<Head(wire)>> /\ <<Head(wire)>> \in Seq(HostChar)
  BY <1>1, <1>2
<1>4. (rx \o <<Head(wire)>>) \o Tail(wire) = rx \o (<<Head(wire)>> \o Tail(wire))
  BY <1>1, <1>2, <1>3, ConcatAssociative
<1> QED
  BY <1>1, <1>2, <1>3, <1>4 DEF Inbound

LEMMA NoiseLink ==
  ASSUME TypeInv, LineNoise, NEW pkt, Carries(Inbound, pkt)
  PROVE  /\ Carries(Inbound', pkt)
         /\ Commands(Inbound) = {} => Commands(Inbound') = {}
<1>1. /\ wire # <<>> /\ rx' = rx
      /\ rx \in Seq(HostChar) /\ wire \in Seq(HostChar)
      /\ Tail(wire) \in Seq(HostChar) /\ Len(Tail(wire)) = Len(wire) - 1
      /\ \A i \in 1 .. Len(Tail(wire)) : Tail(wire)[i] = wire[i + 1]
      /\ Head(wire) = wire[1] /\ Len(wire) \in Nat \ {0} /\ Len(rx) \in Nat
  BY HeadTailProperties, EmptySeq, LenProperties DEF LineNoise, TypeInv, line
<1>2. /\ DOMAIN Inbound = 1 .. Len(rx) + Len(wire)
      /\ \A i \in 1 .. Len(rx) + Len(wire) :
           Inbound[i] = IF i <= Len(rx) THEN rx[i] ELSE wire[i - Len(rx)]
  BY <1>1, ConcatTyped DEF Inbound
<1>3. CASE wire' = Tail(wire)
  <2>1. /\ DOMAIN Inbound' = 1 .. Len(rx) + Len(Tail(wire))
        /\ \A i \in 1 .. Len(rx) + Len(Tail(wire)) :
             Inbound'[i] = IF i <= Len(rx) THEN rx[i]
                                           ELSE Tail(wire)[i - Len(rx)]
    BY <1>1, <1>3, ConcatTyped DEF Inbound
  <2> DEFINE f == [i \in DOMAIN Inbound' |-> IF i <= Len(rx) THEN i ELSE i + 1]
  <2>2. \A i \in DOMAIN Inbound' : f[i] \in DOMAIN Inbound
                                   /\ Inbound'[i] = Inbound[f[i]]
    <3> HIDE DEF Inbound
    <3>1. ASSUME NEW i \in 1 .. Len(rx) + Len(Tail(wire)), i <= Len(rx)
          PROVE  i \in 1 .. Len(rx) + Len(wire) /\ Inbound'[i] = Inbound[i]
      BY <1>1, <1>2, <2>1, <3>1
    <3>2. ASSUME NEW i \in 1 .. Len(rx) + Len(Tail(wire)), ~(i <= Len(rx))
          PROVE  /\ i + 1 \in 1 .. Len(rx) + Len(wire)
                 /\ Inbound'[i] = Inbound[i + 1]
      <4>1. /\ i - Len(rx) \in 1 .. Len(Tail(wire)) /\ ~(i + 1 <= Len(rx))
            /\ (i - Len(rx)) + 1 = (i + 1) - Len(rx)
            /\ i + 1 \in 1 .. Len(rx) + Len(wire)
        BY <1>1, <3>2
      <4> QED
        BY <1>1, <1>2, <2>1, <3>2, <4>1
    <3> QED
      BY <1>2, <2>1, <3>1, <3>2
  <2>3. \A i, j \in DOMAIN Inbound' : f[i] = f[j] => i = j
    BY <1>1, <2>1
  <2> HIDE DEF f, Inbound
  <2> QED
    BY <2>2, <2>3, Shrinks
<1>4. CASE /\ Head(wire).tok = "body"
           /\ wire' = <<Char("damaged")>> \o Tail(wire)
  <2>1. Char("damaged") \in HostChar /\ Char("damaged").tok = "damaged"
    BY PacketTyped DEF Char, HostChar
  <2>2. /\ wire' \in Seq(HostChar) /\ Len(wire') = Len(wire)
        /\ wire'[1] = Char("damaged")
        /\ \A i \in 2 .. Len(wire) : wire'[i] = wire[i]
    <3>1. /\ <<Char("damaged")>> \in Seq(HostChar)
          /\ Len(<<Char("damaged")>>) = 1
          /\ <<Char("damaged")>>[1] = Char("damaged")
      BY <2>1
    <3> QED
      BY <1>1, <1>4, <3>1, ConcatProperties
  <2>3. /\ DOMAIN Inbound' = 1 .. Len(rx) + Len(wire)
        /\ \A i \in 1 .. Len(rx) + Len(wire) :
             Inbound'[i] = IF i <= Len(rx) THEN rx[i] ELSE wire'[i - Len(rx)]
    BY <1>1, <2>2, ConcatTyped, ZenonT(60) DEF Inbound
  <2> DEFINE f == [i \in DOMAIN Inbound' |-> i]
  <2>4. \A i \in DOMAIN Inbound' :
           /\ f[i] \in DOMAIN Inbound
           /\ \/ Inbound'[i] = Inbound[f[i]]
              \/ Inbound[f[i]].tok = "body" /\ Inbound'[i].tok = "damaged"
    <3> HIDE DEF Inbound
    <3>1. ASSUME NEW i \in 1 .. Len(rx) + Len(wire), i # Len(rx) + 1
          PROVE  Inbound'[i] = Inbound[i]
      <4>1. ~(i <= Len(rx)) => i - Len(rx) \in 2 .. Len(wire)
        BY <1>1, <3>1
      <4> QED
        BY <1>1, <1>2, <2>2, <2>3, <3>1, <4>1
    <3>2. Inbound[Len(rx) + 1] = Head(wire) /\ Inbound'[Len(rx) + 1] = wire'[1]
      BY <1>1, <1>2, <2>3, SMTT(30)
    <3> QED
      BY <1>2, <1>4, <2>1, <2>2, <2>3, <3>1, <3>2
  <2>5. \A i, j \in DOMAIN Inbound' : f[i] = f[j] => i = j
    OBVIOUS
  <2> HIDE DEF f, Inbound
  <2> QED
    BY <2>4, <2>5, Shrinks
<1> QED
  BY <1>3, <1>4 DEF LineNoise

\* GDB puts something behind what is on the line.
LEMMA GrowsLink ==
  ASSUME TypeInv, NEW w \in Seq(HostChar), wire' = wire \o w, UNCHANGED rx, NEW pkt
  PROVE  /\ Carries(w, pkt) /\ Commands(Inbound) = {} => Carries(Inbound', pkt)
         /\ Carries(Inbound, pkt) /\ Commands(w) = {} => Carries(Inbound', pkt)
         /\ Commands(Inbound) = {} /\ Commands(w) = {} => Commands(Inbound') = {}
<1>1. Inbound' = Inbound \o w
  <2>1. rx \in Seq(HostChar) /\ wire \in Seq(HostChar)
    BY DEF TypeInv
  <2>2. (rx \o wire) \o w = rx \o (wire \o w)
    BY <2>1, ConcatAssociative
  <2> QED
    BY <2>2 DEF Inbound
<1>2. Inbound \in Seq(HostChar)
  BY ConcatProperties DEF Inbound, TypeInv
<1> HIDE DEF Inbound
<1> DEFINE n == Len(Inbound)
<1>3. /\ n \in Nat /\ Len(w) \in Nat /\ DOMAIN Inbound' = 1 .. n + Len(w)
      /\ DOMAIN Inbound = 1 .. n /\ DOMAIN w = 1 .. Len(w)
      /\ \A i \in 1 .. n + Len(w) :
           Inbound'[i] = IF i <= n THEN Inbound[i] ELSE w[i - n]
  BY <1>1, <1>2, ConcatTyped, LenProperties
<1>4. ASSUME NEW i \in DOMAIN Inbound'
      PROVE  \/ i \in DOMAIN Inbound /\ Inbound'[i] = Inbound[i]
             \/ i - n \in DOMAIN w /\ Inbound'[i] = w[i - n]
  BY <1>3
<1>5. ASSUME NEW i \in Commands(Inbound')
      PROVE  i \in Commands(Inbound) \/ i - n \in Commands(w)
  BY <1>4 DEF Commands
<1>6. Commands(Inbound) = {} /\ Commands(w) = {} => Commands(Inbound') = {}
  BY <1>5
<1>7. ASSUME \/ Carries(w, pkt) /\ Commands(Inbound) = {}
             \/ Carries(Inbound, pkt) /\ Commands(w) = {}
      PROVE  Carries(Inbound', pkt)
  <2>1. ASSUME NEW i \in Commands(Inbound'), NEW j \in Commands(Inbound')
        PROVE  i = j
    <3>1. i \in Int /\ j \in Int /\ (i - n = j - n => i = j)
      BY <1>3 DEF Commands
    <3> QED
      BY <1>5, <1>7, <3>1 DEF Carries
  <2>2. ASSUME NEW i \in DOMAIN Inbound', Inbound'[i].tok = "body"
        PROVE  Inbound'[i].pkt = pkt
    <3>1. i \in DOMAIN Inbound /\ Inbound[i].tok = "body" => i \in Commands(Inbound)
      BY DEF Commands
    <3>2. i - n \in DOMAIN w /\ w[i - n].tok = "body" => i - n \in Commands(w)
      BY DEF Commands
    <3> QED
      BY <1>4, <1>7, <2>2, <3>1, <3>2 DEF Carries
  <2> QED
    BY <2>1, <2>2 DEF Carries
<1> QED
  BY <1>6, <1>7

\* What GDB sends at once, and whether there is a command in it.
LEMMA SentByHost ==
  ASSUME NEW pkt \in HostPacket
  PROVE  /\ \A c \in {"$", "+", "etx"} : /\ <<Char(c)>> \in Seq(HostChar)
                                         /\ Commands(<<Char(c)>>) = {}
         /\ <<Char("$"), Body(pkt)>> \in Seq(HostChar)
         /\ Carries(<<Char("$"), Body(pkt)>>, pkt)
         /\ <<Char("+"), Char("$"), Body(pkt)>> \in Seq(HostChar)
         /\ Carries(<<Char("+"), Char("$"), Body(pkt)>>, pkt)
<1>1. Body(pkt) \in HostChar /\ \A c \in {"$", "+", "etx"} : Char(c) \in HostChar
  BY PacketTyped DEF Body, Char, HostChar
<1>2. /\ \A c \in {"$", "+", "etx"} : Char(c).tok = c
      /\ Body(pkt).tok = "body" /\ Body(pkt).pkt = pkt
  BY DEF Body, Char
<1>3. \A c \in {"$", "+", "etx"} : /\ <<Char(c)>> \in Seq(HostChar)
                                   /\ Commands(<<Char(c)>>) = {}
  BY <1>1, <1>2 DEF Commands
<1>4. /\ <<Char("$"), Body(pkt)>> \in Seq(HostChar)
      /\ Carries(<<Char("$"), Body(pkt)>>, pkt)
  BY <1>1, <1>2 DEF Carries, Commands
<1>5. /\ <<Char("+"), Char("$"), Body(pkt)>> \in Seq(HostChar)
      /\ Carries(<<Char("+"), Char("$"), Body(pkt)>>, pkt)
  BY <1>1, <1>2 DEF Carries, Commands
<1> QED
  BY <1>3, <1>4, <1>5

\* What the debugger sends: packets change no sign, a sign is the only one
\* where there was none, and GDB reads from the front.
LEMMA OutboundLink ==
  ASSUME TypeInv, NEW m
  PROVE  /\ Signs(Append(tx, Sent(m))) = Signs(tx)
         /\ \A c \in {"+", "-"} :
              /\ Signs(tx) = {}
                   => /\ Signs(tx \o <<Sign(c)>>) = {Len(tx) + 1}
                      /\ Signs((tx \o <<Sign(c)>>) \o <<Sent(m)>>) = {Len(tx) + 1}
         /\ tx # <<>> => \A i \in Signs(Tail(tx)) : i + 1 \in Signs(tx)
         /\ tx # <<>> /\ Head(tx).tok # "packet" => 1 \in Signs(tx)
<1>1. /\ tx \in Seq(DebuggerChar) /\ Len(tx) \in Nat /\ DOMAIN tx = 1 .. Len(tx)
  BY LenProperties DEF TypeInv
<1>2. /\ Sent(m).tok = "packet"
      /\ \A c \in {"+", "-"} : Sign(c).tok = c
  BY DEF Sent, Sign
<1>3. Signs(Append(tx, Sent(m))) = Signs(tx)
  BY <1>1, <1>2 DEF Signs
<1>4. ASSUME NEW c \in {"+", "-"}, Signs(tx) = {}
      PROVE  /\ Signs(tx \o <<Sign(c)>>) = {Len(tx) + 1}
             /\ Signs((tx \o <<Sign(c)>>) \o <<Sent(m)>>) = {Len(tx) + 1}
  <2>1. \A i \in 1 .. Len(tx) : tx[i].tok = "packet"
    BY <1>1, <1>4 DEF Signs
  <2> DEFINE one == tx \o <<Sign(c)>>
             two == one \o <<Sent(m)>>
  <2>2. /\ one = Append(tx, Sign(c)) /\ two = Append(one, Sent(m))
        /\ Len(one) = Len(tx) + 1 /\ DOMAIN one = 1 .. Len(tx) + 1
        /\ one[Len(tx) + 1] = Sign(c) /\ \A i \in 1 .. Len(tx) : one[i] = tx[i]
    BY <1>1
  <2>3. /\ DOMAIN two = 1 .. Len(tx) + 2
        /\ two[Len(tx) + 2] = Sent(m)
        /\ \A i \in 1 .. Len(tx) + 1 : two[i] = one[i]
    BY <1>1, <2>2
  <2> HIDE DEF one, two
  <2>4. Signs(one) = {Len(tx) + 1}
    BY <1>1, <1>2, <2>1, <2>2 DEF Signs
  <2>5. Signs(two) = {Len(tx) + 1}
    BY <1>1, <1>2, <2>1, <2>2, <2>3 DEF Signs
  <2> QED
    BY <2>4, <2>5 DEF one, two
<1>5. ASSUME tx # <<>>
      PROVE  /\ \A i \in Signs(Tail(tx)) : i + 1 \in Signs(tx)
             /\ Head(tx).tok # "packet" => 1 \in Signs(tx)
  <2>1. /\ Len(Tail(tx)) = Len(tx) - 1 /\ Len(tx) \in Nat \ {0}
        /\ DOMAIN Tail(tx) = 1 .. Len(Tail(tx)) /\ Head(tx) = tx[1]
        /\ \A i \in 1 .. Len(Tail(tx)) : Tail(tx)[i] = tx[i + 1]
    BY <1>1, <1>5, HeadTailProperties, EmptySeq, LenProperties
  <2> QED
    BY <1>1, <2>1 DEF Signs
<1> QED
  BY <1>3, <1>4, <1>5

\* A step that puts no command or sign on the line.
LEMMA QuietLink ==
  ASSUME LinkInv, Carries(Inbound', cur),
         Commands(Inbound) = {} => Commands(Inbound') = {},
         Signs(tx') = Signs(tx), UNCHANGED <<hostpc, cur>>
  PROVE  LinkInv'
  BY DEF LinkInv

\* The debugger acknowledges, or refuses, the command it takes.
LEMMA SignLink ==
  ASSUME LinkInv, Carries(Inbound', cur), Commands(Inbound) # {},
         Commands(Inbound') = {}, NEW n, Signs(tx') = {n}, UNCHANGED <<hostpc, cur>>
  PROVE  LinkInv'
  BY DEF LinkInv

LEMMA ProcessSigns ==
  ASSUME TypeInv, NEW pkt, Process(pkt, <<>>)
  PROVE  Signs(tx') = Signs(tx)
<1>1. tx \o <<>> = tx /\ tx \o <<Sent(output')>> = Append(tx, Sent(output'))
  BY DEF TypeInv
<1>2. tx' = tx \/ tx' = Append(tx, Sent(output'))
  BY <1>1 DEF Process
<1> QED
  BY <1>2, OutboundLink

LEMMA DebuggerLink ==
  ASSUME TypeInv, TypeInv', LinkInv,
         \/ Wait \/ Seek \/ ReadBody \/ AwaitAck \/ AwaitStopAck \/ Notified
         \/ \E s \in Slot, k \in FaultKinds : s \in Live /\ TakeFault(s, k)
  PROVE  LinkInv'
<1>1. CASE Wait \/ Notified
  <2>1. UNCHANGED <<rx, wire, tx, hostpc, cur>>
    BY <1>1 DEF Wait, Notified, line, host
  <2> QED
    BY <2>1 DEF LinkInv, Inbound
<1>2. Carries(Inbound, cur) /\ \A m : Signs(Append(tx, Sent(m))) = Signs(tx)
  BY OutboundLink DEF LinkInv
<1>3. ASSUME Take PROVE /\ Carries(Inbound', cur)
                        /\ Commands(Inbound) = {} => Commands(Inbound') = {}
                        /\ Head(rx).tok \in {"body", "damaged"}
                             => Commands(Inbound) # {} /\ Commands(Inbound') = {}
  BY <1>2, <1>3, TakeLink
<1>4. CASE Seek
  <2>1. UNCHANGED <<hostpc, cur>> /\ Take
    BY <1>4 DEF Seek, host
  <2>2. Signs(tx') = Signs(tx)
    BY <1>4, ProcessSigns DEF Seek
  <2> QED
    BY <1>3, <2>1, <2>2, QuietLink
<1>5. CASE ReadBody
  <2>1. UNCHANGED <<hostpc, cur>> /\ Take
    BY <1>5 DEF ReadBody, host
  <2>2. CASE Head(rx).tok \in {"body", "damaged"}
    <3>1. Signs(tx) = {} /\ Commands(Inbound) # {} /\ Commands(Inbound') = {}
      BY <1>3, <2>1, <2>2 DEF LinkInv
    <3>2. \/ tx' = tx \o <<Sign("+")>>
          \/ tx' = (tx \o <<Sign("+")>>) \o <<Sent(output')>>
          \/ tx' = tx \o <<Sign("-")>>
      <4>1. Append(tx, Sign("-")) = tx \o <<Sign("-")>>
        <5>1. tx \in Seq(DebuggerChar)
          BY DEF TypeInv
        <5> QED
          BY <5>1
      <4> QED
        BY <1>5, <2>2, <4>1 DEF ReadBody, Process
    <3>3. Signs(tx') = {Len(tx) + 1}
      BY <3>1, <3>2, OutboundLink
    <3> QED
      BY <1>3, <2>1, <3>1, <3>3, SignLink
  <2>3. CASE Head(rx).tok \notin {"body", "damaged"}
    <3>1. tx' = tx
      BY <1>5, <2>3 DEF ReadBody
    <3> QED
      BY <1>3, <2>1, <3>1, QuietLink
  <2> QED
    BY <2>2, <2>3
<1>6. CASE AwaitAck \/ AwaitStopAck
  <2>1. UNCHANGED <<hostpc, cur>> /\ Take
    BY <1>6 DEF AwaitAck, AwaitStopAck, host
  <2>2. Signs(tx') = Signs(tx)
    BY <1>2, <1>6 DEF AwaitAck, AwaitStopAck
  <2> QED
    BY <1>3, <2>1, <2>2, QuietLink
<1>7. ASSUME NEW s \in Slot, NEW k \in FaultKinds, TakeFault(s, k)
      PROVE  LinkInv'
  <2>1. tx' = Append(tx, Sent(output')) /\ UNCHANGED <<rx, wire, hostpc, cur>>
    BY <1>7 DEF TakeFault, FaultMessage, line, host, TypeInv
  <2> QED
    BY <1>2, <2>1, QuietLink DEF Inbound
<1> QED
  BY <1>1, <1>4, <1>5, <1>6, <1>7

\* GDB sends a command when none is under way.
LEMMA CommandLink ==
  ASSUME TypeInv, LinkInv, NEW pkt \in HostPacket, SendPacket(pkt),
         UNCHANGED rx, Commands(Inbound) = {}, Signs(tx') = {}
  PROVE  LinkInv'
<1>1. <<Char("$"), Body(pkt)>> \in Seq(HostChar)
      /\ Carries(<<Char("$"), Body(pkt)>>, pkt)
  BY SentByHost
<1>2. Carries(Inbound', pkt)
  BY <1>1, GrowsLink DEF SendPacket
<1> QED
  BY <1>2 DEF LinkInv, SendPacket

\* GDB puts a character on the line that is no command.
LEMMA PlainLink ==
  ASSUME TypeInv, LinkInv, NEW c \in {"$", "+", "etx"},
         wire' = Append(wire, Char(c)), UNCHANGED rx
  PROVE  /\ Carries(Inbound', cur)
         /\ Commands(Inbound) = {} => Commands(Inbound') = {}
<1>1. <<Char(c)>> \in Seq(HostChar) /\ Commands(<<Char(c)>>) = {}
  BY SentByHost DEF TypeInv
<1>2. wire \in Seq(HostChar) /\ Char(c) \in HostChar
  BY PacketTyped DEF TypeInv, Char, HostChar
<1>3. wire' = wire \o <<Char(c)>>
  BY <1>2
<1> QED
  BY <1>1, <1>3, GrowsLink DEF LinkInv

LEMMA EnvironmentLink ==
  ASSUME TypeInv, TypeInv', WakeInv, LinkInv,
         \/ \E s \in Slot : s \in Live /\ ThreadFaults(s)
         \/ CharArrives \/ LineNoise \/ HostConnects \/ HostSends
         \/ HostInterrupts \/ HostReadsAck \/ HostReadsReply \/ HostResends
  PROVE  LinkInv'
<1>1. CASE \E s \in Slot : s \in Live /\ ThreadFaults(s)
  BY <1>1 DEF ThreadFaults, line, host, LinkInv, Inbound
<1>2. CASE CharArrives
  <2>1. UNCHANGED <<Inbound, tx, hostpc, cur>>
    BY <1>2, ArrivesLink DEF CharArrives, host
  <2> QED
    BY <2>1 DEF LinkInv
<1>3. CASE LineNoise
  <2>1. UNCHANGED <<tx, hostpc, cur>>
    BY <1>3 DEF LineNoise, host
  <2>2. Carries(Inbound', cur) /\ (Commands(Inbound) = {} => Commands(Inbound') = {})
    BY <1>3, NoiseLink DEF LinkInv
  <2> QED
    BY <2>1, <2>2, QuietLink
<1>4. Signs(<<>>) = {}
  BY DEF Signs
<1>5. CASE HostConnects
  <2> DEFINE pkt == Packet("qSupported")
             w == <<Char("+"), Char("$"), Body(pkt)>>
  <2>1. pkt \in HostPacket
    BY PacketTyped DEF SimpleOps
  <2>2. w \in Seq(HostChar) /\ Carries(w, pkt)
    BY <2>1, SentByHost
  <2>3. /\ wire' = wire \o w /\ rx' = rx /\ cur' = pkt /\ hostpc' = "acking"
        /\ tx' = <<>> /\ hostpc = "gone"
    BY <1>5 DEF HostConnects
  <2>4. Commands(Inbound) = {}
    BY <2>3 DEF LinkInv
  <2> HIDE DEF pkt, w
  <2>5. Carries(Inbound', pkt)
    BY <2>2, <2>3, <2>4, GrowsLink
  <2> QED
    BY <1>4, <2>3, <2>5 DEF LinkInv
<1>6. CASE HostSends
  <2>1. PICK pkt \in HostPacket : SendPacket(pkt)
    BY <1>6, HostSendsTyped DEF HostSends, TypeInv
  <2>2. hostpc = "stopped" /\ UNCHANGED <<rx, tx>>
    BY <1>6 DEF HostSends
  <2> QED
    BY <2>1, <2>2, CommandLink DEF LinkInv
<1>7. CASE HostInterrupts
  <2>1. wire' = Append(wire, Char("etx")) /\ UNCHANGED <<rx, tx, hostpc, cur>>
    BY <1>7 DEF HostInterrupts
  <2> QED
    BY <2>1, PlainLink, QuietLink
<1>8. ASSUME tx # <<>>, tx' = Tail(tx)
      PROVE  /\ \A i, j \in Signs(tx') : i = j
             /\ Signs(tx) = {} => Signs(tx') = {}
             /\ Head(tx).tok # "packet" => Signs(tx) # {} /\ Signs(tx') = {}
  <2>1. /\ \A i \in Signs(tx') : i + 1 \in Signs(tx) /\ i \in Nat \ {0}
        /\ Head(tx).tok # "packet" => 1 \in Signs(tx)
    <3>1. \A i \in Signs(tx') : i \in Nat \ {0}
      <4>1. tx' \in Seq(DebuggerChar)
        BY DEF TypeInv
      <4>2. DOMAIN tx' = 1 .. Len(tx') /\ Len(tx') \in Nat
        BY <4>1, LenProperties
      <4> QED
        BY <4>2 DEF Signs
    <3> QED
      BY <1>8, <3>1, OutboundLink
  <2>2. \A i, j \in Signs(tx) : i = j
    BY DEF LinkInv
  <2>3. ASSUME NEW i \in Signs(tx'), NEW j \in Signs(tx') PROVE i = j
    <3>1. i + 1 = j + 1 /\ i \in Nat /\ j \in Nat
      BY <2>1, <2>2
    <3> QED
      BY <3>1
  <2>4. ASSUME NEW i \in Signs(tx'), 1 \in Signs(tx) PROVE FALSE
    <3>1. i + 1 = 1 /\ i \in Nat \ {0}
      BY <2>1, <2>2, <2>4
    <3> QED
      BY <3>1
  <2> QED
    BY <2>1, <2>3, <2>4
<1>9. CASE HostReadsAck
  <2>1. tx # <<>> /\ tx' = Tail(tx) /\ hostpc = "acking" /\ UNCHANGED rx
    BY <1>9 DEF HostReadsAck
  <2>2. CASE Head(tx).tok = "+"
    <3>1. /\ hostpc' = IF cur.op = "vCont" THEN "running" ELSE "waiting"
          /\ UNCHANGED <<wire, cur>>
      BY <1>9, <2>2 DEF HostReadsAck
    <3>2. Signs(tx') = {} /\ Commands(Inbound) = {} /\ Inbound' = Inbound
      BY <1>8, <2>1, <2>2, <3>1 DEF LinkInv, Inbound
    <3> QED
      BY <3>1, <3>2 DEF LinkInv
  <2>3. CASE Head(tx).tok = "-"
    <3>1. SendPacket(cur) /\ cur \in HostPacket
      BY <1>9, <2>3 DEF HostReadsAck, TypeInv
    <3>2. Signs(tx') = {} /\ Commands(Inbound) = {}
      BY <1>8, <2>1, <2>3 DEF LinkInv
    <3> QED
      BY <2>1, <3>1, <3>2, CommandLink
  <2>4. CASE Head(tx).tok = "packet"
    <3>1. wire' = Append(wire, Char("+")) /\ UNCHANGED <<hostpc, cur>>
      BY <1>9, <2>4 DEF HostReadsAck
    <3>2. Carries(Inbound', cur) /\ (Commands(Inbound) = {} => Commands(Inbound') = {})
      BY <2>1, <3>1, PlainLink
    <3> QED
      BY <1>8, <2>1, <3>1, <3>2 DEF LinkInv
  <2> QED
    BY <1>9, <2>2, <2>3, <2>4 DEF HostReadsAck
<1>10. CASE HostReadsReply
  <2>1. /\ tx # <<>> /\ tx' = Tail(tx) /\ hostpc \in {"waiting", "running"}
        /\ UNCHANGED <<rx, cur>>
    BY <1>10 DEF HostReadsReply, host
  <2>2. Commands(Inbound) = {} /\ Signs(tx) = {} /\ Signs(tx') = {}
    BY <1>8, <2>1 DEF LinkInv
  <2>3. /\ Head(tx).tok = "packet" /\ wire' = Append(wire, Char("+"))
        /\ hostpc' \in {"gone", "stopped"}
    BY <1>8, <1>10, <2>1, <2>2 DEF HostReadsReply
  <2>4. Carries(Inbound', cur) /\ Commands(Inbound') = {}
    BY <2>1, <2>2, <2>3, PlainLink
  <2> QED
    BY <2>1, <2>2, <2>3, <2>4 DEF LinkInv
<1>11. CASE HostResends
  <2>1. /\ SendPacket(cur) /\ UNCHANGED <<rx, tx>> /\ tx = <<>> /\ wire = <<>>
        /\ mode = "idle" /\ ~notif /\ cur \in HostPacket
    BY <1>11 DEF HostResends, TypeInv
  <2>2. rx = <<>>
    BY <2>1 DEF WakeInv, Covered
  <2>3. Commands(Inbound) = {}
    BY <2>1, <2>2 DEF Inbound, Commands
  <2> QED
    BY <1>4, <2>1, <2>3, CommandLink
<1> QED
  BY <1>1, <1>2, <1>3, <1>5, <1>6, <1>7, <1>9, <1>10, <1>11

-----------------------------------------------------------------------------
(* Run control: who is suspended, and when *)

\* No step of the loop registers or removes a thread.
LEMMA StepSame ==
  ASSUME TypeInv, [LoopNext]_loopVars
  PROVE  SameRegistry
<1>1. ASSUME UNCHANGED <<registry, threads>> PROVE SameRegistry
  BY <1>1 DEF SameRegistry, registry
<1>2. ASSUME UNCHANGED coreVars PROVE SameRegistry
  BY <1>2 DEF SameRegistry, coreVars
<1>3. ASSUME NEW pkt, NEW ack, Process(pkt, ack) PROVE SameRegistry
  BY <1>3, PacketSame DEF Process, TypeInv
<1>4. CASE Seek \/ ReadBody
  BY <1>2, <1>3, <1>4 DEF Seek, ReadBody
<1>5. CASE AwaitAck
  BY <1>1, <1>5 DEF AwaitAck
<1>6. CASE Wait \/ AwaitStopAck \/ Notified
  BY <1>2, <1>6 DEF Wait, AwaitStopAck, Notified
<1>7. ASSUME NEW s \in Slot, NEW k \in FaultKinds, TakeFault(s, k)
      PROVE  SameRegistry
  BY <1>1, <1>7 DEF TakeFault, HandleFault
<1>8. ASSUME NEW s \in Slot, ThreadFaults(s) PROVE SameRegistry
  BY <1>1, <1>8 DEF ThreadFaults
<1>9. CASE \/ CharArrives \/ LineNoise \/ HostConnects \/ HostSends
           \/ HostInterrupts \/ HostReadsAck \/ HostReadsReply \/ HostResends
           \/ UNCHANGED loopVars
  BY <1>2, <1>9 DEF CharArrives, LineNoise, HostConnects, HostSends,
     HostInterrupts, HostReadsAck, HostReadsReply, HostResends, loopVars
<1> QED
  BY <1>4, <1>5, <1>6, <1>7, <1>8, <1>9 DEF LoopNext

LEMMA SameSuspended ==
  ASSUME SameRegistry, UNCHANGED tcb_state
  PROVE  AllSuspended' <=> AllSuspended
<1>1. Live' = Live /\ Live \subseteq Slot
  BY SameLive DEF Live
<1> QED
  BY <1>1 DEF AllSuspended, SameRegistry

\* suspend_system reaches every live thread, and a packet other than vCont
\* and G that is handled afterwards, or while all are suspended, resumes none.
LEMMA SuspendReaches ==
  ASSUME RInv, SameRegistry, tcb_state' = SuspendAll(tcb_state)
  PROVE  AllSuspended'
<1>1. Live' = Live /\ Live \subseteq Slot
  BY SameLive DEF Live
<1>2. \A s \in Live : threads[s].tcb \in Tcb /\ threads[s].tcb \in LiveTcbs
  BY DEF RInv, LiveTcbsDistinct, LiveTcbs
<1> QED
  BY <1>1, <1>2 DEF AllSuspended, SameRegistry, SuspendAll

LEMMA ProcessSuspends ==
  ASSUME RInv, SameRegistry, NEW pkt, NEW ack, Process(pkt, ack),
         AllSuspended \/ Suspends(pkt), pkt.op \notin {"G", "vCont"}
  PROVE  AllSuspended' /\ mainpc' = "ack"
                       /\ tx' = (tx \o ack) \o <<Sent(output')>>
<1> DEFINE before == IF Suspends(pkt) THEN SuspendAll(tcb_state) ELSE tcb_state
<1>1. Live' = Live /\ Live \subseteq Slot
  BY SameLive DEF Live
<1>2. \A s \in Live : threads[s].tcb \in Tcb /\ threads[s].tcb \in LiveTcbs
  BY DEF RInv, LiveTcbsDistinct, LiveTcbs
<1>3. \A s \in Live : before[threads[s].tcb] = "suspended"
  BY <1>2 DEF AllSuspended, SuspendAll
<1>4. before \in [Tcb -> {"running", "suspended", "faulted"}]
  BY SuspendType DEF RInv, TypeOK
<1>5. /\ tcb_state' = TcbsAfter(pkt, before) /\ mainpc' = "ack"
      /\ tx' = (tx \o ack) \o <<Sent(output')>>
  BY DEF Process
<1> HIDE DEF before
<1>6. \A s \in Live : TcbsAfter(pkt, before)[threads[s].tcb] = "suspended"
  BY <1>2, <1>3, <1>4 DEF TcbsAfter
<1> QED
  BY <1>1, <1>5, <1>6 DEF AllSuspended, SameRegistry

\* In a run: the debugger took the vCont packet GDB sent last, and what it sent
\* since then begins behind the b-th character on the way to GDB.
InRunAt(b) ==
  /\ cur.op = "vCont"
  /\ \/ b = 0 /\ hostpc = "running"
     \/ b \in DOMAIN tx /\ tx[b].tok = "+" /\ hostpc = "acking"
InRun == \E b \in 0 .. Len(tx) : InRunAt(b)
Acked == \E i \in DOMAIN tx : tx[i].tok = "+"

\* Where GDB may be while the debugger has no GDB attached.
Apart ==
  \/ hostpc = "gone"
  \/ cur.op = "D" /\ (hostpc = "waiting" \/ (hostpc = "acking" /\ Acked))
  \/ cur.op = "qSupported" /\ hostpc = "acking" /\ ~Acked

RunInv ==
  /\ cur.op # "G"
  /\ AckQuiescent
  /\ mode \in {"main", "notified"} => state = "none"
  /\ AllSuspended \/ detached \/ InRun
  /\ detached => Apart
  /\ \A b \in 0 .. Len(tx) : InRunAt(b) /\ b < Len(tx) => AllSuspended

LoopInv == TypeInv /\ RInv /\ WakeInv /\ LinkInv /\ RunInv

LEMMA RunOrApart == RunInv /\ detached => ~InRun
  BY DEF RunInv, Apart, InRun, InRunAt

\* A step that GDB does not see.
LEMMA QuietRun ==
  ASSUME RunInv, UNCHANGED <<tx, hostpc, cur, detached>>,
         AllSuspended' <=> AllSuspended, AckQuiescent',
         mode' \in {"main", "notified"} => state' = "none"
  PROVE  RunInv'
  BY DEF RunInv, InRun, InRunAt, Apart, Acked

\* A packet is sent while all are suspended.
LEMMA SentRun ==
  ASSUME TypeInv, RunInv, NEW m, tx' = Append(tx, Sent(m)),
         UNCHANGED <<hostpc, cur>>, detached' = detached \/ detached' = FALSE,
         AllSuspended', AckQuiescent',
         mode' \in {"main", "notified"} => state' = "none"
  PROVE  RunInv'
<1>1. /\ tx \in Seq(DebuggerChar) /\ Sent(m).tok = "packet"
      /\ DOMAIN tx = 1 .. Len(tx) /\ Len(tx) \in Nat
      /\ DOMAIN tx' = 1 .. Len(tx) + 1
      /\ \A i \in 1 .. Len(tx) : tx'[i] = tx[i]
      /\ tx'[Len(tx) + 1] = Sent(m)
  BY LenProperties DEF TypeInv, Sent
<1>2. Acked' <=> Acked
  BY <1>1 DEF Acked
<1>3. Apart' <=> Apart
  BY <1>2 DEF Apart
<1> QED
  BY <1>3 DEF RunInv

\* The debugger's steps that send nothing and process nothing.
LEMMA AckQuiescentKept ==
  ASSUME AckQuiescent, AllSuspended => AllSuspended',
         mainpc' = "ack" => mainpc = "ack", FaultPending' => FaultPending
  PROVE  AckQuiescent'
  BY DEF AckQuiescent

\* While a body or damaged packet is on its way GDB waits for its sign.
LEMMA BeforeSign ==
  ASSUME TypeInv, LinkInv, Commands(Inbound) # {}
  PROVE  hostpc = "acking" /\ Signs(tx) = {} /\ ~Acked /\ ~InRun
<1>1. hostpc = "acking" /\ Signs(tx) = {}
  BY DEF LinkInv
<1>2. \A i \in DOMAIN tx : tx[i].tok = "packet"
  BY <1>1 DEF Signs
<1> QED
  BY <1>1, <1>2 DEF Acked, InRun, InRunAt

LEMMA SeekRun ==
  ASSUME LoopInv, TypeInv', SameRegistry, Seek
  PROVE  RunInv'
<1>1. mode = "main" /\ mainpc = "seek" /\ UNCHANGED <<mode, state, host>>
      /\ state = "none"
  BY DEF Seek, LoopInv, RunInv
<1>2. ~FaultPending'
  BY <1>1 DEF FaultPending
<1>3. CASE Interrupts(Head(rx))
  <2> DEFINE pkt == Packet("ctrl-c")
  <2>1. Process(pkt, <<>>) /\ pkt.op = "ctrl-c"
    BY <1>1, <1>3 DEF Seek, Packet
  <2> HIDE DEF pkt
  <2>2. /\ AllSuspended' /\ tx' = (tx \o <<>>) \o <<Sent(output')>>
        /\ detached' = FALSE
    BY <2>1, ProcessSuspends DEF LoopInv, Suspends, Process
  <2>3. tx' = Append(tx, Sent(output'))
    <3>1. tx \in Seq(DebuggerChar)
      BY DEF LoopInv, TypeInv
    <3> QED
      BY <2>2, <3>1
  <2>4. AckQuiescent'
    BY <1>2, <2>2 DEF AckQuiescent
  <2> QED
    BY <1>1, <2>2, <2>3, <2>4, SentRun DEF host, LoopInv
<1>4. CASE ~Interrupts(Head(rx))
  <2>1. mainpc' # "ack" /\ UNCHANGED <<coreVars, detached, tx>>
    BY <1>1, <1>4 DEF Seek
  <2>2. AllSuspended' <=> AllSuspended
    BY <2>1, SameSuspended DEF coreVars
  <2>3. AckQuiescent'
    BY <1>2, <2>1 DEF AckQuiescent
  <2> QED
    BY <1>1, <2>1, <2>2, <2>3, QuietRun DEF LoopInv, host
<1> QED
  BY <1>3, <1>4

LEMMA ReadBodyRun ==
  ASSUME LoopInv, TypeInv', SameRegistry, ReadBody
  PROVE  RunInv'
<1>1. /\ mode = "main" /\ mainpc # "ack" /\ state = "none" /\ Take
      /\ UNCHANGED <<mode, state, host>>
  BY DEF ReadBody, LoopInv, RunInv
<1>2. ~FaultPending'
  BY <1>1 DEF FaultPending
<1>3. /\ tx \in Seq(DebuggerChar) /\ DOMAIN tx = 1 .. Len(tx) /\ Len(tx) \in Nat
      /\ UNCHANGED <<hostpc, cur>>
  BY <1>1, LenProperties DEF LoopInv, TypeInv, host
<1>4. Head(rx).tok \in {"body", "damaged"} => Commands(Inbound) # {}
  BY <1>1, TakeLink DEF LoopInv, LinkInv
<1>5. Head(rx).tok = "body" => Head(rx).pkt = cur
  BY <1>1, TakeLink DEF LoopInv, LinkInv
<1>6. CASE Head(rx).tok = "body" /\ mainpc = "body"
  <2>1. Process(cur, <<Sign("+")>>) /\ detached' = (cur.op = "D")
    BY <1>5, <1>6 DEF ReadBody, Process
  <2>2. hostpc = "acking" /\ Signs(tx) = {} /\ ~Acked /\ ~InRun
    BY <1>4, <1>6, BeforeSign DEF LoopInv
  <2> DEFINE one == tx \o <<Sign("+")>>
  <2>3. /\ Len(one) = Len(tx) + 1 /\ DOMAIN one = 1 .. Len(tx) + 1
        /\ one[Len(tx) + 1].tok = "+"
    BY <1>3 DEF Sign
  <2>4. \A i \in 1 .. Len(tx) : one[i].tok = "packet"
    <3>1. \A i \in 1 .. Len(tx) : one[i] = tx[i]
      BY <1>3
    <3> QED
      BY <1>3, <2>2, <3>1 DEF Signs
  <2>5. CASE cur.op = "vCont"
    <3>1. tx' = one /\ mainpc' = "seek"
      BY <2>1, <2>5 DEF Process
    <3> HIDE DEF one
    <3>2. InRunAt(Len(tx))'
      BY <1>3, <2>2, <2>3, <2>5, <3>1 DEF InRunAt
    <3>3. InRun'
      BY <1>3, <2>3, <3>1, <3>2 DEF InRun
    <3>4. ASSUME NEW b \in 0 .. Len(tx'), InRunAt(b)' PROVE b = Len(tx')
      BY <1>3, <2>2, <2>3, <2>4, <3>1, <3>4 DEF InRunAt
    <3>5. AckQuiescent'
      BY <1>2, <3>1 DEF AckQuiescent
    <3>6. ~detached' /\ cur'.op # "G"
      BY <1>3, <2>1, <2>5
    <3>7. \A b \in 0 .. Len(tx') : InRunAt(b)' => ~(b < Len(tx'))
      BY <2>3, <3>1, <3>4
    <3> QED
      BY <1>1, <3>3, <3>5, <3>6, <3>7 DEF RunInv
  <2>6. CASE cur.op # "vCont"
    <3>1. AllSuspended \/ Suspends(cur)
      BY <2>2 DEF LoopInv, RunInv, Suspends
    <3>2. AllSuspended' /\ tx' = one \o <<Sent(output')>>
      BY <2>1, <2>6, <3>1, ProcessSuspends DEF LoopInv, RunInv
    <3> HIDE DEF one
    <3>3. Acked'
      <4>1. /\ Len(tx) + 1 \in DOMAIN tx'
            /\ tx'[Len(tx) + 1] = one[Len(tx) + 1]
        <5>1. one \in Seq(DebuggerChar)
          <6>1. Sign("+") \in DebuggerChar
            BY PacketTyped, CharTyped DEF LoopInv, TypeInv, TypeOK
          <6> QED
            BY <1>3, <6>1 DEF one
        <5>2. tx' = Append(one, Sent(output'))
          BY <3>2, <5>1
        <5> QED
          BY <1>3, <2>3, <5>1, <5>2
      <4> QED
        BY <2>3, <4>1 DEF Acked
    <3>4. AckQuiescent'
      BY <1>2, <3>2 DEF AckQuiescent
    <3>5. detached' => Apart'
      BY <1>3, <2>1, <2>2, <3>3 DEF Apart
    <3> QED
      BY <1>1, <1>3, <3>2, <3>4, <3>5 DEF RunInv, LoopInv
  <2> QED
    BY <2>5, <2>6
<1>7. CASE \/ Head(rx).tok = "damaged"
           \/ Head(rx).tok = "body" /\ mainpc = "dirty"
  <2>1. /\ tx' = Append(tx, Sign("-")) /\ mainpc' = "seek"
        /\ UNCHANGED <<coreVars, detached>>
    BY <1>7 DEF ReadBody
  <2>2. hostpc = "acking" /\ Signs(tx) = {} /\ ~Acked /\ ~InRun
    BY <1>4, <1>7, BeforeSign DEF LoopInv
  <2>3. \A i \in DOMAIN tx' : tx'[i].tok # "+"
    <3>1. /\ DOMAIN tx' = 1 .. Len(tx) + 1 /\ tx'[Len(tx) + 1] = Sign("-")
          /\ \A i \in 1 .. Len(tx) : tx'[i] = tx[i]
      BY <1>3, <2>1
    <3>2. \A i \in 1 .. Len(tx) : tx[i].tok = "packet"
      BY <1>3, <2>2 DEF Signs
    <3>3. \A i \in DOMAIN tx' : i = Len(tx) + 1 \/ i \in 1 .. Len(tx)
      BY <1>3, <3>1
    <3>4. Sign("-").tok # "+"
      BY DEF Sign
    <3> QED
      BY <3>1, <3>2, <3>3, <3>4
  <2>4. ~Acked' /\ \A b \in 0 .. Len(tx') : ~InRunAt(b)'
    BY <1>3, <2>2, <2>3 DEF Acked, InRunAt
  <2>5. AllSuspended' <=> AllSuspended
    BY <2>1, SameSuspended DEF coreVars
  <2>6. AckQuiescent'
    BY <1>2, <2>1 DEF AckQuiescent
  <2>7. detached' => Apart'
    BY <1>3, <2>1, <2>2, <2>4 DEF LoopInv, RunInv, Apart
  <2> QED
    BY <1>1, <1>3, <2>1, <2>2, <2>4, <2>5, <2>6, <2>7 DEF LoopInv, RunInv
<1>8. CASE Head(rx).tok \notin {"body", "damaged"}
  <2>1. mainpc' # "ack" /\ UNCHANGED <<coreVars, detached, tx>>
    BY <1>8 DEF ReadBody
  <2>2. AllSuspended' <=> AllSuspended
    BY <2>1, SameSuspended DEF coreVars
  <2>3. AckQuiescent'
    BY <1>2, <2>1 DEF AckQuiescent
  <2> QED
    BY <1>1, <1>3, <2>1, <2>2, <2>3, QuietRun DEF LoopInv
<1> QED
  BY <1>6, <1>7, <1>8 DEF ReadBody

\* The debugger sends again what was not acknowledged: all are suspended.
LEMMA ResendRun ==
  ASSUME LoopInv, SameRegistry, UNCHANGED <<tcb_state, mode, state, mainpc>>,
         tx' = Append(tx, Sent(output)), UNCHANGED <<hostpc, cur, detached>>,
         mainpc = "ack" \/ FaultPending
  PROVE  RunInv'
<1>1. AllSuspended /\ AckQuiescent
  BY DEF LoopInv, RunInv, AckQuiescent
<1>2. AllSuspended'
  BY <1>1, SameSuspended
<1>3. AckQuiescent'
  BY <1>1, <1>2 DEF AckQuiescent, FaultPending
<1> QED
  BY <1>2, <1>3, SentRun DEF LoopInv, RunInv

LEMMA AwaitAckRun ==
  ASSUME LoopInv, SameRegistry, AwaitAck
  PROVE  RunInv'
<1>1. /\ mode = "main" /\ mainpc = "ack" /\ state = "none"
      /\ UNCHANGED <<mode, state, detached, hostpc, cur>>
  BY DEF AwaitAck, LoopInv, RunInv, host
<1>2. CASE ~Acks(Head(rx))
  BY <1>1, <1>2, ResendRun DEF AwaitAck
<1>3. CASE Acks(Head(rx))
  <2>1. mainpc' = "seek" /\ tx' = tx
    BY <1>3 DEF AwaitAck
  <2>2. AckQuiescent'
    BY <1>1, <2>1 DEF AckQuiescent, FaultPending
  <2>3. CASE detached
    <3>1. Apart /\ ~InRun
      BY <2>3, RunOrApart DEF LoopInv, RunInv
    <3>2. Apart' /\ \A b \in 0 .. Len(tx') : ~InRunAt(b)'
      BY <1>1, <2>1, <3>1 DEF Apart, Acked, InRun, InRunAt
    <3> QED
      BY <1>1, <2>2, <2>3, <3>2 DEF LoopInv, RunInv
  <2>4. CASE ~detached
    <3>1. AllSuspended' <=> AllSuspended
      BY <1>3, <2>4, SameSuspended DEF AwaitAck
    <3> QED
      BY <1>1, <2>1, <2>2, <3>1, QuietRun DEF LoopInv
  <2> QED
    BY <2>3, <2>4
<1> QED
  BY <1>2, <1>3

LEMMA AwaitStopAckRun ==
  ASSUME LoopInv, SameRegistry, AwaitStopAck
  PROVE  RunInv'
<1>1. /\ mode \in {"fault", "notified"}
      /\ UNCHANGED <<coreVars, mainpc, detached, hostpc, cur>>
  BY DEF AwaitStopAck, host
<1>2. FaultPending /\ mainpc # "ack" /\ UNCHANGED tcb_state
  BY <1>1 DEF FaultPending, LoopInv, RunInv, AckQuiescent, coreVars
<1>3. CASE ~Acks(Head(rx))
  BY <1>1, <1>2, <1>3, ResendRun DEF AwaitStopAck
<1>4. CASE Acks(Head(rx))
  <2>1. tx' = tx /\ (mode' \in {"main", "notified"} => state' = "none")
        /\ mode' \in {"main", "idle"} /\ state' \in {"none", "EventLoop"}
    BY <1>4 DEF AwaitStopAck
  <2>2. AllSuspended' <=> AllSuspended
    BY <1>2, SameSuspended
  <2>3. AckQuiescent'
    BY <1>1, <1>2, <2>1 DEF AckQuiescent, FaultPending
  <2> QED
    BY <1>1, <2>1, <2>2, <2>3, QuietRun DEF LoopInv
<1> QED
  BY <1>3, <1>4

LEMMA SleepRun ==
  ASSUME LoopInv, SameRegistry, Wait \/ Notified
  PROVE  RunInv'
<1>1. UNCHANGED <<coreVars, tcb_state, mainpc, detached, tx, hostpc, cur>>
  BY DEF Wait, Notified, coreVars, host
<1>2. /\ mode' \in {"main", "notified"} => state' = "none"
      /\ FaultPending' => FaultPending
  BY DEF Wait, Notified, FaultPending, LoopInv, RunInv, WakeInv, Modes, States
<1>3. AllSuspended' <=> AllSuspended
  BY <1>1, SameSuspended
<1>4. AckQuiescent'
  BY <1>1, <1>2, <1>3, AckQuiescentKept DEF LoopInv, RunInv
<1> QED
  BY <1>1, <1>2, <1>3, <1>4, QuietRun DEF LoopInv

LEMMA TakeFaultRun ==
  ASSUME LoopInv, SameRegistry, NEW s \in Live, NEW k \in FaultKinds, TakeFault(s, k)
  PROVE  RunInv'
<1>1. /\ ~AllSuspended /\ mode' = "fault" /\ tcb_state' = SuspendAll(tcb_state)
      /\ UNCHANGED <<mainpc, detached, hostpc, cur>>
  BY DEF TakeFault, AllSuspended, host
<1>2. mainpc # "ack"
  BY <1>1 DEF LoopInv, RunInv, AckQuiescent
<1>3. AllSuspended'
  BY <1>1, SuspendReaches DEF LoopInv
<1>4. AckQuiescent'
  BY <1>1, <1>2, <1>3 DEF AckQuiescent
<1>5. tx' = Append(tx, Sent(output'))
  <2>1. tx \in Seq(DebuggerChar)
    BY DEF LoopInv, TypeInv
  <2> QED
    BY <2>1 DEF TakeFault, FaultMessage
<1> QED
  BY <1>1, <1>3, <1>4, <1>5, SentRun DEF LoopInv

LEMMA ThreadFaultsRun ==
  ASSUME LoopInv, SameRegistry, NEW s \in Live, ThreadFaults(s)
  PROVE  RunInv'
<1>1. /\ tcb_state[threads[s].tcb] = "running" /\ threads[s].tcb \in Tcb
      /\ tcb_state' = [tcb_state EXCEPT ![threads[s].tcb] = "faulted"]
      /\ tcb_state \in [Tcb -> {"running", "suspended", "faulted"}]
      /\ UNCHANGED <<threads, mode, state, mainpc, detached, tx, hostpc, cur>>
  BY DEF ThreadFaults, LoopInv, RInv, LiveTcbsDistinct, TypeOK, debugger, host
<1>2. ~AllSuspended
  BY <1>1 DEF AllSuspended
<1>3. Live' = Live
  BY SameLive
<1>4. ~AllSuspended'
  BY <1>1, <1>3 DEF AllSuspended
<1>5. AckQuiescent'
  BY <1>1, <1>2 DEF LoopInv, RunInv, AckQuiescent, FaultPending
<1> QED
  BY <1>1, <1>2, <1>4, <1>5, QuietRun DEF LoopInv, RunInv

\* The line moves; GDB and the debugger do not.
LEMMA LineRun ==
  ASSUME LoopInv, SameRegistry, CharArrives \/ LineNoise \/ HostInterrupts
  PROVE  RunInv'
<1>1. UNCHANGED <<coreVars, debugger, tx, hostpc, cur>>
  BY DEF CharArrives, LineNoise, HostInterrupts, host
<1>2. AllSuspended' <=> AllSuspended
  BY <1>1, SameSuspended DEF coreVars
<1> QED
  BY <1>1, <1>2, QuietRun DEF LoopInv, RunInv, AckQuiescent, FaultPending, debugger

\* What a step of GDB leaves as it was.
HostStep ==
  /\ UNCHANGED <<mode, state, mainpc, detached>>
  /\ AllSuspended' <=> AllSuspended

LEMMA HostStepSame ==
  ASSUME SameRegistry, UNCHANGED <<coreVars, debugger>>
  PROVE  HostStep
  BY SameSuspended DEF HostStep, coreVars, debugger

\* The clauses of RunInv about the debugger alone.
LEMMA HostStepRun ==
  ASSUME RunInv, HostStep
  PROVE  /\ AckQuiescent'
         /\ mode' \in {"main", "notified"} => state' = "none"
  BY DEF RunInv, HostStep, AckQuiescent, FaultPending

LEMMA HostConnectsRun ==
  ASSUME LoopInv, SameRegistry, HostConnects
  PROVE  RunInv'
<1>1. /\ hostpc = "gone" /\ hostpc' = "acking" /\ tx' = <<>>
      /\ cur'.op = "qSupported" /\ HostStep
  BY HostStepSame DEF HostConnects, Packet
<1>2. ~InRun
  BY <1>1 DEF InRun, InRunAt
<1>3. ~Acked' /\ \A b \in 0 .. Len(tx') : ~InRunAt(b)'
  BY <1>1 DEF Acked, InRunAt
<1> QED
  BY <1>1, <1>2, <1>3, HostStepRun DEF LoopInv, RunInv, HostStep, Apart

LEMMA HostCommandOps ==
  ASSUME NEW pkt \in HostCommands
  PROVE  pkt.op \in {"D", "H", "vCont"} \cup ({"g", "G"} \cap HostOps)
<1>1. /\ \A op : Packet(op).op = op
      /\ \A x : ThreadPacket("H", x[1], x[2]).op = "H"
      /\ \A x : StepPacket(x).op = "vCont" /\ ContinuePacket(x).op = "vCont"
  BY DEF Packet, ThreadPacket, StepPacket, ContinuePacket, VContPacket
<1>2. CASE pkt \in {Packet(op) : op \in {"D"} \cap HostOps}
  BY <1>1, <1>2
<1>3. CASE pkt \in {Packet(op) : op \in {o \in {"g", "G"} \cap HostOps :
                                             general # NoId}}
  BY <1>1, <1>3
<1>4. ASSUME NEW x \in LiveNames,
             pkt \in {ThreadPacket("H", x[1], x[2]), StepPacket(x), ContinuePacket(x)}
      PROVE  pkt.op \in {"H", "vCont"}
  BY <1>1, <1>4
<1> QED
  BY <1>2, <1>3, <1>4 DEF HostCommands

LEMMA HostSendsRun ==
  ASSUME LoopInv, SameRegistry, HostSends, "G" \notin HostOps
  PROVE  RunInv'
<1>1. PICK pkt \in HostCommands : SendPacket(pkt)
  BY DEF HostSends
<1>2. hostpc = "stopped" /\ UNCHANGED tx /\ HostStep /\ hostpc' = "acking"
      /\ cur' = pkt
  BY <1>1, HostStepSame DEF HostSends, SendPacket
<1>3. cur'.op # "G"
  BY <1>2, HostCommandOps
<1>4. AllSuspended /\ ~detached
  BY <1>2 DEF LoopInv, RunInv, Apart, InRun, InRunAt
<1> QED
  BY <1>2, <1>3, <1>4, HostStepRun DEF LoopInv, RunInv, HostStep

LEMMA HostResendsRun ==
  ASSUME LoopInv, SameRegistry, HostResends
  PROVE  RunInv'
<1>1. /\ hostpc = "acking" /\ hostpc' = "acking" /\ tx = <<>> /\ UNCHANGED tx
      /\ HostStep /\ cur' = cur
  BY HostStepSame DEF HostResends, SendPacket
<1> QED
  BY <1>1, HostStepRun DEF LoopInv, RunInv, HostStep, Apart, Acked, InRun, InRunAt

\* GDB reads a packet while it waits for an acknowledgement: what follows moves
\* up by one.
LEMMA PacketRead ==
  ASSUME TypeInv, hostpc = "acking", tx # <<>>, tx' = Tail(tx),
         Head(tx).tok = "packet", UNCHANGED <<hostpc, cur>>
  PROVE  /\ Acked' <=> Acked
         /\ InRun' <=> InRun
         /\ \A b \in 0 .. Len(tx') : InRunAt(b)' =>
              /\ b + 1 \in 0 .. Len(tx) /\ InRunAt(b + 1)
              /\ b < Len(tx') <=> b + 1 < Len(tx)
              /\ b < Len(tx') => tx'[b + 1] = tx[(b + 1) + 1]
<1>1. /\ DOMAIN tx = 1 .. Len(tx) /\ Len(tx) \in Nat \ {0} /\ tx[1].tok = "packet"
      /\ Len(tx') = Len(tx) - 1 /\ DOMAIN tx' = 1 .. Len(tx) - 1
      /\ \A i \in 1 .. Len(tx) - 1 : tx'[i] = tx[i + 1]
  BY HeadTailProperties, EmptySeq, LenProperties DEF TypeInv
<1>2. ASSUME NEW i \in DOMAIN tx, tx[i].tok = "+"
      PROVE  i - 1 \in DOMAIN tx' /\ i - 1 \in 0 .. Len(tx') /\ tx'[i - 1].tok = "+"
  <2>1. i - 1 \in 1 .. Len(tx) - 1 /\ (i - 1) + 1 = i
    BY <1>1, <1>2
  <2> QED
    BY <1>1, <1>2, <2>1
<1>3. ASSUME NEW i \in DOMAIN tx', tx'[i].tok = "+"
      PROVE  i + 1 \in DOMAIN tx /\ i + 1 \in 0 .. Len(tx) /\ tx[i + 1].tok = "+"
  BY <1>1, <1>3
<1>4. Acked' <=> Acked
  BY <1>2, <1>3 DEF Acked
<1>5. ASSUME NEW b \in 0 .. Len(tx'), InRunAt(b)'
      PROVE  /\ b + 1 \in 0 .. Len(tx) /\ InRunAt(b + 1)
             /\ b < Len(tx') <=> b + 1 < Len(tx)
             /\ b < Len(tx') => tx'[b + 1] = tx[(b + 1) + 1]
  <2>1. b \in DOMAIN tx' /\ tx'[b].tok = "+" /\ cur.op = "vCont"
    BY <1>5 DEF InRunAt
  <2>2. b + 1 \in 0 .. Len(tx) /\ InRunAt(b + 1)
    BY <1>3, <2>1 DEF InRunAt
  <2> QED
    BY <1>1, <2>2
<1>6. ASSUME NEW b \in 0 .. Len(tx), InRunAt(b) PROVE InRun'
  <2>1. b \in DOMAIN tx /\ tx[b].tok = "+" /\ cur.op = "vCont"
    BY <1>6 DEF InRunAt
  <2>2. \E a \in 0 .. Len(tx') : InRunAt(a)'
    BY <1>2, <2>1 DEF InRunAt
  <2> QED
    BY <2>2 DEF InRun
<1>7. InRun' <=> InRun
  BY <1>5, <1>6 DEF InRun
<1> QED
  BY <1>4, <1>5, <1>7

LEMMA HostReadsAckRun ==
  ASSUME LoopInv, SameRegistry, HostReadsAck
  PROVE  RunInv'
<1>1. /\ hostpc = "acking" /\ tx # <<>> /\ tx' = Tail(tx) /\ HostStep
      /\ cur' = cur
  BY HostStepSame DEF HostReadsAck, SendPacket
<1>2. /\ DOMAIN tx = 1 .. Len(tx) /\ Len(tx) \in Nat \ {0} /\ Head(tx) = tx[1]
      /\ Len(tx') = Len(tx) - 1 /\ DOMAIN tx' = 1 .. Len(tx) - 1
      /\ \A i \in 1 .. Len(tx) - 1 : tx'[i] = tx[i + 1]
  BY <1>1, HeadTailProperties, EmptySeq, LenProperties DEF LoopInv, TypeInv
<1>3. CASE Head(tx).tok # "packet"
  <2>1. \A i \in DOMAIN tx : i # 1 => tx[i].tok = "packet"
    BY <1>2, <1>3 DEF LoopInv, LinkInv, Signs
  <2>2. \A i \in 1 .. Len(tx) - 1 : tx'[i].tok = "packet"
    BY <1>2, <2>1
  <2>3. ~Acked'
    BY <1>2, <2>2 DEF Acked
  <2>4. CASE Head(tx).tok = "+"
    <3>1. hostpc' = IF cur.op = "vCont" THEN "running" ELSE "waiting"
      BY <2>4 DEF HostReadsAck
    <3>2. Acked
      BY <1>2, <2>4 DEF Acked
    <3>3. CASE cur.op = "vCont"
      <4>1. InRunAt(1) /\ InRunAt(0)'
        BY <1>1, <1>2, <2>4, <3>1, <3>3 DEF InRunAt
      <4>2. ~detached
        BY <1>1, <3>3 DEF LoopInv, RunInv, Apart
      <4>3. InRun'
        BY <1>2, <4>1 DEF InRun
      <4>4. ASSUME NEW b \in 0 .. Len(tx'), InRunAt(b)', b < Len(tx')
            PROVE  AllSuspended
        <5>1. 1 \in 0 .. Len(tx) /\ 1 < Len(tx)
          BY <1>2, <4>4
        <5> QED
          BY <4>1, <5>1 DEF LoopInv, RunInv
      <4> QED
        BY <1>1, <4>2, <4>3, <4>4, HostStepRun DEF LoopInv, RunInv, HostStep
    <3>4. CASE cur.op # "vCont"
      <4>1. hostpc' = "waiting" /\ ~InRun /\ \A b \in 0 .. Len(tx') : ~InRunAt(b)'
        BY <1>1, <3>1, <3>4 DEF InRun, InRunAt
      <4>2. detached => cur.op = "D"
        BY <1>1, <3>2 DEF LoopInv, RunInv, Apart
      <4> QED
        BY <1>1, <4>1, <4>2, HostStepRun DEF LoopInv, RunInv, HostStep, Apart
    <3> QED
      BY <3>3, <3>4
  <2>5. CASE Head(tx).tok = "-"
    <3>1. hostpc' = "acking"
      BY <2>5 DEF HostReadsAck, SendPacket
    <3>2. ~Acked /\ ~InRun
      BY <1>1, <1>2, <2>1, <2>5 DEF Acked, InRun, InRunAt
    <3>3. \A b \in 0 .. Len(tx') : ~InRunAt(b)'
      BY <1>2, <2>2, <3>1 DEF InRunAt
    <3> QED
      BY <1>1, <2>3, <3>1, <3>2, <3>3, HostStepRun
         DEF LoopInv, RunInv, HostStep, Apart
  <2> QED
    BY <1>3, <2>4, <2>5 DEF HostReadsAck
<1>4. CASE Head(tx).tok = "packet"
  <2>1. hostpc' = "acking"
    BY <1>1, <1>4 DEF HostReadsAck
  <2>2. /\ Acked' <=> Acked
        /\ InRun' <=> InRun
        /\ \A b \in 0 .. Len(tx') : InRunAt(b)' =>
             /\ b + 1 \in 0 .. Len(tx) /\ InRunAt(b + 1)
             /\ b < Len(tx') <=> b + 1 < Len(tx)
    BY <1>1, <1>4, <2>1, PacketRead DEF LoopInv
  <2>3. Apart => Apart'
    BY <1>1, <2>1, <2>2 DEF Apart
  <2> QED
    BY <1>1, <2>2, <2>3, HostStepRun DEF LoopInv, RunInv, HostStep
<1> QED
  BY <1>3, <1>4

LEMMA HostReadsReplyRun ==
  ASSUME LoopInv, SameRegistry, HostReadsReply
  PROVE  RunInv'
<1>1. /\ hostpc \in {"waiting", "running"} /\ tx # <<>> /\ HostStep
      /\ cur' = cur
  BY HostStepSame DEF HostReadsReply, host
<1>2. /\ 1 \in DOMAIN tx /\ Len(tx) \in Nat \ {0} /\ Head(tx) = tx[1]
  BY <1>1, HeadTailProperties, EmptySeq, LenProperties DEF LoopInv, TypeInv
<1>3. Head(tx).tok = "packet"
  BY <1>1, <1>2 DEF LoopInv, LinkInv, Signs
<1>4. hostpc' = IF cur.op = "D" THEN "gone" ELSE "stopped"
  BY <1>3 DEF HostReadsReply
<1>5. AllSuspended \/ detached
  <2>1. CASE hostpc = "running"
    <3>1. InRunAt(0) /\ 0 \in 0 .. Len(tx) /\ 0 < Len(tx)
      BY <1>2, <2>1 DEF InRunAt, LoopInv, LinkInv
    <3> QED
      BY <3>1 DEF LoopInv, RunInv
  <2>2. CASE hostpc = "waiting"
    BY <2>2 DEF LoopInv, RunInv, LinkInv, InRun, InRunAt
  <2> QED
    BY <1>1, <2>1, <2>2
<1>6. detached => cur.op = "D"
  BY <1>1 DEF LoopInv, RunInv, Apart
<1>7. \A b \in 0 .. Len(tx') : ~InRunAt(b)'
  BY <1>4 DEF InRunAt
<1> QED
  BY <1>1, <1>4, <1>5, <1>6, <1>7, HostStepRun
     DEF LoopInv, RunInv, HostStep, Apart

\* init suspends one thread of each child, each with a TCB of its own.
LEMMA RegisteredDistinct ==
  ASSUME LoopInit
  PROVE  /\ RInv /\ AllSuspended
         /\ Live = {<<p, 0>> : p \in Pd}
<1>1. /\ TcbOf \in [Pd -> Tcb]
      /\ \A p, q \in Pd : TcbOf[p] = TcbOf[q] => p = q
  BY TcbAssumption DEF TcbOf
<1>2. \A s \in Slot : s = <<s[1], s[2]>> /\ s[1] \in Pd /\ s[2] \in Th
  BY DEF Slot
<1>3. 0 \in Th
  BY CapacityAssumption DEF Th
<1>4. \A p \in Pd : inferiors[p].enabled /\ inferiors[p].id = p
  BY DEF LoopInit, RegisteredInferiors
<1>5. \A s \in Slot : /\ threads[s].enabled <=> s[2] = 0
                      /\ s[2] = 0 => threads[s].tcb = TcbOf[s[1]]
  BY DEF LoopInit, RegisteredThreads, NullThread
<1>6. Live = {<<p, 0>> : p \in Pd}
  <2>1. \A s \in Slot : IsLive(s) <=> s[2] = 0
    BY <1>2, <1>4, <1>5 DEF IsLive
  <2>2. \A p \in Pd : <<p, 0>> \in Slot
    BY <1>3 DEF Slot
  <2>3. \A s \in Slot : s[2] = 0 => s = <<s[1], 0>>
    BY <1>2
  <2> QED
    BY <1>2, <2>1, <2>2, <2>3 DEF Live
<1>7. \A s \in Live : s[1] \in Pd /\ s = <<s[1], 0>>
                      /\ threads[s].tcb = TcbOf[s[1]]
  <2>1. \A s \in Live : s \in Slot /\ s[2] = 0
    BY <1>5 DEF Live, IsLive
  <2> QED
    BY <1>2, <1>5, <2>1
<1>8. LiveIdsUnique
  <2>1. \A p, q \in UsedPds : inferiors[p].id = inferiors[q].id => p = q
    BY <1>4 DEF UsedPds
  <2> QED
    BY <1>7, <2>1 DEF LiveIdsUnique
<1>9. LiveTcbsDistinct
  BY <1>1, <1>7 DEF LiveTcbsDistinct
<1>10. AllSuspended
  <2>1. \A s \in Live : threads[s].tcb \in Tcb
    BY <1>9 DEF LiveTcbsDistinct
  <2> QED
    BY <2>1 DEF AllSuspended, LoopInit
<1> QED
  BY <1>6, <1>8, <1>9, <1>10, TypeInit DEF RInv, TypeInv

LEMMA LoopInvInit == LoopInit => LoopInv
<1> SUFFICES ASSUME LoopInit PROVE LoopInv
  OBVIOUS
<1>1. /\ rx = <<>> /\ wire = <<>> /\ tx = <<>> /\ hostpc = "gone"
      /\ mode = "idle" /\ mainpc = "seek" /\ state = "EventLoop" /\ ~detached
      /\ cur.op = "unknown"
  BY DEF LoopInit, NoPacket, Packet
<1>2. LinkInv
  <2>1. Commands(Inbound) = {} /\ Carries(Inbound, cur)
    BY <1>1 DEF Commands, Inbound, Carries
  <2>2. Signs(tx) = {}
    BY <1>1 DEF Signs
  <2> QED
    BY <1>1, <2>1, <2>2 DEF LinkInv
<1>3. RunInv
  BY <1>1, RegisteredDistinct
     DEF RunInv, AckQuiescent, FaultPending, InRunAt
<1> QED
  BY <1>2, <1>3, RegisteredDistinct, TypeInit, WakeInit DEF LoopInv

LEMMA LoopInvNext ==
  ASSUME "G" \notin HostOps, LoopInv, [LoopNext]_loopVars
  PROVE  LoopInv'
<1>1. TypeInv' /\ WakeInv' /\ SameRegistry
  BY TypeNext, WakeNext, StepSame DEF LoopInv
<1>2. RInv'
  BY <1>1, SameRInv DEF LoopInv, TypeInv
<1>3. LinkInv'
  <2>1. CASE UNCHANGED loopVars
    BY <2>1 DEF loopVars, line, host, LoopInv, LinkInv, Inbound
  <2> QED
    BY <1>1, <2>1, DebuggerLink, EnvironmentLink DEF LoopInv, LoopNext
<1>4. RunInv'
  <2>1. CASE UNCHANGED loopVars
    <3>1. UNCHANGED <<tcb_state, tx, hostpc, cur, mode, state, mainpc, detached>>
      BY <2>1 DEF loopVars, coreVars, debugger, host
    <3>2. AllSuspended' <=> AllSuspended
      BY <1>1, <3>1, SameSuspended
    <3>3. AckQuiescent'
      BY <3>1, <3>2 DEF LoopInv, RunInv, AckQuiescent, FaultPending
    <3> QED
      BY <3>1, <3>2, <3>3, QuietRun DEF LoopInv, RunInv
  <2>2. CASE Seek \/ ReadBody
    BY <1>1, <2>2, SeekRun, ReadBodyRun
  <2>3. CASE Wait \/ Notified \/ AwaitAck \/ AwaitStopAck
    BY <1>1, <2>3, SleepRun, AwaitAckRun, AwaitStopAckRun
  <2>4. ASSUME NEW s \in Live, NEW k \in FaultKinds, TakeFault(s, k)
        PROVE  RunInv'
    BY <1>1, <2>4, TakeFaultRun
  <2>5. ASSUME NEW s \in Live, ThreadFaults(s) PROVE RunInv'
    BY <1>1, <2>5, ThreadFaultsRun
  <2>6. CASE CharArrives \/ LineNoise \/ HostInterrupts
    BY <1>1, <2>6, LineRun
  <2>7. CASE HostConnects \/ HostSends \/ HostResends
    BY <1>1, <2>7, HostConnectsRun, HostSendsRun, HostResendsRun
  <2>8. CASE HostReadsAck \/ HostReadsReply
    BY <1>1, <2>8, HostReadsAckRun, HostReadsReplyRun
  <2> QED
    BY <2>1, <2>2, <2>3, <2>4, <2>5, <2>6, <2>7, <2>8 DEF LoopNext
<1> QED
  BY <1>1, <1>2, <1>3, <1>4 DEF LoopInv

\* Unless GDB writes registers (which resumes the thread), a coroutine of the
\* serial example waits for an acknowledgement only while every debuggee is
\* suspended, and never both at once.
THEOREM QuiescentWaits ==
  ASSUME "G" \notin HostOps
  PROVE  LoopSpec => []AckQuiescent
<1>1. LoopInv => AckQuiescent
  BY DEF LoopInv, RunInv
<1>2. LoopInv /\ [LoopNext]_loopVars => LoopInv'
  BY LoopInvNext
<1> QED
  BY <1>1, <1>2, LoopInvInit, PTL DEF LoopSpec

\* Unless GDB writes registers, nothing runs from the stop GDB saw to the
\* command by which it resumes: suspend_system, resume_system and the
\* acknowledgements keep all-stop mode over any line noise.
THEOREM AllStopKept ==
  ASSUME "G" \notin HostOps
  PROVE  LoopSpec => []AllStop
<1>1. LoopInv => AllStop
  BY DEF LoopInv, RunInv, AllStop, Apart, InRun, InRunAt
<1>2. LoopInv /\ [LoopNext]_loopVars => LoopInv'
  BY LoopInvNext
<1> QED
  BY <1>1, <1>2, LoopInvInit, PTL DEF LoopSpec

-----------------------------------------------------------------------------
(* Which thread is selected, and which threads run *)

\* The assumptions of what follows: the thread-ids of the children are read as
\* they were written, and GDB neither writes registers nor passes on signals.
OneByteIds == MaxPds < OneDigit \/ Junk \subseteq {0}
PlainHost == "G" \notin HostOps /\ "C" \notin VContKinds

\* The thread-id of the one thread of a child.
Name(s) == <<s[1] + 1, 1>>
Names == {<<p + 1, 1>> : p \in Pd}

OnePerPd ==
  /\ \A p \in Pd : inferiors[p].enabled /\ inferiors[p].gdb_id = p + 1
  /\ Live = {<<p, 0>> : p \in Pd}
  /\ \A s \in Live : threads[s].gdb_id = 1
  /\ target_thread \in Live
  /\ status = "up"

LEMMA NameProperties ==
  ASSUME OnePerPd
  PROVE  /\ \A s \in Live : /\ s \in Slot /\ s[1] \in Pd /\ s = <<s[1], 0>>
                            /\ WireId(s) = Name(s) /\ Name(s) \in Names
                            /\ Name(s) # NoId
         /\ \A s, r \in Live : Name(s) = Name(r) => s = r
         /\ LiveNames = Names
<1>1. /\ MaxPds \in Nat \ {0} /\ WireMod \in Nat \ {0} /\ MaxPds < WireMod
      /\ Pd = 0 .. MaxPds - 1
  BY CapacityAssumption DEF Pd
<1>2. \A s \in Live : /\ s \in Slot /\ s[1] \in Pd /\ s = <<s[1], 0>>
                      /\ inferiors[s[1]].gdb_id = s[1] + 1 /\ threads[s].gdb_id = 1
  BY DEF OnePerPd, Live, Slot
<1>3. \A p \in Pd : (p + 1) % WireMod = p + 1 /\ p + 1 # 0
  BY <1>1
<1>4. 1 % WireMod = 1
  BY <1>1
<1>5. \A s \in Live : WireId(s) = Name(s)
  BY <1>2, <1>3, <1>4 DEF WireId, WirePid, WireTid, Name
<1>6. \A s \in Live : Name(s) \in Names /\ Name(s) # NoId
  BY <1>2, <1>3 DEF Name, Names, NoId
<1>7. \A s, r \in Live : Name(s) = Name(r) => s = r
  <2>1. \A p, q \in Pd : p + 1 = q + 1 => p = q
    BY <1>1
  <2>2. ASSUME NEW s \in Live, NEW r \in Live, Name(s) = Name(r) PROVE s = r
    <3>1. s[1] + 1 = r[1] + 1
      BY <2>2 DEF Name
    <3> QED
      BY <1>2, <2>1, <3>1
  <2> QED
    BY <2>2
<1>8. LiveNames = Names
  <2>1. LiveNames = {Name(s) : s \in Live}
    BY <1>5 DEF LiveNames
  <2>2. \A p \in Pd : <<p, 0>> \in Live /\ Name(<<p, 0>>) = <<p + 1, 1>>
    BY DEF OnePerPd, Name
  <2> QED
    BY <1>6, <2>1, <2>2 DEF Names
<1> QED
  BY <1>2, <1>5, <1>6, <1>7, <1>8

\* A thread-id GDB sends leads to its thread.
LEMMA NameResolves ==
  ASSUME OnePerPd, NEW p \in Pd
  PROVE  /\ LookupGdbInferior(p + 1) = {p}
         /\ LookupGdbThread(p + 1, 1) = {<<p, 0>>}
         /\ <<p, 0>> \in Live
<1>1. /\ MaxPds \in Nat \ {0} /\ MaxThreads \in Nat \ {0} /\ p \in 0 .. MaxPds - 1
  BY CapacityAssumption DEF Pd
<1>2. (p + 1) - 1 = p /\ p % MaxPds = p /\ p + 1 > 0
  BY <1>1
<1>3. LookupGdbInferior(p + 1) = {p}
  BY <1>2 DEF LookupGdbInferior, OnePerPd
<1>4. <<p, 0>> \in Live /\ threads[<<p, 0>>].gdb_id = 1
  BY DEF OnePerPd
<1>5. (1 - 1) % MaxThreads = 0 /\ 0 \in Th
  BY <1>1 DEF Th
<1>6. LookupGdbThread(p + 1, 1) = {<<p, 0>>}
  BY <1>3, <1>4, <1>5 DEF LookupGdbThread
<1> QED
  BY <1>3, <1>4, <1>6

LEMMA ParsedAsSent ==
  ASSUME OneByteIds, NEW p \in Pd, NEW j \in Junk
  PROVE  Parse(p + 1, j) = p + 1 /\ Parse(1, j) = 1 /\ Parse(All, j) = All
<1>1. /\ MaxPds \in Nat \ {0} /\ p \in 0 .. MaxPds - 1 /\ OneDigit \in Nat
      /\ WireMod \in Nat
  BY CapacityAssumption DEF Pd
<1>2. CASE MaxPds < OneDigit
  BY <1>1, <1>2 DEF Parse, All
<1>3. CASE Junk \subseteq {0}
  <2>1. j = 0 /\ WireMod * j = 0
    BY <1>1, <1>3
  <2> QED
    BY <1>1, <2>1 DEF Parse, All
<1> QED
  BY <1>2, <1>3 DEF OneByteIds

\* The packets event_loop comes to handle: a thread-id is that of a child.
Addressed(pkt) ==
  /\ pkt.op \in {"unknown", "qSupported", "ctrl-c", "D", "g", "H", "vCont"}
  /\ pkt.op = "H" => \E p \in Pd : pkt.pid = p + 1 /\ pkt.tid = 1
  /\ pkt.op = "vCont" =>
       \E p \in Pd :
         \/ pkt.acts = <<[kind |-> "s", pid |-> p + 1, tid |-> 1]>>
         \/ pkt.acts = <<[kind |-> "c", pid |-> p + 1, tid |-> All]>>

\* One action on a child is carried out as it stands.
LEMMA VContCarried ==
  ASSUME OnePerPd, NEW p \in Pd, NEW acts, Len(acts) = 1,
         \/ acts[1] = [kind |-> "s", pid |-> p + 1, tid |-> 1]
         \/ acts[1] = [kind |-> "c", pid |-> p + 1, tid |-> All],
         HandleVCont(acts)
  PROVE  /\ threads' = VContThreads(acts, 1) /\ output' = Reply("")
         /\ UNCHANGED <<target_thread, status>>
<1>1. /\ MaxThreads \in Nat \ {0} /\ p \in 0 .. MaxPds - 1 /\ MaxPds \in Nat
  BY CapacityAssumption DEF Pd
<1>2. /\ acts[1].kind \in {"s", "c"} /\ acts[1].pid = p + 1
      /\ acts[1].tid \in {1, All}
  OBVIOUS
<1>3. p + 1 # All /\ ~(1 < 1) /\ ~(1 > MaxThreads) /\ ~(All > MaxThreads)
  BY <1>1 DEF All
<1>4. LookupGdbInferior(p + 1) # {}
  BY NameResolves
<1>5. ~Stops(acts, 1)
  <2>1. ~Unknown(acts[1])
    BY <1>2 DEF Unknown
  <2>2. ~Unparsed(acts, 1)
    BY <1>2, <1>3 DEF Unparsed
  <2>3. ~Wild(acts, 1)
    BY <1>2, <1>3, <1>4 DEF Wild
  <2> QED
    BY <2>1, <2>2, <2>3 DEF Stops
<1>6. ASSUME NEW n \in Carried(acts) PROVE n = 1
  <2>1. n \in 0 .. 1 /\ (n < 1 => Stops(acts, n + 1))
    BY DEF Carried
  <2>2. n = 0 => n < 1 /\ n + 1 = 1
    OBVIOUS
  <2> QED
    BY <1>5, <2>1, <2>2
<1> QED
  BY <1>3, <1>6 DEF HandleVCont

\* Which threads it wakes.
LEMMA VContWakes ==
  ASSUME OnePerPd, TypeOK, NEW p \in Pd, NEW acts, NEW s \in Live
  PROVE  /\ acts[1] = [kind |-> "c", pid |-> p + 1, tid |-> All]
              => VContThreads(acts, 1)[s].wakeup
         /\ acts[1] = [kind |-> "s", pid |-> p + 1, tid |-> 1]
              => (VContThreads(acts, 1)[s].wakeup <=> s = <<p, 0>>)
<1>1. s \in Slot /\ threads[s] \in Thread /\ threads[s].enabled
  BY DEF Live, IsLive, TypeOK
<1>2. VContThreads(acts, 1)[s].wakeup = Wakes(acts, 1, s)
  <2> DEFINE new == [threads[s] EXCEPT
                       !.wakeup = Wakes(acts, 1, s),
                       !.ss_enabled = @ \/ \E k \in HandledBy(acts, 1, s) :
                                             acts[k].kind = "s"]
  <2>1. new.wakeup = Wakes(acts, 1, s)
    BY <1>1 DEF Thread
  <2>2. VContThreads(acts, 1)[s] =
          IF s \notin Live \/ 1 = 0 THEN threads[s] ELSE new
    BY <1>1 DEF VContThreads
  <2> HIDE DEF new
  <2> QED
    BY <2>1, <2>2
<1>3. ASSUME acts[1] = [kind |-> "s", pid |-> p + 1, tid |-> 1]
      PROVE  Wakes(acts, 1, s) <=> s = <<p, 0>>
  <2>1. s \in TargetsOf(acts[1]) <=> s = <<p, 0>>
    <3>1. s \in TargetsOf(acts[1]) <=> s \in {p} \X Th /\ (s[2] = 0)
      <4>1. acts[1].pid = p + 1 /\ acts[1].tid = 1 /\ 1 # All /\ 1 - 1 = 0
        BY <1>3 DEF All
      <4>2. LookupGdbInferior(acts[1].pid) = {p}
        BY <4>1, NameResolves
      <4> QED
        BY <1>1, <4>1, <4>2 DEF TargetsOf
    <3>2. 0 \in Th
      BY CapacityAssumption DEF Th
    <3> QED
      BY <3>1, <3>2
  <2>2. 1 \in HandledBy(acts, 1, s) <=> s \in TargetsOf(acts[1])
    BY DEF HandledBy
  <2>3. acts[1].kind # "c"
    BY <1>3
  <2> QED
    BY <2>1, <2>2, <2>3 DEF Wakes
<1>4. acts[1] = [kind |-> "c", pid |-> p + 1, tid |-> All] => Wakes(acts, 1, s)
  BY DEF Wakes
<1> QED
  BY <1>2, <1>3, <1>4

LEMMA HSelects ==
  ASSUME OnePerPd, NEW p \in Pd, HandleSetInferior(p + 1, 1)
  PROVE  target_thread' = <<p, 0>> /\ output' = Reply("OK") /\ UNCHANGED status
<1>1. p + 1 # All /\ p + 1 > 0 /\ p + 1 # 0 /\ 1 # All /\ 1 # 0
  BY CapacityAssumption DEF Pd, All
<1>2. /\ LookupGdbInferior(p + 1) # {} /\ LookupGdbThread(p + 1, 1) = {<<p, 0>>}
      /\ <<p, 0>> \in Live /\ <<p, 0>> \in Slot /\ threads[<<p, 0>>].enabled
  BY NameResolves DEF Live, IsLive
<1>3. <<p, 0>> # NoThread
  BY <1>2, NoThreadAssumption
<1>4. ASSUME NEW new, Selects(p + 1, 1, new) PROVE new = <<p, 0>>
  BY <1>1, <1>2, <1>4 DEF Selects
<1> QED
  BY <1>1, <1>2, <1>3, <1>4 DEF HandleSetInferior

\* What a packet does to the selected thread, and to the flags of the threads.
LEMMA PacketSelects ==
  ASSUME OnePerPd, OneByteIds, NEW pkt, Addressed(pkt), HandlePacket(pkt)
  PROVE  /\ status' = "up" /\ target_thread' \in Live
         /\ pkt.op # "H" => target_thread' = target_thread
         /\ pkt.op = "H" => Name(target_thread') = <<pkt.pid, pkt.tid>>
         /\ output'.of = NoId
         /\ pkt.op = "vCont" => \E acts : /\ acts[1] = pkt.acts[1]
                                          /\ threads' = VContThreads(acts, 1)
<1>1. \A m : Reply(m).of = NoId
  BY DEF Reply
<1>2. ASSUME NEW m, JustReply(m)
      PROVE  /\ status' = "up" /\ target_thread' = target_thread
             /\ target_thread' \in Live /\ output'.of = NoId
  BY <1>1, <1>2 DEF JustReply, OnePerPd
<1>3. CASE pkt.op = "H"
  <2>1. PICK p \in Pd : pkt.pid = p + 1 /\ pkt.tid = 1
    BY <1>3 DEF Addressed
  <2>2. PICK j \in Junk : HandleSetInferior(Parse(pkt.pid, j), pkt.tid)
    BY <1>3 DEF HandlePacket
  <2>3. HandleSetInferior(p + 1, 1)
    BY <2>1, <2>2, ParsedAsSent
  <2>4. target_thread' = <<p, 0>> /\ output' = Reply("OK") /\ UNCHANGED status
    BY <2>3, HSelects
  <2>5. <<p, 0>> \in Live /\ Name(<<p, 0>>) = <<pkt.pid, pkt.tid>>
    BY <2>1, NameResolves DEF Name
  <2> QED
    BY <1>1, <1>3, <2>4, <2>5 DEF OnePerPd
<1>4. CASE pkt.op = "vCont"
  <2>1. PICK p \in Pd :
          \/ pkt.acts = <<[kind |-> "s", pid |-> p + 1, tid |-> 1]>>
          \/ pkt.acts = <<[kind |-> "c", pid |-> p + 1, tid |-> All]>>
    BY <1>4 DEF Addressed
  <2>2. PICK j \in Junk :
          HandleVCont([k \in DOMAIN pkt.acts |->
            [pkt.acts[k] EXCEPT !.pid = Parse(@, j), !.tid = Parse(@, j)]])
    BY <1>4 DEF HandlePacket
  <2> DEFINE acts == [k \in DOMAIN pkt.acts |->
            [pkt.acts[k] EXCEPT !.pid = Parse(@, j), !.tid = Parse(@, j)]]
  <2>3. DOMAIN pkt.acts = 1 .. 1
    BY <2>1
  <2>4. acts[1] = pkt.acts[1]
    <3>1. acts[1] = [pkt.acts[1] EXCEPT !.pid = Parse(@, j), !.tid = Parse(@, j)]
      BY <2>3
    <3>2. Parse(p + 1, j) = p + 1 /\ Parse(1, j) = 1 /\ Parse(All, j) = All
      BY ParsedAsSent
    <3>3. \/ pkt.acts[1] = [kind |-> "s", pid |-> p + 1, tid |-> 1]
          \/ pkt.acts[1] = [kind |-> "c", pid |-> p + 1, tid |-> All]
      BY <2>1
    <3>4. [pkt.acts[1] EXCEPT !.pid = Parse(@, j), !.tid = Parse(@, j)]
            = pkt.acts[1]
      <4>1. PICK k, x, y : /\ Parse(x, j) = x /\ Parse(y, j) = y
                           /\ pkt.acts[1] = [kind |-> k, pid |-> x, tid |-> y]
        BY <3>2, <3>3
      <4>2. pkt.acts[1].pid = x /\ pkt.acts[1].tid = y
        BY <4>1
      <4>3. [pkt.acts[1] EXCEPT !.pid = Parse(@, j), !.tid = Parse(@, j)]
              = [kind |-> k, pid |-> Parse(x, j), tid |-> Parse(y, j)]
        BY <4>1, <4>2
      <4> QED
        BY <4>1, <4>3
    <3> HIDE DEF acts
    <3> QED
      BY <3>1, <3>4
  <2>5. Len(acts) = 1
    <3>1. acts \in [1 .. 1 -> {acts[1]}]
      BY <2>3
    <3> DEFINE S == {acts[1]}
    <3>2. acts \in Seq(S)
      <4>1. acts \in [1 .. 1 -> S] /\ 1 \in Nat
        BY <3>1
      <4> HIDE DEF S, acts
      <4>2. Seq(S) = UNION {[1 .. n -> S] : n \in Nat}
        BY SeqDef
      <4> QED
        BY <4>1, <4>2
    <3> QED
      BY <2>3, <3>2, LenProperties
  <2> HIDE DEF acts
  <2>6. /\ threads' = VContThreads(acts, 1) /\ output' = Reply("")
        /\ UNCHANGED <<target_thread, status>>
    <3>1. \/ acts[1] = [kind |-> "s", pid |-> p + 1, tid |-> 1]
          \/ acts[1] = [kind |-> "c", pid |-> p + 1, tid |-> All]
      BY <2>1, <2>4
    <3>2. HandleVCont(acts)
      BY <2>2 DEF acts
    <3> QED
      BY <2>5, <3>1, <3>2, VContCarried
  <2> QED
    BY <1>1, <1>4, <2>4, <2>6 DEF OnePerPd
<1>5. CASE pkt.op = "D"
  <2>1. HandleDetach
    BY <1>5 DEF HandlePacket
  <2> QED
    BY <1>1, <1>5, <2>1 DEF HandleDetach, OnePerPd
<1>6. CASE pkt.op = "g"
  <2>1. HandleRegs("g")
    BY <1>6 DEF HandlePacket
  <2>2. target_thread # NoThread
    BY NoThreadAssumption DEF OnePerPd, Live
  <2> QED
    BY <1>2, <1>6, <2>1, <2>2 DEF HandleRegs
<1>7. CASE pkt.op \in {"unknown", "qSupported", "ctrl-c"}
  <2>1. HandleQuery(pkt.op)
    BY <1>7 DEF HandlePacket
  <2> QED
    BY <1>2, <1>7, <2>1 DEF HandleQuery
<1> QED
  BY <1>3, <1>4, <1>5, <1>6, <1>7 DEF Addressed

\* resume_system resumes a live thread by its own flag only.
LEMMA ResumesOwn ==
  ASSUME RInv, SameRegistry, NEW ts, NEW s \in Live
  PROVE  ResumeWoken(ts, threads')[threads[s].tcb] =
           IF threads'[s].wakeup THEN "running" ELSE ts[threads[s].tcb]
<1>1. /\ threads[s].tcb \in Tcb
      /\ \A r \in Live : threads'[r].tcb = threads[r].tcb
      /\ \A r \in Live : threads[r].tcb = threads[s].tcb => r = s
  BY DEF RInv, LiveTcbsDistinct, SameRegistry, Live
<1>2. (\E r \in Live : threads'[r].tcb = threads[s].tcb /\ threads'[r].wakeup)
        <=> threads'[s].wakeup
  BY <1>1
<1> QED
  BY <1>1, <1>2 DEF ResumeWoken

\* What vCont resumes when all were suspended: the system, or one thread.
LEMMA VContResumes ==
  ASSUME OnePerPd, OneByteIds, RInv, SameRegistry, NEW pkt, NEW ack,
         Addressed(pkt), pkt.op = "vCont", Process(pkt, ack)
  PROVE  /\ pkt.acts[1].kind \in {"c", "s"}
         /\ pkt.acts[1].kind = "c" =>
              \A s \in Live : tcb_state'[threads[s].tcb] = "running"
         /\ pkt.acts[1].kind = "s" =>
              /\ \E s \in Live : tcb_state'[threads[s].tcb] = "running"
              /\ AllSuspended \/ Suspends(pkt) =>
                   \A s \in Live : tcb_state'[threads[s].tcb] = "running"
                      => Name(s) = <<pkt.acts[1].pid, pkt.acts[1].tid>>
<1> DEFINE before == IF Suspends(pkt) THEN SuspendAll(tcb_state) ELSE tcb_state
<1>1. PICK p \in Pd :
        \/ pkt.acts = <<[kind |-> "s", pid |-> p + 1, tid |-> 1]>>
        \/ pkt.acts = <<[kind |-> "c", pid |-> p + 1, tid |-> All]>>
  BY DEF Addressed
<1>2. PICK acts : acts[1] = pkt.acts[1] /\ threads' = VContThreads(acts, 1)
  BY PacketSelects DEF Process
<1>3. tcb_state' = ResumeWoken(before, threads')
  <2>1. TcbsAfter(pkt, before) = before
    BY DEF TcbsAfter
  <2> QED
    BY <2>1 DEF Process
<1>4. \A s \in Live : tcb_state'[threads[s].tcb] =
                        IF threads'[s].wakeup THEN "running"
                                              ELSE before[threads[s].tcb]
  <2> HIDE DEF before
  <2> QED
    BY <1>3, ResumesOwn
<1>5. AllSuspended \/ Suspends(pkt) =>
        \A s \in Live : before[threads[s].tcb] = "suspended"
  BY DEF RInv, LiveTcbsDistinct, LiveTcbs, AllSuspended, SuspendAll
<1> HIDE DEF before
<1>6. CASE pkt.acts[1] = [kind |-> "c", pid |-> p + 1, tid |-> All]
  <2>1. \A s \in Live : threads'[s].wakeup
    BY <1>2, <1>6, VContWakes DEF RInv
  <2> QED
    BY <1>4, <1>6, <2>1
<1>7. CASE pkt.acts[1] = [kind |-> "s", pid |-> p + 1, tid |-> 1]
  <2>1. \A s \in Live : threads'[s].wakeup <=> s = <<p, 0>>
    BY <1>2, <1>7, VContWakes DEF RInv
  <2>2. <<p, 0>> \in Live /\ Name(<<p, 0>>) = <<p + 1, 1>>
    BY NameResolves DEF Name
  <2> QED
    BY <1>4, <1>5, <1>7, <2>1, <2>2
<1> QED
  BY <1>1, <1>6, <1>7

\* GDB's selected thread, where it has one, is the debugger's; and a stop the
\* debugger reports is one of the thread it selects, or names no thread.
Agrees == general = NoId \/ general = Name(target_thread)
Fits(m) == IF m.of = NoId THEN Agrees ELSE m.of = Name(target_thread)

\* When the debugger and GDB must agree: always but while H is carried out, and
\* but while a stop of the run is on its way to GDB or GDB is leaving.
AgreesNow ==
  \/ hostpc = "stopped"
  \/ hostpc \in {"acking", "waiting"} /\ cur.op \notin {"D", "H", "vCont"}
  \/ hostpc = "acking" /\ cur.op = "vCont" /\ ~InRun
  \/ hostpc = "acking" /\ cur.op = "H" /\ ~Acked
  \/ InRun /\ ~AllSuspended

SelInv ==
  /\ Addressed(cur)
  /\ general \in Names \cup {NoId}
  /\ AgreesNow => Agrees
  /\ cur.op = "H" /\ (hostpc = "waiting" \/ (hostpc = "acking" /\ Acked))
       => Name(target_thread) = <<cur.pid, cur.tid>>
  /\ hostpc \in {"acking", "waiting"} /\ cur.op = "qSupported" => general = NoId
  /\ \A b \in 0 .. Len(tx) : InRunAt(b) =>
       /\ AllSuspended => b < Len(tx)
       /\ b < Len(tx) => Fits(tx[b + 1].out)
  /\ InRun /\ cur.acts[1].kind = "s" =>
       \A s \in Running : Name(s) = <<cur.acts[1].pid, cur.acts[1].tid>>

FullInv == LoopInv /\ OnePerPd /\ SelInv

LEMMA SameRunning ==
  ASSUME SameRegistry, UNCHANGED tcb_state
  PROVE  Running' = Running
<1>1. Live' = Live /\ Live \subseteq Slot
  BY SameLive DEF Live
<1> QED
  BY <1>1 DEF Running, SameRegistry

LEMMA NobodyRuns == AllSuspended => Running = {}
  BY DEF AllSuspended, Running

\* A step that changes neither selection nor what GDB sees.
LEMMA QuietSel ==
  ASSUME SelInv, UNCHANGED <<tx, hostpc, cur, general, target_thread>>,
         InRun => (AllSuspended' <=> AllSuspended) /\ Running' \subseteq Running
  PROVE  SelInv'
<1>1. /\ InRun' <=> InRun
      /\ \A b : InRunAt(b)' <=> InRunAt(b)
      /\ \A b \in 0 .. Len(tx) : InRunAt(b) => InRun
  BY DEF InRun, InRunAt
<1>2. (Acked' <=> Acked) /\ (Agrees' <=> Agrees) /\ \A m : Fits(m)' <=> Fits(m)
  BY DEF Acked, Agrees, Fits, Name
<1>3. AgreesNow' => AgreesNow
  BY <1>1, <1>2 DEF AgreesNow
<1>4. (\A b \in 0 .. Len(tx) : InRunAt(b) =>
         /\ AllSuspended => b < Len(tx)
         /\ b < Len(tx) => Fits(tx[b + 1].out))'
  BY <1>1, <1>2 DEF SelInv
<1>5. (InRun /\ cur.acts[1].kind = "s" =>
         \A s \in Running : Name(s) = <<cur.acts[1].pid, cur.acts[1].tid>>)'
  BY <1>1 DEF SelInv, Name
<1>6. (cur.op = "H" /\ (hostpc = "waiting" \/ (hostpc = "acking" /\ Acked))
        => Name(target_thread) = <<cur.pid, cur.tid>>)'
  BY <1>2 DEF SelInv, Name
<1>7. Addressed(cur)' /\ general' \in Names \cup {NoId} /\ (AgreesNow => Agrees)'
  BY <1>2, <1>3 DEF SelInv, Addressed
<1>8. (hostpc \in {"acking", "waiting"} /\ cur.op = "qSupported"
         => general = NoId)'
  BY DEF SelInv
<1> QED
  BY <1>4, <1>5, <1>6, <1>7, <1>8 DEF SelInv

\* A packet more on the way to GDB.
LEMMA PacketSent ==
  ASSUME TypeInv, NEW m, tx' = Append(tx, Sent(m)), UNCHANGED <<hostpc, cur>>
  PROVE  /\ Acked' <=> Acked
         /\ InRun' <=> InRun
         /\ \A b \in 0 .. Len(tx') : InRunAt(b)' =>
              /\ b \in 0 .. Len(tx) /\ InRunAt(b) /\ b < Len(tx')
              /\ tx'[b + 1].out = IF b < Len(tx) THEN tx[b + 1].out ELSE m
<1>1. /\ tx \in Seq(DebuggerChar) /\ Sent(m).tok = "packet" /\ Sent(m).out = m
      /\ DOMAIN tx = 1 .. Len(tx) /\ Len(tx) \in Nat
      /\ DOMAIN tx' = 1 .. Len(tx) + 1 /\ Len(tx') = Len(tx) + 1
      /\ \A i \in 1 .. Len(tx) : tx'[i] = tx[i]
      /\ tx'[Len(tx) + 1] = Sent(m)
  BY LenProperties DEF TypeInv, Sent
<1>2. Acked' <=> Acked
  BY <1>1 DEF Acked
<1>3. \A b \in 0 .. Len(tx) : InRunAt(b)' <=> InRunAt(b)
  BY <1>1 DEF InRunAt
<1>4. ~InRunAt(Len(tx) + 1) /\ \A b \in 0 .. Len(tx') : b = Len(tx) + 1 => ~InRunAt(b)'
  BY <1>1 DEF InRunAt
<1>5. \A b \in 0 .. Len(tx') : b \in 0 .. Len(tx) \/ b = Len(tx) + 1
  BY <1>1
<1>6. \A b \in 0 .. Len(tx) : b \in 0 .. Len(tx')
  BY <1>1
<1>7. InRun' <=> InRun
  BY <1>3, <1>4, <1>5, <1>6 DEF InRun
<1>8. ASSUME NEW b \in 0 .. Len(tx)
      PROVE  /\ b < Len(tx')
             /\ tx'[b + 1].out = IF b < Len(tx) THEN tx[b + 1].out ELSE m
  <2>1. b < Len(tx) => b + 1 \in 1 .. Len(tx)
    BY <1>1
  <2>2. ~(b < Len(tx)) => b + 1 = Len(tx) + 1
    BY <1>1
  <2> QED
    BY <1>1, <2>1, <2>2
<1> QED
  BY <1>2, <1>3, <1>4, <1>5, <1>7, <1>8

\* A packet sent while all are suspended that, in a run, fits what is selected.
LEMMA SentSel ==
  ASSUME TypeInv, SelInv, NEW m, tx' = Append(tx, Sent(m)),
         UNCHANGED <<hostpc, cur, general, target_thread>>, AllSuspended',
         InRun /\ ~AllSuspended => Fits(m)
  PROVE  SelInv'
<1>1. /\ Acked' <=> Acked
      /\ InRun' <=> InRun
      /\ \A b \in 0 .. Len(tx') : InRunAt(b)' =>
           /\ b \in 0 .. Len(tx) /\ InRunAt(b) /\ b < Len(tx')
           /\ tx'[b + 1].out = IF b < Len(tx) THEN tx[b + 1].out ELSE m
  BY PacketSent
<1>2. (Agrees' <=> Agrees) /\ \A n : Fits(n)' <=> Fits(n)
  BY DEF Agrees, Fits, Name
<1>3. (AgreesNow => Agrees)'
  BY <1>1, <1>2 DEF AgreesNow, SelInv
<1>4. ASSUME NEW b \in 0 .. Len(tx'), InRunAt(b)'
      PROVE  b < Len(tx') /\ Fits(tx[b + 1].out)'
  <2>1. /\ b \in 0 .. Len(tx) /\ InRunAt(b) /\ b < Len(tx')
        /\ tx'[b + 1].out = IF b < Len(tx) THEN tx[b + 1].out ELSE m
    BY <1>1, <1>4
  <2>2. CASE b < Len(tx)
    <3>1. Fits(tx[b + 1].out) /\ tx'[b + 1].out = tx[b + 1].out
      BY <2>1, <2>2 DEF SelInv
    <3> QED
      BY <2>1, <3>1 DEF Fits, Agrees, Name
  <2>3. CASE ~(b < Len(tx))
    <3>1. InRun /\ ~AllSuspended
      BY <2>1, <2>3 DEF InRun, SelInv
    <3>2. Fits(m) /\ tx'[b + 1].out = m
      BY <2>1, <2>3, <3>1
    <3> QED
      BY <2>1, <3>2 DEF Fits, Agrees, Name
  <2> QED
    BY <2>2, <2>3
<1>5. Running' = {}
  BY DEF AllSuspended, Running
<1>6. (cur.op = "H" /\ (hostpc = "waiting" \/ (hostpc = "acking" /\ Acked))
        => Name(target_thread) = <<cur.pid, cur.tid>>)'
  BY <1>1 DEF SelInv, Name
<1>7. Addressed(cur)' /\ general' \in Names \cup {NoId}
      /\ (hostpc \in {"acking", "waiting"} /\ cur.op = "qSupported"
            => general = NoId)'
  BY DEF SelInv, Addressed
<1> QED
  BY <1>3, <1>4, <1>5, <1>6, <1>7 DEF SelInv

LEMMA SeekSel ==
  ASSUME FullInv, OneByteIds, TypeInv', SameRegistry, RunInv', Seek
  PROVE  SelInv' /\ target_thread' \in Live /\ status' = "up"
<1>1. UNCHANGED <<mode, state, hostpc, cur, general>>
  BY DEF Seek, host
<1>2. CASE Interrupts(Head(rx))
  <2> DEFINE pkt == Packet("ctrl-c")
  <2>1. Process(pkt, <<>>) /\ pkt.op = "ctrl-c" /\ Addressed(pkt) /\ Suspends(pkt)
    BY <1>2 DEF Seek, Packet, Addressed, Interrupts, Suspends
  <2> HIDE DEF pkt
  <2>2. AllSuspended' /\ tx' = (tx \o <<>>) \o <<Sent(output')>>
    BY <2>1, ProcessSuspends DEF FullInv, LoopInv
  <2>3. tx' = Append(tx, Sent(output'))
    <3>1. tx \in Seq(DebuggerChar)
      BY DEF FullInv, LoopInv, TypeInv
    <3> QED
      BY <2>2, <3>1
  <2>4. /\ status' = "up" /\ target_thread' = target_thread /\ target_thread' \in Live
        /\ output'.of = NoId
    BY <2>1, PacketSelects DEF FullInv, Process
  <2>5. InRun /\ ~AllSuspended => Fits(output')
    BY <2>4 DEF FullInv, SelInv, AgreesNow, Fits
  <2> QED
    BY <1>1, <2>2, <2>3, <2>4, <2>5, SentSel DEF FullInv, LoopInv
<1>3. CASE ~Interrupts(Head(rx))
  <2>1. UNCHANGED <<coreVars, tx>>
    BY <1>3 DEF Seek
  <2>2. (AllSuspended' <=> AllSuspended) /\ Running' = Running
        /\ UNCHANGED <<target_thread, status>>
    BY <2>1, SameSuspended, SameRunning DEF coreVars
  <2> QED
    BY <1>1, <2>1, <2>2, QuietSel DEF FullInv, OnePerPd
<1> QED
  BY <1>2, <1>3

LEMMA ReadBodySel ==
  ASSUME FullInv, OneByteIds, TypeInv', SameRegistry, RunInv', ReadBody
  PROVE  SelInv' /\ target_thread' \in Live /\ status' = "up"
<1>1. Take /\ UNCHANGED <<mode, state, hostpc, cur, general>>
  BY DEF ReadBody, host
<1>2. tx \in Seq(DebuggerChar) /\ DOMAIN tx = 1 .. Len(tx) /\ Len(tx) \in Nat
  BY LenProperties DEF FullInv, LoopInv, TypeInv
<1>3. Head(rx).tok \in {"body", "damaged"} => Commands(Inbound) # {}
  BY <1>1, TakeLink DEF FullInv, LoopInv, LinkInv
<1>4. Head(rx).tok = "body" => Head(rx).pkt = cur
  BY <1>1, TakeLink DEF FullInv, LoopInv, LinkInv
<1>5. CASE Head(rx).tok = "body" /\ mainpc = "body"
  <2>1. Process(cur, <<Sign("+")>>)
    BY <1>4, <1>5 DEF ReadBody
  <2>2. hostpc = "acking" /\ Signs(tx) = {} /\ ~Acked /\ ~InRun
    BY <1>3, <1>5, BeforeSign DEF FullInv, LoopInv
  <2>3. /\ status' = "up" /\ target_thread' \in Live
        /\ cur.op # "H" => target_thread' = target_thread
        /\ cur.op = "H" => Name(target_thread') = <<cur.pid, cur.tid>>
    BY <2>1, PacketSelects DEF FullInv, SelInv, Process
  <2>4. AllSuspended \/ Suspends(cur)
    BY <2>2 DEF FullInv, LoopInv, RunInv, Suspends
  <2> DEFINE one == tx \o <<Sign("+")>>
  <2>5. /\ Len(one) = Len(tx) + 1 /\ DOMAIN one = 1 .. Len(tx) + 1
        /\ one[Len(tx) + 1].tok = "+" /\ one \in Seq(DebuggerChar)
    <3>1. Sign("+") \in DebuggerChar /\ Sign("+").tok = "+"
      BY PacketTyped, CharTyped DEF FullInv, LoopInv, TypeInv, TypeOK, Sign
    <3> QED
      BY <1>2, <3>1
  <2>6. \A i \in 1 .. Len(tx) : one[i].tok = "packet"
    <3>1. \A i \in 1 .. Len(tx) : one[i] = tx[i]
      BY <1>2
    <3> QED
      BY <1>2, <2>2, <3>1 DEF Signs
  <2> HIDE DEF one
  <2>7. cur.op \notin {"H", "D"} => Agrees
    BY <2>2 DEF FullInv, SelInv, AgreesNow
  <2>8. cur.op \notin {"H", "D"} => Agrees'
    BY <1>1, <2>3, <2>7 DEF Agrees, Name
  <2>9. Addressed(cur)' /\ general' \in Names \cup {NoId}
        /\ (hostpc \in {"acking", "waiting"} /\ cur.op = "qSupported"
              => general = NoId)'
    BY <1>1 DEF FullInv, SelInv, Addressed
  <2>10. CASE cur.op = "vCont"
    <3>1. tx' = one
      BY <2>1, <2>10 DEF Process, one
    <3>2. ASSUME NEW b \in 0 .. Len(tx'), InRunAt(b)' PROVE b = Len(tx')
      BY <1>1, <1>2, <2>2, <2>5, <2>6, <3>1, <3>2 DEF InRunAt
    <3>3. ~AllSuspended' /\ (cur.acts[1].kind = "s" =>
            \A s \in Running' : Name(s) = <<cur.acts[1].pid, cur.acts[1].tid>>)
      <4>1. Live' = Live /\ \A s \in Live : threads'[s].tcb = threads[s].tcb
        BY SameLive DEF SameRegistry, Live
      <4>2. /\ cur.acts[1].kind \in {"c", "s"}
            /\ cur.acts[1].kind = "c" =>
                 \A s \in Live : tcb_state'[threads[s].tcb] = "running"
            /\ cur.acts[1].kind = "s" =>
                 /\ \E s \in Live : tcb_state'[threads[s].tcb] = "running"
                 /\ \A s \in Live : tcb_state'[threads[s].tcb] = "running"
                      => Name(s) = <<cur.acts[1].pid, cur.acts[1].tid>>
        BY <2>1, <2>4, <2>10, VContResumes DEF FullInv, LoopInv, SelInv
      <4>3. target_thread \in Live
        BY DEF FullInv, OnePerPd
      <4> QED
        BY <4>1, <4>2, <4>3 DEF AllSuspended, Running
    <3>4. Agrees' /\ cur'.op = "vCont"
      BY <1>1, <2>8, <2>10
    <3>5. (\A b \in 0 .. Len(tx) : InRunAt(b) =>
             /\ AllSuspended => b < Len(tx)
             /\ b < Len(tx) => Fits(tx[b + 1].out))'
      <4>1. Len(tx') \in Nat
        BY <1>2, <2>5, <3>1
      <4> QED
        BY <3>2, <3>3, <4>1
    <3>6. (InRun /\ cur.acts[1].kind = "s" =>
             \A s \in Running : Name(s) = <<cur.acts[1].pid, cur.acts[1].tid>>)'
      BY <1>1, <3>3 DEF Name
    <3> QED
      BY <2>3, <2>9, <3>4, <3>5, <3>6 DEF SelInv
  <2>11. CASE cur.op # "vCont"
    <3>1. AllSuspended' /\ tx' = one \o <<Sent(output')>>
      BY <2>1, <2>4, <2>11, ProcessSuspends DEF FullInv, LoopInv, RunInv, one
    <3>2. Acked'
      <4>1. tx' = Append(one, Sent(output'))
        BY <2>5, <3>1
      <4>2. Len(tx) + 1 \in DOMAIN tx' /\ tx'[Len(tx) + 1] = one[Len(tx) + 1]
        BY <1>2, <2>5, <4>1
      <4> QED
        BY <2>5, <4>2 DEF Acked
    <3>3. \A b : ~InRunAt(b)'
      BY <1>1, <2>11 DEF InRunAt
    <3>4. ~InRun'
      BY <3>3 DEF InRun
    <3>5. (AgreesNow => Agrees)'
      BY <1>1, <2>2, <2>8, <2>11, <3>2, <3>4 DEF AgreesNow
    <3>6. (cur.op = "H" /\ (hostpc = "waiting" \/ (hostpc = "acking" /\ Acked))
             => Name(target_thread) = <<cur.pid, cur.tid>>)'
      BY <1>1, <2>3 DEF Name
    <3> QED
      BY <2>3, <2>9, <3>3, <3>4, <3>5, <3>6 DEF SelInv
  <2> QED
    BY <2>10, <2>11
<1>6. CASE \/ Head(rx).tok = "damaged"
           \/ Head(rx).tok = "body" /\ mainpc = "dirty"
  <2>1. tx' = Append(tx, Sign("-")) /\ UNCHANGED <<coreVars, target_thread, status>>
    BY <1>6 DEF ReadBody, coreVars
  <2>2. hostpc = "acking" /\ Signs(tx) = {} /\ ~Acked /\ ~InRun
    BY <1>3, <1>6, BeforeSign DEF FullInv, LoopInv
  <2>3. \A i \in DOMAIN tx' : tx'[i].tok # "+"
    <3>1. /\ DOMAIN tx' = 1 .. Len(tx) + 1 /\ tx'[Len(tx) + 1] = Sign("-")
          /\ \A i \in 1 .. Len(tx) : tx'[i] = tx[i]
      BY <1>2, <2>1
    <3>2. \A i \in 1 .. Len(tx) : tx[i].tok = "packet"
      BY <1>2, <2>2 DEF Signs
    <3>3. \A i \in DOMAIN tx' : i = Len(tx) + 1 \/ i \in 1 .. Len(tx)
      BY <1>2, <3>1
    <3>4. Sign("-").tok # "+"
      BY DEF Sign
    <3> QED
      BY <3>1, <3>2, <3>3, <3>4
  <2>4. ~Acked' /\ ~InRun' /\ \A b \in 0 .. Len(tx') : ~InRunAt(b)'
    BY <1>1, <2>2, <2>3 DEF Acked, InRun, InRunAt
  <2>5. (AgreesNow => Agrees)'
    BY <1>1, <2>1, <2>2, <2>4 DEF FullInv, SelInv, AgreesNow, Agrees, Name
  <2>6. Addressed(cur)' /\ general' \in Names \cup {NoId}
        /\ (hostpc \in {"acking", "waiting"} /\ cur.op = "qSupported"
              => general = NoId)'
    BY <1>1 DEF FullInv, SelInv, Addressed
  <2> QED
    BY <1>1, <2>1, <2>2, <2>4, <2>5, <2>6 DEF FullInv, SelInv, OnePerPd
<1>7. CASE Head(rx).tok \notin {"body", "damaged"}
  <2>1. UNCHANGED <<coreVars, tx>>
    BY <1>7 DEF ReadBody
  <2>2. (AllSuspended' <=> AllSuspended) /\ Running' = Running
        /\ UNCHANGED <<target_thread, status>>
    BY <2>1, SameSuspended, SameRunning DEF coreVars
  <2> QED
    BY <1>1, <2>1, <2>2, QuietSel DEF FullInv, OnePerPd
<1> QED
  BY <1>5, <1>6, <1>7 DEF ReadBody

\* The debugger's other steps that GDB does not see, those of the line, and
\* a Ctrl-C on its way.
LEMMA UnseenSel ==
  ASSUME FullInv, SameRegistry,
         Wait \/ Notified \/ CharArrives \/ LineNoise \/ HostInterrupts
  PROVE  SelInv' /\ target_thread' \in Live /\ status' = "up"
<1>1. UNCHANGED <<coreVars, tx, hostpc, cur, general>>
  BY DEF Wait, Notified, CharArrives, LineNoise, HostInterrupts, host
<1>2. UNCHANGED <<tcb_state, target_thread, status>>
  BY <1>1 DEF coreVars
<1>3. (AllSuspended' <=> AllSuspended) /\ Running' = Running
  BY <1>2, SameSuspended, SameRunning
<1> QED
  BY <1>1, <1>2, <1>3, QuietSel DEF FullInv, OnePerPd

\* The packet in the output buffer is sent again.
LEMMA ResendSel ==
  ASSUME FullInv, SameRegistry, UNCHANGED <<tcb_state, target_thread>>,
         tx' = Append(tx, Sent(output)), UNCHANGED <<hostpc, cur, general>>,
         mainpc = "ack" \/ FaultPending
  PROVE  SelInv'
<1>1. AllSuspended
  BY DEF FullInv, LoopInv, RunInv, AckQuiescent
<1>2. AllSuspended'
  BY <1>1, SameSuspended
<1> QED
  BY <1>1, <1>2, SentSel DEF FullInv, LoopInv

LEMMA AwaitAckSel ==
  ASSUME FullInv, SameRegistry, AwaitAck
  PROVE  SelInv' /\ target_thread' \in Live /\ status' = "up"
<1>1. /\ mainpc = "ack"
      /\ UNCHANGED <<target_thread, status, hostpc, cur, general>>
  BY DEF AwaitAck, host
<1>2. target_thread' \in Live /\ status' = "up"
  BY <1>1 DEF FullInv, OnePerPd
<1>3. CASE ~Acks(Head(rx))
  BY <1>1, <1>2, <1>3, ResendSel DEF AwaitAck
<1>4. CASE Acks(Head(rx)) /\ detached
  <2>1. ~InRun /\ tx' = tx
    BY <1>4, RunOrApart DEF FullInv, LoopInv, AwaitAck
  <2> QED
    BY <1>1, <1>2, <2>1, QuietSel DEF FullInv
<1>5. CASE Acks(Head(rx)) /\ ~detached
  <2>1. tcb_state' = tcb_state /\ tx' = tx
    BY <1>5 DEF AwaitAck
  <2>2. (AllSuspended' <=> AllSuspended) /\ Running' = Running
    BY <2>1, SameSuspended, SameRunning
  <2> QED
    BY <1>1, <1>2, <2>1, <2>2, QuietSel DEF FullInv
<1> QED
  BY <1>3, <1>4, <1>5

LEMMA AwaitStopAckSel ==
  ASSUME FullInv, SameRegistry, AwaitStopAck
  PROVE  SelInv' /\ target_thread' \in Live /\ status' = "up"
<1>1. /\ FaultPending
      /\ UNCHANGED <<coreVars, hostpc, cur, general>>
  BY DEF AwaitStopAck, FaultPending, host
<1>2. UNCHANGED <<tcb_state, target_thread, status>>
  BY <1>1 DEF coreVars
<1>3. target_thread' \in Live /\ status' = "up"
  BY <1>2 DEF FullInv, OnePerPd
<1>4. CASE ~Acks(Head(rx))
  BY <1>1, <1>2, <1>3, <1>4, ResendSel DEF AwaitStopAck
<1>5. CASE Acks(Head(rx))
  <2>1. tx' = tx
    BY <1>5 DEF AwaitStopAck
  <2>2. (AllSuspended' <=> AllSuspended) /\ Running' = Running
    BY <1>2, SameSuspended, SameRunning
  <2> QED
    BY <1>1, <1>2, <1>3, <2>1, <2>2, QuietSel DEF FullInv
<1> QED
  BY <1>4, <1>5

LEMMA ThreadFaultsSel ==
  ASSUME FullInv, SameRegistry, NEW s \in Live, ThreadFaults(s)
  PROVE  SelInv' /\ target_thread' \in Live /\ status' = "up"
<1>1. /\ tcb_state[threads[s].tcb] = "running" /\ threads[s].tcb \in Tcb
      /\ tcb_state' = [tcb_state EXCEPT ![threads[s].tcb] = "faulted"]
      /\ tcb_state \in [Tcb -> {"running", "suspended", "faulted"}]
      /\ UNCHANGED <<threads, target_thread, status, tx, hostpc, cur, general>>
  BY DEF ThreadFaults, FullInv, LoopInv, RInv, LiveTcbsDistinct, TypeOK, host
<1>2. Live' = Live
  BY SameLive
<1>3. ~AllSuspended /\ ~AllSuspended'
  BY <1>1, <1>2 DEF AllSuspended
<1>4. Running' \subseteq Running
  <2>1. \A r \in Live : threads[r].tcb \in Tcb
    BY DEF FullInv, LoopInv, RInv, LiveTcbsDistinct
  <2>2. \A r \in Live : tcb_state'[threads[r].tcb] = "running"
                          => tcb_state[threads[r].tcb] = "running"
    BY <1>1, <2>1
  <2> QED
    BY <1>1, <1>2, <2>2 DEF Running
<1> QED
  BY <1>1, <1>3, <1>4, QuietSel DEF FullInv, OnePerPd

\* gdb_handle_fault selects the thread that faulted, and the stop names it.
LEMMA FaultSelects ==
  ASSUME RInv, OnePerPd, NEW s \in Live, NEW k \in FaultKinds,
         HandleFault(inferiors[s[1]].id, threads[s].id, k)
  PROVE  target_thread' = s /\ output'.of = Name(s)
<1>1. /\ s \in Slot /\ s[1] \in UsedPds /\ s[2] \in UsedThreads(s[1])
      /\ s = <<s[1], s[2]>>
  BY DEF Live, IsLive, UsedPds, UsedThreads, Slot
<1>2. LookupInferior(inferiors[s[1]].id) = {s[1]}
  BY <1>1, LookupInferiorUnique DEF RInv, LiveIdsUnique
<1>3. LookupThread(s[1], threads[s].id) = {s[2]}
  <2>1. LookupThread(s[1], threads[s].id) =
          {t \in UsedThreads(s[1]) : threads[<<s[1], t>>].id = threads[s].id}
    BY <1>1, LookupThreadUnique
  <2>2. \A t \in UsedThreads(s[1]) : <<s[1], t>> \in Live
    BY <1>1 DEF UsedThreads, UsedPds, Live, IsLive, Slot
  <2>3. \A t \in UsedThreads(s[1]) :
           threads[<<s[1], t>>].id = threads[s].id => <<s[1], t>> = s
    BY <2>2 DEF RInv, LiveIdsUnique
  <2> QED
    BY <1>1, <2>1, <2>3
<1>4. target_thread' = s /\ output' = [msg |-> StopMessage(k), of |-> WireId(s)]
  BY <1>1, <1>2, <1>3 DEF HandleFault
<1> QED
  BY <1>4, NameProperties

LEMMA TakeFaultSel ==
  ASSUME FullInv, SameRegistry, NEW s \in Live, NEW k \in FaultKinds,
         TakeFault(s, k)
  PROVE  SelInv' /\ target_thread' \in Live /\ status' = "up"
<1>1. /\ target_thread' = s /\ output'.of = Name(s) /\ status' = status
      /\ ~AllSuspended /\ UNCHANGED <<hostpc, cur, general>>
      /\ tcb_state' = SuspendAll(tcb_state)
  BY FaultSelects DEF TakeFault, HandleFault, AllSuspended, FullInv, LoopInv, host
<1>2. tx' = Append(tx, Sent(output'))
  <2>1. tx \in Seq(DebuggerChar)
    BY DEF FullInv, LoopInv, TypeInv
  <2> QED
    BY <2>1 DEF TakeFault, FaultMessage
<1>3. AllSuspended' /\ Running' = {}
  <2>1. AllSuspended'
    BY <1>1, SuspendReaches DEF FullInv, LoopInv
  <2> QED
    BY <2>1 DEF AllSuspended, Running
<1>4. /\ Acked' <=> Acked
      /\ InRun' <=> InRun
      /\ \A b \in 0 .. Len(tx') : InRunAt(b)' =>
           /\ b \in 0 .. Len(tx) /\ InRunAt(b) /\ b < Len(tx')
           /\ tx'[b + 1].out = IF b < Len(tx) THEN tx[b + 1].out ELSE output'
  BY <1>1, <1>2, PacketSent DEF FullInv, LoopInv
<1>5. Apart \/ InRun
  BY <1>1 DEF FullInv, LoopInv, RunInv
<1>6. Name(s) # NoId /\ target_thread' \in Live /\ status' = "up"
  BY <1>1, NameProperties DEF FullInv, OnePerPd
<1>7. (AgreesNow => Agrees)'
  <2>1. CASE InRun
    BY <1>1, <1>3, <1>4, <2>1 DEF AgreesNow, InRun, InRunAt
  <2>2. CASE Apart
    <3>1. CASE cur.op = "qSupported" /\ hostpc = "acking"
      BY <1>1, <3>1 DEF FullInv, SelInv, Agrees
    <3> QED
      BY <1>1, <1>3, <1>4, <2>2, <3>1 DEF AgreesNow, Apart
  <2> QED
    BY <1>5, <2>1, <2>2
<1>8. ~(hostpc = "waiting" /\ cur.op = "H") /\ ~(hostpc = "acking" /\ cur.op = "H")
  BY <1>5 DEF Apart, InRun, InRunAt
<1>9. ASSUME NEW b \in 0 .. Len(tx'), InRunAt(b)'
      PROVE  b < Len(tx') /\ Fits(tx[b + 1].out)'
  <2>1. /\ b \in 0 .. Len(tx) /\ InRunAt(b) /\ b < Len(tx')
        /\ tx'[b + 1].out = IF b < Len(tx) THEN tx[b + 1].out ELSE output'
    BY <1>4, <1>9
  <2>2. ~(b < Len(tx))
    BY <1>1, <2>1 DEF FullInv, LoopInv, RunInv
  <2> QED
    BY <1>1, <1>6, <2>1, <2>2 DEF Fits, Name
<1>10. Addressed(cur)' /\ general' \in Names \cup {NoId}
       /\ (hostpc \in {"acking", "waiting"} /\ cur.op = "qSupported"
            => general = NoId)'
  BY <1>1 DEF FullInv, SelInv, Addressed
<1>11. SelInv'
  BY <1>1, <1>3, <1>7, <1>8, <1>9, <1>10 DEF SelInv
<1> QED
  BY <1>6, <1>11


\* GDB's steps.  Nothing it does changes what runs or what is selected.
LEMMA HostKeeps ==
  ASSUME FullInv, SameRegistry, UNCHANGED coreVars
  PROVE  /\ target_thread' \in Live /\ status' = "up"
         /\ AllSuspended' <=> AllSuspended
         /\ Running' = Running
         /\ UNCHANGED target_thread
<1>1. UNCHANGED <<tcb_state, target_thread, status>>
  BY DEF coreVars
<1> QED
  BY <1>1, SameSuspended, SameRunning DEF FullInv, OnePerPd

LEMMA HostConnectsSel ==
  ASSUME FullInv, SameRegistry, HostConnects
  PROVE  SelInv' /\ target_thread' \in Live /\ status' = "up"
<1>1. /\ hostpc' = "acking" /\ tx' = <<>> /\ general' = NoId
      /\ cur' = Packet("qSupported") /\ cur'.op = "qSupported"
      /\ UNCHANGED coreVars
  BY DEF HostConnects, Packet
<1>2. ~InRun' /\ \A b \in 0 .. Len(tx') : ~InRunAt(b)'
  BY <1>1 DEF InRun, InRunAt
<1>3. Agrees' /\ Addressed(cur)' /\ general' \in Names \cup {NoId}
  BY <1>1 DEF Agrees, Addressed
<1>4. (cur.op = "H" /\ (hostpc = "waiting" \/ (hostpc = "acking" /\ Acked))
        => Name(target_thread) = <<cur.pid, cur.tid>>)'
  BY <1>1
<1>5. SelInv'
  BY <1>1, <1>2, <1>3, <1>4 DEF SelInv
<1> QED
  BY <1>1, <1>5, HostKeeps

LEMMA CommandsAddressed ==
  ASSUME PlainHost, OnePerPd, NEW pkt \in HostCommands
  PROVE  Addressed(pkt) /\ pkt.op \notin {"unknown", "qSupported", "ctrl-c"}
<1>1. CASE pkt \in {Packet(op) : op \in {"D"} \cap HostOps}
  BY <1>1 DEF Packet, Addressed
<1>2. CASE pkt \in {Packet(op) : op \in {o \in {"g", "G"} \cap HostOps :
                                            general # NoId}}
  BY <1>2 DEF Packet, Addressed, PlainHost
<1>3. ASSUME NEW x \in LiveNames,
             pkt \in {ThreadPacket("H", x[1], x[2]), StepPacket(x), ContinuePacket(x)}
      PROVE  Addressed(pkt) /\ pkt.op \in {"H", "vCont"}
  <2>1. PICK p \in Pd : x = <<p + 1, 1>>
    BY NameProperties DEF Names
  <2>2. x[1] = p + 1 /\ x[2] = 1
    BY <2>1
  <2>3. CASE pkt = ThreadPacket("H", x[1], x[2])
    BY <2>2, <2>3 DEF ThreadPacket, Addressed
  <2>4. CASE pkt = StepPacket(x)
    <3>1. pkt = VContPacket(<<[kind |-> "s", pid |-> p + 1, tid |-> 1]>>)
      BY <2>2, <2>4 DEF StepPacket, PlainHost
    <3> QED
      BY <3>1 DEF VContPacket, Addressed
  <2>5. CASE pkt = ContinuePacket(x)
    <3>1. pkt = VContPacket(<<[kind |-> "c", pid |-> p + 1, tid |-> All]>>)
      BY <2>2, <2>5 DEF ContinuePacket, PlainHost
    <3> QED
      BY <3>1 DEF VContPacket, Addressed
  <2> QED
    BY <1>3, <2>3, <2>4, <2>5
<1> QED
  BY <1>1, <1>2, <1>3 DEF HostCommands, Packet

LEMMA HostSendsSel ==
  ASSUME PlainHost, FullInv, SameRegistry, HostSends
  PROVE  SelInv' /\ target_thread' \in Live /\ status' = "up"
<1>1. PICK pkt \in HostCommands : SendPacket(pkt)
  BY DEF HostSends
<1>2. /\ hostpc = "stopped" /\ hostpc' = "acking" /\ cur' = pkt
      /\ UNCHANGED <<coreVars, tx, general>>
  BY <1>1 DEF HostSends, SendPacket
<1>3. Addressed(cur') /\ cur'.op # "qSupported"
  BY <1>2, CommandsAddressed DEF FullInv
<1>4. Agrees
  BY <1>2 DEF FullInv, SelInv, AgreesNow
<1>5. target_thread' = target_thread
  BY <1>2, HostKeeps
<1>6. Agrees'
  BY <1>2, <1>4, <1>5 DEF Agrees, Name
<1>7. \A i \in DOMAIN tx : tx[i].tok = "packet"
  BY <1>2 DEF FullInv, LoopInv, LinkInv, Signs
<1>8. ~Acked' /\ ~InRun' /\ \A b \in 0 .. Len(tx') : ~InRunAt(b)'
  BY <1>2, <1>7 DEF Acked, InRun, InRunAt
<1>9. Addressed(cur)' /\ general' \in Names \cup {NoId}
  BY <1>2, <1>3 DEF FullInv, SelInv, Addressed
<1>10. SelInv'
  BY <1>2, <1>3, <1>6, <1>8, <1>9 DEF SelInv
<1> QED
  BY <1>2, <1>10, HostKeeps

LEMMA HostResendsSel ==
  ASSUME FullInv, SameRegistry, HostResends
  PROVE  SelInv' /\ target_thread' \in Live /\ status' = "up"
<1>1. UNCHANGED <<coreVars, tx, hostpc, cur, general>>
  BY DEF HostResends, SendPacket
<1> QED
  BY <1>1, HostKeeps, QuietSel DEF FullInv


LEMMA HostReadsAckSel ==
  ASSUME FullInv, SameRegistry, HostReadsAck
  PROVE  SelInv' /\ target_thread' \in Live /\ status' = "up"
<1>1. /\ hostpc = "acking" /\ tx # <<>> /\ tx' = Tail(tx)
      /\ UNCHANGED <<coreVars, cur, general>>
  BY DEF HostReadsAck, SendPacket
<1>2. /\ target_thread' \in Live /\ status' = "up"
      /\ AllSuspended' <=> AllSuspended
      /\ Running' = Running
      /\ target_thread' = target_thread
  BY <1>1, HostKeeps
<1>3. (Agrees' <=> Agrees) /\ \A m : Fits(m)' <=> Fits(m)
  BY <1>1, <1>2 DEF Agrees, Fits, Name
<1>4. Addressed(cur)' /\ general' \in Names \cup {NoId}
      /\ (hostpc \in {"acking", "waiting"} /\ cur.op = "qSupported"
            => general = NoId)'
  BY <1>1 DEF FullInv, SelInv, Addressed
<1>5. ASSUME InRun' => InRun
      PROVE  (InRun /\ cur.acts[1].kind = "s" =>
                \A s \in Running : Name(s) = <<cur.acts[1].pid, cur.acts[1].tid>>)'
  BY <1>1, <1>2, <1>5 DEF FullInv, SelInv, Name
<1>6. CASE Head(tx).tok = "packet"
  <2>1. hostpc' = "acking"
    BY <1>1, <1>6 DEF HostReadsAck
  <2>2. /\ Acked' <=> Acked
        /\ InRun' <=> InRun
        /\ \A b \in 0 .. Len(tx') : InRunAt(b)' =>
             /\ b + 1 \in 0 .. Len(tx) /\ InRunAt(b + 1)
             /\ b < Len(tx') <=> b + 1 < Len(tx)
             /\ b < Len(tx') => tx'[b + 1] = tx[(b + 1) + 1]
    BY <1>1, <1>6, <2>1, PacketRead DEF FullInv, LoopInv
  <2>3. (\A b \in 0 .. Len(tx) : InRunAt(b) =>
           /\ AllSuspended => b < Len(tx)
           /\ b < Len(tx) => Fits(tx[b + 1].out))'
    <3>1. ASSUME NEW b \in 0 .. Len(tx'), InRunAt(b)'
          PROVE  /\ AllSuspended => b < Len(tx')
                 /\ b < Len(tx') => Fits(tx'[b + 1].out)
      BY <2>2, <3>1 DEF FullInv, SelInv
    <3> QED
      BY <1>2, <1>3, <3>1
  <2>4. (AgreesNow => Agrees)'
    BY <1>1, <1>2, <1>3, <2>1, <2>2 DEF FullInv, SelInv, AgreesNow
  <2>5. (cur.op = "H" /\ (hostpc = "waiting" \/ (hostpc = "acking" /\ Acked))
          => Name(target_thread) = <<cur.pid, cur.tid>>)'
    BY <1>1, <1>2, <2>1, <2>2 DEF FullInv, SelInv, Name
  <2> QED
    BY <1>2, <1>4, <1>5, <2>2, <2>3, <2>4, <2>5 DEF SelInv
<1>7. CASE Head(tx).tok # "packet"
  <2>1. /\ DOMAIN tx = 1 .. Len(tx) /\ Len(tx) \in Nat \ {0} /\ Head(tx) = tx[1]
        /\ Len(tx') = Len(tx) - 1 /\ DOMAIN tx' = 1 .. Len(tx) - 1
        /\ \A i \in 1 .. Len(tx) - 1 : tx'[i] = tx[i + 1]
    BY <1>1, HeadTailProperties, EmptySeq, LenProperties
       DEF FullInv, LoopInv, TypeInv
  <2>2. \A i \in DOMAIN tx : i # 1 => tx[i].tok = "packet"
    BY <1>7, <2>1 DEF FullInv, LoopInv, LinkInv, Signs
  <2>3. \A i \in 1 .. Len(tx) - 1 : tx'[i].tok = "packet"
    BY <2>1, <2>2
  <2>4. ~Acked'
    BY <2>1, <2>3 DEF Acked
  <2>5. CASE Head(tx).tok = "+"
    <3>1. hostpc' = IF cur.op = "vCont" THEN "running" ELSE "waiting"
      BY <2>5 DEF HostReadsAck
    <3>2. Acked
      BY <2>1, <2>5 DEF Acked
    <3>3. CASE cur.op = "vCont"
      <4>1. InRunAt(1) /\ 1 \in 0 .. Len(tx) /\ InRun
        BY <1>1, <2>1, <2>5, <3>3 DEF InRunAt, InRun
      <4>2. \A b \in 0 .. Len(tx') : InRunAt(b)' => b = 0
        BY <3>1, <3>3 DEF InRunAt
      <4>3. /\ AllSuspended => 1 < Len(tx)
            /\ 1 < Len(tx) => Fits(tx[1 + 1].out)
        BY <4>1 DEF FullInv, SelInv
      <4>4. (\A b \in 0 .. Len(tx) : InRunAt(b) =>
               /\ AllSuspended => b < Len(tx)
               /\ b < Len(tx) => Fits(tx[b + 1].out))'
        <5>1. 0 < Len(tx') <=> 1 < Len(tx)
          BY <2>1
        <5>2. 1 < Len(tx) => tx'[0 + 1] = tx[1 + 1]
          BY <2>1
        <5>3. ASSUME NEW b \in 0 .. Len(tx'), InRunAt(b)'
              PROVE  /\ AllSuspended => b < Len(tx')
                     /\ b < Len(tx') => Fits(tx'[b + 1].out)
          <6>1. b = 0
            BY <4>2, <5>3
          <6> QED
            BY <4>3, <5>1, <5>2, <6>1
        <5> QED
          BY <1>2, <1>3, <5>3
      <4>5. (AgreesNow => Agrees)'
        BY <1>1, <1>2, <1>3, <3>1, <3>3, <4>1 DEF FullInv, SelInv, AgreesNow
      <4>6. cur'.op # "H"
        BY <1>1, <3>3
      <4> QED
        BY <1>2, <1>4, <1>5, <4>1, <4>4, <4>5, <4>6 DEF SelInv
    <3>4. CASE cur.op # "vCont"
      <4>1. hostpc' = "waiting" /\ ~InRun' /\ \A b \in 0 .. Len(tx') : ~InRunAt(b)'
        BY <1>1, <3>1, <3>4 DEF InRun, InRunAt
      <4>2. (AgreesNow => Agrees)'
        BY <1>1, <1>3, <4>1 DEF FullInv, SelInv, AgreesNow
      <4>3. (cur.op = "H" /\ (hostpc = "waiting" \/ (hostpc = "acking" /\ Acked))
              => Name(target_thread) = <<cur.pid, cur.tid>>)'
        BY <1>1, <1>2, <3>2 DEF FullInv, SelInv, Name
      <4> QED
        BY <1>2, <1>4, <4>1, <4>2, <4>3 DEF SelInv
    <3> QED
      BY <3>3, <3>4
  <2>6. CASE Head(tx).tok = "-"
    <3>1. hostpc' = "acking"
      BY <2>6 DEF HostReadsAck, SendPacket
    <3>2. ~Acked
      BY <2>1, <2>2, <2>6 DEF Acked
    <3>3. ~InRun
      BY <1>1, <3>2 DEF Acked, InRun, InRunAt
    <3>4. ~InRun' /\ \A b \in 0 .. Len(tx') : ~InRunAt(b)'
      BY <2>1, <2>3, <3>1 DEF InRun, InRunAt
    <3>5. (AgreesNow => Agrees)'
      BY <1>1, <1>3, <3>1, <3>2, <3>3, <3>4 DEF FullInv, SelInv, AgreesNow
    <3>6. ~(cur'.op = "H" /\ (hostpc' = "waiting" \/ (hostpc' = "acking" /\ Acked')))
      BY <2>4, <3>1
    <3> QED
      BY <1>2, <1>4, <3>4, <3>5, <3>6 DEF SelInv
  <2> QED
    BY <1>7, <2>5, <2>6 DEF HostReadsAck
<1> QED
  BY <1>6, <1>7

LEMMA HostReadsReplySel ==
  ASSUME FullInv, SameRegistry, HostReadsReply
  PROVE  SelInv' /\ target_thread' \in Live /\ status' = "up"
<1>1. /\ hostpc \in {"waiting", "running"} /\ tx # <<>>
      /\ UNCHANGED <<coreVars, cur>>
  BY DEF HostReadsReply, host
<1>2. target_thread' \in Live /\ status' = "up" /\ target_thread' = target_thread
  BY <1>1, HostKeeps
<1>3. /\ 1 \in DOMAIN tx /\ Len(tx) \in Nat \ {0} /\ Head(tx) = tx[1]
  BY <1>1, HeadTailProperties, EmptySeq, LenProperties DEF FullInv, LoopInv, TypeInv
<1>4. Head(tx).tok = "packet"
  BY <1>1, <1>3 DEF FullInv, LoopInv, LinkInv, Signs
<1>5. /\ hostpc' = IF cur.op = "D" THEN "gone" ELSE "stopped"
      /\ general' = IF hostpc = "running" /\ tx[1].out.of # NoId THEN tx[1].out.of
                    ELSE IF cur.op = "H" THEN <<cur.pid, cur.tid>>
                    ELSE general
  BY <1>3, <1>4 DEF HostReadsReply
<1>6. Name(target_thread) \in Names
  BY NameProperties DEF FullInv, OnePerPd
<1>7. cur.op # "D" => general' = NoId \/ general' = Name(target_thread)
  <2>1. CASE hostpc = "running"
    <3>1. InRunAt(0) /\ 0 \in 0 .. Len(tx) /\ 0 < Len(tx) /\ cur.op # "H"
      BY <1>3, <2>1 DEF InRunAt, FullInv, LoopInv, LinkInv
    <3>2. Fits(tx[0 + 1].out) /\ 0 + 1 = 1
      BY <3>1 DEF FullInv, SelInv
    <3> QED
      BY <1>5, <2>1, <3>1, <3>2 DEF Fits, Agrees
  <2>2. CASE hostpc = "waiting" /\ cur.op = "H"
    BY <1>5, <2>2 DEF FullInv, SelInv
  <2>3. CASE hostpc = "waiting" /\ cur.op # "H"
    <3>1. cur.op # "vCont"
      BY <2>3 DEF FullInv, LoopInv, LinkInv
    <3> QED
      BY <1>5, <2>3, <3>1 DEF FullInv, SelInv, AgreesNow, Agrees
  <2> QED
    BY <1>1, <2>1, <2>2, <2>3
<1>8. general' \in Names \cup {NoId}
  <2>1. cur.op = "D" => general' = general
    <3>1. cur.op = "D" => hostpc # "running"
      BY DEF FullInv, LoopInv, LinkInv
    <3> QED
      BY <1>5, <3>1
  <2> QED
    BY <1>6, <1>7, <2>1 DEF FullInv, SelInv
<1>9. ~InRun' /\ \A b \in 0 .. Len(tx') : ~InRunAt(b)'
  BY <1>5 DEF InRun, InRunAt
<1>10. (AgreesNow => Agrees)'
  BY <1>1, <1>2, <1>5, <1>7, <1>9 DEF AgreesNow, Agrees, Name
<1>11. Addressed(cur)'
  BY <1>1 DEF FullInv, SelInv, Addressed
<1>12. SelInv'
  BY <1>5, <1>8, <1>9, <1>10, <1>11 DEF SelInv
<1> QED
  BY <1>2, <1>12


LEMMA FullInvInit == LoopInit => FullInv
<1> SUFFICES ASSUME LoopInit PROVE FullInv
  OBVIOUS
<1>1. Live = {<<p, 0>> : p \in Pd} /\ AllSuspended
  BY RegisteredDistinct
<1>2. OnePerPd
  <2>1. \A p \in Pd : inferiors[p].enabled /\ inferiors[p].gdb_id = p + 1
    BY DEF LoopInit, RegisteredInferiors
  <2>2. \A s \in Live : s \in Slot /\ s[2] = 0
    BY <1>1 DEF Live
  <2>3. \A s \in Live : threads[s].gdb_id = 1
    BY <2>2 DEF LoopInit, RegisteredThreads
  <2>4. target_thread = <<0, 0>> /\ status = "up"
    BY DEF LoopInit
  <2>5. 0 \in Pd
    BY CapacityAssumption DEF Pd
  <2> QED
    BY <1>1, <2>1, <2>3, <2>4, <2>5 DEF OnePerPd
<1>3. SelInv
  <2>1. hostpc = "gone" /\ tx = <<>> /\ general = NoId /\ cur.op = "unknown"
    BY DEF LoopInit, NoPacket, Packet
  <2>2. ~InRun /\ \A b \in 0 .. Len(tx) : ~InRunAt(b)
    BY <2>1 DEF InRun, InRunAt
  <2>3. ~AgreesNow
    BY <2>1, <2>2 DEF AgreesNow
  <2>4. Addressed(cur)
    BY <2>1 DEF Addressed
  <2> QED
    BY <2>1, <2>2, <2>3, <2>4 DEF SelInv
<1> QED
  BY <1>2, <1>3, LoopInvInit DEF FullInv

LEMMA FullInvNext ==
  ASSUME PlainHost, OneByteIds, FullInv, [LoopNext]_loopVars
  PROVE  FullInv'
<1>1. LoopInv'
  BY LoopInvNext DEF FullInv, PlainHost
<1>2. TypeInv' /\ RunInv' /\ SameRegistry
  BY <1>1, StepSame DEF FullInv, LoopInv
<1>3. SelInv' /\ target_thread' \in Live /\ status' = "up"
  <2>1. CASE Seek \/ ReadBody
    BY <1>2, <2>1, SeekSel, ReadBodySel
  <2>2. CASE Wait \/ Notified \/ CharArrives \/ LineNoise \/ HostInterrupts
    BY <1>2, <2>2, UnseenSel
  <2>3. CASE AwaitAck \/ AwaitStopAck
    BY <1>2, <2>3, AwaitAckSel, AwaitStopAckSel
  <2>4. ASSUME NEW s \in Live, NEW k \in FaultKinds, TakeFault(s, k)
        PROVE  SelInv' /\ target_thread' \in Live /\ status' = "up"
    BY <1>2, <2>4, TakeFaultSel
  <2>5. ASSUME NEW s \in Live, ThreadFaults(s)
        PROVE  SelInv' /\ target_thread' \in Live /\ status' = "up"
    BY <1>2, <2>5, ThreadFaultsSel
  <2>6. CASE HostConnects \/ HostSends \/ HostResends
    BY <1>2, <2>6, HostConnectsSel, HostSendsSel, HostResendsSel
  <2>7. CASE HostReadsAck \/ HostReadsReply
    BY <1>2, <2>7, HostReadsAckSel, HostReadsReplySel
  <2>8. CASE UNCHANGED loopVars
    <3>1. UNCHANGED <<coreVars, tx, hostpc, cur, general>>
      BY <2>8 DEF loopVars, host
    <3> QED
      BY <1>2, <3>1, HostKeeps, QuietSel DEF FullInv
  <2> QED
    BY <2>1, <2>2, <2>3, <2>4, <2>5, <2>6, <2>7, <2>8 DEF LoopNext
<1>4. OnePerPd'
  <2>1. Live' = Live /\ Live \subseteq Slot
    BY <1>2, SameLive DEF Live
  <2> QED
    BY <1>2, <1>3, <2>1 DEF FullInv, OnePerPd, SameRegistry
<1> QED
  BY <1>1, <1>3, <1>4 DEF FullInv

\* In every stop GDB may act on, the thread GDB takes for selected is the
\* debugger's target_thread: registers and steps go to the thread GDB means.
THEOREM TargetAgrees ==
  ASSUME PlainHost, OneByteIds
  PROVE  LoopSpec => []HostTargetAgrees
<1>1. FullInv => HostTargetAgrees
  <2> SUFFICES ASSUME FullInv, hostpc = "stopped", general # NoId
               PROVE  WireId(target_thread) = general
    BY DEF HostTargetAgrees
  <2>1. Agrees /\ target_thread \in Live
    BY DEF FullInv, SelInv, AgreesNow, OnePerPd
  <2> QED
    BY <2>1, NameProperties DEF FullInv, Agrees
<1>2. FullInv /\ [LoopNext]_loopVars => FullInv'
  BY FullInvNext
<1> QED
  BY <1>1, <1>2, FullInvInit, PTL DEF LoopSpec

\* While a step is on its way, or being carried out, no thread runs but the one
\* that is stepped.
THEOREM StepsAlone ==
  ASSUME PlainHost, OneByteIds
  PROVE  LoopSpec => []StepIsolation
<1>1. FullInv => StepIsolation
  <2> SUFFICES ASSUME FullInv, hostpc = "running", cur.acts[1].kind = "s",
                      NEW s \in Running
               PROVE  WireId(s) = <<cur.acts[1].pid, cur.acts[1].tid>>
    BY DEF StepIsolation
  <2>1. InRun
    <3>1. InRunAt(0) /\ 0 \in 0 .. Len(tx)
      BY LenProperties DEF InRunAt, FullInv, LoopInv, LinkInv, TypeInv
    <3> QED
      BY <3>1 DEF InRun
  <2>2. s \in Live /\ Name(s) = <<cur.acts[1].pid, cur.acts[1].tid>>
    BY <2>1 DEF FullInv, SelInv, Running
  <2> QED
    BY <2>2, NameProperties DEF FullInv
<1>2. FullInv /\ [LoopNext]_loopVars => FullInv'
  BY FullInvNext
<1> QED
  BY <1>1, <1>2, FullInvInit, PTL DEF LoopSpec

\* GDB never waits for a stop of a system in which nothing runs, nothing
\* faulted and nothing is on its way to it.
THEOREM SomebodyStops ==
  ASSUME PlainHost, OneByteIds
  PROVE  LoopSpec => []NobodyWaitsInVain
<1>1. FullInv => NobodyWaitsInVain
  <2> SUFFICES ASSUME FullInv, hostpc = "running", AllSuspended PROVE tx # <<>>
    BY DEF NobodyWaitsInVain
  <2>1. InRunAt(0) /\ 0 \in 0 .. Len(tx)
    BY LenProperties DEF InRunAt, FullInv, LoopInv, LinkInv, TypeInv
  <2>2. 0 < Len(tx)
    BY <2>1 DEF FullInv, SelInv
  <2> QED
    BY <2>2
<1>2. FullInv /\ [LoopNext]_loopVars => FullInv'
  BY FullInvNext
<1> QED
  BY <1>1, <1>2, FullInvInit, PTL DEF LoopSpec

\* event_loop neither follows a NULL pointer nor fails an assertion, whatever
\* the line does and whatever GDB asks for.
THEOREM LoopStaysUp ==
  ASSUME PlainHost, OneByteIds
  PROVE  LoopSpec => []NeverStuck
<1>1. FullInv => NeverStuck
  BY DEF FullInv, OnePerPd, NeverStuck
<1>2. FullInv /\ [LoopNext]_loopVars => FullInv'
  BY FullInvNext
<1> QED
  BY <1>1, <1>2, FullInvInit, PTL DEF LoopSpec

\* Only ReadBody takes a vCont packet off the queue.
LEMMA ContinueTaken ==
  ASSUME TypeInv, [LoopNext]_loopVars, TakesContinue
  PROVE  ReadBody
<1>1. rx' # rx /\ (\A c : rx' # Append(rx, c))
  <2>1. rx \in Seq(HostChar) /\ rx # <<>> /\ rx' = Tail(rx)
    BY DEF TypeInv, TakesContinue
  <2>2. Len(rx) \in Nat \ {0} /\ Len(rx') = Len(rx) - 1
    BY <2>1, HeadTailProperties, EmptySeq
  <2>3. \A c : Len(Append(rx, c)) = Len(rx) + 1
    BY <2>1
  <2>4. Len(rx) - 1 # Len(rx) /\ Len(rx) - 1 # Len(rx) + 1
    BY <2>2
  <2> QED
    BY <2>2, <2>3, <2>4
<1>2. mode = "main" /\ mainpc = "body" /\ rx # <<>>
  BY DEF TakesContinue
<1>3. ~(\E s \in Slot, k \in FaultKinds : TakeFault(s, k))
      /\ ~(\E s \in Slot : ThreadFaults(s))
  BY <1>2 DEF TakeFault, ThreadFaults
<1>4. ~Wait /\ ~Seek /\ ~AwaitAck /\ ~AwaitStopAck /\ ~Notified
  BY <1>2 DEF Wait, Seek, AwaitAck, AwaitStopAck, Notified
<1>5. ~CharArrives /\ ~LineNoise /\ ~HostConnects /\ ~HostSends
      /\ ~HostInterrupts /\ ~HostReadsAck /\ ~HostReadsReply /\ ~HostResends
      /\ ~UNCHANGED loopVars
  BY <1>1 DEF CharArrives, LineNoise, HostConnects, HostSends, HostInterrupts,
     HostReadsAck, HostReadsReply, HostResends, loopVars, line
<1> QED
  BY <1>3, <1>4, <1>5 DEF LoopNext

\* A continue resumes every protection domain, whichever it names.
THEOREM ContinueReachesAll ==
  ASSUME PlainHost, OneByteIds
  PROVE  LoopSpec => ContinueResumesAll
<1>1. ASSUME FullInv, [LoopNext]_loopVars, TakesContinue
      PROVE  \A s \in Live : tcb_state'[threads[s].tcb] = "running"
  <2>1. ReadBody /\ Take
    BY <1>1, ContinueTaken DEF FullInv, LoopInv, ReadBody
  <2>2. /\ Head(rx).tok = "body" /\ mainpc = "body" /\ Head(rx).pkt.op = "vCont"
        /\ Head(rx).pkt.acts[1].kind \in {"c", "C"}
    BY <1>1 DEF TakesContinue
  <2>3. Process(Head(rx).pkt, <<Sign("+")>>)
    BY <2>1, <2>2 DEF ReadBody
  <2>4. SameRegistry /\ TypeInv'
    BY <1>1, StepSame, TypeNext DEF FullInv, LoopInv
  <2>5. Head(rx).pkt = cur
    BY <1>1, <2>1, <2>2, <2>4, TakeLink DEF FullInv, LoopInv, LinkInv
  <2>6. Addressed(Head(rx).pkt)
    BY <1>1, <2>5 DEF FullInv, SelInv
  <2> QED
    BY <1>1, <2>2, <2>3, <2>4, <2>6, VContResumes DEF FullInv, LoopInv
<1>2. FullInv /\ [LoopNext]_loopVars
        => [TakesContinue =>
              \A s \in Live : tcb_state'[threads[s].tcb] = "running"]_loopVars
  BY <1>1
<1>3. FullInv /\ [LoopNext]_loopVars => FullInv'
  BY FullInvNext
<1> QED
  BY <1>2, <1>3, FullInvInit, PTL DEF LoopSpec, ContinueResumesAll
=============================================================================
