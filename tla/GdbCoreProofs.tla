---------------------------- MODULE GdbCoreProofs ----------------------------
(***************************************************************************)
(* The registry of libgdb is type correct, and the ids the library's user  *)
(* registers stay unique, for every capacity of inferiors[] and threads[]  *)
(* and every behaviour of the user and of GDB.                             *)
(*                                                                         *)
(* LiveIdsUnique is what makes the searches of lookup_inferior_from_id and *)
(* lookup_thread_from_id complete (the first match is the only one), and   *)
(* the searches are what keeps it: the two are proved together, with the   *)
(* fact that live threads have distinct TCBs.                              *)
(***************************************************************************)
EXTENDS GdbCore, TLAPS

-----------------------------------------------------------------------------
(* Type correctness *)

\* What write_thread_id prints of an id is one byte.
LEMMA WireIdType ==
  ASSUME TypeOK, NEW s \in Slot
  PROVE  WireId(s) \in WireByte \X WireByte /\ WirePid(s[1]) \in WireByte
  BY CapacityAssumption
     DEF TypeOK, WireByte, WireId, WirePid, WireTid, Slot, Inferior, Thread

LEMMA ReplyType ==
  ASSUME NEW m \in Messages
  PROVE  Reply(m) \in [msg : Messages, of : WireByte \X WireByte]
  BY CapacityAssumption DEF Reply, NoId, WireByte

LEMMA JustReplyType ==
  ASSUME TypeOK, NEW m \in Messages, JustReply(m)
  PROVE  /\ output' \in [msg : Messages, of : WireByte \X WireByte]
         /\ UNCHANGED <<registry, threads, target_thread, single_step, status>>
  BY ReplyType DEF JustReply

LEMMA InitType == Init => TypeOK
<1> SUFFICES ASSUME Init PROVE TypeOK
  OBVIOUS
<1>1. NullInferior \in Inferior /\ NullThread \in Thread
  BY DEF NullInferior, NullThread, Inferior, Thread
<1>2. Reply("") \in [msg : Messages, of : WireByte \X WireByte]
  BY ReplyType DEF Messages
<1> QED
  BY <1>1, <1>2 DEF Init, TypeOK

\* The slot a cursor reaches is one of the array that is not in use.
LEMMA FirstFreeSlot ==
  ASSUME NEW n \in Nat \ {0}, NEW c \in Nat, NEW used, NEW k \in FirstFree(c, n, used)
  PROVE  k \in Nat /\ (c + k) % n \in 0 .. n - 1 /\ (c + k) % n \notin used
  BY DEF FirstFree

LEMMA RegisterInferiorType ==
  ASSUME TypeOK, NEW i \in InferiorId, NEW v \in VSpace, RegisterInferior(i, v)
  PROVE  TypeOK'
<1>1. UNCHANGED <<target_thread, tcb_state, single_step, output, status>>
  BY DEF RegisterInferior
<1>2. CASE UNCHANGED <<registry, threads>>
  BY <1>1, <1>2 DEF TypeOK, registry
<1>3. CASE curr_inferior_idx' = curr_inferior_idx + MaxPds
           /\ UNCHANGED <<inferiors, threads>>
  BY <1>1, <1>3, CapacityAssumption DEF TypeOK
<1>4. CASE NewInferior(i, v)
  <2>1. PICK k \in FirstFree(curr_inferior_idx, MaxPds, UsedPds) :
          LET p == (curr_inferior_idx + k) % MaxPds
              n == curr_inferior_idx + k + 1
          IN /\ curr_inferior_idx' = n
             /\ inferiors' = [inferiors EXCEPT ![p] =
                  [enabled |-> TRUE, id |-> i, gdb_id |-> n % GdbIdMod,
                   vspace |-> v, curr_thread_idx |-> 0]]
             /\ threads' =
                  [s \in Slot |-> IF s[1] = p THEN NullThread ELSE threads[s]]
    BY <1>4 DEF NewInferior
  <2> DEFINE n == curr_inferior_idx + k + 1
  <2>2. k \in Nat /\ n \in Nat /\ n % GdbIdMod \in Nat
    BY CapacityAssumption DEF FirstFree, TypeOK
  <2>3. [enabled |-> TRUE, id |-> i, gdb_id |-> n % GdbIdMod,
         vspace |-> v, curr_thread_idx |-> 0] \in Inferior
    BY <2>2, IdAssumption DEF Inferior
  <2>4. NullThread \in Thread
    BY DEF NullThread, Thread
  <2>5. inferiors' \in [Pd -> Inferior]
    BY <2>1, <2>3 DEF TypeOK
  <2>6. threads' \in [Slot -> Thread]
    BY <2>1, <2>4 DEF TypeOK
  <2> QED
    BY <1>1, <2>1, <2>2, <2>5, <2>6 DEF TypeOK
<1> QED
  BY <1>2, <1>3, <1>4 DEF RegisterInferior

LEMMA NewThreadType ==
  ASSUME TypeOK, NEW p \in Pd, NEW t \in ThreadId, NEW tcb \in Tcb,
         NewThread(p, t, tcb),
         UNCHANGED <<curr_inferior_idx, tcb_state, single_step, status>>
  PROVE  TypeOK'
<1>1. PICK k \in FirstFree(inferiors[p].curr_thread_idx, MaxThreads, UsedThreads(p)) :
        LET c == inferiors[p].curr_thread_idx
            g == NewGdbId(c, k)
            s == <<p, (c + k) % MaxThreads>>
        IN /\ inferiors' = [inferiors EXCEPT ![p].curr_thread_idx = c + k + 1]
           /\ threads' = [threads EXCEPT ![s] =
                [enabled |-> TRUE, wakeup |-> FALSE, ss_enabled |-> FALSE,
                 id |-> t, gdb_id |-> g, tcb |-> tcb]]
           /\ target_thread' = IF target_thread = NoThread THEN s ELSE target_thread
           /\ output' = IF target_thread = NoThread THEN output
                ELSE [msg |-> "T05clone", of |-> <<WirePid(p), g % WireMod>>]
  BY DEF NewThread
<1> DEFINE c == inferiors[p].curr_thread_idx
           g == NewGdbId(c, k)
           s == <<p, (c + k) % MaxThreads>>
<1>2. c \in Nat
  BY DEF TypeOK, Inferior
<1>3. k \in Nat /\ s \in Slot
  BY <1>2, FirstFreeSlot, CapacityAssumption DEF Slot, Th
<1>4. g \in Nat /\ g % WireMod \in WireByte
  BY <1>2, <1>3, CapacityAssumption DEF NewGdbId, WireByte
<1>5. inferiors' \in [Pd -> Inferior]
  BY <1>1, <1>2, <1>3 DEF TypeOK, Inferior
<1>6. [enabled |-> TRUE, wakeup |-> FALSE, ss_enabled |-> FALSE,
       id |-> t, gdb_id |-> g, tcb |-> tcb] \in Thread
  BY <1>4, IdAssumption DEF Thread
<1>7. threads' \in [Slot -> Thread]
  BY <1>1, <1>6 DEF TypeOK
<1>8. target_thread' \in Slot \cup {NoThread}
  BY <1>1, <1>3 DEF TypeOK
<1>9. WirePid(p) \in WireByte
  BY CapacityAssumption DEF TypeOK, WirePid, Inferior, WireByte
<1>10. output' \in [msg : Messages, of : WireByte \X WireByte]
  BY <1>1, <1>4, <1>9 DEF TypeOK, Messages
<1> QED
  BY <1>5, <1>7, <1>8, <1>10 DEF TypeOK

LEMMA RegisterThreadType ==
  ASSUME TypeOK, NEW i \in InferiorId, NEW t \in ThreadId, NEW tcb \in Tcb,
         RegisterThread(i, t, tcb)
  PROVE  TypeOK'
<1>1. UNCHANGED <<curr_inferior_idx, tcb_state, single_step, status>>
  BY DEF RegisterThread
<1>2. LookupInferior(i) \subseteq Pd
  BY DEF LookupInferior
<1>3. CASE UNCHANGED <<inferiors, threads, target_thread, output>>
  BY <1>1, <1>3 DEF TypeOK
<1>4. ASSUME NEW p \in LookupInferior(i), NewThread(p, t, tcb) PROVE TypeOK'
  BY <1>1, <1>2, <1>4, NewThreadType
<1>5. ASSUME NEW p \in LookupInferior(i),
             inferiors' = [inferiors EXCEPT ![p].curr_thread_idx = @ + MaxThreads],
             UNCHANGED <<threads, target_thread, output>>
      PROVE  TypeOK'
  <2>1. inferiors' \in [Pd -> Inferior]
    BY <1>2, <1>5, CapacityAssumption DEF TypeOK, Inferior
  <2> QED
    BY <1>1, <1>5, <2>1 DEF TypeOK
<1> QED
  BY <1>3, <1>4, <1>5 DEF RegisterThread

LEMMA ThreadExitType ==
  ASSUME TypeOK, NEW i \in InferiorId, NEW t \in ThreadId, ThreadExit(i, t)
  PROVE  TypeOK'
<1>1. UNCHANGED <<registry, target_thread, tcb_state, single_step, status>>
  BY DEF ThreadExit
<1>2. CASE UNCHANGED <<threads, output>>
  BY <1>1, <1>2 DEF TypeOK, registry
<1>3. ASSUME NEW p \in LookupInferior(i), NEW k \in LookupThread(p, t),
             threads' = [threads EXCEPT ![<<p, k>>].enabled = FALSE],
             output' = [msg |-> "w00", of |-> WireId(<<p, k>>)]
      PROVE  TypeOK'
  <2>1. <<p, k>> \in Slot
    BY DEF LookupInferior, LookupThread, Slot
  <2>2. threads' \in [Slot -> Thread]
    <3>1. threads[<<p, k>>] \in Thread
      BY <2>1 DEF TypeOK
    <3>2. [threads[<<p, k>>] EXCEPT !.enabled = FALSE] \in Thread
      BY <3>1 DEF Thread
    <3>3. threads' = [threads EXCEPT ![<<p, k>>] =
                        [threads[<<p, k>>] EXCEPT !.enabled = FALSE]]
      BY <1>3
    <3>4. threads \in [Slot -> Thread]
      BY DEF TypeOK
    <3> QED
      BY <2>1, <3>2, <3>3, <3>4
  <2>3. output' \in [msg : Messages, of : WireByte \X WireByte]
    BY <1>3, <2>1, WireIdType DEF Messages
  <2> QED
    BY <1>1, <2>2, <2>3 DEF TypeOK, registry
<1> QED
  BY <1>2, <1>3 DEF ThreadExit

LEMMA RunControlType ==
  ASSUME TypeOK, SuspendSystem \/ ResumeSystem
  PROVE  TypeOK'
<1>1. UNCHANGED <<registry, threads, target_thread, single_step, output, status>>
  BY DEF SuspendSystem, ResumeSystem
<1>2. tcb_state' \in [Tcb -> {"running", "suspended", "faulted"}]
  BY DEF SuspendSystem, ResumeSystem, SuspendAll, ResumeWoken, TypeOK
<1> QED
  BY <1>1, <1>2 DEF TypeOK, registry

\* The packets the host may send are those gdb_handle_packet dispatches on.
LEMMA PacketOps ==
  ASSUME NEW pkt \in Packets
  PROVE  pkt.op \in SimpleOps \cup {"H", "T", "vCont"}
  BY HostAssumption DEF Packets, Packet, ThreadPacket, VContPacket

\* The flags a handler sets are the only fields it changes.
LEMMA ThreadFlagsType ==
  ASSUME NEW r \in Thread, NEW w \in BOOLEAN, NEW e \in BOOLEAN
  PROVE  /\ [r EXCEPT !.wakeup = w, !.ss_enabled = e] \in Thread
         /\ [r EXCEPT !.ss_enabled = e, !.wakeup = w] \in Thread
  BY DEF Thread

\* What the handlers may change, with the types of what they change it to.
PacketEffect ==
  /\ UNCHANGED registry
  /\ threads' \in [Slot -> Thread]
  /\ target_thread' \in Slot \cup {NoThread}
  /\ single_step' \in [Tcb -> BOOLEAN]
  /\ output' \in [msg : Messages, of : WireByte \X WireByte]
  /\ status' \in {"up", "assert", "null"}

LEMMA StuckEffect ==
  ASSUME TypeOK, NEW how \in {"assert", "null"}, Stuck(how)
  PROVE  PacketEffect
  BY DEF Stuck, PacketEffect, TypeOK

LEMMA JustReplyEffect ==
  ASSUME TypeOK, NEW m \in Messages, JustReply(m)
  PROVE  PacketEffect
  BY JustReplyType DEF PacketEffect, TypeOK

LEMMA QueryEffect ==
  ASSUME TypeOK, NEW op \in SimpleOps \ {"g", "G", "D"}, HandleQuery(op)
  PROVE  PacketEffect
<1> DEFINE m == CASE op = "qSupported" -> "qSupported"
              [] op = "qfThreadInfo" -> "m"
              [] op = "qsThreadInfo" -> "l"
              [] op = "qC" -> "QC"
              [] op = "?" -> "T05swbreak"
              [] op = "vCont?" -> "vCont?"
              [] op = "ctrl-c" -> "S02"
              [] op = "unknown" -> ""
<1>1. m \in Messages
  BY DEF SimpleOps, Messages
<1>2. JustReply(m)
  BY DEF HandleQuery
<1> HIDE DEF m
<1> QED
  BY <1>1, <1>2, JustReplyEffect

LEMMA RegsEffect ==
  ASSUME TypeOK, NEW op, HandleRegs(op)
  PROVE  PacketEffect
<1>1. "regs" \in Messages /\ "OK" \in Messages
  BY DEF Messages
<1>2. CASE target_thread = NoThread
  BY <1>2, StuckEffect DEF HandleRegs
<1>3. CASE target_thread # NoThread
  BY <1>1, <1>3, JustReplyEffect DEF HandleRegs
<1> QED
  BY <1>2, <1>3

LEMMA SetInferiorEffect ==
  ASSUME TypeOK, NEW pid, NEW tid, HandleSetInferior(pid, tid)
  PROVE  PacketEffect
<1>1. "OK" \in Messages /\ "E02" \in Messages
  BY DEF Messages
<1>2. ASSUME NEW how \in {"assert", "null"}, Stuck(how) PROVE PacketEffect
  BY <1>2, StuckEffect
<1>3. ASSUME NEW m \in Messages, JustReply(m) PROVE PacketEffect
  BY <1>3, JustReplyEffect
<1>4. ASSUME NEW new \in Slot \cup {NoThread}, target_thread' = new,
             output' = Reply("OK"),
             UNCHANGED <<registry, threads, single_step, status>>
      PROVE  PacketEffect
  BY <1>1, <1>4, ReplyType DEF PacketEffect, TypeOK
<1> QED
  BY <1>1, <1>2, <1>3, <1>4 DEF HandleSetInferior

LEMMA CheckThreadAliveEffect ==
  ASSUME TypeOK, NEW pid, NEW tid, HandleCheckThreadAlive(pid, tid)
  PROVE  PacketEffect
<1>1. "OK" \in Messages /\ "" \in Messages
  BY DEF Messages
<1>2. CASE Stuck("null")
  BY <1>2, StuckEffect
<1>3. ASSUME NEW m \in Messages, JustReply(m) PROVE PacketEffect
  BY <1>3, JustReplyEffect
<1> QED
  BY <1>1, <1>2, <1>3 DEF HandleCheckThreadAlive

LEMMA VContEffect ==
  ASSUME TypeOK, NEW acts, HandleVCont(acts)
  PROVE  PacketEffect
<1>1. "E04" \in Messages /\ "" \in Messages
  BY DEF Messages
<1>2. ASSUME NEW how \in {"assert", "null"}, Stuck(how) PROVE PacketEffect
  BY <1>2, StuckEffect
<1>3. ASSUME NEW n, NEW m \in Messages,
             threads' = VContThreads(acts, n),
             single_step' = VContSingleStep(acts, n),
             output' = Reply(m),
             UNCHANGED <<registry, target_thread, status>>
      PROVE  PacketEffect
  <2>1. threads' \in [Slot -> Thread]
    <3>1. ASSUME NEW s \in Slot
          PROVE  [threads[s] EXCEPT !.wakeup = Wakes(acts, n, s),
                    !.ss_enabled = @ \/ \E k \in HandledBy(acts, n, s) :
                                          acts[k].kind = "s"] \in Thread
      <4>1. Wakes(acts, n, s) \in BOOLEAN
        BY DEF Wakes
      <4>2. (threads[s].ss_enabled
              \/ \E k \in HandledBy(acts, n, s) : acts[k].kind = "s") \in BOOLEAN
        OBVIOUS
      <4>3. threads[s] \in Thread
        BY DEF TypeOK
      <4> QED
        BY <4>1, <4>2, <4>3, ThreadFlagsType
    <3> QED
      BY <1>3, <3>1 DEF VContThreads, TypeOK
  <2>2. single_step' \in [Tcb -> BOOLEAN]
    BY <1>3 DEF VContSingleStep, TypeOK
  <2> QED
    BY <1>3, <2>1, <2>2, ReplyType DEF PacketEffect, TypeOK
<1> QED
  BY <1>1, <1>2, <1>3 DEF HandleVCont

LEMMA DetachEffect ==
  ASSUME TypeOK, HandleDetach
  PROVE  PacketEffect
<1>1. threads' \in [Slot -> Thread]
  <2>1. \A s \in Slot :
          [threads[s] EXCEPT !.ss_enabled = FALSE, !.wakeup = TRUE] \in Thread
    BY ThreadFlagsType DEF TypeOK
  <2> QED
    BY <2>1 DEF HandleDetach, TypeOK
<1>2. single_step' \in [Tcb -> BOOLEAN]
  BY DEF HandleDetach, TypeOK
<1>3. output' \in [msg : Messages, of : WireByte \X WireByte]
  BY ReplyType DEF HandleDetach, Messages
<1> QED
  BY <1>1, <1>2, <1>3 DEF HandleDetach, PacketEffect, TypeOK

LEMMA HandlePacketEffect ==
  ASSUME TypeOK, NEW pkt, pkt.op \in SimpleOps \cup {"H", "T", "vCont"},
         HandlePacket(pkt)
  PROVE  PacketEffect
<1>1. CASE pkt.op = "H"
  BY <1>1, SetInferiorEffect DEF HandlePacket
<1>2. CASE pkt.op = "T"
  BY <1>2, CheckThreadAliveEffect DEF HandlePacket
<1>3. CASE pkt.op = "vCont"
  BY <1>3, VContEffect DEF HandlePacket
<1>4. CASE pkt.op = "D"
  BY <1>4, DetachEffect DEF HandlePacket
<1>5. CASE pkt.op \in {"g", "G"}
  BY <1>5, RegsEffect DEF HandlePacket
<1>6. CASE pkt.op \in SimpleOps \ {"g", "G", "D"}
  <2>1. pkt.op \notin {"H", "T", "vCont", "D", "g", "G"}
    BY <1>6 DEF SimpleOps
  <2>2. HandleQuery(pkt.op)
    BY <2>1 DEF HandlePacket
  <2> QED
    BY <1>6, <2>2, QueryEffect
<1> QED
  BY <1>1, <1>2, <1>3, <1>4, <1>5, <1>6

\* A fault changes what a packet may change.
LEMMA HandleFaultEffect ==
  ASSUME TypeOK, NEW i, NEW t, NEW kind \in FaultKinds, HandleFault(i, t, kind)
  PROVE  PacketEffect
<1>1. CASE UNCHANGED <<output, target_thread>>
  BY <1>1 DEF HandleFault, PacketEffect, TypeOK
<1>2. ASSUME NEW p \in LookupInferior(i), NEW k \in LookupThread(p, t),
             output' = [msg |-> StopMessage(kind), of |-> WireId(<<p, k>>)],
             target_thread' = <<p, k>>
      PROVE  PacketEffect
  <2>1. <<p, k>> \in Slot
    BY DEF LookupInferior, LookupThread, Slot
  <2>2. StopMessage(kind) \in Messages
    BY HostAssumption DEF StopMessage, Messages
  <2>3. output' \in [msg : Messages, of : WireByte \X WireByte]
    BY <1>2, <2>1, <2>2, WireIdType
  <2> QED
    BY <1>2, <2>1, <2>3 DEF HandleFault, PacketEffect, TypeOK
<1> QED
  BY <1>1, <1>2 DEF HandleFault

LEMMA FaultType ==
  ASSUME TypeOK, NEW i, NEW t, NEW kind \in FaultKinds, Fault(i, t, kind)
  PROVE  TypeOK'
<1>1. PacketEffect /\ UNCHANGED tcb_state
  BY HandleFaultEffect DEF Fault
<1> QED
  BY <1>1 DEF PacketEffect, TypeOK, registry

LEMMA PacketType ==
  ASSUME TypeOK, NEW pkt \in Packets, GdbHandlePacket(pkt)
  PROVE  TypeOK'
<1>1. PacketEffect
  BY PacketOps, HandlePacketEffect DEF GdbHandlePacket
<1>2. tcb_state' \in [Tcb -> {"running", "suspended", "faulted"}]
  BY DEF GdbHandlePacket, TcbsAfter, TypeOK
<1> QED
  BY <1>1, <1>2 DEF PacketEffect, TypeOK, registry

LEMMA NextType ==
  ASSUME TypeOK, [Next]_coreVars
  PROVE  TypeOK'
<1>1. CASE UNCHANGED coreVars
  BY <1>1 DEF coreVars, TypeOK
<1>2. ASSUME NEW i \in InferiorId, NEW v \in VSpace, RegisterInferior(i, v)
      PROVE  TypeOK'
  BY <1>2, RegisterInferiorType
<1>3. ASSUME NEW i \in InferiorId, NEW t \in ThreadId, NEW c \in Tcb,
             RegisterThread(i, t, c)
      PROVE  TypeOK'
  BY <1>3, RegisterThreadType
<1>4. ASSUME NEW i \in InferiorId, NEW t \in ThreadId, ThreadExit(i, t)
      PROVE  TypeOK'
  BY <1>4, ThreadExitType
<1>5. ASSUME NEW i \in InferiorId, NEW t \in ThreadId, NEW k \in FaultKinds,
             Fault(i, t, k)
      PROVE  TypeOK'
  BY <1>5, FaultType
<1>6. CASE SuspendSystem \/ ResumeSystem
  BY <1>6, RunControlType
<1>7. ASSUME NEW pkt \in Packets, GdbHandlePacket(pkt)
      PROVE  TypeOK'
  BY <1>7, PacketType
<1> QED
  BY <1>1, <1>2, <1>3, <1>4, <1>5, <1>6, <1>7 DEF Next

\* The registry, the selected thread and what was done to the debuggees have
\* the types their declarations in gdb.h and gdb.c give them.
THEOREM TypeCorrect == Spec => []TypeOK
  BY InitType, NextType, PTL DEF Spec

-----------------------------------------------------------------------------
(* What the lookups find *)


LiveTcbsDistinct ==
  /\ \A s \in Live : threads[s].tcb \in Tcb
  /\ \A s, r \in Live : threads[s].tcb = threads[r].tcb => s = r

RInv == TypeOK /\ LiveIdsUnique /\ LiveTcbsDistinct

\* Nothing of what the lookups read is changed.
SameRegistry ==
  /\ UNCHANGED inferiors
  /\ \A s \in Slot : /\ threads'[s].enabled = threads[s].enabled
                     /\ threads'[s].id = threads[s].id
                     /\ threads'[s].gdb_id = threads[s].gdb_id
                     /\ threads'[s].tcb = threads[s].tcb

\* Searching for an id of the user's finds the one inferior that has it.
LEMMA LookupInferiorUnique ==
  ASSUME RInv, NEW i
  PROVE  LookupInferior(i) = {p \in UsedPds : inferiors[p].id = i}
<1>1. ASSUME NEW p \in UsedPds, inferiors[p].id = i, NEW q \in 0 .. p - 1
      PROVE  ~(inferiors[q].enabled /\ inferiors[q].id = i)
  <2>1. p \in 0 .. MaxPds - 1
    BY DEF UsedPds, Pd
  <2>2. q \in Pd /\ q # p
    BY <2>1, CapacityAssumption DEF Pd
  <2> QED
    BY <1>1, <2>2 DEF RInv, LiveIdsUnique, UsedPds
<1> QED
  BY <1>1 DEF LookupInferior, UsedPds

\* Searching an inferior for a thread id finds the one live thread that has it.
LEMMA LookupThreadUnique ==
  ASSUME RInv, NEW p \in UsedPds, NEW t
  PROVE  LookupThread(p, t) = {k \in UsedThreads(p) : threads[<<p, k>>].id = t}
<1>1. ASSUME NEW k \in UsedThreads(p), threads[<<p, k>>].id = t, NEW j \in 0 .. k - 1
      PROVE  ~(threads[<<p, j>>].enabled /\ threads[<<p, j>>].id = t)
  <2>1. k \in 0 .. MaxThreads - 1
    BY DEF UsedThreads, Th
  <2>2. j \in Th /\ j # k
    BY <2>1, CapacityAssumption DEF Th
  <2>3. <<p, k>> \in Live /\ (threads[<<p, j>>].enabled => <<p, j>> \in Live)
    BY <2>2 DEF Live, IsLive, Slot, UsedPds, UsedThreads
  <2> QED
    BY <1>1, <2>2, <2>3 DEF RInv, LiveIdsUnique
<1> QED
  BY <1>1 DEF LookupThread, UsedThreads

LEMMA SameLive ==
  ASSUME SameRegistry
  PROVE  Live' = Live /\ UsedPds' = UsedPds
  BY DEF SameRegistry, Live, IsLive, UsedPds, Slot

LEMMA SameRInv ==
  ASSUME RInv, SameRegistry, TypeOK'
  PROVE  RInv'
<1>1. Live' = Live /\ UsedPds' = UsedPds /\ Live \subseteq Slot
  BY SameLive DEF Live
<1>2. LiveIdsUnique'
  BY <1>1 DEF RInv, LiveIdsUnique, SameRegistry
<1>3. LiveTcbsDistinct'
  BY <1>1 DEF RInv, LiveTcbsDistinct, SameRegistry
<1> QED
  BY <1>2, <1>3 DEF RInv

-----------------------------------------------------------------------------
(* What each call does to the registry *)

LEMMA NewInferiorEffect ==
  ASSUME RInv, NEW i, NEW v, NewInferior(i, v)
  PROVE  \E p \in Pd \ UsedPds :
           /\ UsedPds' = UsedPds \cup {p}
           /\ inferiors'[p].id = i
           /\ inferiors'[p].gdb_id = curr_inferior_idx' % GdbIdMod
           /\ inferiors'[p].curr_thread_idx = 0
           /\ (curr_inferior_idx' - 1) % MaxPds = p
           /\ curr_inferior_idx' \in
                curr_inferior_idx + 1 .. curr_inferior_idx + MaxPds
           /\ curr_inferior_idx' - (curr_inferior_idx + 1)
                \in FirstFree(curr_inferior_idx, MaxPds, UsedPds)
           /\ \A q \in Pd \ {p} : inferiors'[q] = inferiors[q]
           /\ \A s \in Slot : threads'[s] = IF s[1] = p THEN NullThread
                                                        ELSE threads[s]
           /\ Live' = Live
<1>1. PICK k \in FirstFree(curr_inferior_idx, MaxPds, UsedPds) :
        LET p == (curr_inferior_idx + k) % MaxPds
            n == curr_inferior_idx + k + 1
        IN /\ curr_inferior_idx' = n
           /\ inferiors' = [inferiors EXCEPT ![p] =
                [enabled |-> TRUE, id |-> i, gdb_id |-> n % GdbIdMod,
                 vspace |-> v, curr_thread_idx |-> 0]]
           /\ threads' = [s \in Slot |-> IF s[1] = p THEN NullThread ELSE threads[s]]
  BY DEF NewInferior
<1> DEFINE p == (curr_inferior_idx + k) % MaxPds
<1>2. curr_inferior_idx \in Nat /\ k \in 0 .. MaxPds - 1
  BY DEF RInv, TypeOK, FirstFree
<1>3. p \in Pd \ UsedPds
  BY <1>2, FirstFreeSlot, CapacityAssumption DEF Pd
<1>4. /\ curr_inferior_idx' = curr_inferior_idx + k + 1
      /\ curr_inferior_idx' - 1 = curr_inferior_idx + k
      /\ curr_inferior_idx' \in curr_inferior_idx + 1 .. curr_inferior_idx + MaxPds
      /\ curr_inferior_idx' - (curr_inferior_idx + 1) = k
  BY <1>1, <1>2, CapacityAssumption
<1>5. /\ inferiors'[p] = [enabled |-> TRUE, id |-> i,
                          gdb_id |-> curr_inferior_idx' % GdbIdMod,
                          vspace |-> v, curr_thread_idx |-> 0]
      /\ \A q \in Pd \ {p} : inferiors'[q] = inferiors[q]
  BY <1>1, <1>3, <1>4 DEF RInv, TypeOK
<1>6. \A s \in Slot : threads'[s] = IF s[1] = p THEN NullThread ELSE threads[s]
  BY <1>1
<1> HIDE DEF p
<1>7. UsedPds' = UsedPds \cup {p}
  BY <1>3, <1>5 DEF UsedPds
<1>8. Live' = Live
  <2>1. ASSUME NEW s \in Slot PROVE IsLive(s)' <=> IsLive(s)
    <3>1. s[1] \in Pd
      BY DEF Slot
    <3>2. CASE s[1] = p
      BY <1>3, <1>6, <3>2 DEF IsLive, UsedPds, NullThread
    <3>3. CASE s[1] # p
      BY <1>5, <1>6, <3>1, <3>3 DEF IsLive
    <3> QED
      BY <3>2, <3>3
  <2> QED
    BY <2>1 DEF Live
<1> QED
  BY <1>3, <1>4, <1>5, <1>6, <1>7, <1>8 DEF p

LEMMA NewThreadEffect ==
  ASSUME RInv, NEW p \in UsedPds, NEW t, NEW tcb \in Tcb, NewThread(p, t, tcb)
  PROVE  \E s \in Slot \ Live :
           /\ s[1] = p
           /\ Live' = Live \cup {s}
           /\ UsedPds' = UsedPds
           /\ inferiors'[p].curr_thread_idx \in
                inferiors[p].curr_thread_idx + 1
                  .. inferiors[p].curr_thread_idx + MaxThreads
           /\ inferiors'[p].curr_thread_idx - (inferiors[p].curr_thread_idx + 1)
                \in FirstFree(inferiors[p].curr_thread_idx, MaxThreads, UsedThreads(p))
           /\ (inferiors'[p].curr_thread_idx - 1) % MaxThreads = s[2]
           /\ threads'[s].id = t /\ threads'[s].tcb = tcb
           /\ threads'[s].gdb_id = inferiors'[p].curr_thread_idx % GdbIdMod
           /\ inferiors' = [inferiors EXCEPT ![p].curr_thread_idx =
                              inferiors'[p].curr_thread_idx]
           /\ \A r \in Slot \ {s} : threads'[r] = threads[r]
<1>1. PICK k \in FirstFree(inferiors[p].curr_thread_idx, MaxThreads, UsedThreads(p)) :
        LET c == inferiors[p].curr_thread_idx
            g == NewGdbId(c, k)
            s == <<p, (c + k) % MaxThreads>>
        IN /\ inferiors' = [inferiors EXCEPT ![p].curr_thread_idx = c + k + 1]
           /\ threads' = [threads EXCEPT ![s] =
                [enabled |-> TRUE, wakeup |-> FALSE, ss_enabled |-> FALSE,
                 id |-> t, gdb_id |-> g, tcb |-> tcb]]
  BY DEF NewThread
<1> DEFINE c == inferiors[p].curr_thread_idx
           s == <<p, (c + k) % MaxThreads>>
<1>2. p \in Pd /\ c \in Nat /\ k \in 0 .. MaxThreads - 1
  BY DEF RInv, TypeOK, FirstFree, UsedPds, Inferior
<1>3. s \in Slot \ Live /\ s[1] = p /\ s[2] = (c + k) % MaxThreads
  <2>1. (c + k) % MaxThreads \in Th \ UsedThreads(p)
    BY <1>2, FirstFreeSlot, CapacityAssumption DEF Th
  <2> QED
    BY <1>2, <2>1 DEF Slot, Live, IsLive, UsedThreads
<1>4. inferiors'[p].curr_thread_idx = c + k + 1
  BY <1>1, <1>2 DEF RInv, TypeOK, Inferior
<1>5. /\ inferiors'[p].curr_thread_idx - 1 = c + k
      /\ inferiors'[p].curr_thread_idx \in c + 1 .. c + MaxThreads
      /\ inferiors'[p].curr_thread_idx - (c + 1) = k
      /\ NewGdbId(c, k) = inferiors'[p].curr_thread_idx % GdbIdMod
  BY <1>2, <1>4, CapacityAssumption DEF NewGdbId
<1>6. /\ threads'[s] = [enabled |-> TRUE, wakeup |-> FALSE,
           ss_enabled |-> FALSE, id |-> t,
           gdb_id |-> inferiors'[p].curr_thread_idx % GdbIdMod, tcb |-> tcb]
      /\ \A r \in Slot \ {s} : threads'[r] = threads[r]
  BY <1>1, <1>3, <1>5 DEF RInv, TypeOK
<1>7. \A q \in Pd : /\ inferiors'[q].enabled = inferiors[q].enabled
                    /\ inferiors'[q].id = inferiors[q].id
  BY <1>1, <1>2 DEF RInv, TypeOK, Inferior
<1> HIDE DEF s
<1>8. UsedPds' = UsedPds
  BY <1>7 DEF UsedPds
<1>9. Live' = Live \cup {s}
  <2>1. ASSUME NEW r \in Slot PROVE IsLive(r)' <=> IsLive(r) \/ r = s
    <3>1. r[1] \in Pd
      BY DEF Slot
    <3>2. inferiors[p].enabled
      BY DEF UsedPds
    <3> QED
      BY <1>3, <1>6, <1>7, <3>1, <3>2 DEF IsLive
  <2> QED
    BY <1>3, <2>1 DEF Live
<1>10. inferiors' = [inferiors EXCEPT ![p].curr_thread_idx =
                       inferiors'[p].curr_thread_idx]
  BY <1>1, <1>4
<1>11. /\ threads'[s].id = t /\ threads'[s].tcb = tcb
       /\ threads'[s].gdb_id = inferiors'[p].curr_thread_idx % GdbIdMod
  BY <1>6
<1>12. (inferiors'[p].curr_thread_idx - 1) % MaxThreads = s[2]
  BY <1>1, <1>3, <1>5
<1> QED
  BY <1>3, <1>5, <1>6, <1>8, <1>9, <1>10, <1>11, <1>12

\* A registration that found no slot moves a cursor and nothing else.
LEMMA CursorSame ==
  ASSUME TypeOK, NEW p \in Pd, NEW n,
         inferiors' = [inferiors EXCEPT ![p].curr_thread_idx = n], UNCHANGED threads
  PROVE  /\ Live' = Live /\ UsedPds' = UsedPds
         /\ \A q \in Pd : /\ inferiors'[q].enabled = inferiors[q].enabled
                          /\ inferiors'[q].id = inferiors[q].id
                          /\ inferiors'[q].gdb_id = inferiors[q].gdb_id
<1>1. \A q \in Pd : /\ inferiors'[q].enabled = inferiors[q].enabled
                    /\ inferiors'[q].id = inferiors[q].id
                    /\ inferiors'[q].gdb_id = inferiors[q].gdb_id
  BY DEF TypeOK, Inferior
<1>2. \A s \in Slot : s[1] \in Pd
  BY DEF Slot
<1> QED
  BY <1>1, <1>2 DEF Live, IsLive, UsedPds

LEMMA ThreadExitEffect ==
  ASSUME TypeOK, NEW s \in Slot, threads' = [threads EXCEPT ![s].enabled = FALSE],
         UNCHANGED inferiors
  PROVE  /\ Live' = Live \ {s} /\ UsedPds' = UsedPds
         /\ \A r \in Slot : /\ threads'[r].id = threads[r].id
                            /\ threads'[r].gdb_id = threads[r].gdb_id
                            /\ threads'[r].tcb = threads[r].tcb
                            /\ threads'[r].ss_enabled = threads[r].ss_enabled
                            /\ threads'[r].enabled => threads[r].enabled
<1>1. \A r \in Slot : /\ threads'[r].id = threads[r].id
                      /\ threads'[r].gdb_id = threads[r].gdb_id
                      /\ threads'[r].tcb = threads[r].tcb
                      /\ threads'[r].ss_enabled = threads[r].ss_enabled
                      /\ threads'[r].enabled = (threads[r].enabled /\ r # s)
  BY DEF TypeOK, Thread
<1>2. UsedPds' = UsedPds
  BY DEF UsedPds
<1>3. Live' = Live \ {s}
  BY <1>1 DEF Live, IsLive
<1> QED
  BY <1>1, <1>2, <1>3

\* A vCont packet changes the two flags of a thread only.
LEMMA VContKeeps ==
  ASSUME TypeOK, NEW acts, NEW n, NEW s \in Slot
  PROVE  /\ VContThreads(acts, n)[s].enabled = threads[s].enabled
         /\ VContThreads(acts, n)[s].id = threads[s].id
         /\ VContThreads(acts, n)[s].gdb_id = threads[s].gdb_id
         /\ VContThreads(acts, n)[s].tcb = threads[s].tcb
<1> DEFINE new == [threads[s] EXCEPT
                     !.wakeup = Wakes(acts, n, s),
                     !.ss_enabled = @ \/ \E k \in HandledBy(acts, n, s) :
                                           acts[k].kind = "s"]
<1>1. threads[s] \in Thread
  BY DEF TypeOK
<1>2. /\ new.enabled = threads[s].enabled /\ new.id = threads[s].id
      /\ new.gdb_id = threads[s].gdb_id /\ new.tcb = threads[s].tcb
  BY <1>1 DEF Thread
<1>3. VContThreads(acts, n)[s] =
        IF s \notin Live \/ n = 0 THEN threads[s] ELSE new
  BY DEF VContThreads
<1> HIDE DEF new
<1>4. CASE s \notin Live \/ n = 0
  BY <1>3, <1>4
<1>5. CASE ~(s \notin Live \/ n = 0)
  BY <1>2, <1>3, <1>5
<1> QED
  BY <1>4, <1>5

\* No packet changes which inferiors and threads there are.
LEMMA PacketSame ==
  ASSUME TypeOK, NEW pkt, HandlePacket(pkt)
  PROVE  SameRegistry
<1>1. ASSUME UNCHANGED <<registry, threads>> PROVE SameRegistry
  BY <1>1 DEF SameRegistry, registry
<1>2. ASSUME NEW m, JustReply(m) PROVE SameRegistry
  BY <1>1, <1>2 DEF JustReply
<1>3. ASSUME NEW how, Stuck(how) PROVE SameRegistry
  BY <1>1, <1>3 DEF Stuck
<1>4. ASSUME NEW acts, HandleVCont(acts) PROVE SameRegistry
  <2>1. ASSUME NEW n, threads' = VContThreads(acts, n), UNCHANGED registry
        PROVE  SameRegistry
    BY <2>1, VContKeeps DEF SameRegistry, registry
  <2> QED
    BY <1>3, <1>4, <2>1 DEF HandleVCont
<1>5. ASSUME HandleDetach PROVE SameRegistry
  <2>1. ASSUME NEW s \in Slot
        PROVE  LET new == [threads[s] EXCEPT !.ss_enabled = FALSE,
                                             !.wakeup = TRUE]
               IN /\ new.enabled = threads[s].enabled /\ new.id = threads[s].id
                  /\ new.gdb_id = threads[s].gdb_id /\ new.tcb = threads[s].tcb
    <3>1. threads[s] \in Thread
      BY DEF TypeOK
    <3> QED
      BY <3>1 DEF Thread
  <2>2. ASSUME NEW s \in Slot
        PROVE  \/ threads'[s] = threads[s]
               \/ threads'[s] = [threads[s] EXCEPT !.ss_enabled = FALSE,
                                                   !.wakeup = TRUE]
    BY <1>5 DEF HandleDetach
  <2>3. UNCHANGED inferiors
    BY <1>5 DEF HandleDetach, registry
  <2> QED
    BY <2>1, <2>2, <2>3 DEF SameRegistry
<1>6. ASSUME NEW pid, NEW tid, HandleSetInferior(pid, tid) PROVE SameRegistry
  BY <1>1, <1>2, <1>3, <1>6 DEF HandleSetInferior
<1>7. ASSUME NEW pid, NEW tid, HandleCheckThreadAlive(pid, tid) PROVE SameRegistry
  BY <1>2, <1>3, <1>7 DEF HandleCheckThreadAlive
<1>8. ASSUME NEW op, HandleRegs(op) PROVE SameRegistry
  BY <1>2, <1>3, <1>8 DEF HandleRegs
<1>9. ASSUME NEW op, HandleQuery(op) PROVE SameRegistry
  BY <1>2, <1>9 DEF HandleQuery
<1> QED
  BY <1>4, <1>5, <1>6, <1>7, <1>8, <1>9 DEF HandlePacket

-----------------------------------------------------------------------------
(* The ids of the user are unique *)

LEMMA InitRInv == Init => RInv
<1> SUFFICES ASSUME Init PROVE RInv
  OBVIOUS
<1>1. UsedPds = {}
  BY DEF Init, UsedPds, NullInferior
<1>2. Live = {}
  BY DEF Init, Live, IsLive, Slot, NullInferior
<1> QED
  BY <1>1, <1>2, InitType DEF RInv, LiveIdsUnique, LiveTcbsDistinct

LEMMA RegisterInferiorRInv ==
  ASSUME RInv, NEW i \in InferiorId, NEW v \in VSpace, RegisterInferior(i, v)
  PROVE  RInv'
<1>1. TypeOK'
  BY RegisterInferiorType DEF RInv
<1>2. CASE UNCHANGED <<inferiors, threads>>
  BY <1>1, <1>2, SameRInv DEF SameRegistry
<1>3. CASE LookupInferior(i) = {} /\ NewInferior(i, v)
  <2>1. \A q \in UsedPds : inferiors[q].id # i
    BY <1>3, LookupInferiorUnique
  <2>2. PICK p \in Pd \ UsedPds :
          /\ UsedPds' = UsedPds \cup {p}
          /\ inferiors'[p].id = i
          /\ \A q \in Pd \ {p} : inferiors'[q] = inferiors[q]
          /\ \A s \in Slot : threads'[s] = IF s[1] = p THEN NullThread
                                                       ELSE threads[s]
          /\ Live' = Live
    BY <1>3, NewInferiorEffect
  <2>3. \A s \in Live : s \in Slot /\ s[1] # p /\ threads'[s] = threads[s]
    BY <2>2 DEF Live, IsLive, UsedPds
  <2>4. UsedPds \subseteq Pd \ {p}
    BY <2>2 DEF UsedPds
  <2>5. LiveIdsUnique'
    BY <2>1, <2>2, <2>3, <2>4 DEF RInv, LiveIdsUnique
  <2>6. LiveTcbsDistinct'
    BY <2>2, <2>3 DEF RInv, LiveTcbsDistinct
  <2> QED
    BY <1>1, <2>5, <2>6 DEF RInv
<1> QED
  BY <1>2, <1>3 DEF RegisterInferior, registry

LEMMA RegisterThreadRInv ==
  ASSUME RInv, NEW i \in InferiorId, NEW t \in ThreadId, NEW tcb \in Tcb,
         RegisterThread(i, t, tcb)
  PROVE  RInv'
<1>1. TypeOK'
  BY RegisterThreadType DEF RInv
<1>2. CASE UNCHANGED <<inferiors, threads>>
  BY <1>1, <1>2, SameRInv DEF SameRegistry
<1>3. ASSUME NEW p \in LookupInferior(i),
             inferiors' = [inferiors EXCEPT ![p].curr_thread_idx = @ + MaxThreads],
             UNCHANGED threads
      PROVE  RInv'
  <2>1. p \in Pd
    BY DEF LookupInferior
  <2>2. /\ Live' = Live /\ UsedPds' = UsedPds
        /\ \A q \in Pd : inferiors'[q].id = inferiors[q].id
    BY <1>3, <2>1, CursorSame DEF RInv
  <2>3. LiveIdsUnique'
    BY <1>3, <2>2 DEF RInv, LiveIdsUnique, UsedPds
  <2>4. LiveTcbsDistinct'
    BY <1>3, <2>2 DEF RInv, LiveTcbsDistinct
  <2> QED
    BY <1>1, <2>3, <2>4 DEF RInv
<1>4. ASSUME NEW p \in LookupInferior(i), LookupThread(p, t) = {},
             NewThread(p, t, tcb)
      PROVE  RInv'
  <2>1. p \in UsedPds /\ inferiors[p].id = i
    BY LookupInferiorUnique
  <2>2. PICK s \in Slot \ Live :
          /\ s[1] = p
          /\ Live' = Live \cup {s}
          /\ UsedPds' = UsedPds
          /\ threads'[s].id = t /\ threads'[s].tcb = tcb
          /\ inferiors' = [inferiors EXCEPT ![p].curr_thread_idx =
                             inferiors'[p].curr_thread_idx]
          /\ \A r \in Slot \ {s} : threads'[r] = threads[r]
    BY <1>4, <2>1, NewThreadEffect
  <2>3. \A r \in Live : r \in Slot /\ r # s /\ threads'[r] = threads[r]
    BY <2>2 DEF Live
  <2>4. \A r \in Live : r[1] = p => threads[r].id # t
    <3>1. \A r \in Live : r[1] = p => r[2] \in UsedThreads(p) /\ r = <<p, r[2]>>
      BY DEF Live, IsLive, UsedThreads, Slot
    <3> QED
      BY <1>4, <2>1, <3>1, LookupThreadUnique
  <2>5. \A r \in Live : threads[r].tcb # tcb
    <3>1. SUFFICES ASSUME NEW r \in Live, threads[r].tcb = tcb PROVE FALSE
      OBVIOUS
    <3>2. threads[r].id = t /\ inferiors[r[1]].id = i
      BY <3>1 DEF RegisterThread, MayHaveTcb
    <3>3. r[1] \in UsedPds
      BY DEF Live, IsLive, UsedPds, Slot
    <3>4. r[1] = p
      BY <2>1, <3>2, <3>3 DEF RInv, LiveIdsUnique
    <3> QED
      BY <2>4, <3>2, <3>4
  <2>6. \A q \in Pd : inferiors'[q].id = inferiors[q].id
    BY <2>2 DEF RInv, TypeOK, Inferior
  <2>7. LiveIdsUnique'
    <3>1. \A q, o \in UsedPds' : inferiors'[q].id = inferiors'[o].id => q = o
      BY <2>2, <2>6 DEF RInv, LiveIdsUnique, UsedPds
    <3>2. \A r, o \in Live' :
            r[1] = o[1] /\ threads'[r].id = threads'[o].id => r = o
      BY <2>2, <2>3, <2>4 DEF RInv, LiveIdsUnique
    <3> QED
      BY <3>1, <3>2 DEF LiveIdsUnique
  <2>8. LiveTcbsDistinct'
    BY <2>2, <2>3, <2>5 DEF RInv, LiveTcbsDistinct
  <2> QED
    BY <1>1, <2>7, <2>8 DEF RInv
<1> QED
  BY <1>2, <1>3, <1>4 DEF RegisterThread

LEMMA ThreadExitRInv ==
  ASSUME RInv, NEW i \in InferiorId, NEW t \in ThreadId, ThreadExit(i, t)
  PROVE  RInv'
<1>1. TypeOK'
  BY ThreadExitType DEF RInv
<1>2. UNCHANGED inferiors
  BY DEF ThreadExit, registry
<1>3. CASE UNCHANGED threads
  BY <1>1, <1>2, <1>3, SameRInv DEF SameRegistry
<1>4. ASSUME NEW p \in LookupInferior(i), NEW k \in LookupThread(p, t),
             threads' = [threads EXCEPT ![<<p, k>>].enabled = FALSE]
      PROVE  RInv'
  <2>1. <<p, k>> \in Slot
    BY DEF LookupInferior, LookupThread, Slot
  <2>2. /\ Live' \subseteq Live /\ Live \subseteq Slot /\ UsedPds' = UsedPds
        /\ \A r \in Slot : /\ threads'[r].id = threads[r].id
                           /\ threads'[r].tcb = threads[r].tcb
    BY <1>2, <1>4, <2>1, ThreadExitEffect DEF RInv, Live
  <2>3. LiveIdsUnique'
    BY <1>2, <2>2 DEF RInv, LiveIdsUnique
  <2>4. LiveTcbsDistinct'
    BY <2>2 DEF RInv, LiveTcbsDistinct
  <2> QED
    BY <1>1, <2>3, <2>4 DEF RInv
<1> QED
  BY <1>3, <1>4 DEF ThreadExit

\* The other calls leave the registry alone.
LEMMA OtherSame ==
  ASSUME TypeOK,
         \/ UNCHANGED coreVars
         \/ SuspendSystem \/ ResumeSystem
         \/ \E i \in InferiorId, t \in ThreadId, k \in FaultKinds : Fault(i, t, k)
         \/ \E pkt \in Packets : GdbHandlePacket(pkt)
  PROVE  SameRegistry
<1>1. ASSUME UNCHANGED <<inferiors, threads>> PROVE SameRegistry
  BY <1>1 DEF SameRegistry
<1>2. ASSUME NEW pkt \in Packets, GdbHandlePacket(pkt) PROVE SameRegistry
  BY <1>2, PacketSame DEF GdbHandlePacket
<1> QED
  BY <1>1, <1>2 DEF coreVars, SuspendSystem, ResumeSystem, Fault, HandleFault,
                    registry

LEMMA NextRInv ==
  ASSUME RInv, [Next]_coreVars
  PROVE  RInv'
<1>1. ASSUME NEW i \in InferiorId, NEW v \in VSpace, RegisterInferior(i, v)
      PROVE  RInv'
  BY <1>1, RegisterInferiorRInv
<1>2. ASSUME NEW i \in InferiorId, NEW t \in ThreadId, NEW c \in Tcb,
             RegisterThread(i, t, c)
      PROVE  RInv'
  BY <1>2, RegisterThreadRInv
<1>3. ASSUME NEW i \in InferiorId, NEW t \in ThreadId, ThreadExit(i, t)
      PROVE  RInv'
  BY <1>3, ThreadExitRInv
<1>4. ASSUME \/ UNCHANGED coreVars
             \/ SuspendSystem \/ ResumeSystem
             \/ \E i \in InferiorId, t \in ThreadId, k \in FaultKinds : Fault(i, t, k)
             \/ \E pkt \in Packets : GdbHandlePacket(pkt)
      PROVE  RInv'
  <2>1. TypeOK'
    BY NextType DEF RInv
  <2> QED
    BY <1>4, <2>1, OtherSame, SameRInv DEF RInv
<1> QED
  BY <1>1, <1>2, <1>3, <1>4 DEF Next

LEMMA RegistryInvariance == Spec => []RInv
  BY InitRInv, NextRInv, PTL DEF Spec

\* The ids the library's user registers name one inferior and, within it, one
\* live thread: gdb_register_inferior and gdb_register_thread find the earlier
\* registration whatever slots were left free in front of it.
THEOREM IdsUnique == Spec => []LiveIdsUnique
<1>1. RInv => LiveIdsUnique
  BY DEF RInv
<1> QED
  BY <1>1, RegistryInvariance, PTL
=============================================================================
