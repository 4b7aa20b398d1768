--------------------------- MODULE RegistryIdProofs ---------------------------
(***************************************************************************)
(* The gdb ids of libgdb lead back to the threads they were given to and   *)
(* are never given twice, detach ends the single stepping of every thread  *)
(* but one registered on a TCB that was stepped already, a registration is *)
(* refused only when the array is full, and while no cursor passes 255 the *)
(* byte of an id that goes over the wire selects its thread, so that GDB   *)
(* cannot bring the library down.                                          *)
(*                                                                         *)
(* The index of a slot is computed from its gdb id, so the invariant says  *)
(* of each used slot that its id is congruent to its place, and of each    *)
(* slot that its id is not above the cursor, which only grows.  The ids    *)
(* must not wrap round their 16 bits (NoIdWrap): after 65536 registrations *)
(* one is 0.  FreshInv adds what holds before a cursor has reached 256     *)
(* (FewRegistrations).  That a full round of the cursor meets every slot,  *)
(* and that a search which ends has a first free slot, is Least, the least *)
(* element of a set of numbers.                                            *)
(***************************************************************************)
EXTENDS GdbCoreProofs, SequenceTheorems, WellFoundedInduction

NoIdWrap == IdxLimit + MaxPds <= GdbIdMod /\ IdxLimit + MaxThreads <= GdbIdMod

PdIdsPlaced ==
  \A p \in UsedPds : /\ inferiors[p].gdb_id > 0
                     /\ (inferiors[p].gdb_id - 1) % MaxPds = p
ThreadIdsPlaced ==
  \A s \in Live : /\ threads[s].gdb_id > 0
                  /\ (threads[s].gdb_id - 1) % MaxThreads = s[2]
IdsBelowCursor ==
  \A s \in Slot : threads[s].gdb_id <= inferiors[s[1]].curr_thread_idx

GInv == RInv /\ PdIdsPlaced /\ ThreadIdsPlaced /\ IdsBelowCursor

LEMMA InitGInv == Init => GInv
<1> SUFFICES ASSUME Init PROVE GInv
  OBVIOUS
<1>1. UsedPds = {} /\ Live = {}
  BY DEF Init, UsedPds, Live, IsLive, Slot, NullInferior
<1>2. \A s \in Slot : threads[s].gdb_id = 0 /\ inferiors[s[1]].curr_thread_idx = 0
  BY DEF Init, Slot, NullInferior, NullThread
<1>3. IdsBelowCursor
  BY <1>2 DEF IdsBelowCursor
<1> QED
  BY <1>1, <1>3, InitRInv DEF GInv, PdIdsPlaced, ThreadIdsPlaced

\* Calls that leave the ids alone.
LEMMA SameGInv ==
  ASSUME GInv, SameRegistry, RInv'
  PROVE  GInv'
<1>1. Live' = Live /\ UsedPds' = UsedPds /\ Live \subseteq Slot
  BY SameLive DEF Live
<1>2. PdIdsPlaced' /\ ThreadIdsPlaced' /\ IdsBelowCursor'
  BY <1>1 DEF GInv, PdIdsPlaced, ThreadIdsPlaced, IdsBelowCursor, SameRegistry
<1> QED
  BY <1>2 DEF GInv

LEMMA RegisterInferiorGInv ==
  ASSUME NoIdWrap, GInv, RInv', NEW i, NEW v, RegisterInferior(i, v)
  PROVE  GInv'
<1>1. CASE UNCHANGED <<inferiors, threads>>
  BY <1>1, SameGInv DEF SameRegistry
<1>2. CASE NewInferior(i, v)
  <2>1. PICK p \in Pd \ UsedPds :
          /\ UsedPds' = UsedPds \cup {p}
          /\ inferiors'[p].gdb_id = curr_inferior_idx' % GdbIdMod
          /\ inferiors'[p].curr_thread_idx = 0
          /\ (curr_inferior_idx' - 1) % MaxPds = p
          /\ curr_inferior_idx' \in
               curr_inferior_idx + 1 .. curr_inferior_idx + MaxPds
          /\ \A q \in Pd \ {p} : inferiors'[q] = inferiors[q]
          /\ \A s \in Slot : threads'[s] = IF s[1] = p THEN NullThread
                                                       ELSE threads[s]
          /\ Live' = Live
    BY <1>2, NewInferiorEffect DEF GInv
  <2>2. curr_inferior_idx' \in Nat /\ 0 < curr_inferior_idx'
        /\ curr_inferior_idx' < GdbIdMod
    BY <2>1, CapacityAssumption DEF NoIdWrap, RegisterInferior, GInv, RInv, TypeOK
  <2>3. inferiors'[p].gdb_id = curr_inferior_idx'
    BY <2>1, <2>2, CapacityAssumption
  <2>4. UsedPds \subseteq Pd \ {p}
    BY <2>1 DEF UsedPds
  <2>5. PdIdsPlaced'
    BY <2>1, <2>2, <2>3, <2>4 DEF GInv, PdIdsPlaced
  <2>6. \A s \in Live : s \in Slot /\ s[1] # p
    BY <2>1 DEF Live, IsLive, UsedPds
  <2>7. ThreadIdsPlaced'
    BY <2>1, <2>6 DEF GInv, ThreadIdsPlaced
  <2>8. IdsBelowCursor'
    <3>1. \A s \in Slot : s[1] \in Pd
      BY DEF Slot
    <3> QED
      BY <2>1, <3>1 DEF GInv, IdsBelowCursor, NullThread
  <2> QED
    BY <2>5, <2>7, <2>8 DEF GInv
<1> QED
  BY <1>1, <1>2 DEF RegisterInferior, registry

LEMMA NewThreadGInv ==
  ASSUME NoIdWrap, GInv, RInv', NEW p \in UsedPds, NEW t, NEW tcb \in Tcb,
         inferiors[p].curr_thread_idx < IdxLimit, NewThread(p, t, tcb)
  PROVE  /\ GInv'
         /\ \A s, r \in Slot :
              threads'[s].enabled /\ ~threads[s].enabled /\ r[1] = s[1]
                => threads'[s].gdb_id > threads[r].gdb_id
<1> DEFINE c == inferiors[p].curr_thread_idx
           d == inferiors'[p].curr_thread_idx
<1>1. PICK s \in Slot \ Live :
        /\ s[1] = p
        /\ Live' = Live \cup {s}
        /\ UsedPds' = UsedPds
        /\ d \in c + 1 .. c + MaxThreads
        /\ (d - 1) % MaxThreads = s[2]
        /\ threads'[s].gdb_id = d % GdbIdMod
        /\ inferiors' = [inferiors EXCEPT ![p].curr_thread_idx = d]
        /\ \A r \in Slot \ {s} : threads'[r] = threads[r]
  BY NewThreadEffect DEF GInv
<1>2. p \in Pd /\ c \in Nat /\ c < IdxLimit
  BY DEF UsedPds, GInv, RInv, TypeOK, Inferior
<1>3. d \in Nat /\ c < d /\ d < GdbIdMod
  <2> HIDE DEF c, d
  <2> QED
    BY <1>1, <1>2, CapacityAssumption DEF NoIdWrap
<1>4. threads'[s].gdb_id = d
  <2> HIDE DEF c, d
  <2> QED
    BY <1>1, <1>3, CapacityAssumption
<1>5. \A q \in Pd : /\ inferiors'[q].gdb_id = inferiors[q].gdb_id
                    /\ q # p => inferiors'[q] = inferiors[q]
  BY <1>1, <1>2 DEF GInv, RInv, TypeOK, Inferior
<1>6. PdIdsPlaced'
  BY <1>1, <1>5 DEF GInv, PdIdsPlaced, UsedPds
<1>7. ThreadIdsPlaced'
  <2>1. \A r \in Live : r \in Slot /\ r # s
    BY <1>1 DEF Live
  <2>2. \A r \in Live : /\ threads'[r].gdb_id > 0
                        /\ (threads'[r].gdb_id - 1) % MaxThreads = r[2]
    BY <1>1, <2>1 DEF GInv, ThreadIdsPlaced
  <2>3. threads'[s].gdb_id > 0 /\ (threads'[s].gdb_id - 1) % MaxThreads = s[2]
    <3> HIDE DEF c, d
    <3>1. d > 0
      BY <1>2, <1>3
    <3> QED
      BY <1>1, <1>4, <3>1
  <2>4. \A r \in Live' : /\ threads'[r].gdb_id > 0
                         /\ (threads'[r].gdb_id - 1) % MaxThreads = r[2]
    BY <1>1, <2>2, <2>3
  <2> QED
    BY <2>4 DEF ThreadIdsPlaced
<1>8. \A r \in Slot : r[1] \in Pd /\ threads[r].gdb_id \in Nat
  BY DEF Slot, GInv, RInv, TypeOK, Thread
<1>9. IdsBelowCursor'
  <2>1. \A r \in Slot : r[1] = p /\ r # s => threads'[r].gdb_id <= d
    <3>1. \A r \in Slot : r[1] = p => threads[r].gdb_id <= c
      BY DEF GInv, IdsBelowCursor
    <3> HIDE DEF c, d
    <3> QED
      BY <1>1, <1>2, <1>3, <1>8, <3>1
  <2>2. \A r \in Slot :
          r[1] # p => threads'[r].gdb_id <= inferiors'[r[1]].curr_thread_idx
    BY <1>1, <1>5, <1>8 DEF GInv, IdsBelowCursor
  <2>3. threads'[s].gdb_id <= d
    <3> HIDE DEF c, d
    <3> QED
      BY <1>3, <1>4
  <2> QED
    BY <1>1, <2>1, <2>2, <2>3 DEF IdsBelowCursor
<1>10. \A r \in Slot : r[1] = p => threads'[s].gdb_id > threads[r].gdb_id
  <2>1. \A r \in Slot : r[1] = p => threads[r].gdb_id <= c
    BY DEF GInv, IdsBelowCursor
  <2> HIDE DEF c, d
  <2> QED
    BY <1>2, <1>3, <1>4, <1>8, <2>1
<1> QED
  BY <1>1, <1>6, <1>7, <1>9, <1>10 DEF GInv

\* gdb_register_thread keeps the ids placed, and gives a new one.
LEMMA RegisterThreadGInv ==
  ASSUME NoIdWrap, GInv, RInv', NEW i, NEW t, NEW tcb \in Tcb,
         RegisterThread(i, t, tcb)
  PROVE  /\ GInv'
         /\ \A s, r \in Slot :
              threads'[s].enabled /\ ~threads[s].enabled /\ r[1] = s[1]
                => threads'[s].gdb_id > threads[r].gdb_id
<1>1. CASE UNCHANGED <<inferiors, threads>>
  BY <1>1, SameGInv DEF SameRegistry
<1>2. ASSUME NEW p \in LookupInferior(i),
             inferiors' = [inferiors EXCEPT ![p].curr_thread_idx = @ + MaxThreads],
             UNCHANGED threads
      PROVE  GInv'
  <2>1. p \in Pd /\ TypeOK
    BY DEF LookupInferior, GInv, RInv
  <2>2. /\ Live' = Live /\ UsedPds' = UsedPds
        /\ \A q \in Pd : inferiors'[q].gdb_id = inferiors[q].gdb_id
    BY <1>2, <2>1, CursorSame
  <2>3. \A q \in Pd : inferiors'[q].curr_thread_idx >= inferiors[q].curr_thread_idx
                      /\ inferiors[q].curr_thread_idx \in Nat
                      /\ inferiors'[q].curr_thread_idx \in Nat
    BY <1>2, <2>1, CapacityAssumption DEF TypeOK, Inferior
  <2>4. PdIdsPlaced' /\ ThreadIdsPlaced'
    BY <1>2, <2>2 DEF GInv, PdIdsPlaced, ThreadIdsPlaced, UsedPds
  <2>5. \A s \in Slot : s[1] \in Pd /\ threads[s].gdb_id \in Nat
    BY <2>1 DEF Slot, TypeOK, Thread
  <2>6. IdsBelowCursor'
    BY <1>2, <2>3, <2>5 DEF GInv, IdsBelowCursor
  <2> QED
    BY <2>4, <2>6 DEF GInv
<1>3. ASSUME NEW p \in LookupInferior(i), NewThread(p, t, tcb)
      PROVE  /\ GInv'
             /\ \A s, r \in Slot :
                  threads'[s].enabled /\ ~threads[s].enabled /\ r[1] = s[1]
                    => threads'[s].gdb_id > threads[r].gdb_id
  <2>1. p \in UsedPds /\ inferiors[p].curr_thread_idx < IdxLimit
    BY LookupInferiorUnique DEF GInv, RegisterThread
  <2> QED
    BY <1>3, <2>1, NewThreadGInv
<1> QED
  BY <1>1, <1>2, <1>3 DEF RegisterThread

LEMMA ThreadExitGInv ==
  ASSUME GInv, RInv', NEW i, NEW t, ThreadExit(i, t)
  PROVE  /\ GInv'
         /\ \A s \in Slot : threads'[s].enabled => threads[s].enabled
<1>1. UNCHANGED inferiors
  BY DEF ThreadExit, registry
<1>2. CASE UNCHANGED threads
  BY <1>1, <1>2, SameGInv DEF SameRegistry
<1>3. ASSUME NEW p \in LookupInferior(i), NEW k \in LookupThread(p, t),
             threads' = [threads EXCEPT ![<<p, k>>].enabled = FALSE]
      PROVE  /\ GInv'
             /\ \A s \in Slot : threads'[s].enabled => threads[s].enabled
  <2>1. <<p, k>> \in Slot /\ TypeOK
    BY DEF LookupInferior, LookupThread, Slot, GInv, RInv
  <2>2. /\ Live' \subseteq Live /\ Live \subseteq Slot /\ UsedPds' = UsedPds
        /\ \A r \in Slot : /\ threads'[r].gdb_id = threads[r].gdb_id
                           /\ threads'[r].enabled => threads[r].enabled
    BY <1>1, <1>3, <2>1, ThreadExitEffect DEF Live
  <2>3. PdIdsPlaced' /\ ThreadIdsPlaced' /\ IdsBelowCursor'
    BY <1>1, <2>2 DEF GInv, PdIdsPlaced, ThreadIdsPlaced, IdsBelowCursor
  <2> QED
    BY <2>2, <2>3 DEF GInv
<1> QED
  BY <1>2, <1>3 DEF ThreadExit

LEMMA NextGInv ==
  ASSUME NoIdWrap, GInv, [Next]_coreVars
  PROVE  /\ GInv'
         /\ \A s, r \in Slot :
              threads'[s].enabled /\ ~threads[s].enabled /\ r[1] = s[1]
                => threads'[s].gdb_id > threads[r].gdb_id
<1>1. RInv'
  BY NextRInv DEF GInv
<1>2. ASSUME NEW i \in InferiorId, NEW v \in VSpace, RegisterInferior(i, v)
      PROVE  /\ GInv'
             /\ \A s \in Slot : threads'[s].enabled => threads[s].enabled
  <2>1. GInv'
    BY <1>1, <1>2, RegisterInferiorGInv
  <2>2. CASE UNCHANGED threads
    BY <2>1, <2>2
  <2>3. CASE NewInferior(i, v)
    BY <2>1, <2>3, NewInferiorEffect DEF GInv, NullThread
  <2> QED
    BY <1>2, <2>2, <2>3 DEF RegisterInferior
<1>3. ASSUME NEW i \in InferiorId, NEW t \in ThreadId, NEW c \in Tcb,
             RegisterThread(i, t, c)
      PROVE  /\ GInv'
             /\ \A s, r \in Slot :
                  threads'[s].enabled /\ ~threads[s].enabled /\ r[1] = s[1]
                    => threads'[s].gdb_id > threads[r].gdb_id
  BY <1>1, <1>3, RegisterThreadGInv
<1>4. ASSUME NEW i \in InferiorId, NEW t \in ThreadId, ThreadExit(i, t)
      PROVE  /\ GInv'
             /\ \A s \in Slot : threads'[s].enabled => threads[s].enabled
  BY <1>1, <1>4, ThreadExitGInv
<1>5. ASSUME \/ UNCHANGED coreVars
             \/ SuspendSystem \/ ResumeSystem
             \/ \E i \in InferiorId, t \in ThreadId, k \in FaultKinds : Fault(i, t, k)
             \/ \E pkt \in Packets : GdbHandlePacket(pkt)
      PROVE  /\ GInv'
             /\ \A s \in Slot : threads'[s].enabled => threads[s].enabled
  <2>1. SameRegistry
    BY <1>5, OtherSame DEF GInv, RInv
  <2> QED
    BY <1>1, <2>1, SameGInv DEF SameRegistry
<1> QED
  BY <1>2, <1>3, <1>4, <1>5 DEF Next

LEMMA IdInvariance ==
  ASSUME NoIdWrap
  PROVE  Spec => []GInv
<1>1. GInv /\ [Next]_coreVars => GInv'
  BY NextGInv
<1> QED
  BY <1>1, InitGInv, PTL DEF Spec

\* lookup_thread_from_gdb_id finds each live thread under its gdb ids.
THEOREM IdsResolve ==
  ASSUME NoIdWrap
  PROVE  Spec => []GdbIdsResolve
<1>1. GInv => GdbIdsResolve
  <2> SUFFICES ASSUME GInv, NEW s \in Live
               PROVE  LookupGdbThread(inferiors[s[1]].gdb_id, threads[s].gdb_id) = {s}
    BY DEF GdbIdsResolve
  <2>1. s \in Slot /\ s[1] \in UsedPds /\ s = <<s[1], s[2]>>
    BY DEF Live, IsLive, UsedPds, Slot
  <2>2. LookupGdbInferior(inferiors[s[1]].gdb_id) = {s[1]}
    BY <2>1 DEF GInv, PdIdsPlaced, LookupGdbInferior, UsedPds
  <2>3. /\ threads[s].gdb_id > 0
        /\ s[2] = (threads[s].gdb_id - 1) % MaxThreads /\ s[2] \in Th
    BY <2>1 DEF GInv, ThreadIdsPlaced, Slot
  <2>4. ASSUME NEW r \in {s[1]} \X Th,
               r[2] = (threads[s].gdb_id - 1) % MaxThreads
        PROVE  r = s
    BY <2>1, <2>3, <2>4
  <2> QED
    BY <2>1, <2>2, <2>3, <2>4 DEF LookupGdbThread
<1> QED
  BY <1>1, IdInvariance, PTL

\* gdb_register_thread never gives a thread the 16-bit gdb_id of another thread
\* of the inferior, dead or alive (the byte of it told to GDB may repeat).
THEOREM IdsFresh ==
  ASSUME NoIdWrap
  PROVE  Spec => GdbIdsNeverReused
<1>1. GInv /\ [Next]_coreVars =>
        [\A s, r \in Slot :
           threads'[s].enabled /\ ~threads[s].enabled /\ r[1] = s[1]
             => threads'[s].gdb_id > threads[r].gdb_id]_coreVars
  BY NextGInv
<1> QED
  BY <1>1, IdInvariance, PTL DEF Spec, GdbIdsNeverReused

-----------------------------------------------------------------------------
(* Single stepping *)

\* What KernelStepKnown says of one step: a step hides no stepped thread.
HidesNone == Hidden' \subseteq Hidden
KnownStep ==
  \A s \in Hidden' :
    s \in Hidden \/ (s \notin Live /\ single_step[threads'[s].tcb])

LEMMA SameHidden ==
  ASSUME UNCHANGED <<inferiors, threads, single_step>>
  PROVE  HidesNone
  BY DEF HidesNone, Hidden, Live, IsLive

LEMMA VContHidesNone ==
  ASSUME RInv, NEW acts, HandleVCont(acts)
  PROVE  HidesNone
<1>1. CASE UNCHANGED <<inferiors, threads, single_step>>
  BY <1>1, SameHidden
<1>2. ASSUME NEW n, threads' = VContThreads(acts, n),
             single_step' = VContSingleStep(acts, n), UNCHANGED inferiors
      PROVE  HidesNone
  <2>1. \A s \in Slot : /\ threads'[s].enabled = threads[s].enabled
                        /\ threads'[s].tcb = threads[s].tcb
    BY <1>2, VContKeeps DEF RInv
  <2>2. Live' = Live
    BY <1>2, <2>1 DEF Live, IsLive
  <2>3. SUFFICES ASSUME NEW s \in Live, single_step'[threads[s].tcb],
                        ~threads'[s].ss_enabled
                 PROVE  single_step[threads[s].tcb] /\ ~threads[s].ss_enabled
    BY <2>1, <2>2 DEF HidesNone, Hidden, Live
  <2>4. s \in Slot /\ threads[s].tcb \in Tcb /\ threads[s] \in Thread
    BY DEF Live, RInv, TypeOK, LiveTcbsDistinct
  <2>5. \A r \in Live : threads[r].tcb = threads[s].tcb => r = s
    BY DEF RInv, LiveTcbsDistinct
  <2>6. CASE HandledBy(acts, n, s) = {}
    <3>1. single_step[threads[s].tcb]
      BY <1>2, <2>3, <2>4, <2>5, <2>6 DEF VContSingleStep
    <3>2. threads'[s].ss_enabled = threads[s].ss_enabled
      BY <1>2, <2>4, <2>6 DEF VContThreads, Thread
    <3> QED
      BY <2>3, <3>1, <3>2
  <2>7. CASE HandledBy(acts, n, s) # {}
    <3>1. PICK k \in HandledBy(acts, n, s) : acts[k].kind = "s"
      BY <1>2, <2>3, <2>4, <2>5, <2>7 DEF VContSingleStep
    <3>2. n # 0
      BY <3>1 DEF HandledBy
    <3>3. threads'[s].ss_enabled
      BY <1>2, <2>4, <3>1, <3>2 DEF VContThreads, Thread
    <3> QED
      BY <2>3, <3>3
  <2> QED
    BY <2>6, <2>7
<1> QED
  BY <1>1, <1>2 DEF HandleVCont, Stuck, registry

\* The flag handle_detach clears is that of a thread whose stepping it ends.
LEMMA DetachHidesNone ==
  ASSUME RInv, HandleDetach
  PROVE  HidesNone
<1>1. \A s \in Slot : /\ threads'[s].enabled = threads[s].enabled
                      /\ threads'[s].tcb = threads[s].tcb
  BY DEF HandleDetach, RInv, TypeOK, Thread
<1>2. Live' = Live
  BY <1>1 DEF HandleDetach, registry, Live, IsLive
<1>3. ASSUME NEW s \in Live, single_step'[threads[s].tcb]
      PROVE  single_step[threads[s].tcb] /\ ~threads[s].ss_enabled
  <2>1. threads[s].tcb \in Tcb
    BY DEF RInv, LiveTcbsDistinct
  <2>2. single_step[threads[s].tcb] /\ threads[s].tcb \notin SteppedTcbs
    BY <1>3, <2>1 DEF HandleDetach
  <2> QED
    BY <2>2 DEF SteppedTcbs
<1> QED
  BY <1>1, <1>2, <1>3 DEF HidesNone, Hidden, Live

LEMMA PacketHidesNone ==
  ASSUME RInv, NEW pkt \in Packets, HandlePacket(pkt)
  PROVE  HidesNone
<1>1. ASSUME UNCHANGED <<registry, threads, single_step>> PROVE HidesNone
  BY <1>1, SameHidden DEF registry
<1>2. ASSUME NEW m, JustReply(m) PROVE HidesNone
  BY <1>1, <1>2 DEF JustReply
<1>3. ASSUME NEW how, Stuck(how) PROVE HidesNone
  BY <1>1, <1>3 DEF Stuck
<1>4. ASSUME NEW pid, NEW tid, HandleSetInferior(pid, tid) PROVE HidesNone
  BY <1>1, <1>2, <1>3, <1>4 DEF HandleSetInferior
<1>5. ASSUME NEW pid, NEW tid, HandleCheckThreadAlive(pid, tid) PROVE HidesNone
  BY <1>2, <1>3, <1>5 DEF HandleCheckThreadAlive
<1>6. ASSUME NEW op, HandleRegs(op) PROVE HidesNone
  BY <1>2, <1>3, <1>6 DEF HandleRegs
<1>7. ASSUME NEW op, HandleQuery(op) PROVE HidesNone
  BY <1>2, <1>7 DEF HandleQuery
<1> QED
  BY <1>4, <1>5, <1>6, <1>7, VContHidesNone, DetachHidesNone DEF HandlePacket

\* gdb_register_thread leaves the kernel's flag of the TCB as it finds it.
LEMMA RegisterThreadKnownStep ==
  ASSUME RInv, NEW i, NEW t, NEW tcb \in Tcb, RegisterThread(i, t, tcb)
  PROVE  KnownStep
<1>1. UNCHANGED single_step
  BY DEF RegisterThread
<1>2. CASE UNCHANGED <<inferiors, threads>>
  BY <1>1, <1>2, SameHidden DEF HidesNone, KnownStep
<1>3. ASSUME NEW p \in LookupInferior(i),
             inferiors' = [inferiors EXCEPT ![p].curr_thread_idx = @ + MaxThreads],
             UNCHANGED threads
      PROVE  KnownStep
  <2>1. p \in Pd
    BY DEF LookupInferior
  <2>2. Live' = Live
    BY <1>3, <2>1, CursorSame DEF RInv
  <2> QED
    BY <1>1, <1>3, <2>2 DEF KnownStep, Hidden
<1>4. ASSUME NEW p \in LookupInferior(i), NewThread(p, t, tcb) PROVE KnownStep
  <2>1. p \in UsedPds
    BY LookupInferiorUnique
  <2>2. PICK s \in Slot \ Live :
          /\ Live' = Live \cup {s}
          /\ \A r \in Slot \ {s} : threads'[r] = threads[r]
    BY <1>4, <2>1, NewThreadEffect
  <2>3. \A r \in Live : r \in Slot \ {s}
    BY <2>2 DEF Live
  <2> QED
    BY <1>1, <2>2, <2>3 DEF KnownStep, Hidden
<1> QED
  BY <1>2, <1>3, <1>4 DEF RegisterThread

LEMMA NextKnownStep ==
  ASSUME RInv, Next
  PROVE  KnownStep
<1>1. HidesNone => KnownStep
  BY DEF HidesNone, KnownStep
<1>2. ASSUME NEW i \in InferiorId, NEW v \in VSpace, RegisterInferior(i, v)
      PROVE  HidesNone
  <2>1. CASE NewInferior(i, v)
    <3>1. PICK p \in Pd \ UsedPds :
            /\ \A s \in Slot : threads'[s] = IF s[1] = p THEN NullThread
                                                         ELSE threads[s]
            /\ Live' = Live
      BY <2>1, NewInferiorEffect
    <3>2. \A s \in Live : threads'[s] = threads[s]
      BY <3>1 DEF Live, IsLive, UsedPds
    <3> QED
      BY <1>2, <3>1, <3>2 DEF HidesNone, Hidden, RegisterInferior
  <2> QED
    BY <1>2, <2>1, SameHidden DEF RegisterInferior, registry
<1>3. ASSUME NEW i \in InferiorId, NEW t \in ThreadId, NEW c \in Tcb,
             RegisterThread(i, t, c)
      PROVE  KnownStep
  BY <1>3, RegisterThreadKnownStep
<1>4. ASSUME NEW i \in InferiorId, NEW t \in ThreadId, ThreadExit(i, t)
      PROVE  HidesNone
  <2>1. ASSUME NEW p \in LookupInferior(i), NEW k \in LookupThread(p, t),
               threads' = [threads EXCEPT ![<<p, k>>].enabled = FALSE]
        PROVE  HidesNone
    <3>1. <<p, k>> \in Slot /\ UNCHANGED <<inferiors, single_step>>
      BY <1>4 DEF LookupInferior, LookupThread, Slot, ThreadExit, registry
    <3>2. /\ Live' \subseteq Live /\ Live \subseteq Slot
          /\ \A r \in Slot : /\ threads'[r].tcb = threads[r].tcb
                             /\ threads'[r].ss_enabled = threads[r].ss_enabled
      BY <2>1, <3>1, ThreadExitEffect DEF RInv, Live
    <3> QED
      BY <3>1, <3>2 DEF HidesNone, Hidden
  <2> QED
    BY <1>4, <2>1, SameHidden DEF ThreadExit, registry
<1>5. ASSUME NEW pkt \in Packets, GdbHandlePacket(pkt)
      PROVE  HidesNone
  BY <1>5, PacketHidesNone DEF GdbHandlePacket
<1>6. ASSUME \/ SuspendSystem \/ ResumeSystem
             \/ \E i \in InferiorId, t \in ThreadId, k \in FaultKinds : Fault(i, t, k)
      PROVE  HidesNone
  BY <1>6, SameHidden
     DEF registry, SuspendSystem, ResumeSystem, Fault, HandleFault
<1> QED
  BY <1>1, <1>2, <1>3, <1>4, <1>5, <1>6 DEF Next

\* handle_detach ends the stepping of the threads whose ss_enabled is set: those
\* are all that the kernel steps, but for threads registered on a TCB that was
\* stepped already.
THEOREM StepKnown == Spec => KernelStepKnown
<1>1. RInv /\ [Next]_coreVars =>
        [\A s \in Hidden' :
           s \in Hidden \/ (s \notin Live /\ single_step[threads'[s].tcb])]_coreVars
  BY NextKnownStep DEF KnownStep
<1> QED
  BY <1>1, RegistryInvariance, PTL DEF Spec, KernelStepKnown

-----------------------------------------------------------------------------
(* The search for a free slot *)

LEMMA Least ==
  ASSUME NEW S \in SUBSET Nat, S # {}
  PROVE  \E m \in S : \A n \in S : m <= n
<1>1. PICK m \in S : \A n \in S : <<n, m>> \notin OpToRel(<, Nat)
  BY NatLessThanWellFounded, WFMin
<1>2. \A n \in S : m \in Nat /\ n \in Nat /\ ~(n < m)
  BY <1>1 DEF OpToRel
<1>3. \A n \in S : m <= n
  BY <1>2
<1> QED
  BY <1>3

\* n slots counted from any of them are all slots.
LEMMA Rotation ==
  ASSUME NEW n \in Nat \ {0}, NEW c \in Nat, NEW x \in 0 .. n - 1
  PROVE  \E k \in 0 .. n - 1 : (c + k) % n = x
<1> DEFINE q == c \div n
           r == c % n
<1>1. q \in Nat /\ r \in 0 .. n - 1 /\ c = (n * q) + r
  BY SMT
<1>2. ASSUME NEW m \in Nat PROVE ((n * m) + x) % n = x
  BY <1>2, SMT
<1> HIDE DEF q, r
<1>3. n * (q + 1) = (n * q) + n
  BY <1>1
<1>4. CASE r <= x
  <2>1. x - r \in 0 .. n - 1 /\ c + (x - r) = (n * q) + x
    BY <1>1, <1>4
  <2>2. ((n * q) + x) % n = x
    BY <1>1, <1>2
  <2> QED
    BY <2>1, <2>2, Zenon
<1>5. CASE x < r
  <2>1. x - r + n \in 0 .. n - 1 /\ c + (x - r + n) = (n * (q + 1)) + x
    BY <1>1, <1>3, <1>5
  <2>2. ((n * (q + 1)) + x) % n = x
    BY <1>1, <1>2
  <2> QED
    BY <2>1, <2>2, Zenon
<1> QED
  BY <1>1, <1>4, <1>5

\* A search that finds no slot has seen every slot in use.
LEMMA FirstFreeFull ==
  ASSUME NEW n \in Nat \ {0}, NEW c \in Nat, NEW used, FirstFree(c, n, used) = {}
  PROVE  0 .. n - 1 \subseteq used
<1> DEFINE free == {k \in 0 .. n - 1 : (c + k) % n \notin used}
<1>1. free = {}
  <2> SUFFICES ASSUME free # {} PROVE FALSE
    OBVIOUS
  <2>1. free \in SUBSET Nat
    OBVIOUS
  <2>2. PICK m \in free : \A k \in free : m <= k
    BY <2>1, Least
  <2>3. \A j \in 0 .. m - 1 : j \in 0 .. n - 1 /\ ~(m <= j)
    OBVIOUS
  <2>4. \A j \in 0 .. m - 1 : (c + j) % n \in used
    BY <2>2, <2>3
  <2> QED
    BY <2>4 DEF FirstFree
<1>2. ASSUME NEW x \in 0 .. n - 1 PROVE x \in used
  <2>1. PICK k \in 0 .. n - 1 : (c + k) % n = x
    BY Rotation
  <2> QED
    BY <1>1, <2>1
<1> QED
  BY <1>2

\* A search that starts at a free slot ends there.
LEMMA FirstFreeHere ==
  ASSUME NEW n \in Nat \ {0}, NEW c \in 0 .. n - 1, NEW used, c \notin used
  PROVE  0 \in FirstFree(c, n, used) /\ \A k \in FirstFree(c, n, used) : k = 0
<1>1. (c + 0) % n = c
  BY SMT
<1>2. 0 \in 0 .. n - 1 /\ 0 .. 0 - 1 = {}
  OBVIOUS
<1>3. 0 \in FirstFree(c, n, used)
  BY <1>1, <1>2 DEF FirstFree
<1>4. ASSUME NEW k \in FirstFree(c, n, used) PROVE k = 0
  <2>1. k \in 0 .. n - 1 /\ \A j \in 0 .. k - 1 : (c + j) % n \in used
    BY DEF FirstFree
  <2>2. k # 0 => 0 \in 0 .. k - 1
    BY <2>1
  <2> QED
    BY <1>1, <2>1, <2>2
<1> QED
  BY <1>3, <1>4

\* A registration moves a cursor onto the slot it fills, or because the array
\* is full.
THEOREM RefusalsJustified == Spec => RefusesOnlyWhenFull
<1>1. ASSUME RInv, [Next]_coreVars
      PROVE  /\ curr_inferior_idx' # curr_inferior_idx
                  => \/ \E p \in Pd : p \notin UsedPds
                                    /\ inferiors'[p].gdb_id =
                                         curr_inferior_idx' % GdbIdMod
                     \/ UsedPds = Pd
             /\ \A p \in UsedPds :
                  inferiors'[p].curr_thread_idx # inferiors[p].curr_thread_idx
                    => \/ \E t \in Th \ UsedThreads(p) :
                            threads'[<<p, t>>].gdb_id =
                              inferiors'[p].curr_thread_idx % GdbIdMod
                       \/ UsedThreads(p) = Th
  <2>1. ASSUME UNCHANGED registry
        PROVE  /\ curr_inferior_idx' = curr_inferior_idx
               /\ \A p \in UsedPds :
                    inferiors'[p].curr_thread_idx = inferiors[p].curr_thread_idx
    BY <2>1 DEF registry
  <2>2. ASSUME NEW i, NEW v, RegisterInferior(i, v)
        PROVE  /\ \/ \E p \in Pd : p \notin UsedPds
                                  /\ inferiors'[p].gdb_id =
                                       curr_inferior_idx' % GdbIdMod
                  \/ UsedPds = Pd
                  \/ curr_inferior_idx' = curr_inferior_idx
               /\ \A p \in UsedPds :
                    inferiors'[p].curr_thread_idx = inferiors[p].curr_thread_idx
    <3>1. CASE UNCHANGED registry
      BY <2>1, <3>1
    <3>2. CASE NewInferior(i, v)
      <4>1. PICK p \in Pd \ UsedPds :
              /\ inferiors'[p].gdb_id = curr_inferior_idx' % GdbIdMod
              /\ \A q \in Pd \ {p} : inferiors'[q] = inferiors[q]
        BY <1>1, <3>2, NewInferiorEffect
      <4>2. UsedPds \subseteq Pd \ {p}
        BY <4>1 DEF UsedPds
      <4> QED
        BY <4>1, <4>2
    <3>3. CASE FirstFree(curr_inferior_idx, MaxPds, UsedPds) = {}
               /\ UNCHANGED inferiors
      <4>1. Pd \subseteq UsedPds
        BY <1>1, <3>3, FirstFreeFull, CapacityAssumption DEF RInv, TypeOK, Pd
      <4> QED
        BY <3>3, <4>1 DEF UsedPds
    <3> QED
      BY <2>2, <3>1, <3>2, <3>3 DEF RegisterInferior
  <2>3. ASSUME NEW i, NEW t, NEW c \in Tcb, RegisterThread(i, t, c)
        PROVE  /\ curr_inferior_idx' = curr_inferior_idx
               /\ \A p \in UsedPds :
                    inferiors'[p].curr_thread_idx # inferiors[p].curr_thread_idx
                      => \/ \E u \in Th \ UsedThreads(p) :
                              threads'[<<p, u>>].gdb_id =
                                inferiors'[p].curr_thread_idx % GdbIdMod
                         \/ UsedThreads(p) = Th
    <3>1. curr_inferior_idx' = curr_inferior_idx
      BY <2>3 DEF RegisterThread
    <3>2. CASE UNCHANGED inferiors
      BY <3>1, <3>2
    <3>3. ASSUME NEW p \in LookupInferior(i), NewThread(p, t, c)
          PROVE  /\ \E u \in Th \ UsedThreads(p) :
                       threads'[<<p, u>>].gdb_id =
                         inferiors'[p].curr_thread_idx % GdbIdMod
                 /\ \A q \in Pd \ {p} : inferiors'[q] = inferiors[q]
      <4>1. p \in UsedPds /\ p \in Pd
        BY <1>1, LookupInferiorUnique DEF UsedPds
      <4>2. PICK s \in Slot \ Live :
              /\ s[1] = p
              /\ threads'[s].gdb_id = inferiors'[p].curr_thread_idx % GdbIdMod
              /\ inferiors' = [inferiors EXCEPT ![p].curr_thread_idx =
                                 inferiors'[p].curr_thread_idx]
        BY <1>1, <3>3, <4>1, NewThreadEffect
      <4>3. s[2] \in Th \ UsedThreads(p) /\ s = <<p, s[2]>>
        BY <4>1, <4>2 DEF Live, IsLive, UsedPds, UsedThreads, Slot
      <4>4. \A q \in Pd \ {p} : inferiors'[q] = inferiors[q]
        BY <1>1, <4>2 DEF RInv, TypeOK
      <4> QED
        BY <4>2, <4>3, <4>4
    <3>4. ASSUME NEW p \in LookupInferior(i),
                 FirstFree(inferiors[p].curr_thread_idx, MaxThreads,
                           UsedThreads(p)) = {},
                 inferiors' = [inferiors EXCEPT ![p].curr_thread_idx =
                                 @ + MaxThreads]
          PROVE  /\ UsedThreads(p) = Th
                 /\ \A q \in Pd \ {p} : inferiors'[q] = inferiors[q]
      <4>1. p \in Pd /\ inferiors[p].curr_thread_idx \in Nat
        BY <1>1 DEF LookupInferior, RInv, TypeOK, Inferior
      <4>2. Th \subseteq UsedThreads(p)
        BY <3>4, <4>1, FirstFreeFull, CapacityAssumption DEF Th
      <4> QED
        BY <1>1, <3>4, <4>2 DEF UsedThreads, RInv, TypeOK
    <3>5. UsedPds \subseteq Pd
      BY DEF UsedPds
    <3> QED
      BY <2>3, <3>1, <3>2, <3>3, <3>4, <3>5 DEF RegisterThread
  <2>4. ASSUME \/ UNCHANGED coreVars
               \/ SuspendSystem \/ ResumeSystem
               \/ \E i \in InferiorId, t \in ThreadId : ThreadExit(i, t)
               \/ \E i \in InferiorId, t \in ThreadId, k \in FaultKinds :
                    Fault(i, t, k)
               \/ \E pkt \in Packets : GdbHandlePacket(pkt)
        PROVE  UNCHANGED registry
    <3>1. ASSUME NEW pkt \in Packets, GdbHandlePacket(pkt) PROVE UNCHANGED registry
      BY <1>1, <3>1, PacketOps, HandlePacketEffect
         DEF GdbHandlePacket, PacketEffect, RInv
    <3> QED
      BY <2>4, <3>1 DEF coreVars, registry, SuspendSystem, ResumeSystem,
                        ThreadExit, Fault, HandleFault
  <2> QED
    BY <1>1, <2>1, <2>2, <2>3, <2>4 DEF Next
<1>2. RInv /\ [Next]_coreVars =>
        [/\ curr_inferior_idx' # curr_inferior_idx
              => \/ \E p \in Pd : p \notin UsedPds
                                /\ inferiors'[p].gdb_id =
                                     curr_inferior_idx' % GdbIdMod
                 \/ UsedPds = Pd
         /\ \A p \in UsedPds :
              inferiors'[p].curr_thread_idx # inferiors[p].curr_thread_idx
                => \/ \E t \in Th \ UsedThreads(p) :
                        threads'[<<p, t>>].gdb_id =
                          inferiors'[p].curr_thread_idx % GdbIdMod
                   \/ UsedThreads(p) = Th]_coreVars
  BY <1>1
<1> QED
  BY <1>2, RegistryInvariance, PTL DEF Spec, RefusesOnlyWhenFull

-----------------------------------------------------------------------------
(* The ids on the wire *)

\* Fewer registrations than one byte counts.
FewRegistrations == IdxLimit < WireMod /\ WireMod <= GdbIdMod
\* A thread-id is read as it was written.
ReadAsWritten == (MaxPds < OneDigit /\ IdxLimit < OneDigit) \/ Junk \subseteq {0}

\* As long as that is so the slots are filled in order, and never twice.
PdsInOrder ==
  \A p \in Pd : /\ p \in UsedPds <=> p < curr_inferior_idx
                /\ p \in UsedPds => inferiors[p].gdb_id = p + 1
ThreadsInOrder ==
  \A s \in Slot :
    /\ inferiors[s[1]].curr_thread_idx <= IdxLimit
    /\ threads[s].enabled => /\ s[2] < inferiors[s[1]].curr_thread_idx
                             /\ threads[s].gdb_id = s[2] + 1
FreshInv == RInv /\ PdsInOrder /\ ThreadsInOrder

LEMMA InitFreshInv == Init => FreshInv
<1> SUFFICES ASSUME Init PROVE FreshInv
  OBVIOUS
<1>1. UsedPds = {} /\ curr_inferior_idx = 0
  BY DEF Init, UsedPds, NullInferior
<1>2. PdsInOrder
  BY <1>1 DEF PdsInOrder, Pd
<1>3. ThreadsInOrder
  <2>1. \A s \in Slot : s[1] \in Pd /\ threads[s] = NullThread
                        /\ inferiors[s[1]] = NullInferior
    BY DEF Init, Slot
  <2> QED
    BY <2>1, CapacityAssumption DEF ThreadsInOrder, NullThread, NullInferior
<1> QED
  BY <1>2, <1>3, InitRInv DEF FreshInv

\* Calls that register nothing: no slot is filled.
LEMMA SameFreshInv ==
  ASSUME FreshInv, RInv', UNCHANGED <<curr_inferior_idx, inferiors>>,
         \A s \in Slot : /\ threads'[s].enabled => threads[s].enabled
                         /\ threads'[s].gdb_id = threads[s].gdb_id
  PROVE  FreshInv'
<1>1. PdsInOrder'
  BY DEF FreshInv, PdsInOrder, UsedPds
<1>2. ThreadsInOrder'
  BY DEF FreshInv, ThreadsInOrder
<1> QED
  BY <1>1, <1>2 DEF FreshInv

LEMMA RegisterInferiorFresh ==
  ASSUME FewRegistrations, FreshInv, RInv', NEW i, NEW v, RegisterInferior(i, v)
  PROVE  FreshInv'
<1>1. /\ curr_inferior_idx \in Nat /\ MaxPds \in Nat \ {0} /\ Pd = 0 .. MaxPds - 1
      /\ MaxPds < GdbIdMod /\ GdbIdMod \in Nat
  BY CapacityAssumption DEF FewRegistrations, FreshInv, RInv, TypeOK, Pd
<1>2. CASE UNCHANGED <<registry, threads>>
  BY <1>2, SameFreshInv DEF registry
<1>3. CASE FirstFree(curr_inferior_idx, MaxPds, UsedPds) = {}
           /\ curr_inferior_idx' = curr_inferior_idx + MaxPds
           /\ UNCHANGED <<inferiors, threads>>
  <2>1. Pd \subseteq UsedPds
    BY <1>1, <1>3, FirstFreeFull
  <2>2. \A p \in Pd : p < curr_inferior_idx
    BY <2>1 DEF FreshInv, PdsInOrder
  <2>3. \A p \in Pd : p < curr_inferior_idx'
    BY <1>1, <1>3, <2>2
  <2>4. PdsInOrder'
    BY <1>3, <2>1, <2>3 DEF FreshInv, PdsInOrder, UsedPds
  <2>5. ThreadsInOrder'
    BY <1>3 DEF FreshInv, ThreadsInOrder
  <2> QED
    BY <2>4, <2>5 DEF FreshInv
<1>4. CASE NewInferior(i, v)
  <2>1. PICK p \in Pd \ UsedPds :
          /\ UsedPds' = UsedPds \cup {p}
          /\ inferiors'[p].gdb_id = curr_inferior_idx' % GdbIdMod
          /\ inferiors'[p].curr_thread_idx = 0
          /\ (curr_inferior_idx' - 1) % MaxPds = p
          /\ curr_inferior_idx' - (curr_inferior_idx + 1)
               \in FirstFree(curr_inferior_idx, MaxPds, UsedPds)
          /\ curr_inferior_idx' \in
               curr_inferior_idx + 1 .. curr_inferior_idx + MaxPds
          /\ \A q \in Pd \ {p} : inferiors'[q] = inferiors[q]
          /\ \A s \in Slot : threads'[s] = IF s[1] = p THEN NullThread
                                                       ELSE threads[s]
    BY <1>4, NewInferiorEffect DEF FreshInv
  <2>2. curr_inferior_idx \in Pd /\ curr_inferior_idx \notin UsedPds
    <3>1. ~(p < curr_inferior_idx)
      BY <2>1 DEF FreshInv, PdsInOrder
    <3>2. curr_inferior_idx \in Pd
      BY <1>1, <2>1, <3>1
    <3> QED
      BY <1>1, <3>2 DEF FreshInv, PdsInOrder
  <2>3. curr_inferior_idx' = curr_inferior_idx + 1
    <3>1. curr_inferior_idx' - (curr_inferior_idx + 1) = 0
      BY <1>1, <2>1, <2>2, FirstFreeHere
    <3>2. curr_inferior_idx' \in Int /\ curr_inferior_idx \in Int
      BY <1>1, <2>1
    <3>3. \A a, b \in Int : a - (b + 1) = 0 => a = b + 1
      OBVIOUS
    <3> QED
      BY <3>1, <3>2, <3>3
  <2>4. p = curr_inferior_idx
    <3>1. curr_inferior_idx' - 1 = curr_inferior_idx
      BY <1>1, <2>3
    <3>2. curr_inferior_idx % MaxPds = curr_inferior_idx
      BY <1>1, <2>2
    <3> QED
      BY <2>1, <3>1, <3>2
  <2>5. inferiors'[p].gdb_id = p + 1
    <3>1. p + 1 \in Nat /\ p + 1 < GdbIdMod
      BY <1>1, <2>2, <2>4
    <3> QED
      BY <1>1, <2>1, <2>3, <2>4, <3>1
  <2>6. PdsInOrder'
    <3>1. ASSUME NEW q \in Pd
          PROVE  /\ q \in UsedPds' <=> q < curr_inferior_idx'
                 /\ q \in UsedPds' => inferiors'[q].gdb_id = q + 1
      <4>1. q < curr_inferior_idx' <=> q < curr_inferior_idx \/ q = p
        BY <1>1, <2>3, <2>4
      <4> QED
        BY <2>1, <2>5, <4>1 DEF FreshInv, PdsInOrder
    <3> QED
      BY <3>1 DEF PdsInOrder
  <2>7. ThreadsInOrder'
    <3>1. \A s \in Slot : s[1] \in Pd
      BY DEF Slot
    <3>2. 0 <= IdxLimit /\ ~NullThread.enabled
      BY CapacityAssumption DEF NullThread
    <3> QED
      BY <2>1, <3>1, <3>2 DEF FreshInv, ThreadsInOrder
  <2> QED
    BY <2>6, <2>7 DEF FreshInv
<1> QED
  BY <1>2, <1>3, <1>4 DEF RegisterInferior

LEMMA RegisterThreadFresh ==
  ASSUME FewRegistrations, FreshInv, RInv', NEW i, NEW t, NEW tcb \in Tcb,
         RegisterThread(i, t, tcb)
  PROVE  FreshInv'
<1>1. /\ MaxThreads \in Nat \ {0} /\ Th = 0 .. MaxThreads - 1
      /\ IdxLimit \in Nat /\ IdxLimit < MaxThreads /\ IdxLimit < GdbIdMod
      /\ GdbIdMod \in Nat
  BY CapacityAssumption DEF FewRegistrations, Th
<1>2. curr_inferior_idx' = curr_inferior_idx
  BY DEF RegisterThread
<1>3. CASE UNCHANGED <<inferiors, threads>>
  BY <1>2, <1>3, SameFreshInv
<1>4. ASSUME NEW p \in LookupInferior(i)
      PROVE  /\ p \in UsedPds /\ p \in Pd
             /\ inferiors[p].curr_thread_idx \in 0 .. MaxThreads - 1
             /\ inferiors[p].curr_thread_idx < IdxLimit
             /\ inferiors[p].curr_thread_idx \notin UsedThreads(p)
  <2>1. p \in UsedPds /\ p \in Pd
    BY LookupInferiorUnique DEF FreshInv, UsedPds
  <2>2. inferiors[p].curr_thread_idx \in Nat
        /\ inferiors[p].curr_thread_idx < IdxLimit
    BY <2>1 DEF FreshInv, RInv, TypeOK, Inferior, RegisterThread
  <2>3. ASSUME NEW u \in UsedThreads(p) PROVE u < inferiors[p].curr_thread_idx
    <3>1. <<p, u>> \in Slot /\ threads[<<p, u>>].enabled
      BY <2>1 DEF UsedThreads, Slot
    <3> QED
      BY <3>1 DEF FreshInv, ThreadsInOrder
  <2> QED
    BY <1>1, <2>1, <2>2, <2>3
<1>5. ASSUME NEW p \in LookupInferior(i), NewThread(p, t, tcb)
      PROVE  FreshInv'
  <2> DEFINE c == inferiors[p].curr_thread_idx
             d == inferiors'[p].curr_thread_idx
  <2>1. PICK s \in Slot \ Live :
          /\ s[1] = p
          /\ d \in c + 1 .. c + MaxThreads
          /\ d - (c + 1) \in FirstFree(c, MaxThreads, UsedThreads(p))
          /\ (d - 1) % MaxThreads = s[2]
          /\ threads'[s].gdb_id = d % GdbIdMod
          /\ inferiors' = [inferiors EXCEPT ![p].curr_thread_idx = d]
          /\ \A r \in Slot \ {s} : threads'[r] = threads[r]
    BY <1>4, <1>5, NewThreadEffect DEF FreshInv
  <2>2. c \in 0 .. MaxThreads - 1 /\ c < IdxLimit /\ c \notin UsedThreads(p)
    BY <1>4
  <2>3. /\ \A q \in Pd : /\ inferiors'[q].enabled = inferiors[q].enabled
                         /\ inferiors'[q].gdb_id = inferiors[q].gdb_id
                         /\ q # p => inferiors'[q] = inferiors[q]
    BY <1>4, <2>1 DEF FreshInv, RInv, TypeOK, Inferior
  <2> HIDE DEF c, d
  <2>4. d = c + 1 /\ d <= IdxLimit
    <3>1. d - (c + 1) = 0
      BY <1>1, <2>1, <2>2, FirstFreeHere
    <3> QED
      BY <1>1, <2>1, <2>2, <3>1
  <2>5. s[2] = c /\ threads'[s].gdb_id = c + 1
    <3>1. d - 1 = c /\ d \in Nat /\ d < GdbIdMod
      BY <1>1, <2>2, <2>4
    <3>2. c % MaxThreads = c /\ d % GdbIdMod = d
      BY <1>1, <2>2, <3>1
    <3> QED
      BY <2>1, <2>4, <3>1, <3>2
  <2>6. PdsInOrder'
    BY <1>2, <2>3 DEF FreshInv, PdsInOrder, UsedPds
  <2>7. ThreadsInOrder'
    <3>1. ASSUME NEW r \in Slot
          PROVE  /\ inferiors'[r[1]].curr_thread_idx <= IdxLimit
                 /\ threads'[r].enabled =>
                      /\ r[2] < inferiors'[r[1]].curr_thread_idx
                      /\ threads'[r].gdb_id = r[2] + 1
      <4>1. r[1] \in Pd /\ r[2] \in Nat
        BY <1>1 DEF Slot
      <4>2. CASE r[1] # p
        BY <2>1, <2>3, <4>1, <4>2 DEF FreshInv, ThreadsInOrder
      <4>3. CASE r = s
        <5>1. inferiors'[r[1]].curr_thread_idx = d
          BY <2>1, <4>3 DEF d
        <5> QED
          BY <2>2, <2>4, <2>5, <4>3, <5>1
      <4>4. CASE r[1] = p /\ r # s
        <5>1. threads[r].enabled => r[2] < c /\ threads[r].gdb_id = r[2] + 1
          BY <4>4 DEF FreshInv, ThreadsInOrder, c
        <5>2. threads'[r] = threads[r] /\ inferiors'[r[1]].curr_thread_idx = d
          BY <2>1, <4>4 DEF d
        <5> QED
          BY <2>2, <2>4, <4>1, <5>1, <5>2
      <4> QED
        BY <4>2, <4>3, <4>4
    <3> QED
      BY <3>1 DEF ThreadsInOrder
  <2> QED
    BY <2>6, <2>7 DEF FreshInv
<1>6. ASSUME NEW p \in LookupInferior(i),
             FirstFree(inferiors[p].curr_thread_idx, MaxThreads,
                       UsedThreads(p)) = {}
      PROVE  FALSE
  BY <1>1, <1>4, <1>6, FirstFreeHere
<1> QED
  BY <1>3, <1>5, <1>6 DEF RegisterThread

LEMMA NextFreshInv ==
  ASSUME FewRegistrations, FreshInv, [Next]_coreVars
  PROVE  FreshInv'
<1>1. RInv'
  BY NextRInv DEF FreshInv
<1>2. ASSUME NEW i \in InferiorId, NEW v \in VSpace, RegisterInferior(i, v)
      PROVE  FreshInv'
  BY <1>1, <1>2, RegisterInferiorFresh
<1>3. ASSUME NEW i \in InferiorId, NEW t \in ThreadId, NEW c \in Tcb,
             RegisterThread(i, t, c)
      PROVE  FreshInv'
  BY <1>1, <1>3, RegisterThreadFresh
<1>4. ASSUME NEW i \in InferiorId, NEW t \in ThreadId, ThreadExit(i, t)
      PROVE  FreshInv'
  <2>1. \A s \in Slot : /\ threads'[s].enabled => threads[s].enabled
                        /\ threads'[s].gdb_id = threads[s].gdb_id
    <3>1. UNCHANGED inferiors /\ TypeOK
      BY <1>4 DEF ThreadExit, registry, FreshInv, RInv
    <3>2. ASSUME NEW p \in LookupInferior(i), NEW k \in LookupThread(p, t)
          PROVE  <<p, k>> \in Slot
      BY DEF LookupInferior, LookupThread, Slot
    <3> QED
      BY <1>4, <3>1, <3>2, ThreadExitEffect DEF ThreadExit
  <2> QED
    BY <1>1, <1>4, <2>1, SameFreshInv DEF ThreadExit, registry
<1>5. ASSUME \/ UNCHANGED coreVars
             \/ SuspendSystem \/ ResumeSystem
             \/ \E i \in InferiorId, t \in ThreadId, k \in FaultKinds : Fault(i, t, k)
             \/ \E pkt \in Packets : GdbHandlePacket(pkt)
      PROVE  FreshInv'
  <2>1. SameRegistry
    BY <1>5, OtherSame DEF FreshInv, RInv
  <2>2. UNCHANGED curr_inferior_idx
    <3>1. ASSUME NEW pkt \in Packets, GdbHandlePacket(pkt)
          PROVE  UNCHANGED curr_inferior_idx
      BY <3>1, PacketOps, HandlePacketEffect
         DEF GdbHandlePacket, PacketEffect, FreshInv, RInv, registry
    <3> QED
      BY <1>5, <3>1 DEF coreVars, registry, SuspendSystem, ResumeSystem, Fault,
                        HandleFault
  <2> QED
    BY <1>1, <2>1, <2>2, SameFreshInv DEF SameRegistry
<1> QED
  BY <1>2, <1>3, <1>4, <1>5 DEF Next

LEMMA FreshInvariance ==
  ASSUME FewRegistrations
  PROVE  Spec => []FreshInv
<1>1. FreshInv /\ [Next]_coreVars => FreshInv'
  BY NextFreshInv
<1> QED
  BY <1>1, InitFreshInv, PTL DEF Spec

\* What write_thread_id prints of a live thread is what
\* lookup_thread_from_gdb_id finds it by.
LEMMA WireIdResolves ==
  ASSUME FewRegistrations, FreshInv, NEW s \in Live
  PROVE  /\ WirePid(s[1]) \in 1 .. MaxPds
         /\ WireTid(s) \in 1 .. IdxLimit
         /\ LookupGdbInferior(WirePid(s[1])) = {s[1]}
         /\ LookupGdbThread(WirePid(s[1]), WireTid(s)) = {s}
<1>1. /\ MaxPds \in Nat \ {0} /\ WireMod \in Nat \ {0} /\ MaxThreads \in Nat \ {0}
      /\ MaxPds < WireMod /\ WireMod <= MaxThreads /\ IdxLimit \in Nat
      /\ IdxLimit < WireMod
      /\ Pd = 0 .. MaxPds - 1 /\ Th = 0 .. MaxThreads - 1
  BY CapacityAssumption DEF FewRegistrations, Pd, Th
<1>2. /\ s \in Slot /\ s[1] \in UsedPds /\ s = <<s[1], s[2]>>
      /\ s[1] \in Pd /\ s[2] \in Th /\ threads[s].enabled
  BY DEF Live, IsLive, UsedPds, Slot
<1>3. /\ inferiors[s[1]].gdb_id = s[1] + 1 /\ threads[s].gdb_id = s[2] + 1
      /\ s[2] < inferiors[s[1]].curr_thread_idx
      /\ inferiors[s[1]].curr_thread_idx <= IdxLimit
      /\ inferiors[s[1]].curr_thread_idx \in Nat
  BY <1>2 DEF FreshInv, PdsInOrder, ThreadsInOrder, RInv, TypeOK, Inferior
<1>4. s[1] + 1 \in 1 .. MaxPds /\ s[2] + 1 \in 1 .. IdxLimit
  BY <1>1, <1>2, <1>3
<1>5. WirePid(s[1]) = s[1] + 1 /\ WireTid(s) = s[2] + 1
  <2>1. \A a \in 1 .. WireMod - 1 : a % WireMod = a
    BY <1>1
  <2>2. s[1] + 1 \in 1 .. WireMod - 1 /\ s[2] + 1 \in 1 .. WireMod - 1
    BY <1>1, <1>4
  <2> QED
    BY <1>3, <2>1, <2>2 DEF WirePid, WireTid
<1>6. LookupGdbInferior(s[1] + 1) = {s[1]}
  <2>1. s[1] + 1 > 0 /\ (s[1] + 1) - 1 = s[1] /\ s[1] % MaxPds = s[1]
    BY <1>1, <1>2
  <2>2. \A p \in Pd : p = ((s[1] + 1) - 1) % MaxPds <=> p = s[1]
    BY <2>1
  <2> QED
    BY <1>2, <1>3, <2>1, <2>2 DEF LookupGdbInferior
<1>7. LookupGdbThread(s[1] + 1, s[2] + 1) = {s}
  <2>1. s[2] + 1 > 0 /\ ((s[2] + 1) - 1) % MaxThreads = s[2]
    BY <1>1, <1>2
  <2>2. \A r \in {s[1]} \X Th : r[2] = s[2] <=> r = s
    BY <1>2
  <2> QED
    BY <1>2, <1>3, <1>6, <2>1, <2>2 DEF LookupGdbThread
<1> QED
  BY <1>4, <1>5, <1>6, <1>7

\* While an inferior had fewer registrations than a byte counts, GDB selects a
\* live thread by the id it was told.
THEOREM WireIdsSelect ==
  ASSUME FewRegistrations
  PROVE  Spec => []SelectableByWireId
<1>1. FreshInv => SelectableByWireId
  <2> SUFFICES ASSUME FreshInv, NEW s \in Live
               PROVE  LookupGdbThread(WirePid(s[1]),
                        IF WireTid(s) = 0 THEN 1 ELSE WireTid(s)) = {s}
    BY DEF SelectableByWireId
  <2>1. WireTid(s) # 0
    BY WireIdResolves
  <2> QED
    BY <2>1, WireIdResolves
<1> QED
  BY <1>1, FreshInvariance, PTL

\* The ids of a live thread are parsed as they were printed.
LEMMA NamesResolve ==
  ASSUME FewRegistrations, ReadAsWritten, FreshInv, NEW x \in LiveNames,
         NEW j \in Junk
  PROVE  /\ x[1] \in Nat \ {0} /\ x[2] \in Nat \ {0} /\ x[2] <= MaxThreads
         /\ Parse(x[1], j) = x[1] /\ Parse(x[2], j) = x[2] /\ Parse(All, j) = All
         /\ LookupGdbInferior(x[1]) # {}
         /\ \E s \in Live : LookupGdbThread(x[1], x[2]) = {s}
<1>1. PICK s \in Live : x = WireId(s)
  BY DEF LiveNames
<1>2. x[1] = WirePid(s[1]) /\ x[2] = WireTid(s)
  BY <1>1 DEF WireId
<1>3. /\ x[1] \in 1 .. MaxPds /\ x[2] \in 1 .. IdxLimit
      /\ LookupGdbInferior(x[1]) # {} /\ LookupGdbThread(x[1], x[2]) = {s}
  BY <1>2, WireIdResolves
<1>4. /\ MaxPds \in Nat /\ IdxLimit \in Nat /\ IdxLimit < MaxThreads
      /\ MaxThreads \in Nat /\ OneDigit \in Nat /\ WireMod \in Nat
  BY CapacityAssumption DEF FewRegistrations
<1>5. CASE MaxPds < OneDigit /\ IdxLimit < OneDigit
  BY <1>3, <1>4, <1>5 DEF Parse, All
<1>6. CASE Junk \subseteq {0}
  <2>1. j = 0 /\ WireMod * j = 0
    BY <1>4, <1>6
  <2> QED
    BY <1>3, <1>4, <2>1 DEF Parse, All
<1> QED
  BY <1>3, <1>5, <1>6 DEF ReadAsWritten

\* Ids parsed to what they are leave the action as it is.
LEMMA ActionRead ==
  ASSUME NEW S, NEW a \in [kind : S, pid : Int, tid : Int],
         NEW q \in Int, NEW u \in Int, a.pid = q, a.tid = u
  PROVE  [a EXCEPT !.pid = q, !.tid = u] = a
OBVIOUS

\* An action GDB puts into a vCont packet is carried out as GDB wrote it.
LEMMA ActionFits ==
  ASSUME FewRegistrations, ReadAsWritten, StrictHost, FreshInv,
         NEW a \in VContActions, NEW j \in Junk
  PROVE  /\ [a EXCEPT !.pid = Parse(@, j), !.tid = Parse(@, j)] = a
         /\ a.pid # All /\ LookupGdbInferior(a.pid) # {} /\ ~(a.tid > MaxThreads)
<1>1. PICK x \in LiveNames : \E k, t :
        /\ t = x[2] \/ t = All
        /\ a = [kind |-> k, pid |-> x[1], tid |-> t]
  BY DEF VContActions, HostNames
<1>2. PICK k, t : /\ t = x[2] \/ t = All
                  /\ a = [kind |-> k, pid |-> x[1], tid |-> t]
  BY <1>1
<1>3. a.pid = x[1] /\ a.tid = t
  BY <1>2
<1>4. Parse(x[1], j) = x[1] /\ Parse(t, j) = t
  <2>1. Parse(x[1], j) = x[1] /\ Parse(x[2], j) = x[2] /\ Parse(All, j) = All
    BY NamesResolve
  <2> QED
    BY <1>2, <2>1
<1>5. [a EXCEPT !.pid = Parse(@, j), !.tid = Parse(@, j)] = a
  <2> DEFINE q == Parse(a.pid, j)
             u == Parse(a.tid, j)
  <2>1. a.pid \in Int /\ a.tid \in Int /\ a \in [kind : {k}, pid : Int, tid : Int]
    <3>1. x[1] \in Int /\ t \in Int
      BY <1>2, NamesResolve DEF All
    <3> QED
      BY <1>2, <3>1
  <2>2. q = a.pid /\ u = a.tid
    BY <1>3, <1>4
  <2> HIDE DEF q, u
  <2>3. [a EXCEPT !.pid = q, !.tid = u] = a
    BY <2>1, <2>2, ActionRead
  <2> QED
    BY <2>3 DEF q, u
<1>6. MaxThreads \in Nat /\ ~(x[2] > MaxThreads) /\ ~(All > MaxThreads)
      /\ x[1] # All
  BY NamesResolve, CapacityAssumption DEF All
<1> QED
  BY <1>2, <1>3, <1>4, <1>5, <1>6, NamesResolve

LEMMA VContUp ==
  ASSUME FewRegistrations, ReadAsWritten, StrictHost, FreshInv, status = "up",
         NEW pkt \in {VContPacket(acts) : acts \in VContPackets}, HandlePacket(pkt)
  PROVE  status' = "up"
<1>1. PICK acts \in VContPackets : pkt = VContPacket(acts)
  OBVIOUS
<1>2. pkt.op = "vCont" /\ pkt.acts = acts
  BY <1>1 DEF VContPacket
<1>3. PICK j \in Junk :
        HandleVCont([k \in DOMAIN acts |->
          [acts[k] EXCEPT !.pid = Parse(@, j), !.tid = Parse(@, j)]])
  BY <1>2 DEF HandlePacket
<1>4. /\ acts \in Seq(VContActions)
      /\ \A k \in 1 .. Len(acts) - 1 : acts[k].tid # All
  <2> HIDE DEF VContActions
  <2>1. CASE acts \in {<<a>> : a \in VContActions}
    <3>1. PICK a \in VContActions : acts = <<a>>
      BY <2>1
    <3> QED
      BY <3>1
  <2>2. CASE acts \in {<<a, b>> : a \in {x \in VContActions : x.tid # All},
                                 b \in VContActions}
    <3>1. PICK a \in VContActions, b \in VContActions :
            acts = <<a, b>> /\ a.tid # All
      BY <2>2
    <3>2. Len(acts) = 2 /\ acts[1] = a
      BY <3>1
    <3>3. acts \in Seq(VContActions)
      BY <3>1
    <3> QED
      BY <3>1, <3>2, <3>3
  <2> QED
    BY <2>1, <2>2 DEF VContPackets
<1> HIDE DEF VContActions
<1>5. DOMAIN acts = 1 .. Len(acts) /\ Len(acts) \in Nat
      /\ \A k \in 1 .. Len(acts) : acts[k] \in VContActions
  BY <1>4, LenProperties
<1> DEFINE read == [k \in DOMAIN acts |->
                     [acts[k] EXCEPT !.pid = Parse(@, j), !.tid = Parse(@, j)]]
<1>6. read = acts
  <2>1. \A k \in DOMAIN acts :
          [acts[k] EXCEPT !.pid = Parse(@, j), !.tid = Parse(@, j)] = acts[k]
    BY <1>5, ActionFits
  <2>2. acts = [k \in DOMAIN acts |-> acts[k]]
    BY <1>4, <1>5
  <2> QED
    BY <2>1, <2>2, Zenon
<1>7. HandleVCont(acts)
  BY <1>3, <1>6
<1>8. \A k \in 1 .. Len(acts) : ~Unparsed(acts, k) /\ ~Wild(acts, k)
  <2>1. \A k \in 1 .. Len(acts) :
          /\ acts[k].pid # All /\ LookupGdbInferior(acts[k].pid) # {}
          /\ ~(acts[k].tid > MaxThreads)
    BY <1>5, ActionFits
  <2>2. \A k \in 1 .. Len(acts) : k < Len(acts) => k \in 1 .. Len(acts) - 1
    BY <1>5
  <2> QED
    BY <1>4, <2>1, <2>2 DEF Unparsed, Wild
<1>9. \A n \in Carried(acts) : n < Len(acts) => n + 1 \in 1 .. Len(acts)
  BY <1>5 DEF Carried
<1> QED
  BY <1>7, <1>8, <1>9 DEF HandleVCont

\* No packet of a GDB that names live threads only stops the debugger.
LEMMA PacketUp ==
  ASSUME FewRegistrations, ReadAsWritten, StrictHost, FreshInv, status = "up",
         NEW pkt \in Packets, GdbHandlePacket(pkt)
  PROVE  status' = "up"
<1>1. target_thread # NoThread /\ HandlePacket(pkt)
  BY DEF GdbHandlePacket
<1>2. ASSUME NEW m, JustReply(m) PROVE status' = "up"
  BY <1>2 DEF JustReply
<1>3. ASSUME NEW op \in SimpleOps, pkt = Packet(op) PROVE status' = "up"
  <2>1. pkt.op = op /\ op \notin {"H", "T", "vCont"}
    BY <1>3 DEF Packet, SimpleOps
  <2>2. CASE op = "D"
    <3>1. HandleDetach
      BY <1>1, <2>1, <2>2 DEF HandlePacket
    <3> QED
      BY <3>1 DEF HandleDetach
  <2>3. CASE op \in {"g", "G"}
    <3>1. HandleRegs(op)
      BY <1>1, <2>1, <2>3 DEF HandlePacket
    <3> QED
      BY <1>1, <1>2, <3>1 DEF HandleRegs
  <2>4. CASE op \notin {"D", "g", "G"}
    <3>1. HandleQuery(op)
      BY <1>1, <2>1, <2>4 DEF HandlePacket
    <3> QED
      BY <1>2, <3>1 DEF HandleQuery
  <2> QED
    BY <2>2, <2>3, <2>4
<1>4. ASSUME NEW x \in LiveNames, pkt = ThreadPacket("H", x[1], x[2])
      PROVE  status' = "up"
  <2>1. PICK j \in Junk : HandleSetInferior(Parse(x[1], j), x[2])
    BY <1>1, <1>4 DEF HandlePacket, ThreadPacket
  <2>2. HandleSetInferior(x[1], x[2])
    BY <2>1, NamesResolve
  <2>3. /\ x[1] # All /\ x[1] # 0 /\ x[2] # 0 /\ x[2] # All
        /\ LookupGdbInferior(x[1]) # {}
    BY NamesResolve DEF All
  <2>4. PICK s \in Live : LookupGdbThread(x[1], x[2]) = {s}
    BY NamesResolve
  <2>5. s # NoThread /\ threads[s].enabled
    BY NoThreadAssumption DEF Live, IsLive
  <2>6. \A new : Selects(x[1], x[2], new) => new = s
    BY <2>3, <2>4 DEF Selects
  <2> QED
    BY <2>2, <2>3, <2>5, <2>6 DEF HandleSetInferior
<1>5. ASSUME pkt = ThreadPacket("H", All, All) PROVE status' = "up"
  <2>1. PICK j \in Junk : HandleSetInferior(Parse(All, j), All)
    BY <1>1, <1>5 DEF HandlePacket, ThreadPacket
  <2>2. Parse(All, j) = All
    BY CapacityAssumption DEF Parse, All
  <2>3. HandleSetInferior(All, All) /\ All # 0 /\ ~(All > 0)
    BY <2>1, <2>2 DEF All
  <2> QED
    <3>1. LookupGdbInferior(All) = {}
      BY <2>3 DEF LookupGdbInferior
    <3> QED
      BY <1>1, <1>2, <2>3, <3>1 DEF HandleSetInferior
<1>6. ASSUME NEW x \in LiveNames, pkt = ThreadPacket("T", x[1], x[2])
      PROVE  status' = "up"
  <2>1. PICK j \in Junk : HandleCheckThreadAlive(Parse(x[1], j), x[2])
    BY <1>1, <1>6 DEF HandlePacket, ThreadPacket
  <2>2. HandleCheckThreadAlive(x[1], x[2]) /\ LookupGdbThread(x[1], x[2]) # {}
    BY <2>1, NamesResolve
  <2> QED
    BY <1>2, <2>2 DEF HandleCheckThreadAlive
<1>7. ASSUME pkt \in {VContPacket(acts) : acts \in VContPackets}
      PROVE  status' = "up"
  BY <1>1, <1>7, VContUp
<1>8. HostNames = LiveNames /\ HostForms = LiveNames \cup {<<All, All>>}
  BY DEF HostNames, HostForms
<1>9. CASE pkt \in {Packet(op) : op \in SimpleOps \cap HostOps}
  BY <1>3, <1>9
<1>10. CASE pkt \in {ThreadPacket(op, f[1], f[2]) : op \in HostOps \cap {"H"},
                                                   f \in HostForms}
  BY <1>4, <1>5, <1>8, <1>10
<1>11. CASE pkt \in {ThreadPacket(op, f[1], f[2]) : op \in HostOps \cap {"T"},
                                                   f \in HostNames}
  BY <1>6, <1>8, <1>11
<1>12. CASE pkt \in {VContPacket(acts) : acts \in IF "vCont" \in HostOps
                                                 THEN VContPackets ELSE {}}
  BY <1>7, <1>12
<1> QED
  BY <1>9, <1>10, <1>11, <1>12 DEF Packets

\* While GDB names only live threads, and these by ids that fit in a byte, no
\* handler follows a NULL pointer or fails an assertion.
THEOREM CoreStaysUp ==
  ASSUME FewRegistrations, ReadAsWritten, StrictHost
  PROVE  Spec => []NeverStuck
<1>1. ASSUME FreshInv, NeverStuck, [Next]_coreVars
      PROVE  NeverStuck'
  <2>1. ASSUME NEW pkt \in Packets, GdbHandlePacket(pkt) PROVE status' = "up"
    BY <1>1, <2>1, PacketUp DEF NeverStuck
  <2>2. ASSUME \/ UNCHANGED coreVars
               \/ \E i \in InferiorId, v \in VSpace : RegisterInferior(i, v)
               \/ \E i \in InferiorId, t \in ThreadId, c \in Tcb :
                    RegisterThread(i, t, c)
               \/ \E i \in InferiorId, t \in ThreadId : ThreadExit(i, t)
               \/ \E i \in InferiorId, t \in ThreadId, k \in FaultKinds :
                    Fault(i, t, k)
               \/ SuspendSystem \/ ResumeSystem
        PROVE  status' = status
    BY <2>2 DEF coreVars, RegisterInferior, RegisterThread, ThreadExit, Fault,
                HandleFault, SuspendSystem, ResumeSystem
  <2> QED
    BY <1>1, <2>1, <2>2 DEF Next, NeverStuck
<1>2. Init => NeverStuck
  BY DEF Init, NeverStuck
<1>3. FreshInv /\ NeverStuck /\ [Next]_coreVars => NeverStuck'
  BY <1>1
<1> QED
  BY <1>2, <1>3, FreshInvariance, PTL DEF Spec
=============================================================================
