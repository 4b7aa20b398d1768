------------------------------- MODULE GdbCore -------------------------------
(***************************************************************************)
(* The core of libgdb (src/gdb.c): the registry of inferiors and threads,  *)
(* the packet handlers that read or change it, fault handling, thread exit *)
(* and the run control of the debuggees (suspend_system, resume_system,    *)
(* vCont, single stepping).  One action is one call of the library's API.  *)
(*                                                                         *)
(* Breakpoint packets (Z, z) are modelled in SoftwareBreakpoints, memory   *)
(* packets are left out; the seL4 kernel is external and is modelled by    *)
(* what the invocations of gdb.c do to a thread: `tcb_state' and           *)
(* `single_step' are kernel state.                                         *)
(* The DebuggerError a registration returns is left out: AlreadyRegistered, *)
(* InvalidArguments and InsufficientResources all mean that nothing is      *)
(* registered.                                                             *)
(***************************************************************************)
EXTENDS Integers, Sequences, FiniteSets

CONSTANTS
  MaxPds, MaxThreads,      \* capacities of inferiors[] and of threads[]
  InferiorId, ThreadId,    \* ids the user of the library registers
  VSpace, Tcb,             \* capabilities
  GdbIdMod,                \* gdb_id is a uint16_t
  WireMod,                 \* write_thread_id sends one byte of it
  OneDigit,                \* an id below it is one hex digit on the wire
  Junk,                    \* upper bytes an uninitialised int may hold
  FaultKinds,              \* faults the threads may raise
  HostOps,                 \* packets the host may send
  VContKinds,              \* actions the host puts in vCont packets
  StrictHost,              \* the host names only threads that are alive
  IdxLimit,                \* bound: registrations stop at this cursor
  NoThread, NoTcb          \* NULL, seL4_CapNull

NoId == <<0, 0>>
All == -1                  \* PROC_ID_ALL, THREAD_ID_ALL

ASSUME CapacityAssumption ==
  /\ MaxPds \in Nat \ {0} /\ MaxThreads \in Nat \ {0}
  /\ GdbIdMod \in Nat \ {0} /\ WireMod \in Nat \ {0}
  /\ OneDigit \in Nat /\ IdxLimit \in Nat
  /\ MaxPds < WireMod /\ WireMod <= MaxThreads
ASSUME IdAssumption ==
  /\ InferiorId \subseteq Nat /\ ThreadId \subseteq Nat
  /\ VSpace \subseteq Nat /\ NoTcb \notin Tcb /\ Junk \subseteq Nat
SimpleOps == {"qSupported", "qfThreadInfo", "qsThreadInfo", "qC", "?",
              "vCont?", "ctrl-c", "unknown", "g", "G", "D"}
ASSUME HostAssumption ==
  /\ FaultKinds \subseteq {"swbreak", "hwbreak", "watch", "abort"}
  /\ HostOps \subseteq SimpleOps \cup {"H", "T", "vCont"}
  /\ VContKinds \subseteq {"c", "s", "C", "S"} /\ StrictHost \in BOOLEAN

Pd == 0 .. MaxPds - 1
Th == 0 .. MaxThreads - 1
Slot == Pd \X Th

ASSUME NoThreadAssumption == NoThread \notin Slot

VARIABLES
  curr_inferior_idx,  \* cursor of the next inferior to try
  inferiors,          \* inferiors[], without their threads
  threads,            \* inferiors[p].threads[t]
  target_thread,      \* a slot, or NoThread (NULL)
  tcb_state,          \* kernel: what the scheduler does with the thread
  single_step,        \* kernel: single stepping configured
  output,             \* the reply the call left in the output buffer
  status              \* "up", or how the debugger PD stopped for good

registry == <<curr_inferior_idx, inferiors>>
coreVars == <<curr_inferior_idx, inferiors, threads, target_thread,
              tcb_state, single_step, output, status>>

Messages == {"", "OK", "E01", "E02", "E04", "m", "l", "QC", "regs", "S02",
             "T05swbreak", "T05hwbreak", "T05watch", "T05clone", "T06", "w00",
             "vCont?", "qSupported"}
Reply(m) == [msg |-> m, of |-> NoId]

Inferior == [enabled : BOOLEAN, id : Nat, gdb_id : Nat, vspace : Nat,
             curr_thread_idx : Nat]
Thread == [enabled : BOOLEAN, wakeup : BOOLEAN, ss_enabled : BOOLEAN,
           id : Nat, gdb_id : Nat, tcb : Tcb \cup {NoTcb}]
NullInferior == [enabled |-> FALSE, id |-> 0, gdb_id |-> 0, vspace |-> 0,
                 curr_thread_idx |-> 0]
NullThread == [enabled |-> FALSE, wakeup |-> FALSE, ss_enabled |-> FALSE,
               id |-> 0, gdb_id |-> 0, tcb |-> NoTcb]

\* A reply tells one byte of an id (two hex digits), never a whole gdb_id.
WireByte == 0 .. WireMod - 1
TypeOK ==
  /\ curr_inferior_idx \in Nat
  /\ inferiors \in [Pd -> Inferior]
  /\ threads \in [Slot -> Thread]
  /\ target_thread \in Slot \cup {NoThread}
  /\ tcb_state \in [Tcb -> {"running", "suspended", "faulted"}]
  /\ single_step \in [Tcb -> BOOLEAN]
  /\ output \in [msg : Messages, of : WireByte \X WireByte]
  /\ status \in {"up", "assert", "null"}

-----------------------------------------------------------------------------
(* Lookups *)

\* The loops of suspend_system, vCont, detach: enabled threads of enabled PDs.
IsLive(s) == inferiors[s[1]].enabled /\ threads[s].enabled
Live == {s \in Slot : IsLive(s)}
LiveTcbs == {threads[s].tcb : s \in Live}

\* Results of the search loops: no element, or the first match.
LookupInferior(i) ==
  {p \in Pd : /\ inferiors[p].enabled /\ inferiors[p].id = i
              /\ \A q \in 0 .. p - 1 :
                    ~(inferiors[q].enabled /\ inferiors[q].id = i)}
\* Mutant: the search ends at the first free slot.
LookupThreadPrefix(p, t) ==
  {k \in Th : /\ threads[<<p, k>>].enabled /\ threads[<<p, k>>].id = t
              /\ \A j \in 0 .. k - 1 :
                    threads[<<p, j>>].enabled /\ threads[<<p, j>>].id # t}
LookupThread(p, t) ==
  {k \in Th : /\ threads[<<p, k>>].enabled /\ threads[<<p, k>>].id = t
              /\ \A j \in 0 .. k - 1 :
                    ~(threads[<<p, j>>].enabled /\ threads[<<p, j>>].id = t)}

\* Slots the cursor c passes before it meets one that is not in `used'.
\* Mutant: the search is one slot short.
FirstFreeShort(c, n, used) ==
  {k \in 0 .. n - 2 : /\ (c + k) % n \notin used
                      /\ \A j \in 0 .. k - 1 : (c + j) % n \in used}
FirstFree(c, n, used) ==
  {k \in 0 .. n - 1 : /\ (c + k) % n \notin used
                      /\ \A j \in 0 .. k - 1 : (c + j) % n \in used}
UsedPds == {p \in Pd : inferiors[p].enabled}
UsedThreads(p) == {t \in Th : threads[<<p, t>>].enabled}

\* Ids as write_thread_id prints them: the low byte of each gdb_id.
WirePid(p) == inferiors[p].gdb_id % WireMod
\* Mutant: the uint16_t is printed whole.
WireTidWhole(s) == threads[s].gdb_id
WireTid(s) == threads[s].gdb_id % WireMod
WireId(s) == <<WirePid(s[1]), WireTid(s)>>

\* parse_thread_id into an uninitialised int: two digits or more leave the
\* upper bytes as they were (j), one digit is assigned whole.
Parse(w, j) == IF w < OneDigit THEN w ELSE w + WireMod * j

\* The slot an index computed from a gdb id falls on, if that id is there.
LookupGdbInferior(pid) ==
  {p \in Pd : pid > 0 /\ p = (pid - 1) % MaxPds /\ inferiors[p].gdb_id = pid}
LookupGdbThread(pid, tid) ==
  {s \in LookupGdbInferior(pid) \X Th :
     tid > 0 /\ s[2] = (tid - 1) % MaxThreads /\ threads[s].gdb_id = tid}
-----------------------------------------------------------------------------
(* Registration *)

\* A new inferior starts without threads.
NewInferior(i, v) ==
  \E k \in FirstFree(curr_inferior_idx, MaxPds, UsedPds) :
    LET p == (curr_inferior_idx + k) % MaxPds
        n == curr_inferior_idx + k + 1
    IN /\ curr_inferior_idx' = n
       /\ inferiors' = [inferiors EXCEPT ![p] =
            [enabled |-> TRUE, id |-> i, gdb_id |-> n % GdbIdMod,
             vspace |-> v, curr_thread_idx |-> 0]]
       /\ threads' = [s \in Slot |->
                        IF s[1] = p THEN NullThread ELSE threads[s]]

RegisterInferior(i, v) ==
  /\ curr_inferior_idx < IdxLimit
  /\ \/ LookupInferior(i) # {} /\ UNCHANGED <<registry, threads>>
     \/ LookupInferior(i) = {} /\ NewInferior(i, v)
     \/ /\ LookupInferior(i) = {}
        /\ FirstFree(curr_inferior_idx, MaxPds, UsedPds) = {}
        /\ curr_inferior_idx' = curr_inferior_idx + MaxPds
        /\ UNCHANGED <<inferiors, threads>>
  /\ UNCHANGED <<target_thread, tcb_state, single_step, output, status>>

\* The gdb_id of a thread the cursor c passed k slots for.
\* Mutants: the slots passed do not count; the id is the number of the slot.
NewGdbIdUnskipped(c, k) == (c + 1) % GdbIdMod
NewGdbIdOfSlot(c, k) == ((c + k) % MaxThreads) + 1
NewGdbId(c, k) == (c + k + 1) % GdbIdMod

\* The kernel is not called: what an earlier thread left of the TCB stays.
NewThread(p, t, tcb) ==
  \E k \in FirstFree(inferiors[p].curr_thread_idx, MaxThreads, UsedThreads(p)) :
    LET c == inferiors[p].curr_thread_idx
        g == NewGdbId(c, k)
        s == <<p, (c + k) % MaxThreads>>
    IN /\ inferiors' = [inferiors EXCEPT ![p].curr_thread_idx = c + k + 1]
       /\ threads' = [threads EXCEPT ![s] =
            [enabled |-> TRUE, wakeup |-> FALSE, ss_enabled |-> FALSE,
             id |-> t, gdb_id |-> g, tcb |-> tcb]]
       /\ target_thread' = IF target_thread = NoThread THEN s ELSE target_thread
       /\ output' = IF target_thread = NoThread THEN output
                    ELSE [msg |-> "T05clone",
                          of |-> <<WirePid(p), g % WireMod>>]

\* Distinct live threads have distinct TCBs (the caller's duty).
MayHaveTcb(i, t, tcb) ==
  \A s \in Live : threads[s].tcb = tcb =>
                    threads[s].id = t /\ inferiors[s[1]].id = i

RegisterThread(i, t, tcb) ==
  /\ MayHaveTcb(i, t, tcb)
  /\ \A p \in LookupInferior(i) : inferiors[p].curr_thread_idx < IdxLimit
  /\ \/ /\ \A p \in LookupInferior(i) : LookupThread(p, t) # {}
        /\ UNCHANGED <<inferiors, threads, target_thread, output>>
     \/ \E p \in LookupInferior(i) :
          LookupThread(p, t) = {} /\ NewThread(p, t, tcb)
     \/ \E p \in LookupInferior(i) :
          /\ LookupThread(p, t) = {}
          /\ FirstFree(inferiors[p].curr_thread_idx, MaxThreads,
                       UsedThreads(p)) = {}
          /\ inferiors' = [inferiors EXCEPT ![p].curr_thread_idx =
                             @ + MaxThreads]
          /\ UNCHANGED <<threads, target_thread, output>>
  /\ UNCHANGED <<curr_inferior_idx, tcb_state, single_step, status>>

ThreadExit(i, t) ==
  /\ \/ \E p \in LookupInferior(i) : \E k \in LookupThread(p, t) :
          /\ threads' = [threads EXCEPT ![<<p, k>>].enabled = FALSE]
          /\ output' = [msg |-> "w00", of |-> WireId(<<p, k>>)]
     \/ /\ \A p \in LookupInferior(i) : LookupThread(p, t) = {}
        /\ UNCHANGED <<threads, output>>
  /\ UNCHANGED <<registry, target_thread, tcb_state, single_step, status>>
-----------------------------------------------------------------------------
(* Faults and run control *)

\* What a stop reply says of a debug exception or of any other fault.
\* Mutant: a stop reply without a reason.
StopMessagePlain(kind) == "S05"
StopMessage(kind) == CASE kind = "swbreak" -> "T05swbreak"
                       [] kind = "hwbreak" -> "T05hwbreak"
                       [] kind = "watch"   -> "T05watch"
                       [] kind = "abort"   -> "T06"

\* gdb_handle_fault, without its effect on the kernel (it has none).
HandleFault(i, t, kind) ==
  /\ \/ \E p \in LookupInferior(i) : \E k \in LookupThread(p, t) :
          /\ output' = [msg |-> StopMessage(kind), of |-> WireId(<<p, k>>)]
          /\ target_thread' = <<p, k>>
     \/ /\ \A p \in LookupInferior(i) : LookupThread(p, t) = {}
        /\ UNCHANGED <<output, target_thread>>
  /\ UNCHANGED <<registry, threads, single_step, status>>

\* seL4_TCB_Suspend withdraws a fault that was not answered yet.
\* Mutant: only the target is suspended.
SuspendAllTarget(ts) == [ts EXCEPT ![threads[target_thread].tcb] = "suspended"]
SuspendAll(ts) == [c \in Tcb |-> IF c \in LiveTcbs THEN "suspended" ELSE ts[c]]

\* resume_system with the wakeup flags of the thread table `tbl'.
ResumeWoken(ts, tbl) ==
  [c \in Tcb |-> IF \E s \in Live : tbl[s].tcb = c /\ tbl[s].wakeup
                 THEN "running" ELSE ts[c]]
-----------------------------------------------------------------------------
(* Packets: [op, pid, tid, acts]; acts are those of a vCont packet *)

Packet(op) == [op |-> op, pid |-> 0, tid |-> 0, acts |-> <<>>]
ThreadPacket(op, pid, tid) ==
  [op |-> op, pid |-> pid, tid |-> tid, acts |-> <<>>]
VContPacket(acts) == [op |-> "vCont", pid |-> 0, tid |-> 0, acts |-> acts]

\* A handler that only writes a reply.
JustReply(msg) == /\ output' = Reply(msg)
                  /\ UNCHANGED <<registry, threads, target_thread,
                                 single_step, status>>
\* An assertion that fails (assert_fail spins) or a NULL that is followed:
\* the debugger PD never runs again, whatever else it had written.
Stuck(how) == /\ status' = how
              /\ UNCHANGED <<registry, threads, target_thread, single_step,
                             output>>

HandleQuery(op) ==
  JustReply(CASE op = "qSupported" -> "qSupported"
              [] op = "qfThreadInfo" -> "m"
              [] op = "qsThreadInfo" -> "l"
              [] op = "qC" -> "QC"
              [] op = "?" -> "T05swbreak"
              [] op = "vCont?" -> "vCont?"
              [] op = "ctrl-c" -> "S02"
              [] op = "unknown" -> "")

HandleRegs(op) ==
  IF target_thread = NoThread THEN Stuck("null")
  ELSE JustReply(IF op = "g" THEN "regs" ELSE "OK")

\* The thread handle_set_inferior leaves selected.
\* Mutant: a thread-id other than that of the target is ignored.
SelectsNone(pid, tid, new) == new = target_thread
Selects(pid, tid, new) ==
  LET found == LookupGdbThread(pid, IF tid = 0 THEN 1 ELSE tid)
  IN IF pid = 0 \/ tid = All THEN new = target_thread
     ELSE new \in found \/ (found = {} /\ new = NoThread)

HandleSetInferior(pid, tid) ==
  \/ pid = All /\ IF target_thread = NoThread THEN Stuck("assert")
                                              ELSE JustReply("OK")
  \/ pid > 0 /\ LookupGdbInferior(pid) = {} /\ JustReply("E02")
  \/ /\ pid = 0 \/ LookupGdbInferior(pid) # {}
     /\ \E new \in Slot \cup {NoThread} :
          /\ Selects(pid, tid, new)
          /\ \/ new = NoThread /\ Stuck("null")
             \/ new # NoThread /\ ~threads[new].enabled /\ Stuck("assert")
             \/ /\ new # NoThread /\ threads[new].enabled
                /\ target_thread' = new
                /\ output' = Reply("OK")
                /\ UNCHANGED <<registry, threads, single_step, status>>

HandleCheckThreadAlive(pid, tid) ==
  LET found == LookupGdbThread(pid, tid)
  IN \/ found = {} /\ Stuck("null")
     \/ \E s \in found : JustReply(IF threads[s].enabled THEN "OK" ELSE "")

\* handle_vcont.  The loop ends early at an action it does not know (E04),
\* and never returns from one whose thread-id is missing, names no inferior,
\* or is -1 with another action after it (parse_thread_id stops on the '-').
TargetsOf(a) ==
  {s \in LookupGdbInferior(a.pid) \X Th :
     threads[s].enabled /\ (a.tid = All \/ s[2] = a.tid - 1)}
Unknown(a) == a.kind \notin {"s", "c"}
\* Mutant: the parser stops on every -1.
UnparsedAll(acts, k) ==
  acts[k].kind \in {"s", "c"} /\ All \in {acts[k].pid, acts[k].tid}
Unparsed(acts, k) ==
  /\ acts[k].kind \in {"s", "c"}
  /\ acts[k].pid = All \/ (acts[k].tid = All /\ k < Len(acts))
Wild(acts, k) ==
  /\ acts[k].kind \in {"s", "c"} /\ acts[k].pid # All
  /\ LookupGdbInferior(acts[k].pid) = {} \/ acts[k].tid > MaxThreads
Stops(acts, k) == Unknown(acts[k]) \/ Unparsed(acts, k) \/ Wild(acts, k)
\* How many actions are carried out before the loop ends.
Carried(acts) ==
  {n \in 0 .. Len(acts) :
     /\ \A k \in 1 .. n : ~Stops(acts, k)
     /\ n < Len(acts) => Stops(acts, n + 1)}

\* The action that handles a thread is the first of 1..n that names it.
HandledBy(acts, n, s) ==
  {k \in 1 .. n : /\ s \in TargetsOf(acts[k])
                  /\ \A j \in 1 .. k - 1 : s \notin TargetsOf(acts[j])}
\* Each action first sets every wakeup flag (c) or clears it (s).
\* Mutants: a step clears no flag; a step leaves its own thread asleep; a
\* continue wakes its own threads only.
WakesUncleared(acts, n, s) ==
  threads[s].wakeup \/ acts[n].kind = "c" \/ n \in HandledBy(acts, n, s)
WakesNoStep(acts, n, s) == acts[n].kind = "c"
WakesOwnOnly(acts, n, s) == n \in HandledBy(acts, n, s)
Wakes(acts, n, s) == acts[n].kind = "c" \/ n \in HandledBy(acts, n, s)
VContThreads(acts, n) ==
  [s \in Slot |->
     IF s \notin Live \/ n = 0 THEN threads[s]
     ELSE [threads[s] EXCEPT
             !.wakeup = Wakes(acts, n, s),
             !.ss_enabled = @ \/ \E k \in HandledBy(acts, n, s) :
                                   acts[k].kind = "s"]]
VContSingleStep(acts, n) ==
  [c \in Tcb |->
     IF \E s \in Live : threads[s].tcb = c /\ HandledBy(acts, n, s) # {}
     THEN \E s \in Live : threads[s].tcb = c /\
            \E k \in HandledBy(acts, n, s) : acts[k].kind = "s"
     ELSE single_step[c]]

HandleVCont(acts) ==
  \E n \in Carried(acts) :
    \/ n < Len(acts) /\ Unparsed(acts, n + 1) /\ Stuck("assert")
    \/ n < Len(acts) /\ Wild(acts, n + 1) /\ Stuck("null")
    \/ /\ n < Len(acts) => Unknown(acts[n + 1])
       /\ threads' = VContThreads(acts, n)
       /\ single_step' = VContSingleStep(acts, n)
       /\ output' = Reply(IF n < Len(acts) THEN "E04" ELSE "")
       /\ UNCHANGED <<registry, target_thread, status>>

\* Threads that detach stops single stepping.
\* Mutant: the flags are cleared before they are read.
SteppedTcbsNone == {}
SteppedTcbs == {threads[s].tcb : s \in {r \in Live : threads[r].ss_enabled}}

HandleDetach ==
  /\ threads' = [s \in Slot |->
       IF s \in Live
       THEN [threads[s] EXCEPT !.ss_enabled = FALSE, !.wakeup = TRUE]
       ELSE threads[s]]
  /\ single_step' = [c \in Tcb |-> single_step[c] /\ c \notin SteppedTcbs]
  /\ output' = Reply("OK")
  /\ UNCHANGED <<registry, target_thread, status>>

\* gdb_handle_packet.  The ids of H and T are parsed over an uninitialised
\* proc_id and a zeroed thread_id, those of vCont over two uninitialised ints.
HandlePacket(pkt) ==
  /\ \E j \in Junk :
       CASE pkt.op = "H" -> HandleSetInferior(Parse(pkt.pid, j), pkt.tid)
         [] pkt.op = "T" -> HandleCheckThreadAlive(Parse(pkt.pid, j), pkt.tid)
         [] pkt.op = "vCont" ->
              HandleVCont([k \in DOMAIN pkt.acts |->
                [pkt.acts[k] EXCEPT !.pid = Parse(@, j), !.tid = Parse(@, j)]])
         [] pkt.op = "D" -> HandleDetach
         [] pkt.op \in {"g", "G"} -> HandleRegs(pkt.op)
         [] OTHER -> HandleQuery(pkt.op)

\* seL4_TCB_ReadRegisters is asked to suspend the thread it reads, and
\* seL4_TCB_WriteRegisters to resume the thread it writes.
TcbsAfter(pkt, ts) ==
  IF pkt.op \in {"g", "G"} /\ target_thread # NoThread
  THEN [ts EXCEPT ![threads[target_thread].tcb] =
          IF pkt.op = "g" THEN "suspended" ELSE "running"]
  ELSE ts

\* Threads the host may name: those alive, or all that were ever reported.
LiveNames == {WireId(s) : s \in Live}
HostNames ==
  IF StrictHost THEN LiveNames
  ELSE {WireId(s) : s \in {r \in Slot : threads[r].gdb_id # 0}}
\* "p1.0", "p0.0" and "-1": any thread of a process, of any process, all.
HostForms == HostNames \cup {<<All, All>>} \cup
  IF StrictHost THEN {}
  ELSE {<<0, 0>>} \cup {<<name[1], 0>> : name \in HostNames}
VContActions ==
  {[kind |-> k, pid |-> name[1], tid |-> t] :
     k \in VContKinds, name \in HostNames, t \in {All}} \cup
  {[kind |-> k, pid |-> name[1], tid |-> name[2]] :
     k \in VContKinds, name \in HostNames}
\* GDB ends a packet, and only ends it, with an action on a whole process.
VContPackets ==
  {<<a>> : a \in VContActions} \cup
  {<<a, b>> : a \in {x \in VContActions : x.tid # All}, b \in VContActions}
Packets ==
  {Packet(op) : op \in SimpleOps \cap HostOps} \cup
  {ThreadPacket(op, f[1], f[2]) : op \in HostOps \cap {"H"}, f \in HostForms}
  \cup
  {ThreadPacket(op, f[1], f[2]) : op \in HostOps \cap {"T"}, f \in HostNames}
  \cup
  {VContPacket(acts) : acts \in IF "vCont" \in HostOps THEN VContPackets
                                                       ELSE {}}
-----------------------------------------------------------------------------
(* One action per call of the library *)

Fault(i, t, kind) == HandleFault(i, t, kind) /\ UNCHANGED tcb_state
SuspendSystem ==
  /\ tcb_state' = SuspendAll(tcb_state)
  /\ UNCHANGED <<registry, threads, target_thread, single_step, output, status>>
ResumeSystem ==
  /\ tcb_state' = ResumeWoken(tcb_state, threads)
  /\ UNCHANGED <<registry, threads, target_thread, single_step, output, status>>
\* GDB attaches once a thread is registered.
GdbHandlePacket(pkt) ==
  /\ target_thread # NoThread
  /\ HandlePacket(pkt)
  /\ tcb_state' = TcbsAfter(pkt, tcb_state)

Init ==
  /\ curr_inferior_idx = 0
  /\ inferiors = [p \in Pd |-> NullInferior]
  /\ threads = [s \in Slot |-> NullThread]
  /\ target_thread = NoThread
  /\ tcb_state = [c \in Tcb |-> "running"]
  /\ single_step = [c \in Tcb |-> FALSE]
  /\ output = Reply("")
  /\ status = "up"

Next ==
  /\ status = "up"
  /\ \/ \E i \in InferiorId, v \in VSpace : RegisterInferior(i, v)
     \/ \E i \in InferiorId, t \in ThreadId, c \in Tcb : RegisterThread(i, t, c)
     \/ \E i \in InferiorId, t \in ThreadId : ThreadExit(i, t)
     \/ \E i \in InferiorId, t \in ThreadId, k \in FaultKinds : Fault(i, t, k)
     \/ SuspendSystem
     \/ ResumeSystem
     \/ \E pkt \in Packets : GdbHandlePacket(pkt)

Spec == Init /\ [][Next]_coreVars
-----------------------------------------------------------------------------
(* Properties *)

\* An id the library's user registers names at most one live thread, and one
\* inferior: what lookup_inferior_from_id and lookup_thread_from_id return
\* does not depend on the order of the slots.
LiveIdsUnique ==
  /\ \A p, q \in UsedPds : inferiors[p].id = inferiors[q].id => p = q
  /\ \A s, r \in Live : s[1] = r[1] /\ threads[s].id = threads[r].id => s = r

\* The gdb ids of a live thread lead back to it through the index arithmetic of
\* lookup_thread_from_gdb_id, also after slots were reused and the cursors
\* went round the arrays or were moved on by registrations that failed.
GdbIdsResolve ==
  \A s \in Live :
    LookupGdbThread(inferiors[s[1]].gdb_id, threads[s].gdb_id) = {s}

\* The id told to GDB for a live thread selects that thread when GDB sends it
\* back in an H packet (gdb.h:57: "The gdb_id is internal to GDB", "This is the
\* id that is told to GDB").  What is told is the low byte of gdb_id, and
\* the index is computed from what comes back.
SelectableByWireId ==
  \A s \in Live :
    LookupGdbThread(WirePid(s[1]), IF WireTid(s) = 0 THEN 1 ELSE WireTid(s))
      = {s}

\* Live threads the kernel single steps that detach will not stop stepping:
\* handle_detach asks the flag of the thread, not the kernel.
Hidden == {s \in Live : single_step[threads[s].tcb] /\ ~threads[s].ss_enabled}
\* No packet, fault or exit puts a thread among them, whatever mixture of steps,
\* continues and detaches it is part of: the one way in is to be registered on
\* a TCB that an earlier thread left stepped.
KernelStepKnown ==
  [][\A s \in Hidden' :
       s \in Hidden \/ (s \notin Live /\ single_step[threads'[s].tcb])]_coreVars

\* While GDB names only live threads, no handler follows a NULL pointer, fails
\* an assertion or loses its place in a vCont packet.
NeverStuck == status = "up"

\* A gdb_id, the 16-bit id gdb.c itself looks threads up by, is given to at most
\* one thread of an inferior, ever: a thread gets an id above those of all threads
\* the inferior has or had, across exits, reuse of slots and refusals.  (The
\* byte of it that GDB is told does repeat, and vCont goes by the slot alone.)
GdbIdsNeverReused ==
  [][\A s, r \in Slot :
       threads'[s].enabled /\ ~threads[s].enabled /\ r[1] = s[1]
         => threads'[s].gdb_id > threads[r].gdb_id]_coreVars

\* A registration that finds no slot is one that found every slot in use: a
\* cursor moves only onto the slot it fills, or because the array is full.
RefusesOnlyWhenFull ==
  [][/\ curr_inferior_idx' # curr_inferior_idx
           => \/ \E p \in Pd : p \notin UsedPds
                             /\ inferiors'[p].gdb_id =
                                  curr_inferior_idx' % GdbIdMod
              \/ UsedPds = Pd
     /\ \A p \in UsedPds :
          inferiors'[p].curr_thread_idx # inferiors[p].curr_thread_idx
            => \/ \E t \in Th \ UsedThreads(p) :
                    threads'[<<p, t>>].gdb_id =
                      inferiors'[p].curr_thread_idx % GdbIdMod
               \/ UsedThreads(p) = Th]_coreVars
=============================================================================
