------------------------------ MODULE EventLoop ------------------------------
(***************************************************************************)
(* The debugger component of the sDDF serial example                       *)
(* (examples/microkit_sddf_serial/apps/debugger/debugger.c) around the     *)
(* library of GdbCore: the coroutines t_main (event_loop) and t_fault      *)
(* (fault_message), and the entry points notified and fault by which       *)
(* Microkit calls the debugger.                                            *)
(*                                                                         *)
(* The debugger has a higher priority than the protection domains it       *)
(* debugs: they run, and fault, only while it waits in Microkit's own loop *)
(* ("idle").  Characters of the host arrive at any time.  A packet travels *)
(* as its '$' and a body, which stands for the text, the '#' and the       *)
(* checksum.  The line may lose or damage MaxNoise characters of the host. *)
(*                                                                         *)
(* External: GDB (the host), which acknowledges every packet it reads,     *)
(* reads on for the acknowledgement of the packet it sent and acknowledges *)
(* and drops whatever packet comes first, and sends its packet again after *)
(* a silence; the serial driver and virtualiser, which notify the debugger *)
(* when they put a character in its queue; the kernel.                     *)
(***************************************************************************)
EXTENDS GdbCore

CONSTANT MaxNoise          \* bound: characters the line loses or damages
ASSUME NoiseAssumption == MaxNoise \in Nat
\* Every child has a TCB of its own.
ASSUME TcbAssumption ==
  \E f \in [Pd -> Tcb] : \A p, q \in Pd : f[p] = f[q] => p = q

VARIABLES
  mode,      \* who executes: t_event ("idle"), t_main ("main"), or t_fault,
             \* called from fault ("fault") or from notified ("notified")
  state,     \* event_state_t
  mainpc,    \* where t_main waits for a character
  detached,
  wire,      \* characters on their way to the debugger
  noise,     \* how many of them were lost or damaged
  rx,        \* rx_queue
  notif,     \* a notification of the virtualiser is pending
  tx,        \* characters on their way to the host
  hostpc,    \* what GDB waits for
  cur,       \* the packet GDB sent last
  general,   \* the thread GDB takes for selected (general_thread)
  sig,       \* the stop GDB saw last was a signal it passes on
  etx        \* GDB sent Ctrl-C and has not seen a stop since

debugger == <<mode, state, mainpc, detached>>
line == <<wire, noise, rx, notif>>
host == <<hostpc, cur, general, sig, etx>>
loopVars == <<coreVars, debugger, line, tx, host>>

NoPacket == Packet("unknown")
Char(c) == [tok |-> c, pkt |-> NoPacket]
Body(pkt) == [tok |-> "body", pkt |-> pkt]
Sign(c) == [tok |-> c, out |-> Reply("")]
Sent(out) == [tok |-> "packet", out |-> out]

Running == {s \in Live : tcb_state[threads[s].tcb] = "running"}

LoopTypeOK ==
  /\ TypeOK
  /\ mode \in {"idle", "main", "fault", "notified"}
  /\ state \in {"none", "EventLoop", "Fault"}
  /\ mainpc \in {"seek", "body", "dirty", "ack"}
  /\ detached \in BOOLEAN /\ notif \in BOOLEAN
  /\ \A i \in DOMAIN wire : wire[i].tok \in {"$", "+", "etx", "body", "damaged"}
  /\ \A i \in DOMAIN rx : rx[i].tok \in {"$", "+", "etx", "body", "damaged"}
  /\ \A i \in DOMAIN tx : tx[i].tok \in {"+", "-", "packet"}
  /\ hostpc \in {"gone", "stopped", "acking", "waiting", "running"}
  /\ general \in Nat \X Nat
  /\ sig \in BOOLEAN /\ etx \in BOOLEAN
-----------------------------------------------------------------------------
(* init registers one thread for each child and suspends them all *)

RegisteredInferiors ==
  [p \in Pd |-> [enabled |-> TRUE, id |-> p, gdb_id |-> p + 1, vspace |-> p,
                 curr_thread_idx |-> 1]]
TcbOf == CHOOSE f \in [Pd -> Tcb] : \A p, q \in Pd : f[p] = f[q] => p = q
RegisteredThreads ==
  [s \in Slot |->
     IF s[2] = 0 THEN [enabled |-> TRUE, wakeup |-> FALSE, ss_enabled |-> FALSE,
                       id |-> 0, gdb_id |-> 1, tcb |-> TcbOf[s[1]]]
                 ELSE NullThread]

LoopInit ==
  /\ curr_inferior_idx = MaxPds
  /\ inferiors = RegisteredInferiors
  /\ threads = RegisteredThreads
  /\ target_thread = <<0, 0>>
  /\ tcb_state = [c \in Tcb |-> "suspended"]
  /\ single_step = [c \in Tcb |-> FALSE]
  /\ output = Reply("")
  /\ status = "up"
  /\ mode = "idle" /\ state = "EventLoop" /\ mainpc = "seek"
  /\ detached = FALSE
  /\ wire = <<>> /\ rx = <<>> /\ tx = <<>>
  /\ notif = FALSE /\ noise = 0
  /\ hostpc = "gone" /\ cur = NoPacket
  /\ general = NoId /\ sig = FALSE /\ etx = FALSE
-----------------------------------------------------------------------------
(* gdb_get_char: take the next character, or wait for a notification *)

Take == rx # <<>> /\ rx' = Tail(rx) /\ UNCHANGED <<wire, noise, notif>>

Wait ==
  /\ mode # "idle" /\ rx = <<>>
  /\ state' = IF mode = "main" THEN "EventLoop" ELSE "Fault"
  /\ mode' = "idle"
  /\ UNCHANGED <<coreVars, mainpc, detached, line, tx, host>>
-----------------------------------------------------------------------------
(* t_main *)

\* event_loop suspends the system before it handles such a packet.
\* Mutant: GDB that connects again finds it running.
SuspendsForCtrlC(pkt) == pkt.op = "ctrl-c"
Suspends(pkt) == detached \/ pkt.op = "ctrl-c"
\* Mutant: get_packet skips a Ctrl-C like any other character.
InterruptsNever(c) == FALSE
Interrupts(c) == c.tok = "etx"

\* One turn of event_loop for a packet that get_packet returned, up to where
\* it waits for the next character; `ack' is what get_packet sent for it.
Process(pkt, ack) ==
  LET before == IF Suspends(pkt) THEN SuspendAll(tcb_state) ELSE tcb_state
      after == TcbsAfter(pkt, before)
  IN /\ HandlePacket(pkt)
     /\ detached' = (pkt.op = "D")
     /\ \/ /\ pkt.op = "vCont"
           /\ tcb_state' = ResumeWoken(after, threads')
           /\ mainpc' = "seek"
           /\ tx' = tx \o ack
        \/ /\ pkt.op # "vCont"
           /\ tcb_state' = after
           /\ mainpc' = "ack"
           /\ tx' = tx \o ack \o <<Sent(output')>>

Seek ==
  /\ mode = "main" /\ mainpc = "seek" /\ Take
  /\ \/ Interrupts(Head(rx)) /\ Process(Packet("ctrl-c"), <<>>)
     \/ /\ ~Interrupts(Head(rx))
        /\ mainpc' = IF Head(rx).tok = "$" THEN "body" ELSE "seek"
        /\ UNCHANGED <<coreVars, detached, tx>>
  /\ UNCHANGED <<mode, state, host>>

\* After '$': another '$' starts again, a stray character spoils the checksum.
ReadBody ==
  /\ mode = "main" /\ mainpc \in {"body", "dirty"} /\ Take
  /\ \/ /\ Head(rx).tok = "body" /\ mainpc = "body"
        /\ Process(Head(rx).pkt, <<Sign("+")>>)
     \/ /\ \/ Head(rx).tok = "damaged"
           \/ Head(rx).tok = "body" /\ mainpc = "dirty"
        /\ tx' = Append(tx, Sign("-"))
        /\ mainpc' = "seek"
        /\ UNCHANGED <<coreVars, detached>>
     \/ /\ Head(rx).tok \notin {"body", "damaged"}
        /\ mainpc' = IF Head(rx).tok = "$" THEN "body" ELSE "dirty"
        /\ UNCHANGED <<coreVars, detached, tx>>
  /\ UNCHANGED <<mode, state, host>>

\* put_packet takes any character but '+' for a request to send again.  The
\* features qSupported lists have a '+' in them.
\* Mutant: it sends again what was acknowledged.
AcksNak(c) == c.tok = "-"
Acks(c) == c.tok = "+" \/ (c.tok = "body" /\ c.pkt.op = "qSupported")

\* The system is resumed after the reply to D was acknowledged.
AwaitAck ==
  /\ mode = "main" /\ mainpc = "ack" /\ Take
  /\ \/ /\ Acks(Head(rx))
        /\ mainpc' = "seek"
        /\ tcb_state' = IF detached THEN ResumeWoken(tcb_state, threads)
                                    ELSE tcb_state
        /\ UNCHANGED tx
     \/ /\ ~Acks(Head(rx))
        /\ tx' = Append(tx, Sent(output))
        /\ UNCHANGED <<mainpc, tcb_state>>
  /\ UNCHANGED <<registry, threads, target_thread, single_step, output, status,
                 mode, state, detached, host>>
-----------------------------------------------------------------------------
(* t_fault, and Microkit's calls *)

\* Mutant: t_fault sends nothing.
FaultMessageNone == <<>>
FaultMessage == <<Sent(output')>>

\* fault: suspend, gdb_handle_fault, and fault_message up to put_packet's wait.
TakeFault(s, kind) ==
  /\ mode = "idle"
  /\ tcb_state[threads[s].tcb] = "faulted"
  /\ HandleFault(inferiors[s[1]].id, threads[s].id, kind)
  /\ tcb_state' = SuspendAll(tcb_state)
  /\ tx' = tx \o FaultMessage
  /\ mode' = "fault"
  /\ UNCHANGED <<state, mainpc, detached, line, host>>

\* When the stop is acknowledged, notified goes on to t_main; fault returns.
\* Mutant: both return.
HandsOverNever == FALSE
HandsOver == mode = "notified"

AwaitStopAck ==
  /\ mode \in {"fault", "notified"} /\ Take
  /\ \/ /\ Acks(Head(rx))
        /\ state' = IF HandsOver THEN "none" ELSE "EventLoop"
        /\ mode' = IF HandsOver THEN "main" ELSE "idle"
        /\ UNCHANGED tx
     \/ /\ ~Acks(Head(rx))
        /\ tx' = Append(tx, Sent(output))
        /\ UNCHANGED <<state, mode>>
  /\ UNCHANGED <<coreVars, mainpc, detached, host>>

Notified ==
  /\ mode = "idle" /\ notif
  /\ notif' = FALSE
  /\ mode' = CASE state = "Fault" -> "notified"
               [] state = "EventLoop" -> "main"
               [] OTHER -> "idle"
  /\ state' = "none"
  /\ UNCHANGED <<coreVars, mainpc, detached, wire, noise, rx, tx, host>>
-----------------------------------------------------------------------------
(* Environment: debuggees, line, GDB *)

\* A breakpoint, an exception or the end of a single step.
ThreadFaults(s) ==
  /\ mode = "idle"
  /\ tcb_state[threads[s].tcb] = "running"
  /\ tcb_state' = [tcb_state EXCEPT ![threads[s].tcb] = "faulted"]
  /\ UNCHANGED <<registry, threads, target_thread, single_step, output, status,
                 debugger, line, tx, host>>

CharArrives ==
  /\ wire # <<>>
  /\ rx' = Append(rx, Head(wire))
  /\ wire' = Tail(wire)
  /\ notif' = TRUE
  /\ UNCHANGED <<coreVars, debugger, noise, tx, host>>

LineNoise ==
  /\ wire # <<>> /\ noise < MaxNoise
  /\ noise' = noise + 1
  /\ \/ wire' = Tail(wire)
     \/ /\ Head(wire).tok = "body"
        /\ wire' = <<Char("damaged")>> \o Tail(wire)
  /\ UNCHANGED <<coreVars, debugger, rx, notif, tx, host>>

SendPacket(pkt) ==
  /\ wire' = wire \o <<Char("$"), Body(pkt)>>
  /\ cur' = pkt
  /\ hostpc' = "acking"

HostConnects ==
  /\ hostpc = "gone"
  /\ wire' = wire \o <<Char("+"), Char("$"), Body(Packet("qSupported"))>>
  /\ cur' = Packet("qSupported")
  /\ hostpc' = "acking"
  /\ tx' = <<>>               \* GDB flushes what came before it connected
  /\ general' = NoId /\ sig' = FALSE /\ etx' = FALSE
  /\ UNCHANGED <<coreVars, debugger, noise, rx, notif>>

\* The vCont packets of GDB under "set scheduler-locking step": one thread is
\* stepped, or a process continued with the signal it was stopped by.
StepPacket(x) ==
  VContPacket(<<[kind |-> IF sig /\ "C" \in VContKinds THEN "S" ELSE "s",
                 pid |-> x[1], tid |-> x[2]]>>)
ContinuePacket(x) ==
  VContPacket(
    IF sig /\ "C" \in VContKinds
    THEN <<[kind |-> "C", pid |-> x[1], tid |-> x[2]],
           [kind |-> "c", pid |-> x[1], tid |-> All]>>
    ELSE <<[kind |-> "c", pid |-> x[1], tid |-> All]>>)

\* g and G are sent once the thread they are about is selected.
HostCommands ==
  {Packet(op) : op \in {"D"} \cap HostOps} \cup
  {Packet(op) : op \in {o \in {"g", "G"} \cap HostOps : general # NoId}} \cup
  UNION {{ThreadPacket("H", x[1], x[2]), StepPacket(x), ContinuePacket(x)} :
            x \in LiveNames}
HostSends ==
  /\ hostpc = "stopped"
  /\ \E pkt \in HostCommands : SendPacket(pkt)
  /\ UNCHANGED <<coreVars, debugger, noise, rx, notif, tx, general, sig, etx>>

HostInterrupts ==
  /\ hostpc = "running" /\ ~etx
  /\ wire' = Append(wire, Char("etx"))
  /\ etx' = TRUE
  /\ UNCHANGED <<coreVars, debugger, noise, rx, notif, tx, hostpc, cur, general,
                 sig>>

\* GDB reads one character or packet.
HostReadsAck ==
  /\ hostpc = "acking" /\ tx # <<>>
  /\ tx' = Tail(tx)
  /\ \/ /\ Head(tx).tok = "+"
        /\ hostpc' = IF cur.op = "vCont" THEN "running" ELSE "waiting"
        /\ UNCHANGED <<wire, cur>>
     \/ Head(tx).tok = "-" /\ SendPacket(cur)
     \/ /\ Head(tx).tok = "packet"
        /\ wire' = Append(wire, Char("+"))
        /\ UNCHANGED <<hostpc, cur>>
  /\ UNCHANGED <<coreVars, debugger, noise, rx, notif, general, sig, etx>>

HostReadsReply ==
  /\ hostpc \in {"waiting", "running"} /\ tx # <<>>
  /\ tx' = Tail(tx)
  /\ \/ Head(tx).tok # "packet" /\ UNCHANGED <<wire, host>>
     \/ /\ Head(tx).tok = "packet"
        /\ wire' = Append(wire, Char("+"))
        /\ hostpc' = IF cur.op = "D" THEN "gone" ELSE "stopped"
        /\ general' = IF hostpc = "running" /\ Head(tx).out.of # NoId
                      THEN Head(tx).out.of
                      ELSE IF cur.op = "H" THEN <<cur.pid, cur.tid>>
                      ELSE general
        /\ sig' = IF hostpc = "running" THEN Head(tx).out.msg = "T06" ELSE sig
        /\ etx' = IF hostpc = "running" THEN FALSE ELSE etx
        /\ UNCHANGED cur
  /\ UNCHANGED <<coreVars, debugger, noise, rx, notif>>

\* The acknowledgement timed out.
HostResends ==
  /\ hostpc = "acking"
  /\ mode = "idle" /\ ~notif /\ tx = <<>> /\ wire = <<>>
  /\ SendPacket(cur)
  /\ UNCHANGED <<coreVars, debugger, noise, rx, notif, tx, general, sig, etx>>

DebuggerRuns == Wait \/ Seek \/ ReadBody \/ AwaitAck \/ AwaitStopAck
Delivers == Notified \/ \E s \in Live, k \in FaultKinds : TakeFault(s, k)
HostReads == HostReadsAck \/ HostReadsReply

LoopNext ==
  /\ status = "up"
  /\ \/ Wait \/ Seek \/ ReadBody \/ AwaitAck \/ AwaitStopAck \/ Notified
     \/ \E s \in Slot, k \in FaultKinds : s \in Live /\ TakeFault(s, k)
     \/ \E s \in Slot : s \in Live /\ ThreadFaults(s)
     \/ CharArrives \/ LineNoise
     \/ HostConnects \/ HostSends \/ HostInterrupts
     \/ HostReadsAck \/ HostReadsReply \/ HostResends

LoopSpec == LoopInit /\ [][LoopNext]_loopVars

\* The debugger is scheduled whenever it can run, the line delivers (noise is
\* bounded), and GDB reads what it is waiting for and resends after a silence.
\* Nothing is assumed of the debuggees and of what the user of GDB asks for.
Fairness ==
  /\ WF_loopVars(status = "up" /\ DebuggerRuns)
  /\ WF_loopVars(status = "up" /\ Delivers)
  /\ WF_loopVars(status = "up" /\ CharArrives)
  /\ WF_loopVars(status = "up" /\ HostReads)
  /\ WF_loopVars(status = "up" /\ HostResends)

FairLoopSpec == LoopSpec /\ Fairness
-----------------------------------------------------------------------------
(* Properties *)

FaultPending == state = "Fault" \/ mode \in {"fault", "notified"}
AllSuspended == \A s \in Live : tcb_state[threads[s].tcb] = "suspended"

\* A coroutine waits for an acknowledgement only while every debuggee is
\* suspended, and never both at once: no fault can overwrite the output buffer
\* put_packet is sending again, or t_fault's stack.
AckQuiescent ==
  /\ mainpc = "ack" \/ FaultPending => AllSuspended
  /\ ~(mainpc = "ack" /\ FaultPending)

\* While GDB believes the target stopped it is: nothing runs between the stop
\* GDB saw and the command that resumes, whatever crossed on the line.
AllStop ==
  \/ hostpc = "stopped"
  \/ hostpc \in {"acking", "waiting"} /\ cur.op \in {"H", "g", "G"}
  => AllSuspended

\* "As we include a thread-id, GDB expects the target inferior to be the thread
\* that we set": when GDB may send a command, the thread it takes for selected
\* is target_thread.
HostTargetAgrees ==
  hostpc = "stopped" /\ general # NoId => WireId(target_thread) = general

\* "A step only resumes the protection domain that is being stepped" (README).
StepIsolation ==
  hostpc = "running" /\ cur.acts[1].kind = "s"
    => \A s \in Running : WireId(s) = <<cur.acts[1].pid, cur.acts[1].tid>>

\* "A continue resumes all protection domains in the system" (README).
TakesContinue ==
  /\ mode = "main" /\ mainpc = "body" /\ rx # <<>> /\ rx' = Tail(rx)
  /\ Head(rx).tok = "body" /\ Head(rx).pkt.op = "vCont"
  /\ Head(rx).pkt.acts[1].kind \in {"c", "C"}
ContinueResumesAll ==
  [][TakesContinue => \A s \in Live : tcb_state'[threads[s].tcb] = "running"
    ]_loopVars

\* The debugger never sleeps on a character it could read: each one in its
\* queue is covered by a notification that still reaches a waiting coroutine.
NoLostWakeup ==
  mode = "idle" => state # "none" /\ (rx # <<>> => notif)

\* GDB is not left waiting for a stop of a system that nothing will stop: while
\* it waits, something runs or faulted, or a character is on its way.
NobodyWaitsInVain ==
  hostpc = "running"
    => ~AllSuspended \/ mode # "idle" \/ notif \/ wire # <<>> \/ tx # <<>>

\* A Ctrl-C "should result in an interrupt": once it is in the debugger's queue
\* GDB comes to see the system stop.
InterruptStops ==
  hostpc = "running" /\ (\E i \in DOMAIN rx : rx[i].tok = "etx")
    ~> hostpc = "stopped"

\* A thread that faults is reported to a GDB that waits for a stop.
FaultReported ==
  hostpc = "running" /\ (\E s \in Live : tcb_state[threads[s].tcb] = "faulted")
    ~> hostpc = "stopped"

\* Each packet GDB sends is acknowledged and answered.
CommandAnswered ==
  hostpc \in {"acking", "waiting"} ~> hostpc \in {"stopped", "running", "gone"}
=============================================================================
