----------------------------- MODULE NetDebugger -----------------------------
(***************************************************************************)
(* The debugger component of the sDDF net example                          *)
(* (examples/microkit_sddf_net/apps/debugger/debugger.c and tcp.c): the    *)
(* coroutines t_main and t_fault between the queue of received characters, *)
(* which is a BoundedFifo (CharQueue implements it), and the frames lwIP   *)
(* sends, which wait for the buffers of the transmit virtualiser.          *)
(*                                                                         *)
(* What the packets do to inferiors and threads is the matter of GdbCore   *)
(* and EventLoop; here the debuggees are stopped, running, or one of them  *)
(* has faulted, and a packet is a query, a continue or a detach, sent as   *)
(* its '$' and its body.  The debuggees have the lowest priority: they run *)
(* and fault only while the debugger sleeps.  GDB acts then too: between   *)
(* two sleeps the debugger sees of GDB only what lwIP had received.        *)
(*                                                                         *)
(* External: GDB, as in EventLoop, over TCP: its characters arrive whole   *)
(* and in order, cut into segments anywhere, so that no checksum fails;    *)
(* lwIP, which acknowledges each segment by a frame of its own and sends   *)
(* what tcp_write is given in frames that reach GDB in order; the transmit *)
(* virtualiser, which has a higher priority and runs at any time.          *)
(***************************************************************************)
EXTENDS Naturals, Sequences, FiniteSets

CONSTANTS
  Capacity,             \* QUEUE_CAPACITY, counted in tokens
  Buffers,              \* transmit buffers
  MaxAcks,              \* bound: pure acknowledgements sent and not delivered
  ReturnsWhileStoring   \* the virtualiser may return a buffer between lwIP's
                        \* look for one and enqueue_pbufs' request of a signal

ASSUME NetAssumption ==
  /\ Capacity \in Nat \ {0} /\ Buffers \in Nat \ {0}
  /\ MaxAcks \in Nat
  /\ ReturnsWhileStoring \in BOOLEAN

VARIABLES
  mode,      \* who executes: Microkit's loop ("idle"), sddf_lwip_process_rx
             \* ("rx", and "received" after its first segment), transmit
             \* ("transmit", "request", "recheck"), t_main ("main"), t_fault
             \* called from fault ("fault") or from notified ("notified"), or
             \* the end of notified ("end")
  state,     \* event_state_t
  mainpc,    \* where t_main waits for a character; "none" before gdb_connected
  detached,
  output,    \* the packet in the output buffer
  target,    \* the debuggees
  pcb,       \* gdb_pcb: "listen", "open" or "closed"
  up,        \* what the host sent and lwIP has not processed
  rx,        \* tcp_input_queue
  pend,      \* what is being sent: frames lwIP has not found a place for
  storing,   \* lwIP found no buffer for the first of them
  out,       \* frames sent and not read by GDB: stored in the chain from head
             \* to tail ("chain"), with the virtualiser ("queued"), "arrived"
  want,      \* a signal is requested for free buffers
  txnotif,   \* the virtualiser has signalled free buffers
  dirty,     \* frames were queued since the virtualiser was last notified
  kicked,    \* the virtualiser is notified
  hostpc,    \* what GDB waits for
  cur,       \* the packet it sent last
  etx,       \* GDB sent Ctrl-C and has not seen a stop since
  inherited  \* history: the target ran when GDB connected, although no GDB had
             \* detached, and no fault has stopped it since, nor GDB resumed it

coroutines == <<mode, state, mainpc, detached, output, target>>
frames == <<pend, storing, out, want, txnotif, dirty, kicked>>
host == <<hostpc, cur, etx, inherited>>
netVars == <<coroutines, pcb, up, rx, frames, host>>

Bodies == {"query", "continue", "detach"}
Characters == {"+", "$", "etx"} \cup Bodies
Tokens == Characters \cup {"syn", "established", "fin"}
Replies == {"+", "reply", "stop"}

\* What the segments may carry is left to the host.
Queue == INSTANCE BoundedFifo WITH items <- rx, Batch <- {}

At(place) == {i \in DOMAIN out : out[i].at = place}
Chain == At("chain")
Free == Buffers - Cardinality(At("queued"))
\* Mutant: lwIP does not look for a buffer.
HasBuffer_Always == TRUE
HasBuffer == Free > 0

Acks == {i \in DOMAIN out : out[i].tok = "ack"}
Lowest(S) == CHOOSE i \in S : \A j \in S : i <= j
Without(s, i) == SubSeq(s, 1, i - 1) \o SubSeq(s, i + 1, Len(s))

NetTypeOK ==
  /\ mode \in {"idle", "rx", "received", "transmit", "request", "recheck", "main",
               "fault", "notified", "end"}
  /\ state \in {"none", "EventLoop", "Fault"}
  /\ mainpc \in {"none", "seek", "body", "ack"}
  /\ detached \in BOOLEAN /\ output \in {"reply", "stop"}
  /\ target \in {"stopped", "running", "faulted"}
  /\ pcb \in {"listen", "open", "closed"}
  /\ \A i \in DOMAIN up : up[i] \in Tokens
  /\ \A i \in DOMAIN rx : rx[i] \in Characters
  /\ Len(rx) <= Capacity
  /\ \A i \in DOMAIN pend : pend[i] \in Replies \cup {"ack"}
  /\ storing \in BOOLEAN
  /\ \A i \in DOMAIN out :
       /\ out[i].tok \in Replies \cup {"ack"}
       /\ out[i].at \in {"chain", "queued", "arrived"}
  /\ Free \in 0 .. Buffers
  /\ {want, txnotif, dirty, kicked, etx, inherited} \subseteq BOOLEAN
  /\ hostpc \in {"gone", "dialing", "stopped", "acking", "waiting", "running"}
  /\ cur \in Bodies

NetInit ==
  /\ mode = "idle" /\ state = "none" /\ mainpc = "none"
  /\ detached = FALSE /\ output = "reply"
  /\ target = "stopped"
  /\ pcb = "listen" /\ up = <<>> /\ rx = <<>>
  /\ pend = <<>> /\ storing = FALSE /\ out = <<>>
  /\ want = FALSE /\ txnotif = FALSE /\ dirty = FALSE /\ kicked = FALSE
  /\ hostpc = "gone" /\ cur = "query" /\ etx = FALSE /\ inherited = FALSE
-----------------------------------------------------------------------------
(* Frames: tcp_send, enqueue_pbufs, transmit, sddf_lwip_maybe_notify *)

\* A host that went away reads nothing: its frames only take their buffers.
Hears == "fin" \notin {up[i] : i \in DOMAIN up}
Frame(tok, place) == [tok |-> IF Hears THEN tok ELSE "ack", at |-> place]

\* tcp_send gives tcp_write what to send; on a pcb without peer it is lost.
Outgoing(toks) == IF pcb = "open" THEN toks ELSE <<>>

SendFrame ==
  /\ pend # <<>> /\ ~storing /\ HasBuffer
  /\ out' = Append(out, Frame(Head(pend), "queued"))
  /\ pend' = Tail(pend)
  /\ dirty' = TRUE
  /\ UNCHANGED <<coroutines, pcb, up, rx, storing, want, txnotif, kicked, host>>

FindNoBuffer ==
  /\ pend # <<>> /\ ~storing /\ ~HasBuffer
  /\ storing' = TRUE
  /\ UNCHANGED <<coroutines, pcb, up, rx, pend, out, want, txnotif, dirty,
                 kicked, host>>

enqueue_pbufs ==
  /\ storing
  /\ want' = TRUE
  /\ out' = Append(out, Frame(Head(pend), "chain"))
  /\ pend' = Tail(pend)
  /\ storing' = FALSE
  /\ UNCHANGED <<coroutines, pcb, up, rx, txnotif, dirty, kicked, host>>

TransmitNotified ==
  /\ mode = "idle" /\ txnotif
  /\ txnotif' = FALSE
  /\ mode' = "transmit"
  /\ UNCHANGED <<state, mainpc, detached, output, target, pcb, up, rx, pend,
                 storing, out, want, dirty, kicked, host>>

TransmitPbuf ==
  /\ mode = "transmit" /\ Chain # {} /\ Free > 0
  /\ out' = [out EXCEPT ![Lowest(Chain)].at = "queued"]
  /\ dirty' = TRUE
  /\ UNCHANGED <<coroutines, pcb, up, rx, pend, storing, want, txnotif, kicked,
                 host>>

TransmitLooks ==
  /\ mode = "transmit"
  /\ \/ Chain = {} /\ want' = FALSE /\ mode' = "end"
     \/ Chain # {} /\ Free = 0 /\ mode' = "request" /\ UNCHANGED want
  /\ UNCHANGED <<state, mainpc, detached, output, target, pcb, up, rx, pend,
                 storing, out, txnotif, dirty, kicked, host>>

TransmitRequests ==
  /\ mode = "request"
  /\ want' = TRUE
  /\ mode' = "recheck"
  /\ UNCHANGED <<state, mainpc, detached, output, target, pcb, up, rx, pend,
                 storing, out, txnotif, dirty, kicked, host>>

\* Mutant: transmit does not look again after it requested the signal.
BuffersCameBackNever == FALSE
BuffersCameBack == Chain # {} /\ Free > 0
TransmitRechecks ==
  /\ mode = "recheck"
  /\ want' = IF BuffersCameBack THEN FALSE ELSE want
  /\ mode' = IF BuffersCameBack THEN "transmit" ELSE "end"
  /\ UNCHANGED <<state, mainpc, detached, output, target, pcb, up, rx, pend,
                 storing, out, txnotif, dirty, kicked, host>>

\* sddf_lwip_maybe_notify; a virtualiser that finds no frame sleeps on.
MaybeNotify == /\ kicked' = (At("queued") # {} /\ (kicked \/ dirty))
               /\ dirty' = FALSE

\* The timer is armed again at each tick; a tick with nothing to notify the
\* virtualiser of changes nothing.
\* Mutant: set_timeout is left out.
Ticks_Once == FALSE
Ticks == dirty
TimerTick ==
  /\ mode = "idle" /\ Ticks
  /\ MaybeNotify
  /\ UNCHANGED <<coroutines, pcb, up, rx, pend, storing, out, want, txnotif, host>>
-----------------------------------------------------------------------------
(* The virtualiser transmits a frame and returns its buffer *)

VirtTransmits ==
  /\ kicked
  /\ storing => ReturnsWhileStoring
  /\ \E i \in At("queued") :
       /\ out' = IF out[i].tok = "ack" THEN Without(out, i)
                 ELSE [out EXCEPT ![i].at = "arrived"]
       /\ kicked' = (At("queued") # {i})
  /\ txnotif' = (txnotif \/ want)
  /\ want' = FALSE
  /\ UNCHANGED <<coroutines, pcb, up, rx, pend, storing, dirty, host>>
-----------------------------------------------------------------------------
(* sddf_lwip_process_rx and the callbacks of tcp.c *)

Resting == pend = <<>>

ReceiveNotified ==
  /\ mode = "idle" /\ up # <<>>
  /\ mode' = "rx"
  /\ UNCHANGED <<state, mainpc, detached, output, target, pcb, up, rx, frames, host>>

\* lwIP answers who wants to connect.
SynReceived ==
  /\ mode \in {"rx", "received"} /\ Resting /\ up # <<>> /\ Head(up) = "syn"
  /\ up' = Tail(up)
  /\ pend' = <<"ack">>
  /\ mode' = "received"
  /\ UNCHANGED <<state, mainpc, detached, output, target, pcb, rx, storing, out, want,
                 txnotif, dirty, kicked, host>>

\* Mutant: only the first connection is kept.
Accepted_First(p) == IF p = "listen" THEN "open" ELSE p
Accepted(p) == "open"
tcp_accept_gdb ==
  /\ mode \in {"rx", "received"} /\ Resting
  /\ up # <<>> /\ Head(up) = "established"
  /\ up' = Tail(up)
  /\ pcb' = Accepted(pcb)
  /\ mode' = "received"
  /\ UNCHANGED <<state, mainpc, detached, output, target, rx, frames, host>>

\* tcp_recv_gdb without a pbuf
tcp_closed_gdb ==
  /\ mode \in {"rx", "received"} /\ Resting /\ up # <<>> /\ Head(up) = "fin"
  /\ up' = Tail(up)
  /\ pcb' = "closed"
  /\ mode' = "received"
  /\ UNCHANGED <<state, mainpc, detached, output, target, rx, frames, host>>

tcp_recv_gdb ==
  /\ mode \in {"rx", "received"} /\ Resting
  /\ \E n \in DOMAIN up :
       /\ \A i \in 1 .. n : up[i] \in Characters
       /\ Queue!Put(SubSeq(up, 1, n))
       /\ up' = SubSeq(up, n + 1, Len(up))
  /\ pend' = IF Cardinality(Acks) < MaxAcks THEN <<"ack">> ELSE <<>>
  /\ mode' = "received"
  /\ UNCHANGED <<state, mainpc, detached, output, target, pcb, storing, out, want,
                 txnotif, dirty, kicked, host>>

\* notified goes on when the segments that arrived are processed.
ReceiveDone ==
  /\ mode = "received" /\ Resting
  /\ mode' = CASE mainpc = "none" -> "end"
               [] state = "Fault" -> "notified"
               [] state = "EventLoop" -> "main"
  /\ state' = "none"
  /\ UNCHANGED <<mainpc, detached, output, target, pcb, up, rx, frames, host>>

\* The first connection starts t_main.
gdb_connected ==
  /\ mode = "end" /\ mainpc = "none" /\ pcb # "listen"
  /\ mainpc' = "seek"
  /\ mode' = "main"
  /\ UNCHANGED <<state, detached, output, target, pcb, up, rx, frames, host>>

NotifiedReturns ==
  /\ mode = "end" /\ (mainpc = "none" => pcb = "listen")
  /\ mode' = "idle"
  /\ MaybeNotify
  /\ UNCHANGED <<state, mainpc, detached, output, target, pcb, up, rx, pend,
                 storing, out, want, txnotif, host>>
-----------------------------------------------------------------------------
(* t_main *)

Take == Resting /\ Queue!Get

Wait ==
  /\ mode \in {"main", "fault", "notified"} /\ Resting /\ rx = <<>>
  /\ state' = IF mode = "main" THEN "EventLoop" ELSE "Fault"
  /\ mode' = IF mode = "fault" THEN "idle" ELSE "end"
  /\ UNCHANGED <<mainpc, detached, output, target, pcb, up, rx, frames, host>>

\* Mutant: GDB that connects again finds the system running.
SuspendsForCtrlC(pkt) == pkt = "etx"
Suspends(pkt) == detached \/ pkt = "etx"

\* One turn of event_loop for a packet that get_packet returned.
Process(pkt, ack) ==
  /\ detached' = (pkt = "detach")
  /\ \/ /\ pkt = "continue"
        /\ target' = "running"
        /\ mainpc' = "seek"
        /\ pend' = Outgoing(ack)
        /\ UNCHANGED output
     \/ /\ pkt # "continue"
        /\ target' = IF Suspends(pkt) THEN "stopped" ELSE target
        /\ mainpc' = "ack"
        /\ output' = IF pkt = "etx" THEN "stop" ELSE "reply"
        /\ pend' = Outgoing(Append(ack, output'))

Seek ==
  /\ mode = "main" /\ mainpc = "seek" /\ Take
  /\ \/ Head(rx) = "etx" /\ Process("etx", <<>>)
     \/ /\ Head(rx) # "etx"
        /\ mainpc' = IF Head(rx) = "$" THEN "body" ELSE "seek"
        /\ UNCHANGED <<detached, output, target, pend>>
  /\ UNCHANGED <<mode, state, pcb, up, storing, out, want, txnotif, dirty, kicked,
                 host>>

\* What a lost connection left unfinished is read on to the next '$'.
ReadBody ==
  /\ mode = "main" /\ mainpc = "body" /\ Take
  /\ \/ Head(rx) \in Bodies /\ Process(Head(rx), <<"+">>)
     \/ Head(rx) \notin Bodies /\ UNCHANGED <<mainpc, detached, output, target, pend>>
  /\ UNCHANGED <<mode, state, pcb, up, storing, out, want, txnotif, dirty, kicked,
                 host>>

\* put_packet in t_main; the system is resumed after the reply to D was
\* acknowledged.
AwaitAck ==
  /\ mode = "main" /\ mainpc = "ack" /\ Take
  /\ mainpc' = IF Head(rx) = "+" THEN "seek" ELSE "ack"
  /\ target' = IF Head(rx) = "+" /\ detached THEN "running" ELSE target
  /\ pend' = IF Head(rx) = "+" THEN <<>> ELSE Outgoing(<<output>>)
  /\ UNCHANGED <<mode, state, detached, output, pcb, up, storing, out, want,
                 txnotif, dirty, kicked, host>>
-----------------------------------------------------------------------------
(* fault and t_fault *)

fault ==
  /\ mode = "idle" /\ target = "faulted"
  /\ target' = "stopped"
  /\ output' = "stop"
  /\ pend' = Outgoing(<<"stop">>)
  /\ mode' = "fault"
  /\ inherited' = FALSE
  /\ UNCHANGED <<state, mainpc, detached, pcb, up, rx, storing, out, want, txnotif,
                 dirty, kicked, hostpc, cur, etx>>

\* put_packet in t_fault; notified goes on to t_main.
\* Mutant: notified returns when t_fault does.
HandsOverNever == FALSE
HandsOver == mode = "notified"

AwaitStopAck ==
  /\ mode \in {"fault", "notified"} /\ Take
  /\ \/ /\ Head(rx) = "+"
        /\ state' = IF HandsOver THEN "none" ELSE "EventLoop"
        /\ mode' = IF HandsOver THEN "main"
                   ELSE IF mode = "fault" THEN "idle" ELSE "end"
        /\ UNCHANGED pend
     \/ /\ Head(rx) # "+"
        /\ pend' = Outgoing(<<output>>)
        /\ UNCHANGED <<state, mode>>
  /\ UNCHANGED <<mainpc, detached, output, target, pcb, up, storing, out, want,
                 txnotif, dirty, kicked, host>>

ThreadFaults ==
  /\ mode = "idle" /\ target = "running"
  /\ target' = "faulted"
  /\ UNCHANGED <<mode, state, mainpc, detached, output, pcb, up, rx, frames, host>>
-----------------------------------------------------------------------------
(* GDB *)

SendPacket(pkt) == /\ up' = up \o <<"$", pkt>>
                   /\ cur' = pkt /\ hostpc' = "acking"

\* Nothing is on its way.
Silence == /\ mode = "idle" /\ up = <<>> /\ ~txnotif
           /\ \A i \in DOMAIN out : out[i].at = "chain"

\* GDB dials, and its TCP again when no answer comes.
HostDials ==
  /\ mode = "idle"
  /\ hostpc = "gone" \/ (hostpc = "dialing" /\ Silence /\ out # <<>>)
  /\ up' = Append(up, "syn")
  /\ hostpc' = "dialing"
  /\ UNCHANGED <<coroutines, pcb, rx, frames, cur, etx, inherited>>

\* The answer came, as did what the debugger sent before.
HostConnects ==
  /\ mode = "idle" /\ hostpc = "dialing" /\ up = <<>> /\ out = <<>>
  /\ up' = up \o <<"established", "+", "$", "query">>
  /\ cur' = "query" /\ hostpc' = "acking" /\ etx' = FALSE
  /\ inherited' = (target # "stopped" /\ ~detached)
  /\ UNCHANGED <<coroutines, pcb, rx, frames>>

HostSends ==
  /\ mode = "idle" /\ hostpc = "stopped"
  /\ \E pkt \in Bodies : SendPacket(pkt)
  /\ UNCHANGED <<coroutines, pcb, rx, frames, etx, inherited>>

HostInterrupts ==
  /\ mode = "idle" /\ hostpc = "running" /\ ~etx
  /\ up' = Append(up, "etx") /\ etx' = TRUE
  /\ UNCHANGED <<coroutines, pcb, rx, frames, hostpc, cur, inherited>>

\* The frames TCP can hand to GDB next: the first it has not read, once it came.
Unread == {i \in DOMAIN out : out[i].tok # "ack"}
Hands(tok) == /\ Unread # {}
              /\ out[Lowest(Unread)] = [tok |-> tok, at |-> "arrived"]
Reads(tok) == Hands(tok) /\ out' = Without(out, Lowest(Unread))
\* GDB goes away: what reached it is gone, the other frames only take their
\* buffers and places in the chain.
Left ==
  LET q == Cardinality(At("queued"))
  IN  [i \in 1 .. q + Cardinality(Chain) |->
         [tok |-> "ack", at |-> IF i <= q THEN "queued" ELSE "chain"]]

HostReadsAck ==
  /\ mode = "idle" /\ hostpc = "acking"
  /\ \/ /\ Reads("+")
        /\ hostpc' = IF cur = "continue" THEN "running" ELSE "waiting"
        /\ inherited' = (inherited /\ cur # "continue")
        /\ UNCHANGED <<up, cur>>
     \/ /\ Reads("reply") \/ Reads("stop")
        /\ up' = Append(up, "+")
        /\ UNCHANGED <<hostpc, cur, inherited>>
  /\ UNCHANGED <<coroutines, pcb, rx, pend, storing, want, txnotif, dirty, kicked,
                 etx>>

\* After the reply to D, GDB acknowledges it and closes the connection.
HostReadsReply ==
  /\ mode = "idle" /\ hostpc \in {"waiting", "running"}
  /\ \/ Reads("+") /\ UNCHANGED <<up, host>>
     \/ /\ cur # "detach"
        /\ Reads("reply") \/ Reads("stop")
        /\ up' = Append(up, "+")
        /\ hostpc' = "stopped"
        /\ etx' = (etx /\ hostpc # "running")
        /\ UNCHANGED <<cur, inherited>>
     \/ /\ cur = "detach"
        /\ Hands("reply") \/ Hands("stop")
        /\ out' = Left
        /\ up' = up \o <<"+", "fin">>
        /\ hostpc' = "gone"
        /\ UNCHANGED <<cur, etx, inherited>>
  /\ UNCHANGED <<coroutines, pcb, rx, pend, storing, want, txnotif, dirty, kicked>>

\* GDB is killed, at any time, and the end of what it sent never arrives.
HostVanishes ==
  /\ mode = "idle" /\ Hears
  /\ hostpc \notin {"gone", "dialing"}
  /\ \E n \in 0 .. Len(up) :
       /\ \A i \in n + 1 .. Len(up) : up[i] \in Characters
       /\ up' = Append(SubSeq(up, 1, n), "fin")
  /\ out' = Left
  /\ hostpc' = "gone"
  /\ UNCHANGED <<coroutines, pcb, rx, pend, storing, want, txnotif, dirty, kicked,
                 cur, etx, inherited>>

\* The acknowledgement timed out.
HostResends ==
  /\ hostpc = "acking" /\ Silence
  /\ SendPacket(cur)
  /\ UNCHANGED <<coroutines, pcb, rx, frames, etx, inherited>>
-----------------------------------------------------------------------------
NetNext ==
  \/ SendFrame \/ FindNoBuffer \/ enqueue_pbufs
  \/ TransmitNotified \/ TransmitPbuf \/ TransmitLooks
  \/ TransmitRequests \/ TransmitRechecks \/ TimerTick
  \/ VirtTransmits
  \/ ReceiveNotified \/ SynReceived \/ tcp_accept_gdb \/ tcp_closed_gdb
  \/ tcp_recv_gdb \/ ReceiveDone \/ gdb_connected \/ NotifiedReturns
  \/ Wait \/ Seek \/ ReadBody \/ AwaitAck \/ fault \/ AwaitStopAck
  \/ ThreadFaults
  \/ HostDials \/ HostConnects \/ HostSends \/ HostInterrupts \/ HostReadsAck
  \/ HostReadsReply \/ HostVanishes \/ HostResends

NetSpec == NetInit /\ [][NetNext]_netVars

\* The debugger is scheduled whenever it has something to do, the timer ticks
\* and notifications and faults are delivered, the virtualiser transmits, GDB
\* reads what it waits for and sends again after a silence.  Nothing is
\* assumed of the debuggees and of what the user of GDB asks for.
Executes ==
  \/ SendFrame \/ FindNoBuffer \/ enqueue_pbufs
  \/ TransmitPbuf \/ TransmitLooks \/ TransmitRequests \/ TransmitRechecks
  \/ SynReceived \/ tcp_accept_gdb \/ tcp_closed_gdb \/ tcp_recv_gdb
  \/ ReceiveDone \/ gdb_connected \/ NotifiedReturns
  \/ Wait \/ Seek \/ ReadBody \/ AwaitAck \/ AwaitStopAck
Delivers == ReceiveNotified \/ TransmitNotified \/ TimerTick \/ fault
Fairness ==
  /\ WF_netVars(Executes)
  /\ WF_netVars(Delivers)
  /\ WF_netVars(VirtTransmits)
  /\ WF_netVars(HostReadsAck \/ HostReadsReply)
  /\ WF_netVars(HostResends)
FairNetSpec == NetSpec /\ Fairness
-----------------------------------------------------------------------------
(* Properties *)

\* The debugger never sleeps on a character it has: when it sleeps both
\* coroutines that wait for one have seen them all, t_main also those that came
\* behind the acknowledgement t_fault waited for ("we want to switch to the event
\* loop after handling the fault message"), and one of the two is called when the
\* next arrives.
InputDrained ==
  mode = "idle" /\ mainpc # "none" => rx = <<>> /\ state # "none"

\* While GDB believes the target stopped it is, also for a GDB that connects
\* after another was detached or killed, and whatever the lost connection had
\* left in the queue, in put_packet and in the two coroutines.  The one exception
\* is a target that ran when this GDB connected, the one before having been killed
\* while it ran, until it faults or this GDB resumes it: closing a connection
\* suspends nothing, and event_loop only after a detach or for Ctrl-C.
AllStop == hostpc = "stopped" => target = "stopped" \/ inherited

\* Without the exception, as the answer to '?' has it ("I've only seen this packet
\* be used when first connecting to the system, in which case only swbreak makes
\* any sense"): the code answers T05swbreak while the target runs.
StrictAllStop == hostpc = "stopped" => target = "stopped"

\* Each packet GDB sends is acknowledged and answered unless GDB goes away, over
\* any number of connections, with frames that wait for buffers.
CommandAnswered ==
  hostpc \in {"acking", "waiting"} ~> hostpc \in {"stopped", "running", "gone"}

\* A thread that faults is reported to a GDB that waits for a stop, unless it is
\* killed: although fault() itself notifies nobody of the frames it sends, and if
\* they wait for a buffer ("Indicate to the tx virt that we wish to be notified
\* about free tx buffers").
FaultReported ==
  hostpc = "running" /\ target = "faulted" ~> hostpc \in {"stopped", "gone"}
=============================================================================
