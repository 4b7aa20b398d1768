# A TLA+ development of libgdb

libgdb is a GDB stub for seL4 systems: a library (`src/gdb.c`, `src/arch/arm/64/gdb.c`) that a
debugger component links to debug the protection domains (PDs) it is the parent of. This
directory models the library - registry, run control, breakpoints, memory and registers - and the
debuggers of the sDDF serial and net examples, checks them with TLC, and proves the most important
invariants and refinements with TLAPS.
Paths below are relative to the repository.

## 1. Inventory

| Component | State | Operations | Modelled in |
|---|---|---|---|
| Registry (`src/gdb.c`, `include/gdb.h`) | `inferiors[64]` with `threads[256]` each, their cursors, `target_thread` | register inferior / thread, thread exit, lookups by id and by gdb id | `GdbCore` |
| Packet handlers (`src/gdb.c`) | the flags `wakeup`, `ss_enabled`; `handled[][]` | `g G q Q H T D ? vCont`, Ctrl-C; `Z0 z0`; `Z1`-`Z4 z1`-`z4`; `m M`, values of `g G` | `GdbCore`; `SoftwareBreakpoints`; `HardwareBreakpoints`; `TargetAccess` |
| Faults and run control (`src/gdb.c`) | kernel state of the TCBs | `gdb_handle_fault`, `suspend_system`, `resume_system`, single stepping | `GdbCore` |
| Software breakpoints (`src/arch/arm/64/gdb.c`) | `software_breakpoints[32]`, the debuggee's text | set, unset, clear at detach | `SoftwareBreakpoints` implements `BreakpointSet` |
| Hardware breakpoints and watchpoints (same file) | two tables per inferior, debug registers per thread | set, unset, clear at detach, enable for a new thread | `HardwareBreakpoints` implements `DebugPoints` |
| Memory, registers, hex (same file, `src/util.c`) | none | `inf_mem2hex`, `inf_hex2mem`, `regs2hex`, `hex2regs`, `mem2hex`, ... | `TargetAccess` |
| Serial debugger (`examples/microkit_sddf_serial/.../debugger.c`) | coroutines, `state`, `detached`, the rx queue, one output buffer | `event_loop`, `get_packet`, `put_packet`, `fault`, `notified` | `EventLoop` |
| Net debugger (`examples/microkit_sddf_net/.../debugger.c`) | as above; `debugger_initialized`; the chain of frames that wait for a buffer | the same over TCP; `gdb_connected`, `enqueue_pbufs`, `transmit`, `set_timeout` | `NetDebugger` |
| TCP transport (`.../tcp.c`) | `gdb_pcb`, `tcp_initialized`, the receive window | accept, receive, close, `tcp_send` | `NetDebugger` (without the window) |
| Character queue (`.../char_queue.h`) | `head`, `tail`, `buf` | enqueue one or a batch, dequeue | `CharQueue` implements `BoundedFifo` |
| Integrated serial debugger | - | - | no: written for an earlier interface of the library |
| `tools/serial_demux` | framing state | routes bytes to GDB or the console | no: a tool on the host |
| `printf.c`, string helpers, build files, `ping`/`pong` | - | - | no |

**How they interact.** The debugger PD has a higher priority than its children. Microkit calls
`fault` when a child faults and `notified` when characters arrived; both run on the coroutine
`t_event` and switch to `t_fault` (send a stop, wait for its acknowledgement) or `t_main` (read a
packet, let the library handle it, send the reply and wait for its acknowledgement, resume the
system). A coroutine that needs a character that is not there records what it waits for in
`state` and switches back. In the net example the characters come through lwIP, which runs inside
`notified` and calls `tcp.c`, and replies leave as frames in buffers that the transmit virtualiser
returns at any time. The library's calls are sequential; all concurrency is between the
debugger's coroutines, the children, the line and GDB.

**What is hard.** Packets, acknowledgements, Ctrl-C and faults cross; `put_packet` consumes any
character; faults are withdrawn by a suspend; slots of exited threads are reused while GDB holds
their ids; breakpoints share 8-byte words; a lost acknowledgement makes GDB send a packet again.
In the net example a lost connection leaves half a packet or an unacknowledged reply behind, and
frames wait for buffers and for a signal that they are back. Debug registers belong to TCBs, which
outlive the threads that used them. `PROJECT.json` lists these hazards at their lines with the properties that cover them.

**What makes a component correct.** Registry: ids resolve to one live thread and are never given
twice. Run control: everything is suspended while GDB believes so; a step runs one thread, a
continue all. Breakpoints: the text differs from the program exactly where a breakpoint is; the debug registers of
each thread hold the table. Memory and registers: what GDB reads and writes is what is there. Queue:
a FIFO.
Event loop: no lost wakeup, no wait for ever, one owner of the output buffer, every stop reported.

## 2. Modules

**`GdbCore`**: the library. `inferiors`, `threads`, `curr_inferior_idx` and `target_thread` are the
variables of `gdb.c`; the threads of an inferior are a separate function on slots `<<p, t>>`.
`tcb_state` and `single_step` are kernel state, changed as the seL4 invocations of the code change
it (`ReadRegisters` with suspend, `WriteRegisters` with resume included). `output` is the reply, by
its kind and the thread-id it carries. A registration makes no call of the kernel on the run state: a thread registered on a TCB
that was used before is suspended or single stepped as the earlier thread was. `status` leaves "up"
when an assertion fails or a NULL is followed: the debugger PD then never runs again. Each action is one API call; `HandlePacket` has
one operator per packet handler. A linear search is the set of its first matches (`LookupThread`,
`FirstFree`), so that it can be empty. `vCont` is modelled by the set of its actions carried out
(`Carried`), the first action that names each thread (`HandledBy`) and the flags that result
(`Wakes`). `Parse` is what `parse_thread_id` leaves in an uninitialised int: one hex digit is
assigned whole, two digits set the low byte and leave the rest (`Junk`) as it was.

**`SoftwareBreakpoints`**: one inferior's table and text. An address counts instructions; the word
at `a` holds the instructions `a` and `a + 1`, as the kernel's 8-byte words do, and the save and
restore of a whole word is modelled. It implements **`BreakpointSet`**: a set of breakpoints and
the text with a BRK at each.

**`EventLoop`** EXTENDS `GdbCore`: `mode` says which coroutine executes, `mainpc` where `t_main`
waits for a character, `state` and `detached` are the C variables. An action runs up to the next
point where a character is needed. A packet on the line is its `$` and a body, which stands for the
text, `#` and checksum; the body may arrive damaged. GDB, the line, the virtualiser and the
children are the environment (external). GDB acknowledges and drops whatever packet it reads while
it waits for an acknowledgement, sends its packet again on `-` or after a silence, and uses
`scheduler-locking step`, as the example's README says.

**`HardwareBreakpoints`**: one inferior's two tables, as one function on slots, against the debug
registers of every TCB. `SetPoint` has the loop that stops at the first thread the kernel refuses
(`Reached`) and leaves the registers of the threads before it armed; `Detach` unsets free slots too
(`UnsetByDetach`); `RegisterThread` and `ThreadExit` are what `GdbCore`'s actions of these names do to
the registers, which stay with the TCB. `tenure` only remembers how often a TCB was registered. It
implements **`DebugPoints`**: the points GDB was told of, and for every TCB all that its debug
registers hold, which is those points and strays. The mapping counts every register, of freed slots and
of TCBs without a thread too, so that a point which is taken out but stays armed would show.

**`TargetAccess`**: memory is a function on mapped addresses, a word `WordSize` bytes from any
address. `Inf_hex2mem` is the loop state after each byte, with the address as the code advances it;
the hex digits are those of `util.c`, while GDB's are written independently (`Digit`, `HexOf`).
`request` keeps the packet handled last, for the properties.

**`CharQueue`**: `char_queue.h` with its free-running indices. It implements **`BoundedFifo`**.

**`NetDebugger`**: the two coroutines again, now with what differs in the net example. `mode` says
who executes: Microkit's loop, lwIP inside `notified`, `transmit` with its three looks at the chain
and the buffers, or a coroutine. The queue is a `BoundedFifo` (`Queue!Put`, `Queue!Get`), which is what
`CharQueue` implements. `pend` is what the debugger is just sending; each frame of it finds a buffer
or goes to the chain (`enqueue_pbufs`), in two steps between which the virtualiser may run. The
registry is left out: the debuggees are stopped, running, or one of them faulted. `inherited` remembers
that the target ran when this GDB connected although it had not detached, and that GDB has not resumed
it since.

`MCGdbCore`, `MCSoftwareBreakpoints`, `MCEventLoop`, `MCHardwareBreakpoints`, `MCTargetAccess`,
`MCCharQueue` and `MCNetDebugger` are the modules the runs name. Definitions
commented "Mutant" are plausible bugs of the definition that follows them; no specification uses
them. Each property is violated when one of them takes the original's place (`mutants` of
`PROJECT.json`), which shows that the property depends on that piece of code.

## 3. Runs

| Run | Expect | What it asks |
|---|---|---|
| `core_wrap` | pass | registry and stepping flags while slots are reused and the cursor goes round |
| `core_fresh` | pass | GDB names live threads: no handler gets stuck, two actions in a `vCont` included |
| `breakpoints_apart` | pass | text, table and refinement for breakpoints 8 bytes apart |
| `event_loop` | pass | stop and resume discipline, coroutines, wakeups, with a lossy line; under fairness, Ctrl-C, faults and commands are answered |
| `hardware_points` | pass | tables against debug registers, with refusals, late threads and reused TCBs |
| `memory` | pass | `m`, `g`, `G` exact; `M` of one byte |
| `char_queue` | pass | the ring is a bounded FIFO wherever its indices wrap |
| `net_loop` | pass | the net debugger over several connections, GDB killed at any moment, with frames waiting for buffers |
| `breakpoints_adjacent` | violation | two breakpoints in one word |
| `memory_write` | violation | `M` of more than one byte |
| `net_killed_running` | violation | GDB is killed while its target runs, and another connects |
| `net_frame_stranded` | violation | a buffer comes back before the signal for it is requested |

**Bounds and why they suffice.**

- Arrays are scaled down with the wire id: `MaxPds < WireMod <= MaxThreads` keeps the relation of
  64 PDs, 256 threads and one byte. `core_wrap` has 2 slots for 3 thread ids and 3 TCBs, and
  cursors up to `IdxLimit = 3`, enough for a full array, a refused registration, an exit and a
  reuse on the far side of the wrap.
  A thread may exit while it is stepped and its TCB come back.
- `core_fresh` stays below `IdxLimit = 2` on 2 inferiors, where the byte suffices; its packets have
  one or two `vCont` actions, the least that lets one action shadow another.
- `GdbIdMod = 64` is never reached: the 16-bit wrap of `gdb_id` is outside the runs.
- `StrictHost` says whether GDB names only threads that are alive, or all it was ever told of.
- `breakpoints_apart` has more addresses (6) than slots (3), and one address whose word is not
  mapped. `MayResend` says whether GDB may send `Z0` or `z0` again.
- `event_loop`: two children with one thread each, as the example registers; `MaxNoise = 1`
  character lost or damaged; commands `H`, step, continue and detach, one kind of fault (kinds only
  change the wording of the stop). The queues need no bound: GDB has one packet outstanding. The theorems
  hold for every packet but those their assumptions name.
- `hardware_points`: one breakpoint slot and two watchpoint slots for four points, two of them at one
  address, so that tables fill up and look-ups by address alone would fail; two thread slots and two
  TCBs, one of which refuses one point, so that a refusal can come after another thread was reached.
- `memory`: words of 2 bytes and 6 mapped ones, an address on either side of them, reads of 0 to 6
  bytes (3 words) against a buffer that holds 5, writes of 1 and 3 bytes, 2 registers and half a one.
  `memory_write` has 2 more bytes mapped, so that the write lands.
- `char_queue`: `Capacity = 3`, `IndexMod = 9` (a multiple, as 2048 divides 2^32) and batches up to
  `MaxBatch = 4`: every position of head and tail, and a batch that does not fit an empty ring.
- `net_loop`: `Buffers = 2`, the least with which a frame waits behind others; `MaxAcks = 2` TCP
  acknowledgements on their way, so that buffers run out while a reply is sent; `Capacity = 8` tokens is
  not reached, since GDB has one packet outstanding (the queue holds at most 5). The number of
  connections and commands is not bounded. `ReturnsWhileStoring = FALSE` keeps the virtualiser from
  returning a buffer in the window that `net_frame_stranded` is about, and only from that.
- `CHECK_DEADLOCK FALSE` is used for `GdbCore`, where the model stops when the debugger is stuck or
  the cursors reach `IdxLimit`, and for `net_frame_stranded`, where everyone waits. `TcbSymmetry` is sound because no action tells two TCBs
  apart and no liveness is checked there.

**Fairness** (`EventLoop!Fairness`): weak fairness of the debugger's steps, of Microkit's delivery
of notifications and faults, of the line, and of GDB reading and resending. The debugger PD has
the highest priority among the modelled components and the kernel delivers pending signals and
faults to a waiting PD. Nothing is assumed of the children or of the user: they need not fault,
send or interrupt.

**Fairness of the net example** (`NetDebugger!Fairness`): the same, with the 100 ms timer, which
`notified` arms again at each tick, and the transmit virtualiser, which transmits when it was
notified. GDB's user, the debuggees and new connections are not assumed to do anything. `InputDrained`
and `NoLostWakeup` (serial) are what make the fairness of the debugger's steps enough.

**The environment of the net example.** TCP delivers what GDB sends whole and in order, cut into
segments anywhere, so no checksum fails; its retransmissions are invisible except for the connection
request. GDB and the debuggees act only while the debugger PD sleeps: it has a higher priority, and
sees of the network only what lwIP received before it slept. GDB is killed at any moment, while its
target runs too: `tcp_recv_gdb` suspends nothing on a close, and `event_loop` suspends only after a
detach or for Ctrl-C, so that the next GDB meets a running target (`inherited`, `net_killed_running`).

**What the properties say.** `core_wrap`: `LiveIdsUnique`, `GdbIdsResolve`, `GdbIdsNeverReused`,
`RefusesOnlyWhenFull` are the registry; the ids of `GdbIdsResolve` and `GdbIdsNeverReused` are the
16-bit ids inside `gdb.c`, of which GDB sees the low byte. `KernelStepKnown`, of steps, is
why detach finds the threads it has to stop stepping, but for those registered on a TCB left stepped,
which trap on after it. `event_loop`: `AckQuiescent` is why one output buffer and one fault stack are
enough; `AllStop`, `HostTargetAgrees`, `StepIsolation` and `ContinueResumesAll` relate what GDB
believes to what runs; `NoLostWakeup` and `NobodyWaitsInVain` exclude the two ways to wait for
ever without a deadlock; `InterruptStops`, `FaultReported` and `CommandAnswered` are its liveness.
`hardware_points`: `EntriesArmed` says what a table entry is for, `NoStray` what a thread may stop at
besides; `ImplementsDebugPoints` says of every step that only a refusal, and an exit on its own TCB,
make strays. `memory`: `ReadExact`, `RegistersExact` and `ByteWriteExact` compare what the code's
loops do with the bytes GDB named. `net_loop`: `InputDrained` is the absence of lost wakeups with two
coroutines and segments of several packets; `AllStop`, `CommandAnswered` and `FaultReported` hold over
lost connections and with replies and stops in the chain; `AllStop` excepts only what `inherited` marks.

**What the violations show** (details and quotations under `findings`). Breakpoints that share a word
leave a BRK in the text for good; `M` of more than one byte writes elsewhere and reports OK; a frame
that is put into the chain just after the last buffer came back stays there; a GDB that connects after
another was killed is told that a running target stopped. Where a passing run would meet one of these,
its constants keep it out: `breakpoints_apart` has spaced addresses, `memory` asks of writes only one
byte (`ByteWriteExact`), `net_loop` has `ReturnsWhileStoring = FALSE`. `net_loop` keeps nothing out of
what `net_killed_running` shows: there the property names the exception.

**Known limits of the code that constants exclude.** TLC finds each when the constants let it in.

- The wire id is one byte of a 16-bit id: the 256th thread of an inferior is told to GDB as 00, which `H`
  takes for thread 1, and later ones as ids of earlier ones (`SelectableByWireId` fails). `core_fresh` has
  `IdxLimit = 2`.
- A thread-id of 0 selects thread 1 even if it exited, and the assertion at `src/gdb.c:501` fails:
  `core_fresh` has `StrictHost = TRUE`.
- A thread-id of two digits is completed by what the stack held: runs have ids of one digit (`OneDigit`).
- A `Z0` handled twice saves the BRK as the original word: `MayResend = FALSE`.
- `G` resumes the thread it writes (`src/gdb.c:45`), which then runs beside the one GDB steps
  (`StepIsolation` fails): `event_loop` has no `G` among `HostOps`.
- `vCont;C` is offered (`src/gdb.c:661`) and not carried out, so that a continue after a step which passes
  on a signal resumes the stepped thread only (`ContinueResumesAll` fails): `event_loop` has no `C` among
  `VContKinds`.

## 4. Proofs

All theorems hold for every value of the constants allowed by the named ASSUMEs.

| Theorem | Module | Statement | Extra assumptions |
|---|---|---|---|
| `TypeCorrect` | `GdbCoreProofs` | `Spec => []TypeOK` | - |
| `IdsUnique` | `GdbCoreProofs` | `Spec => []LiveIdsUnique` | - |
| `RefusalsJustified` | `RegistryIdProofs` | `Spec => RefusesOnlyWhenFull` | - |
| `StepKnown` | `RegistryIdProofs` | `Spec => KernelStepKnown` | - |
| `IdsResolve` | `RegistryIdProofs` | `Spec => []GdbIdsResolve` | `NoIdWrap` |
| `IdsFresh` | `RegistryIdProofs` | `Spec => GdbIdsNeverReused` | `NoIdWrap` |
| `WireIdsSelect` | `RegistryIdProofs` | `Spec => []SelectableByWireId` | `FewRegistrations` |
| `CoreStaysUp` | `RegistryIdProofs` | `Spec => []NeverStuck` | `FewRegistrations`, `ReadAsWritten`, `StrictHost` |
| `TypeCorrect` | `SoftwareBreakpointsProofs` | `Spec => []TypeOK` | - |
| `Invariance`, `BreakpointsExact`, `TableExact`, `SavedWordsAlwaysTrue` | `SoftwareBreakpointsProofs` | the invariant `IInv` and its parts | `Spaced`, `~MayResend` |
| `Refinement` | `SoftwareBreakpointsProofs` | `Spec => Abstract!Spec` | `Spaced`, `~MayResend` |
| `Invariance`, `TypeCorrect`, `TablesExact`, `EntriesAlwaysArmed`, `NoStrayEver` | `HardwareBreakpointsProofs` | the invariant `IInv` and its parts | - |
| `Refinement` | `HardwareBreakpointsProofs` | `Spec => ImplementsDebugPoints` | - |
| `TypeCorrect`, `ReadsExact`, `ContextExact` | `TargetAccessProofs` | `Spec => []TypeOK`, `[]ReadExact`, `[]RegistersExact` | - |
| `OneByteWritten` | `TargetAccessProofs` | `Spec => ByteWriteExact` | - |
| `TypeCorrect` | `CharQueueProofs` | `Spec => []TypeOK` | - |
| `Refinement` | `CharQueueProofs` | `Spec => ImplementsFifo` | - |
| `LoopTypeCorrect` | `EventLoopProofs` | `LoopSpec => []LoopTypeOK` | - |
| `WakeupsKept` | `EventLoopProofs` | `LoopSpec => []NoLostWakeup` | - |
| `QuiescentWaits`, `AllStopKept` | `EventLoopProofs` | `LoopSpec => []AckQuiescent`, `[]AllStop` | `"G" \notin HostOps` |
| `TargetAgrees`, `StepsAlone`, `SomebodyStops` | `EventLoopProofs` | `LoopSpec => []HostTargetAgrees`, `[]StepIsolation`, `[]NobodyWaitsInVain` | `PlainHost`, `OneByteIds` |
| `ContinueReachesAll` | `EventLoopProofs` | `LoopSpec => ContinueResumesAll` | `PlainHost`, `OneByteIds` |
| `LoopStaysUp` | `EventLoopProofs` | `LoopSpec => []NeverStuck` | `PlainHost`, `OneByteIds` |
| `Drained` | `NetDebuggerProofs` | `NetSpec => []InputDrained` | - |
| `NetTypeCorrect` | `NetDebuggerProofs` | `NetSpec => []NetTypeOK` | - |
| `StoppedForGdb` | `NetDebuggerProofs` | `NetSpec => []AllStop` | - |

**The extra assumptions.**

- `NoIdWrap`: the cursors stay below the 16 bits of `gdb_id`. `FewRegistrations`: they stay below the
  one byte `write_thread_id` prints; a wire id of an inferior gone round once is ambiguous.
- `ReadAsWritten`: ids are either one hex digit or parsed over an int whose upper bytes are 0; for
  the serial example, where every thread has id 1, `OneByteIds` says the same of the inferiors alone.
  Without it a thread-id of two digits is completed by whatever the stack held. `StrictHost`: GDB
  names live threads only.
- `"G" \notin HostOps`: `WriteRegisters` resumes the thread it writes, so `G` ends all-stop mode.
  `PlainHost` adds that GDB sends no `vCont;C`, which is offered and not carried out.
- `Spaced`: no two breakpoint addresses share a word. `~MayResend`: no `Z0` is handled twice.

Each is necessary: TLC finds a counterexample when the constants let the excluded case in
(`breakpoints_adjacent` is one), and each leaves every bound free.

*Argument for the registry.* `GdbCoreProofs` first reduces a packet to its effect on the registry:
no handler changes more of a thread than its two flags (`HandlePacketEffect`). `LiveIdsUnique` is
inductive together with the distinctness of live TCBs (`RInv`) because the
search before a registration is complete: it fails only if no live thread has the id. `IdsResolve`
needs to know where ids are: `GInv` adds that a gdb id is congruent to its slot (`PdIdsPlaced`,
`ThreadIdsPlaced`) and does not exceed the cursor it was drawn from (`IdsBelowCursor`). A new id is
the cursor after it moved past the slot, hence above all earlier ids, which gives `IdsFresh`.
`KernelStepKnown` holds of a `vCont` because a thread's kernel flag and `ss_enabled` are set
by the same action, the first that names the thread, and because live TCBs are distinct; no other packet
makes the kernel step a thread (`HidesNone`). A registration leaves the kernel's flag as it finds it.
`RefusesOnlyWhenFull` is about the search for a slot: `n` consecutive values of a cursor meet every
residue (`Rotation`), so a search that ends without a slot saw only used ones, and one that could
end has a first free slot (`FirstFreeFull`, by the least element of a set of numbers, `Least`).

*Argument for the ids on the wire.* As long as no cursor passes 255, `FreshInv` holds: the slots
below a cursor are those filled so far, in order (`PdsInOrder`, `ThreadsInOrder`), and slot `k` has
gdb id `k + 1`, so that the byte on the wire is the id. A handler can then fail only for a thread-id
that names no live thread. A GDB with `StrictHost` sends none, and `ActionFits` and `PacketUp` go
through the packets one by one, the two actions of a `vCont` included.

*Argument for breakpoints.* `BreakpointsInPlace` alone is not inductive: an unset writes back what
the table saved. `IInv` adds `TableMatchesHost` (each inserted breakpoint in exactly one slot) and
`SavedWordsTrue` (a used slot holds the program's own two instructions). `Spaced` makes the words
of two slots disjoint, so the order in which detach goes through the table does not matter
(`RestoredText`). The same facts map each step to a step of `BreakpointSet` or to a stutter.

*Argument for debug points.* The four invariants of `HardwareBreakpoints` are inductive together:
`TableMatchesHost` gives a point one slot, so an unset disarms the register its set armed; a register
is overwritten only when its slot is free or takes a point, which keeps `EntriesArmed`; and a register
that differs from its slot without a refusal can only come from an earlier tenure of its TCB
(`NoStray`). For the refinement all registers of
a TCB are divided into those that hold the entry of their slot on a live thread and strays. A set or an
unset writes one register of each live thread and can only end a stray there; the threads a refused set
reached (`Reached`) get that point as one; an exit turns all that its TCB holds into strays, and a
registration only ends some.

*Argument for the queue.* `Capacity` divides `IndexMod`, so `index % Capacity` commutes with the
wrap of the index (`CellAfter`), and cells at different distances from the head are different as long
as the queue is not longer than the ring (`TypeOK`). An enqueue writes only cells behind the tail
(`EnqueuedCells`), so `Contents` grows at its end (`EnqueueRefines`) and shrinks at its front
(`DequeueRefines`).

*Argument for the event loops.* `NoLostWakeup` is about the sleeping debugger; `WakeInv` extends its
second half to `t_fault` called from `fault`, which may return with characters left in the queue, and
drops it where `notified` will go on to `t_main`. For the net example the queue must be empty, not
only covered: `DrainInv` says so of every moment at which no coroutine executes, and that `t_fault`
called from `fault` starts with an empty queue, so that it cannot return before the next `notified`;
debuggees run, and coroutines register, only after the first connection, which is why `ReceiveDone`
never calls a coroutine that was not started.

*Argument for the stop and resume discipline of the serial example.* `LoopInv` ties together four
parties. `LinkInv`: at most one packet of GDB is on its way or being read, it is the one GDB waits
for (`cur`), and none is once the debugger has acknowledged it; this is what makes a packet that was
damaged, sent again or dropped harmless. `RunInv`: the debuggees are all suspended, unless the
debugger is detached from GDB or GDB believes that they run (`InRun`); a reply on its way means that
they are suspended. `AckQuiescent` and `AllStop` follow. `SelInv` adds what GDB knows of
threads: the thread it selected is `target_thread` whenever it may act on it, including between the
acknowledgement and the reply of its `H` packet; the stop on its way names the thread that faulted;
and in a step the threads that run (`Running`) are the one it named. `OnePerPd` is the example's own
registry (one thread per child). The lemmas go action by action, one for each invariant; `Shrinks`
says what losing or damaging a character may do to the sequences.

*Argument for the stop and resume discipline of the net example.* What has to be excluded is that GDB
believes the target stopped while a `continue` of an earlier time is still to be read. The invariants
are about two sequences: `line`, what GDB sent and no coroutine has read yet (the segments behind the
queue), and `wire`, what the debugger said and GDB has not read (the frames, then what `tcp_write` was
given). `NetTypeInv` and `DrainInv` give the types and the drained queue. `LinkInv` is about
connections: what comes from an earlier one ends with its `fin`, and of what goes to it nothing is
left but acknowledgements.

A packet can be on its way twice, because a frame can stay behind in the chain
(`net_frame_stranded`): with the acknowledgement of its packet stored there, GDB's timer expires and
the packet is sent again although it was processed. `FramesInv` bounds this: a frame that waits in the
chain without a signal to come is the only one under way (`Alone`), so that at a silence at most one is
(`SilenceLeavesOne`), and an acknowledgement that has its answer behind it is not it. `PacketInv` is
what remains true. While GDB waits for the acknowledgement of a packet other than `continue` the
packet or its acknowledgement is under way, not both, and the answer follows the acknowledgement
(`Asked`, `Followed`). A `continue` has no answer until the target stops, so it may come again behind
its own acknowledgement (`Continued`, `Runs`): it is then the first that `t_main` reads, while the
debuggees still run (`Leads`), or `t_fault`, which waits for the acknowledgement of a stop, swallows it
(`Due`). Hence no `continue` is left for `t_main` once the target stopped (`Quiet`), and no answer
precedes the acknowledgement GDB waits for (`AcksFirst`, `OneTurn`, `Awaiting`). `TargetInv`: the
target is stopped unless GDB's `continue` was read, the debugger is detached from GDB, or this GDB
found it running (`Inherits`). `Consumes`,
`Says` and `SaysNoMore` say what a step may do to the sequences without disturbing any of this; the
lemmas before the invariants show it of each kind of step, those after them go action by action.

*Argument for memory and registers.* A byte is divided into two digits on one side and put together
on the other (`Digits`, `HexByteOf`, `SameString`). Byte `i` of what `m` asks for is byte
`i % WordSize` of a word that starts at a byte asked for (`ByteOfWord`), so an error has a reason
among these bytes. For `G`, `ContextPlace` and `PlaceInContext` relate the string to the registers
and the half word of spsr. The loop of `inf_hex2mem` is a recursive function: that it is defined for
every length, and that each turn leaves bytes in memory, is proved by looking at the least turn that
does not (`RunsExist`, `LoopTyped`).

*Model-checked only.* All liveness properties: fairness and ENABLED are out of the prover's reach.
The library's induction theorems take an operator as a parameter, which no backend can instantiate;
induction here is the least element of a set of numbers, which suffices for the loop above. What `M`
of more than one byte writes is not stated as a theorem, since it is not what GDB asks for
(`memory_write`).

## 5. Not modelled

- `integrated_serial`: its debugger is written for an earlier interface of the library
  (`gdb_handle_packet` that returns a `cont_type_t`, inferiors registered with a TCB) and does not
  build against this one. `tools/serial_demux`: a tool on the host; console output that contains
  `$`, `+` or `-` is routed to GDB. `printf.c`, string helpers, debuggees, build files.
- The text of queries; `hexstr_to_int` and the parsers of `m`, `M`, `Z` (a packet is the numbers it
  carries; malformed packets, answered by E01 or E02, are left out of these modules).
- In `EventLoop`: the sequence-id prefix `get_packet` strips, an input packet longer than the buffer,
  threads registered or exiting while the loop runs (the example registers one thread per child and
  none exits), a full transmit queue, Ctrl-C typed while a packet is under way (the
  code takes it for a character of the packet).
- In `NetDebugger`: the receive window that `tcp_sent_gdb` opens by what was sent (it drifts, and
  closes when GDB has sent 1,000,000 bytes more than it received); the empty packet `put_packet`
  writes behind a resent one; errors of `tcp_write`; what lwIP does with a pcb that is used after its
  close (here the characters are lost); `tmp[tot_len]` for a segment chain longer than the buffer;
  characters that `tcp_recv_gdb` drops when the queue is full (`BoundedFifo` may drop them, the run never
  fills the queue).
- In `GdbCore`: packets that arrive before a thread is registered. In `HardwareBreakpoints`: a point at
  address 0. In `TargetAccess`: `tpidr_el0` and `tpidrro_el0`, which `G` writes uninitialised.

## 6. Plan

Done: `GdbCore`, `SoftwareBreakpoints`, `BreakpointSet`, `EventLoop`; `HardwareBreakpoints`,
`DebugPoints`, `TargetAccess`, `CharQueue`, `BoundedFifo`, `NetDebugger`.

Left, in the order of their weight:

1. Composition of `TargetAccess` and `SoftwareBreakpoints`: an `M` packet beside a breakpoint.
2. `PacketLink`: `get_packet` and `put_packet` character by character, refining the link the two
   loops assume (`$` and body).
