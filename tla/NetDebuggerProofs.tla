-------------------------- MODULE NetDebuggerProofs --------------------------
(***************************************************************************)
(* Proofs about the debugger of the sDDF net example, for every capacity   *)
(* of the queue, every number of transmit buffers and any number of        *)
(* connections: it never sleeps on a character it has, its variables keep  *)
(* their types, and the target is stopped whenever GDB believes it is,     *)
(* but for one that a killed GDB left running.                             *)
(***************************************************************************)
EXTENDS NetDebugger, TLAPS, SequenceTheorems, FiniteSetTheorems,
        WellFoundedInduction

Modes == {"idle", "rx", "received", "transmit", "request", "recheck", "main",
          "fault", "notified", "end"}

\* No coroutine executes, and none is about to be called.
Dormant == {"idle", "transmit", "request", "recheck", "end"}

\* From gdb_connected on, the queue is empty and a coroutine registered
\* whenever none executes; while segments are received only the latter holds,
\* and t_fault is called by fault with the queue still empty.  Debuggees run,
\* and coroutines execute and register, only after the first connection.
DrainInv ==
  /\ mode \in Modes
  /\ state \in {"none", "EventLoop", "Fault"}
  /\ mode \in {"main", "fault", "notified"} \/ target # "stopped"
       => mainpc # "none"
  /\ mainpc = "none" => state = "none"
  /\ mainpc # "none" /\ mode \in Dormant \cup {"rx", "received"}
       => state # "none"
  /\ mainpc # "none" /\ mode \in Dormant \cup {"fault"} => rx = <<>>

LEMMA DrainInit == NetInit => DrainInv
  BY DEF NetInit, DrainInv, Modes, Dormant

\* Who takes a character finds one.
LEMMA TakeFindsOne == Take => rx # <<>>
  BY DEF Take, Queue!Get

\* sddf_lwip_process_rx and notified up to the call of a coroutine.
LEMMA ReceiveDrains ==
  ASSUME DrainInv,
         \/ ReceiveNotified \/ SynReceived \/ tcp_accept_gdb \/ tcp_closed_gdb
         \/ tcp_recv_gdb \/ ReceiveDone \/ gdb_connected \/ NotifiedReturns
  PROVE  DrainInv'
<1> USE DEF DrainInv, Modes, Dormant
<1>1. CASE ReceiveNotified
  BY <1>1 DEF ReceiveNotified
<1>2. CASE SynReceived \/ tcp_accept_gdb \/ tcp_closed_gdb
  BY <1>2 DEF SynReceived, tcp_accept_gdb, tcp_closed_gdb
<1>3. CASE tcp_recv_gdb
  BY <1>3 DEF tcp_recv_gdb
<1>4. CASE ReceiveDone
  <2>1. CASE mainpc = "none"
    <3>1. mode' = "end"
      BY <1>4, <2>1 DEF ReceiveDone
    <3> QED
      BY <1>4, <2>1, <3>1 DEF ReceiveDone
  <2>2. CASE mainpc # "none" /\ state = "Fault"
    <3>1. mode' = "notified"
      BY <1>4, <2>2 DEF ReceiveDone
    <3> QED
      BY <1>4, <2>2, <3>1 DEF ReceiveDone
  <2>3. CASE mainpc # "none" /\ state = "EventLoop"
    <3>1. mode' = "main"
      BY <1>4, <2>3 DEF ReceiveDone
    <3> QED
      BY <1>4, <2>3, <3>1 DEF ReceiveDone
  <2> QED
    BY <1>4, <2>1, <2>2, <2>3 DEF ReceiveDone
<1>5. CASE gdb_connected
  BY <1>5 DEF gdb_connected
<1>6. CASE NotifiedReturns
  BY <1>6 DEF NotifiedReturns
<1> QED
  BY <1>1, <1>2, <1>3, <1>4, <1>5, <1>6

\* t_main, fault and t_fault.
LEMMA CoroutinesDrain ==
  ASSUME DrainInv,
         Wait \/ Seek \/ ReadBody \/ AwaitAck \/ fault \/ AwaitStopAck \/ ThreadFaults
  PROVE  DrainInv'
<1> USE DEF DrainInv, Modes, Dormant
<1>1. CASE Wait
  BY <1>1 DEF Wait
<1>2. CASE Seek \/ ReadBody
  <2>1. mode' = "main" /\ state' = state
    BY <1>2 DEF Seek, ReadBody
  <2>2. mainpc' # "none"
    BY <1>2 DEF Seek, ReadBody, Process
  <2> QED
    BY <2>1, <2>2
<1>3. CASE AwaitAck
  BY <1>3 DEF AwaitAck
<1>4. CASE fault
  BY <1>4 DEF fault
<1>5. CASE AwaitStopAck
  <2>1. mode = "notified"
    BY <1>5, TakeFindsOne DEF AwaitStopAck
  <2> QED
    BY <1>5, <2>1 DEF AwaitStopAck, HandsOver
<1>6. CASE ThreadFaults
  BY <1>6 DEF ThreadFaults
<1> QED
  BY <1>1, <1>2, <1>3, <1>4, <1>5, <1>6

\* transmit, the frames and the timer leave the coroutines and the queue alone.
LEMMA FramesDrain ==
  ASSUME DrainInv,
         \/ SendFrame \/ FindNoBuffer \/ enqueue_pbufs
         \/ TransmitNotified \/ TransmitPbuf \/ TransmitLooks
         \/ TransmitRequests \/ TransmitRechecks \/ TimerTick \/ VirtTransmits
  PROVE  DrainInv'
<1> USE DEF DrainInv, Modes, Dormant, coroutines
<1>1. CASE SendFrame \/ FindNoBuffer \/ enqueue_pbufs
  BY <1>1 DEF SendFrame, FindNoBuffer, enqueue_pbufs
<1>2. CASE TransmitNotified
  BY <1>2 DEF TransmitNotified
<1>3. CASE TransmitPbuf
  BY <1>3 DEF TransmitPbuf
<1>4. CASE TransmitLooks
  BY <1>4 DEF TransmitLooks
<1>5. CASE TransmitRequests
  BY <1>5 DEF TransmitRequests
<1>6. CASE TransmitRechecks
  BY <1>6 DEF TransmitRechecks
<1>7. CASE TimerTick
  BY <1>7 DEF TimerTick
<1>8. CASE VirtTransmits
  BY <1>8 DEF VirtTransmits
<1> QED
  BY <1>1, <1>2, <1>3, <1>4, <1>5, <1>6, <1>7, <1>8

LEMMA DrainNext == DrainInv /\ [NetNext]_netVars => DrainInv'
<1> SUFFICES ASSUME DrainInv, [NetNext]_netVars
             PROVE  DrainInv'
  OBVIOUS
<1>1. CASE \/ HostDials \/ HostConnects \/ HostSends \/ HostInterrupts
           \/ HostReadsAck \/ HostReadsReply \/ HostVanishes \/ HostResends
  <2>1. UNCHANGED <<coroutines, rx>>
    BY <1>1 DEF HostDials, HostConnects, HostSends, HostInterrupts,
                HostReadsAck, HostReadsReply, HostVanishes, HostResends
  <2> QED
    BY <2>1 DEF coroutines, DrainInv
<1>2. CASE UNCHANGED netVars
  BY <1>2 DEF netVars, coroutines, DrainInv
<1> QED
  BY <1>1, <1>2, FramesDrain, ReceiveDrains, CoroutinesDrain DEF NetNext

\* The debugger never sleeps on a character tcp_recv_gdb put in its queue: what
\* crossed the acknowledgement t_fault waited for is read by t_main before
\* notified returns, and one of the coroutines is called for the next.
THEOREM Drained == NetSpec => []InputDrained
<1>1. DrainInv => InputDrained
  BY DEF DrainInv, Dormant, InputDrained
<1> QED
  BY <1>1, DrainInit, DrainNext, PTL DEF NetSpec
-----------------------------------------------------------------------------
(* Sequences, and the frames under way *)

FrameTypes == [tok : Replies \cup {"ack"}, at : {"chain", "queued", "arrived"}]

\* Removing one element of a sequence keeps the others in their order.
LEMMA WithoutOne ==
  ASSUME NEW S, NEW s \in Seq(S), NEW i \in 1 .. Len(s)
  PROVE  /\ Without(s, i) \in Seq(S)
         /\ Len(Without(s, i)) = Len(s) - 1
         /\ \A j \in 1 .. Len(s) - 1 :
              Without(s, i)[j] = IF j < i THEN s[j] ELSE s[j + 1]
<1> DEFINE a == SubSeq(s, 1, i - 1)
           b == SubSeq(s, i + 1, Len(s))
<1>1. Len(s) \in Nat /\ \A j \in 1 .. Len(s) : s[j] \in S
  BY LenProperties
<1>2. /\ a \in Seq(S) /\ Len(a) = i - 1
      /\ \A j \in 1 .. i - 1 : a[j] = s[j]
  <2>1. \A j \in 1 .. i - 1 : s[j] \in S
    BY <1>1
  <2>2. /\ a \in Seq(S) /\ Len(a) = (IF 1 <= i - 1 THEN i - 1 - 1 + 1 ELSE 0)
        /\ \A j \in 1 .. i - 1 - 1 + 1 : a[j] = s[1 + j - 1]
    BY <2>1, SubSeqProperties, 1 \in Int, i - 1 \in Int
  <2> HIDE DEF a
  <2> QED
    BY <1>1, <2>2
<1>3. /\ b \in Seq(S) /\ Len(b) = Len(s) - i
      /\ \A j \in 1 .. Len(s) - i : b[j] = s[j + i]
  <2>1. \A j \in i + 1 .. Len(s) : s[j] \in S
    BY <1>1
  <2>2. /\ b \in Seq(S)
        /\ Len(b) = (IF i + 1 <= Len(s) THEN Len(s) - (i + 1) + 1 ELSE 0)
        /\ \A j \in 1 .. Len(s) - (i + 1) + 1 : b[j] = s[i + 1 + j - 1]
    BY <1>1, <2>1, SubSeqProperties, i + 1 \in Int, Len(s) \in Int
  <2> HIDE DEF b
  <2> QED
    BY <1>1, <2>2
<1>4. Without(s, i) = a \o b
  BY DEF Without
<1> HIDE DEF a, b
<1>5. /\ a \o b \in Seq(S) /\ Len(a \o b) = Len(a) + Len(b)
      /\ \A j \in 1 .. Len(a) + Len(b) :
           (a \o b)[j] = IF j <= Len(a) THEN a[j] ELSE b[j - Len(a)]
  BY <1>2, <1>3, ConcatProperties
<1>6. ASSUME NEW j \in 1 .. Len(s) - 1
      PROVE  (a \o b)[j] = IF j < i THEN s[j] ELSE s[j + 1]
  <2>1. CASE j < i
    BY <1>1, <1>2, <1>3, <1>5, <2>1
  <2>2. CASE ~(j < i)
    <3>1. (a \o b)[j] = b[j - (i - 1)]
      BY <1>1, <1>2, <1>3, <1>5, <2>2
    <3>2. j - (i - 1) \in 1 .. Len(s) - i /\ j - (i - 1) + i = j + 1
      BY <1>1, <2>2
    <3> QED
      BY <1>3, <2>2, <3>1, <3>2
  <2> QED
    BY <2>1, <2>2
<1>7. Len(a \o b) = Len(s) - 1
  BY <1>1, <1>2, <1>3, <1>5
<1> QED
  BY <1>4, <1>5, <1>6, <1>7, Zenon

\* The first n characters of up arrive, as far as the queue has room for them.
LEMMA SegmentArrives ==
  ASSUME NEW T, NEW C, up \in Seq(T), rx \in Seq(C),
         Capacity \in Nat, Len(rx) <= Capacity,
         NEW n \in DOMAIN up, \A i \in 1 .. n : up[i] \in C,
         Queue!Put(SubSeq(up, 1, n)), up' = SubSeq(up, n + 1, Len(up))
  PROVE  /\ up' \in Seq(T) /\ Len(up') = Len(up) - n
         /\ \A i \in 1 .. Len(up) - n : up'[i] = up[i + n]
         /\ rx' \in Seq(C) /\ Len(rx') <= Capacity
         /\ Len(rx') >= Len(rx) /\ Len(rx') <= Len(rx) + n
         /\ \A i \in 1 .. Len(rx') :
              rx'[i] = IF i <= Len(rx) THEN rx[i] ELSE up[i - Len(rx)]
<1>1. /\ Len(up) \in Nat /\ DOMAIN up = 1 .. Len(up)
      /\ \A i \in 1 .. Len(up) : up[i] \in T
  BY LenProperties
<1>2. Len(rx) \in Nat
  BY LenProperties
<1>3. n \in 1 .. Len(up)
  BY <1>1
<1>4. /\ up' \in Seq(T) /\ Len(up') = Len(up) - n
      /\ \A i \in 1 .. Len(up) - n : up'[i] = up[i + n]
  <2>1. \A i \in n + 1 .. Len(up) : up[i] \in T
    BY <1>1, <1>3
  <2>2. /\ up' \in Seq(T)
        /\ Len(up') = (IF n + 1 <= Len(up) THEN Len(up) - (n + 1) + 1 ELSE 0)
        /\ \A i \in 1 .. Len(up) - (n + 1) + 1 : up'[i] = up[n + 1 + i - 1]
    BY <1>1, <1>3, <2>1, SubSeqProperties, n + 1 \in Int, Len(up) \in Int
  <2> QED
    BY <1>1, <1>3, <2>2, SMTT(30)
<1> DEFINE a == SubSeq(up, 1, n)
           m == IF Capacity - Len(rx) < Len(a) THEN Capacity - Len(rx) ELSE Len(a)
           b == SubSeq(a, 1, m)
<1>5. a \in Seq(C) /\ Len(a) = n /\ \A i \in 1 .. n : a[i] = up[i]
  <2>1. /\ a \in Seq(C) /\ Len(a) = (IF 1 <= n THEN n - 1 + 1 ELSE 0)
        /\ \A i \in 1 .. n - 1 + 1 : a[i] = up[1 + i - 1]
    BY <1>3, SubSeqProperties, 1 \in Int, n \in Int
  <2> HIDE DEF a
  <2> QED
    BY <1>1, <1>3, <2>1
<1>6. rx' = rx \o b
  BY DEF Queue!Put, Queue!Prefix
<1> HIDE DEF a
<1>7. m \in Nat /\ m <= n /\ m + Len(rx) <= Capacity
  BY <1>2, <1>3, <1>5
<1>8. b \in Seq(C) /\ Len(b) = m /\ \A i \in 1 .. m : b[i] = up[i]
  <2> HIDE DEF m
  <2>1. \A i \in 1 .. m : a[i] \in C
    BY <1>3, <1>5, <1>7, LenProperties
  <2>2. /\ b \in Seq(C) /\ Len(b) = (IF 1 <= m THEN m - 1 + 1 ELSE 0)
        /\ \A i \in 1 .. m - 1 + 1 : b[i] = a[1 + i - 1]
    BY <1>7, <2>1, SubSeqProperties, 1 \in Int, m \in Int
  <2> HIDE DEF b
  <2> QED
    BY <1>3, <1>5, <1>7, <2>2
<1> HIDE DEF m, b
<1>9. /\ rx \o b \in Seq(C) /\ Len(rx \o b) = Len(rx) + m
      /\ \A i \in 1 .. Len(rx) + m :
           (rx \o b)[i] = IF i <= Len(rx) THEN rx[i] ELSE b[i - Len(rx)]
  BY <1>8, ConcatProperties
<1>10. rx' \in Seq(C) /\ Len(rx') = Len(rx) + m
  BY <1>6, <1>9
<1>11. ASSUME NEW i \in 1 .. Len(rx')
       PROVE  rx'[i] = IF i <= Len(rx) THEN rx[i] ELSE up[i - Len(rx)]
  <2>1. rx'[i] = IF i <= Len(rx) THEN rx[i] ELSE b[i - Len(rx)]
    BY <1>6, <1>9, <1>10
  <2>2. ~(i <= Len(rx)) => i - Len(rx) \in 1 .. m
    BY <1>2, <1>7, <1>10
  <2> QED
    BY <1>8, <2>1, <2>2
<1>12. Len(rx') <= Capacity /\ Len(rx') >= Len(rx) /\ Len(rx') <= Len(rx) + n
  BY <1>2, <1>3, <1>7, <1>10
<1> QED
  BY <1>4, <1>10, <1>11, <1>12, Zenon

LEMMA Least ==
  ASSUME NEW S \in SUBSET Nat, S # {}
  PROVE  Lowest(S) \in S /\ \A n \in S : Lowest(S) <= n
<1>1. PICK m \in S : \A n \in S : <<n, m>> \notin OpToRel(<, Nat)
  BY NatLessThanWellFounded, WFMin
<1>2. \A n \in S : m \in Nat /\ n \in Nat /\ ~(n < m)
  BY <1>1 DEF OpToRel
<1>3. \A n \in S : m <= n
  BY <1>2
<1> QED
  BY <1>3 DEF Lowest

\* The frames at a place are finitely many.
LEMMA PlaceFinite ==
  ASSUME out \in Seq(FrameTypes), NEW place
  PROVE  /\ IsFiniteSet(At(place)) /\ Cardinality(At(place)) \in Nat
         /\ At(place) \subseteq 1 .. Len(out)
<1>1. DOMAIN out = 1 .. Len(out) /\ Len(out) \in Nat
  BY LenProperties
<1>2. IsFiniteSet(1 .. Len(out))
  BY <1>1, FS_Interval
<1>3. At(place) \subseteq 1 .. Len(out)
  BY <1>1 DEF At
<1> QED
  BY <1>2, <1>3, FS_Subset, FS_CardinalityType

\* A step takes frames away, or changes their places.
Thinned ==
  \E f \in [DOMAIN out' -> DOMAIN out] :
    /\ \A k, l \in DOMAIN out' : k < l => f[k] < f[l]
    /\ \A k \in DOMAIN out' : out'[k].tok = out[f[k]].tok

\* Only the last frame is stored in the chain.
Alone == \A i \in Chain : i = Len(out)

\* A frame is read, or is an acknowledgement that the virtualiser transmitted.
LEMMA FrameRemoved ==
  ASSUME out \in Seq(FrameTypes), NEW i \in DOMAIN out, out' = Without(out, i)
  PROVE  /\ out' \in Seq(FrameTypes)
         /\ Thinned
         /\ \A place : At(place)' # {} => At(place) # {}
         /\ \A place : out[i].at # place /\ At(place) # {} => At(place)' # {}
         /\ out[i].at # "chain" /\ Alone => Alone'
         /\ Cardinality(At("queued"))' \in 0 .. Cardinality(At("queued"))
<1>1. DOMAIN out = 1 .. Len(out) /\ Len(out) \in Nat
  BY LenProperties, SMTT(30)
<1>2. /\ out' \in Seq(FrameTypes) /\ Len(out') = Len(out) - 1
      /\ \A j \in 1 .. Len(out) - 1 :
           out'[j] = IF j < i THEN out[j] ELSE out[j + 1]
  BY <1>1, WithoutOne
<1>3. DOMAIN out' = 1 .. Len(out) - 1
  BY <1>2, LenProperties
<1> DEFINE f == [k \in DOMAIN out' |-> IF k < i THEN k ELSE k + 1]
<1>4. f \in [DOMAIN out' -> DOMAIN out]
  BY <1>1, <1>3
<1>5. \A k, l \in DOMAIN out' : k < l => f[k] < f[l]
  BY <1>1, <1>3
<1>6. \A k \in DOMAIN out' : out'[k] = out[f[k]]
  BY <1>2, <1>3
<1>7. \A j \in DOMAIN out \ {i} : \E k \in DOMAIN out' : f[k] = j
  <2>1. ASSUME NEW j \in DOMAIN out, j < i
        PROVE  j \in DOMAIN out' /\ f[j] = j
    BY <1>1, <1>3, <2>1
  <2>2. ASSUME NEW j \in DOMAIN out, j > i
        PROVE  j - 1 \in DOMAIN out' /\ f[j - 1] = j
    BY <1>1, <1>3, <2>2
  <2>3. i \in Nat /\ \A j \in DOMAIN out : j \in Nat
    BY <1>1
  <2> HIDE DEF f
  <2> QED
    BY <2>1, <2>2, <2>3
<1>8. Thinned
  BY <1>4, <1>5, <1>6 DEF Thinned
<1>9. \A place : At(place)' # {} => At(place) # {}
  BY <1>4, <1>6 DEF At
<1>10. ASSUME NEW place, out[i].at # place, NEW j \in At(place)
       PROVE  At(place)' # {}
  <2>1. PICK k \in DOMAIN out' : f[k] = j
    BY <1>7, <1>10 DEF At
  <2>2. out'[k].at = place
    BY <1>6, <2>1 DEF At
  <2> QED
    BY <2>2 DEF At
<1>11. Cardinality(At("queued"))' \in 0 .. Cardinality(At("queued"))
  <2> DEFINE S == At("queued")'
             g == [k \in S |-> f[k]]
  <2>1. S \subseteq DOMAIN out'
    BY DEF At
  <2>2. \A k \in S : f[k] \in At("queued")
    BY <1>4, <1>6, <2>1 DEF At
  <2>3. \A k, l \in S : f[k] = f[l] => k = l
    BY <1>1, <1>3, <2>1
  <2> HIDE DEF f, S
  <2>4. g \in [S -> At("queued")] /\ \A k, l \in S : g[k] = g[l] => k = l
    BY <2>2, <2>3
  <2> HIDE DEF g
  <2>5. g \in Injection(S, At("queued"))
    BY <2>4 DEF Injection, IsInjective
  <2> QED
    BY <2>5, PlaceFinite, FS_Injection, FS_CardinalityType DEF S
<1>12. ASSUME out[i].at # "chain", Alone
       PROVE  Alone'
  <2> SUFFICES ASSUME NEW k \in DOMAIN out', out'[k].at = "chain"
               PROVE  k = Len(out')
    BY DEF Alone, Chain, At
  <2>1. f[k] \in DOMAIN out /\ out[f[k]].at = "chain"
    BY <1>4, <1>6
  <2>2. f[k] = Len(out)
    BY <1>12, <2>1 DEF Alone, Chain, At
  <2> QED
    BY <1>1, <1>2, <1>3, <2>2
<1> HIDE DEF f
<1>13. \A place : out[i].at # place /\ At(place) # {} => At(place)' # {}
  BY <1>10
<1> QED
  BY <1>2, <1>8, <1>9, <1>11, <1>12, <1>13, Zenon

\* A frame is added at the end.
LEMMA FrameAdded ==
  ASSUME out \in Seq(FrameTypes), NEW f \in FrameTypes, out' = Append(out, f)
  PROVE  /\ out' \in Seq(FrameTypes)
         /\ DOMAIN out = 1 .. Len(out) /\ Len(out) \in Nat
         /\ DOMAIN out' = 1 .. Len(out) + 1
         /\ \A i \in DOMAIN out : out'[i] = out[i]
         /\ out'[Len(out) + 1] = f
         /\ \A place : At(place)' = IF f.at = place THEN At(place) \cup {Len(out) + 1}
                                    ELSE At(place)
         /\ Cardinality(At("queued"))' \in
              0 .. Cardinality(At("queued")) + (IF f.at = "queued" THEN 1 ELSE 0)
<1>1. DOMAIN out = 1 .. Len(out) /\ Len(out) \in Nat
  BY LenProperties
<1>2. /\ out' \in Seq(FrameTypes) /\ Len(out') = Len(out) + 1
      /\ \A i \in 1 .. Len(out) : out'[i] = out[i]
      /\ out'[Len(out) + 1] = f
  BY AppendProperties
<1>3. DOMAIN out' = 1 .. Len(out) + 1
  BY <1>2, LenProperties
<1>4. ASSUME NEW place
      PROVE  At(place)' = IF f.at = place THEN At(place) \cup {Len(out) + 1}
                          ELSE At(place)
  <2>1. At(place)' = {i \in 1 .. Len(out) + 1 : out'[i].at = place}
    BY <1>3 DEF At
  <2>2. At(place) = {i \in 1 .. Len(out) : out[i].at = place}
    BY <1>1 DEF At
  <2>3. \A i : i \in 1 .. Len(out) + 1 <=> i \in 1 .. Len(out) \/ i = Len(out) + 1
    BY <1>1
  <2>4. \A i \in 1 .. Len(out) : out'[i].at = out[i].at
    BY <1>2
  <2>5. out'[Len(out) + 1].at = f.at
    BY <1>2
  <2> QED
    BY <2>1, <2>2, <2>3, <2>4, <2>5
<1>5. Cardinality(At("queued"))' \in
        0 .. Cardinality(At("queued")) + (IF f.at = "queued" THEN 1 ELSE 0)
  <2>1. Cardinality(At("queued")) \in Nat /\ IsFiniteSet(At("queued"))
    BY PlaceFinite
  <2>2. CASE f.at = "queued"
    <3>1. At("queued")' = At("queued") \cup {Len(out) + 1}
      BY <1>4, <2>2
    <3>2. Cardinality(At("queued") \cup {Len(out) + 1})
            \in {Cardinality(At("queued")), Cardinality(At("queued")) + 1}
      BY <2>1, FS_AddElement
    <3>3. Cardinality(At("queued"))' = Cardinality(At("queued") \cup {Len(out) + 1})
      BY <3>1, Zenon
    <3> QED
      BY <2>1, <2>2, <3>2, <3>3
  <2>3. CASE f.at # "queued"
    <3>1. At("queued")' = At("queued")
      BY <1>4, <2>3
    <3> QED
      BY <2>1, <2>3, <3>1
  <2> QED
    BY <2>2, <2>3
<1> QED
  BY <1>1, <1>2, <1>3, <1>4, <1>5

\* A frame gets to another place.
LEMMA FrameMoved ==
  ASSUME out \in Seq(FrameTypes), NEW i \in DOMAIN out,
         NEW to \in {"queued", "arrived"}, out' = [out EXCEPT ![i].at = to]
  PROVE  /\ out' \in Seq(FrameTypes)
         /\ Thinned
         /\ Chain' \subseteq Chain
         /\ At("queued")' = IF to = "queued" THEN At("queued") \cup {i}
                            ELSE At("queued") \ {i}
         /\ Cardinality(At("queued"))' \in
              0 .. Cardinality(At("queued")) + (IF to = "queued" THEN 1 ELSE 0)
<1>1. DOMAIN out = 1 .. Len(out) /\ Len(out) \in Nat
      /\ \A j \in DOMAIN out : out[j] \in FrameTypes
  BY LenProperties
<1> DEFINE e == [out[i] EXCEPT !.at = to]
<1>2. e \in FrameTypes /\ e.at = to /\ e.tok = out[i].tok
  BY <1>1 DEF FrameTypes
<1>3. out' = [out EXCEPT ![i] = e]
  OBVIOUS
<1> HIDE DEF e
<1>4. /\ out' \in Seq(FrameTypes) /\ DOMAIN out' = DOMAIN out
      /\ \A j \in DOMAIN out : out'[j] = IF j = i THEN e ELSE out[j]
  BY <1>1, <1>2, <1>3, ExceptSeq
<1>5. Thinned
  <2> DEFINE f == [j \in DOMAIN out' |-> j]
  <2>1. /\ f \in [DOMAIN out' -> DOMAIN out]
        /\ \A k, l \in DOMAIN out' : k < l => f[k] < f[l]
        /\ \A k \in DOMAIN out' : out'[k].tok = out[f[k]].tok
    BY <1>2, <1>4
  <2> QED
    BY <2>1 DEF Thinned
<1>6. Chain' \subseteq Chain
  BY <1>2, <1>4 DEF Chain, At
<1>7. At("queued")' = IF to = "queued" THEN At("queued") \cup {i}
                      ELSE At("queued") \ {i}
  BY <1>2, <1>4 DEF At
<1>8. Cardinality(At("queued"))' \in
        0 .. Cardinality(At("queued")) + (IF to = "queued" THEN 1 ELSE 0)
  <2>1. Cardinality(At("queued")) \in Nat /\ IsFiniteSet(At("queued"))
    BY PlaceFinite
  <2>2. Cardinality(At("queued") \cup {i})
          \in {Cardinality(At("queued")), Cardinality(At("queued")) + 1}
    BY <2>1, FS_AddElement
  <2>3. Cardinality(At("queued") \ {i})
          \in 0 .. Cardinality(At("queued"))
    BY <2>1, FS_RemoveElement, FS_CardinalityType, FS_Subset
  <2>4. Cardinality(At("queued"))' =
          IF to = "queued" THEN Cardinality(At("queued") \cup {i})
          ELSE Cardinality(At("queued") \ {i})
    BY <1>7, Zenon
  <2> QED
    BY <2>1, <2>2, <2>3, <2>4
<1> QED
  BY <1>4, <1>5, <1>6, <1>7, <1>8

\* GDB goes away.
LEMMA FramesLeft ==
  ASSUME out \in Seq(FrameTypes), out' = Left
  PROVE  /\ out' \in Seq(FrameTypes)
         /\ \A i \in DOMAIN out' : out'[i].tok = "ack"
         /\ Chain' # {} => Chain # {}
         /\ Alone => Alone'
         /\ At("queued") # {} => At("queued")' # {}
         /\ Cardinality(At("queued"))' = Cardinality(At("queued"))
<1> DEFINE q == Cardinality(At("queued"))
           c == Cardinality(Chain)
           e(i) == [tok |-> "ack", at |-> IF i <= q THEN "queued" ELSE "chain"]
<1>1. q \in Nat /\ c \in Nat /\ IsFiniteSet(Chain) /\ IsFiniteSet(At("queued"))
  BY PlaceFinite DEF Chain
<1>2. out' = [i \in 1 .. q + c |-> e(i)]
  BY DEF Left
<1> HIDE DEF q, c
<1>3. DOMAIN out' = 1 .. q + c
  BY <1>2
<1>4. out' \in Seq(FrameTypes)
  <2>1. q + c \in Nat /\ \A i \in 1 .. q + c : e(i) \in FrameTypes
    BY <1>1 DEF FrameTypes
  <2> HIDE DEF e
  <2> QED
    BY <1>2, <2>1, IsASeq
<1>5. At("queued")' = 1 .. q
  BY <1>1, <1>2, <1>3 DEF At
<1>6. Cardinality(At("queued"))' = q
  BY <1>1, <1>5, FS_Interval
<1>7. Chain' # {} => c # 0
  BY <1>1, <1>2, <1>3 DEF Chain, At
<1>8. c # 0 => Chain # {}
  BY FS_EmptySet DEF c
<1>9. At("queued") # {} => q # 0
  BY <1>1, FS_EmptySet DEF q
<1>10. q # 0 => At("queued")' # {}
  <2>1. q # 0 => 1 \in 1 .. q
    BY <1>1
  <2> QED
    BY <1>5, <2>1
<1>11. ASSUME Alone
       PROVE  Alone'
  <2>1. Len(out') = q + c
    <3>1. Len(out') \in Nat /\ DOMAIN out' = 1 .. Len(out')
      BY <1>4, LenProperties
    <3> QED
      BY <1>1, <1>3, <3>1
  <2>2. c <= 1
    <3>1. Chain \subseteq {Len(out)}
      BY <1>11 DEF Alone
    <3>2. Cardinality({Len(out)}) = 1 /\ IsFiniteSet({Len(out)})
      BY FS_Singleton
    <3> QED
      BY <3>1, <3>2, FS_Subset DEF c
  <2>3. ASSUME NEW i \in DOMAIN out', out'[i].at = "chain"
        PROVE  i = q + c
    <3>1. i \in 1 .. q + c /\ ~(i <= q)
      BY <1>2, <1>3, <2>3
    <3> QED
      BY <1>1, <2>2, <3>1
  <2> QED
    BY <2>1, <2>3 DEF Alone, Chain, At
<1> QED
  BY <1>2, <1>3, <1>4, <1>6, <1>7, <1>8, <1>9, <1>10, <1>11 DEF q
-----------------------------------------------------------------------------
(* Types *)

\* What is sent is sent before the debugger sleeps.
NetTypeInv ==
  /\ mode \in {"idle", "rx", "transmit", "request", "recheck", "end"} => pend = <<>>
  /\ mainpc \in {"none", "seek", "body", "ack"}
  /\ detached \in BOOLEAN /\ output \in {"reply", "stop"}
  /\ target \in {"stopped", "running", "faulted"}
  /\ pcb \in {"listen", "open", "closed"}
  /\ up \in Seq(Tokens)
  /\ rx \in Seq(Characters) /\ Len(rx) <= Capacity
  /\ pend \in Seq(Replies \cup {"ack"})
  /\ storing \in BOOLEAN /\ (storing => pend # <<>>)
  /\ out \in Seq(FrameTypes) /\ Cardinality(At("queued")) <= Buffers
  /\ want \in BOOLEAN /\ txnotif \in BOOLEAN /\ dirty \in BOOLEAN
  /\ kicked \in BOOLEAN /\ etx \in BOOLEAN /\ inherited \in BOOLEAN
  /\ hostpc \in {"gone", "dialing", "stopped", "acking", "waiting", "running"}
  /\ cur \in Bodies

LEMMA TypeInit == NetInit => NetTypeInv
<1> SUFFICES ASSUME NetInit PROVE NetTypeInv
  OBVIOUS
<1>1. At("queued") = {}
  BY DEF NetInit, At
<1>2. Cardinality(At("queued")) <= Buffers
  <2>1. Cardinality(At("queued")) = Cardinality({})
    BY <1>1, Zenon
  <2> QED
    BY <2>1, FS_EmptySet, NetAssumption
<1>3. /\ up \in Seq(Tokens) /\ pend \in Seq(Replies \cup {"ack"})
      /\ rx \in Seq(Characters) /\ Len(rx) <= Capacity
      /\ out \in Seq(FrameTypes)
  BY EmptySeq, NetAssumption DEF NetInit
<1>4. /\ want \in BOOLEAN /\ txnotif \in BOOLEAN /\ dirty \in BOOLEAN
      /\ kicked \in BOOLEAN /\ etx \in BOOLEAN /\ detached \in BOOLEAN
      /\ inherited \in BOOLEAN /\ storing \in BOOLEAN /\ ~storing
  BY DEF NetInit
<1> QED
  BY <1>2, <1>3, <1>4 DEF NetInit, NetTypeInv, Bodies

\* tcp_send gives lwIP an acknowledgement, an answer or both.
LEMMA OutgoingType ==
  /\ <<>> \in Seq(Replies \cup {"ack"}) /\ <<"ack">> \in Seq(Replies \cup {"ack"})
  /\ \A a, b \in Replies :
       /\ Outgoing(<<a>>) \in Seq(Replies \cup {"ack"})
       /\ Outgoing(Append(<<>>, b)) \in Seq(Replies \cup {"ack"})
       /\ Outgoing(Append(<<a>>, b)) \in Seq(Replies \cup {"ack"})
<1>1. <<>> \in Seq(Replies \cup {"ack"}) /\ <<"ack">> \in Seq(Replies \cup {"ack"})
  BY EmptySeq
<1>2. ASSUME NEW a \in Replies, NEW b \in Replies
      PROVE  /\ <<a>> \in Seq(Replies \cup {"ack"})
             /\ Append(<<>>, b) \in Seq(Replies \cup {"ack"})
             /\ Append(<<a>>, b) \in Seq(Replies \cup {"ack"})
  BY <1>1, AppendProperties
<1> QED
  BY <1>1, <1>2 DEF Outgoing

\* The frames lwIP sends, now or from its chain.
LEMMA SendingType ==
  ASSUME NetTypeInv, SendFrame \/ FindNoBuffer \/ enqueue_pbufs
  PROVE  NetTypeInv'
<1>1. CASE FindNoBuffer
  BY <1>1 DEF FindNoBuffer, NetTypeInv, coroutines, host, At
<1>2. ASSUME NEW place \in {"queued", "chain"}, pend # <<>>,
             out' = Append(out, Frame(Head(pend), place)), pend' = Tail(pend)
      PROVE  /\ out' \in Seq(FrameTypes) /\ pend' \in Seq(Replies \cup {"ack"})
             /\ Cardinality(At("queued"))' \in
                  0 .. Cardinality(At("queued")) + (IF place = "queued" THEN 1 ELSE 0)
  <2>1. /\ Head(pend) \in Replies \cup {"ack"}
        /\ Tail(pend) \in Seq(Replies \cup {"ack"})
    BY <1>2, HeadTailProperties DEF NetTypeInv
  <2>2. /\ Frame(Head(pend), place) \in FrameTypes
        /\ Frame(Head(pend), place).at = place
    BY <2>1 DEF Frame, FrameTypes
  <2>3. out \in Seq(FrameTypes)
    BY DEF NetTypeInv
  <2> QED
    BY <1>2, <2>1, <2>2, <2>3, FrameAdded
<1>3. CASE SendFrame
  <2>1. Cardinality(At("queued")) \in Nat
    BY PlaceFinite DEF NetTypeInv
  <2>2. Cardinality(At("queued")) + 1 <= Buffers
    BY <1>3, <2>1, NetAssumption DEF SendFrame, HasBuffer, Free
  <2>3. /\ out' \in Seq(FrameTypes) /\ pend' \in Seq(Replies \cup {"ack"})
        /\ Cardinality(At("queued"))' \in 0 .. Cardinality(At("queued")) + 1
    BY <1>2, <1>3 DEF SendFrame
  <2>4. Cardinality(At("queued"))' <= Buffers
    BY <2>1, <2>2, <2>3, NetAssumption
  <2> QED
    BY <1>3, <2>3, <2>4 DEF SendFrame, NetTypeInv, coroutines, host
<1>4. CASE enqueue_pbufs
  <2>1. Cardinality(At("queued")) \in Nat
    BY PlaceFinite DEF NetTypeInv
  <2>2. pend # <<>>
    BY <1>4 DEF enqueue_pbufs, NetTypeInv
  <2>3. /\ out' \in Seq(FrameTypes) /\ pend' \in Seq(Replies \cup {"ack"})
        /\ Cardinality(At("queued"))' \in 0 .. Cardinality(At("queued")) + 0
    BY <1>2, <1>4, <2>2 DEF enqueue_pbufs
  <2>4. Cardinality(At("queued"))' <= Buffers
    BY <2>1, <2>3, NetAssumption DEF NetTypeInv
  <2>5. want' \in BOOLEAN /\ storing' \in BOOLEAN /\ ~storing'
    BY <1>4 DEF enqueue_pbufs
  <2> QED
    BY <1>4, <2>3, <2>4, <2>5 DEF enqueue_pbufs, NetTypeInv, coroutines, host
<1> QED
  BY <1>1, <1>3, <1>4

\* Most steps leave the frames under way alone.
LEMMA OutKept ==
  ASSUME NetTypeInv, out' = out
  PROVE  out' \in Seq(FrameTypes) /\ Cardinality(At("queued"))' <= Buffers
  BY DEF NetTypeInv, At

\* transmit and the virtualiser.
LEMMA TransmittingType ==
  ASSUME NetTypeInv,
         \/ TransmitNotified \/ TransmitPbuf \/ TransmitLooks \/ TransmitRequests
         \/ TransmitRechecks \/ TimerTick \/ VirtTransmits
  PROVE  NetTypeInv'
<1>1. Cardinality(At("queued")) \in Nat
  BY PlaceFinite DEF NetTypeInv
<1>2. CASE TransmitNotified \/ TransmitRequests \/ TransmitRechecks \/ TransmitLooks
  <2>1. /\ txnotif' \in BOOLEAN /\ want' \in BOOLEAN /\ pend = <<>>
        /\ UNCHANGED <<state, mainpc, detached, output, target, pcb, up, rx, pend,
                       storing, out, dirty, kicked, host>>
    BY <1>2 DEF TransmitNotified, TransmitRequests, TransmitRechecks,
                TransmitLooks, NetTypeInv
  <2> QED
    BY <2>1 DEF NetTypeInv, host, At
<1>3. CASE TransmitPbuf
  <2>1. Lowest(Chain) \in Chain
    <3>1. Chain \subseteq Nat
      BY PlaceFinite DEF NetTypeInv, Chain
    <3> QED
      BY <1>3, <3>1, Least DEF TransmitPbuf
  <2>2. Lowest(Chain) \in DOMAIN out
    BY <2>1 DEF Chain, At
  <2>3. /\ out' \in Seq(FrameTypes)
        /\ Cardinality(At("queued"))' \in 0 .. Cardinality(At("queued")) + 1
    BY <1>3, <2>2, FrameMoved DEF TransmitPbuf, NetTypeInv
  <2>4. Cardinality(At("queued"))' <= Buffers
    BY <1>1, <1>3, <2>3, NetAssumption DEF TransmitPbuf, Free
  <2>5. dirty' \in BOOLEAN
    BY <1>3 DEF TransmitPbuf
  <2> QED
    BY <1>3, <2>3, <2>4, <2>5 DEF TransmitPbuf, NetTypeInv, coroutines, host
<1>4. CASE TimerTick
  <2>1. kicked' \in BOOLEAN /\ dirty' \in BOOLEAN
    BY <1>4 DEF TimerTick, MaybeNotify
  <2> QED
    BY <1>4, <2>1 DEF TimerTick, NetTypeInv, coroutines, host, At
<1>5. CASE VirtTransmits
  <2>1. PICK i \in At("queued") :
          /\ out' = IF out[i].tok = "ack" THEN Without(out, i)
                    ELSE [out EXCEPT ![i].at = "arrived"]
          /\ kicked' = (At("queued") # {i})
    BY <1>5 DEF VirtTransmits
  <2>2. i \in DOMAIN out
    BY DEF At
  <2>3. /\ out' \in Seq(FrameTypes)
        /\ Cardinality(At("queued"))' \in 0 .. Cardinality(At("queued")) + 0
    <3>1. CASE out[i].tok = "ack"
      BY <1>1, <2>1, <2>2, <3>1, FrameRemoved DEF NetTypeInv
    <3>2. CASE out[i].tok # "ack"
      BY <1>1, <2>1, <2>2, <3>2, FrameMoved DEF NetTypeInv
    <3> QED
      BY <3>1, <3>2
  <2>4. Cardinality(At("queued"))' <= Buffers
    BY <1>1, <2>3, NetAssumption DEF NetTypeInv
  <2>5. kicked' \in BOOLEAN /\ txnotif' \in BOOLEAN /\ want' \in BOOLEAN
    BY <1>5, <2>1 DEF VirtTransmits
  <2> QED
    BY <1>5, <2>3, <2>4, <2>5 DEF VirtTransmits, NetTypeInv, coroutines, host
<1> QED
  BY <1>2, <1>3, <1>4, <1>5

\* sddf_lwip_process_rx and notified.
LEMMA ReceivingType ==
  ASSUME NetTypeInv, DrainInv,
         \/ ReceiveNotified \/ SynReceived \/ tcp_accept_gdb \/ tcp_closed_gdb
         \/ tcp_recv_gdb \/ ReceiveDone \/ gdb_connected \/ NotifiedReturns
  PROVE  NetTypeInv'
<1>1. CASE ReceiveNotified \/ ReceiveDone \/ gdb_connected \/ NotifiedReturns
  <2>1. /\ mainpc' \in {"none", "seek", "body", "ack"}
        /\ kicked' \in BOOLEAN /\ dirty' \in BOOLEAN /\ pend = <<>>
        /\ UNCHANGED <<detached, output, target, pcb, up, rx, pend, storing, out,
                       want, txnotif, host>>
    BY <1>1 DEF ReceiveNotified, ReceiveDone, gdb_connected, NotifiedReturns,
                MaybeNotify, frames, Resting, NetTypeInv
  <2> QED
    BY <2>1 DEF NetTypeInv, host, At
<1>2. CASE SynReceived \/ tcp_accept_gdb \/ tcp_closed_gdb
  <2>1. up # <<>> /\ up' = Tail(up)
    BY <1>2 DEF SynReceived, tcp_accept_gdb, tcp_closed_gdb
  <2>2. up' \in Seq(Tokens)
    BY <2>1, HeadTailProperties DEF NetTypeInv
  <2>3. /\ pend' \in {pend, <<"ack">>} /\ pcb' \in {"listen", "open", "closed"}
        /\ storing => pend' # <<>>
        /\ mode' = "received"
        /\ UNCHANGED <<mainpc, detached, output, target, rx, storing, out, want,
                       txnotif, dirty, kicked, host>>
    BY <1>2 DEF SynReceived, tcp_accept_gdb, tcp_closed_gdb, Accepted, frames,
                Resting, NetTypeInv
  <2>4. pend' \in Seq(Replies \cup {"ack"})
    BY <2>3, OutgoingType DEF NetTypeInv
  <2> QED
    BY <2>2, <2>3, <2>4, OutKept DEF NetTypeInv, host
<1>3. CASE tcp_recv_gdb
  <2>1. PICK n \in DOMAIN up :
          /\ \A i \in 1 .. n : up[i] \in Characters
          /\ Queue!Put(SubSeq(up, 1, n))
          /\ up' = SubSeq(up, n + 1, Len(up))
    BY <1>3 DEF tcp_recv_gdb
  <2>2. up' \in Seq(Tokens) /\ rx' \in Seq(Characters) /\ Len(rx') <= Capacity
    <3>1. /\ up \in Seq(Tokens) /\ rx \in Seq(Characters) /\ Len(rx) <= Capacity
          /\ Capacity \in Nat
      BY NetAssumption DEF NetTypeInv
    <3> HIDE DEF Tokens, Characters
    <3> QED
      BY <2>1, <3>1, SegmentArrives
  <2>3. pend' \in {<<>>, <<"ack">>} /\ ~storing
    BY <1>3 DEF tcp_recv_gdb, Resting, NetTypeInv
  <2>4. pend' \in Seq(Replies \cup {"ack"}) /\ storing' = storing
    BY <1>3, <2>3, OutgoingType DEF tcp_recv_gdb
  <2> QED
    BY <1>3, <2>2, <2>3, <2>4, OutKept DEF tcp_recv_gdb, NetTypeInv, host
<1> QED
  BY <1>1, <1>2, <1>3

\* t_main, fault and t_fault.
LEMMA CoroutinesType ==
  ASSUME NetTypeInv,
         Wait \/ Seek \/ ReadBody \/ AwaitAck \/ fault \/ AwaitStopAck \/ ThreadFaults
  PROVE  NetTypeInv'
<1>1. ASSUME Take
      PROVE  rx' \in Seq(Characters) /\ Len(rx') <= Capacity /\ ~storing
  <2>1. rx # <<>> /\ rx' = Tail(rx) /\ pend = <<>>
    BY <1>1 DEF Take, Resting, Queue!Get
  <2>2. rx' \in Seq(Characters) /\ Len(rx') = Len(rx) - 1 /\ Len(rx) \in Nat
    BY <2>1, HeadTailProperties, LenProperties DEF NetTypeInv
  <2> QED
    BY <2>1, <2>2, NetAssumption DEF NetTypeInv
<1>2. CASE Wait
  BY <1>2, OutKept DEF Wait, Resting, NetTypeInv, frames, host
<1>3. ASSUME NEW pkt, NEW ack \in {<<>>, <<"+">>}, Process(pkt, ack),
             pend = <<>>
      PROVE  /\ mainpc' \in {"seek", "ack"} /\ detached' \in BOOLEAN
             /\ output' \in {"reply", "stop"}
             /\ target' \in {"stopped", "running", "faulted"}
             /\ pend' \in Seq(Replies \cup {"ack"})
  <2>1. /\ mainpc' \in {"seek", "ack"} /\ detached' \in BOOLEAN
        /\ output' \in {"reply", "stop"}
        /\ target' \in {"stopped", "running", "faulted"}
    BY <1>3 DEF Process, NetTypeInv
  <2>2. pend' \in {Outgoing(ack), Outgoing(Append(ack, output'))}
    BY <1>3 DEF Process
  <2>3. /\ Outgoing(ack) \in Seq(Replies \cup {"ack"})
        /\ Outgoing(Append(ack, output')) \in Seq(Replies \cup {"ack"})
    <3>1. output' \in Replies /\ "+" \in Replies
      BY <2>1 DEF Replies
    <3>2. Outgoing(<<>>) = <<>>
      BY DEF Outgoing
    <3> QED
      BY <1>3, <3>1, <3>2, OutgoingType
  <2> QED
    BY <2>1, <2>2, <2>3
<1>4. CASE Seek \/ ReadBody
  <2>1. Take /\ pend = <<>>
    BY <1>4 DEF Seek, ReadBody, Take, Resting
  <2>2. \/ \E pkt : Process(pkt, <<>>) \/ Process(pkt, <<"+">>)
        \/ /\ mainpc' \in {mainpc, "body", "seek"}
           /\ UNCHANGED <<detached, output, target, pend>>
    BY <1>4 DEF Seek, ReadBody
  <2>3. /\ mainpc' \in {"none", "seek", "body", "ack"} /\ detached' \in BOOLEAN
        /\ output' \in {"reply", "stop"}
        /\ target' \in {"stopped", "running", "faulted"}
        /\ pend' \in Seq(Replies \cup {"ack"})
    BY <1>3, <2>1, <2>2 DEF NetTypeInv
  <2> QED
    BY <1>1, <1>4, <2>1, <2>3, OutKept DEF Seek, ReadBody, NetTypeInv, host
<1>5. \A o \in {output, "stop"} : Outgoing(<<o>>) \in Seq(Replies \cup {"ack"})
  BY OutgoingType DEF NetTypeInv, Replies
<1>6. CASE AwaitAck
  <2>1. pend' \in Seq(Replies \cup {"ack"})
    BY <1>5, <1>6, OutgoingType DEF AwaitAck
  <2>2. /\ mainpc' \in {"none", "seek", "body", "ack"}
        /\ target' \in {"stopped", "running", "faulted"}
    BY <1>6 DEF AwaitAck, NetTypeInv
  <2>3. Take
    BY <1>6 DEF AwaitAck
  <2> QED
    BY <1>1, <1>6, <2>1, <2>2, <2>3, OutKept DEF AwaitAck, NetTypeInv, host
<1>7. CASE fault
  <2>1. ~storing /\ inherited' \in BOOLEAN
    BY <1>7 DEF fault, NetTypeInv
  <2> QED
    BY <1>5, <1>7, <2>1, OutKept DEF fault, NetTypeInv, host
<1>8. CASE AwaitStopAck
  <2>1. pend' \in Seq(Replies \cup {"ack"})
    BY <1>5, <1>8 DEF AwaitStopAck, NetTypeInv
  <2>2. Take /\ (mode' \in {"fault", "notified", "main"} \/ pend' = <<>>)
    BY <1>8 DEF AwaitStopAck, Take, Resting
  <2> QED
    BY <1>1, <1>8, <2>1, <2>2, OutKept DEF AwaitStopAck, NetTypeInv, host
<1>9. CASE ThreadFaults
  BY <1>9, OutKept DEF ThreadFaults, NetTypeInv, frames, host
<1> QED
  BY <1>2, <1>4, <1>6, <1>7, <1>8, <1>9

\* What the host appends to what it sent.
LEMMA Extended ==
  ASSUME NEW T, NEW s \in Seq(T), NEW t \in Seq(T)
  PROVE  /\ s \o t \in Seq(T)
         /\ DOMAIN s = 1 .. Len(s) /\ Len(s) \in Nat
         /\ DOMAIN t = 1 .. Len(t) /\ Len(t) \in Nat
         /\ DOMAIN (s \o t) = 1 .. Len(s) + Len(t)
         /\ \A i \in DOMAIN s : (s \o t)[i] = s[i]
         /\ \A i \in DOMAIN t : (s \o t)[Len(s) + i] = t[i]
         /\ \A i \in DOMAIN (s \o t) :
              i \in DOMAIN s \/ \E j \in DOMAIN t : i = Len(s) + j
<1>1. /\ DOMAIN s = 1 .. Len(s) /\ Len(s) \in Nat
      /\ DOMAIN t = 1 .. Len(t) /\ Len(t) \in Nat
  BY LenProperties
<1>2. /\ s \o t \in Seq(T) /\ Len(s \o t) = Len(s) + Len(t)
      /\ \A i \in 1 .. Len(s) + Len(t) :
           (s \o t)[i] = IF i <= Len(s) THEN s[i] ELSE t[i - Len(s)]
  BY ConcatProperties
<1>3. DOMAIN (s \o t) = 1 .. Len(s) + Len(t)
  BY <1>2, LenProperties
<1>4. ASSUME NEW i \in 1 .. Len(s)
      PROVE  (s \o t)[i] = s[i]
  BY <1>1, <1>2
<1>5. ASSUME NEW i \in 1 .. Len(t)
      PROVE  (s \o t)[Len(s) + i] = t[i]
  <2>1. /\ Len(s) + i \in 1 .. Len(s) + Len(t) /\ ~(Len(s) + i <= Len(s))
        /\ Len(s) + i - Len(s) = i
    BY <1>1
  <2> QED
    BY <1>2, <2>1
<1>6. ASSUME NEW i \in 1 .. Len(s) + Len(t)
      PROVE  i \in 1 .. Len(s) \/ \E j \in 1 .. Len(t) : i = Len(s) + j
  <2>1. i \notin 1 .. Len(s) => i - Len(s) \in 1 .. Len(t) /\ i = Len(s) + (i - Len(s))
    BY <1>1
  <2> QED
    BY <2>1
<1> QED
  BY <1>1, <1>2, <1>3, <1>4, <1>5, <1>6

\* GDB is killed: the end of what it sent is lost.
LEMMA CutOff ==
  ASSUME up \in Seq(Tokens), NEW n \in 0 .. Len(up),
         up' = Append(SubSeq(up, 1, n), "fin")
  PROVE  /\ up' \in Seq(Tokens) /\ Len(up) \in Nat
         /\ DOMAIN up = 1 .. Len(up) /\ DOMAIN up' = 1 .. n + 1
         /\ \A i \in 1 .. n : up'[i] = up[i]
         /\ up'[n + 1] = "fin"
<1>1. /\ Len(up) \in Nat /\ DOMAIN up = 1 .. Len(up)
      /\ \A i \in 1 .. Len(up) : up[i] \in Tokens
  BY LenProperties
<1> DEFINE s == SubSeq(up, 1, n)
<1>2. s \in Seq(Tokens) /\ Len(s) = n /\ \A i \in 1 .. n : s[i] = up[i]
  <2>1. \A i \in 1 .. n : up[i] \in Tokens
    BY <1>1
  <2>2. /\ s \in Seq(Tokens) /\ Len(s) = (IF 1 <= n THEN n - 1 + 1 ELSE 0)
        /\ \A i \in 1 .. n - 1 + 1 : s[i] = up[1 + i - 1]
    BY <2>1, SubSeqProperties, 1 \in Int, n \in Int
  <2> HIDE DEF s
  <2> QED
    BY <1>1, <2>2
<1> HIDE DEF s
<1>3. "fin" \in Tokens
  BY DEF Tokens
<1>4. /\ up' \in Seq(Tokens) /\ Len(up') = n + 1
      /\ \A i \in 1 .. n : up'[i] = s[i]
      /\ up'[n + 1] = "fin"
  BY <1>2, <1>3, AppendProperties DEF s
<1>5. DOMAIN up' = 1 .. n + 1
  BY <1>4, LenProperties
<1> QED
  BY <1>1, <1>2, <1>4, <1>5

\* GDB reads the first frame that it has not read.
LEMMA UnreadFirst ==
  ASSUME out \in Seq(FrameTypes), Unread # {}
  PROVE  /\ Lowest(Unread) \in DOMAIN out
         /\ out[Lowest(Unread)].tok # "ack"
         /\ \A i \in DOMAIN out : i < Lowest(Unread) => out[i].tok = "ack"
<1>1. DOMAIN out = 1 .. Len(out) /\ Len(out) \in Nat
  BY LenProperties
<1>2. Unread \subseteq Nat
  BY <1>1 DEF Unread
<1>3. Lowest(Unread) \in Unread /\ \A i \in Unread : Lowest(Unread) <= i
  BY <1>2, Least
<1>4. ASSUME NEW i \in DOMAIN out, i < Lowest(Unread)
      PROVE  i \notin Unread
  <2>1. i \in Nat
    BY <1>1
  <2>3. Lowest(Unread) \in Nat
    BY <1>2, <1>3
  <2>2. ~(Lowest(Unread) <= i)
    BY <1>4, <2>1, <2>3
  <2> QED
    BY <1>3, <2>2
<1>5. Lowest(Unread) \in DOMAIN out /\ out[Lowest(Unread)].tok # "ack"
  BY <1>3 DEF Unread
<1>6. \A i \in DOMAIN out : i \notin Unread => out[i].tok = "ack"
  BY DEF Unread
<1> QED
  BY <1>4, <1>5, <1>6

\* What the host sends, and the end of a connection.
LEMMA HostType ==
  ASSUME NetTypeInv,
         \/ HostDials \/ HostConnects \/ HostSends \/ HostInterrupts
         \/ HostReadsAck \/ HostReadsReply \/ HostVanishes \/ HostResends
  PROVE  NetTypeInv'
<1> DEFINE Added == {<<"syn">>, <<"established", "+", "$", "query">>, <<"etx">>,
                     <<"+">>, <<"+", "fin">>} \cup {<<"$", pkt>> : pkt \in Bodies}
<1>1. /\ Added \subseteq Seq(Tokens)
      /\ "syn" \in Tokens /\ "etx" \in Tokens /\ "+" \in Tokens
  <2>1. /\ {"syn", "fin", "established", "etx", "+", "$"} \subseteq Tokens
        /\ Bodies \subseteq Tokens /\ "query" \in Tokens
    BY DEF Tokens, Characters, Bodies
  <2>2. \A a, b \in Tokens : <<a>> \in Seq(Tokens) /\ <<a, b>> \in Seq(Tokens)
    OBVIOUS
  <2>3. <<"established", "+", "$", "query">> \in Seq(Tokens)
    BY <2>1
  <2> HIDE DEF Tokens
  <2> QED
    BY <2>1, <2>2, <2>3
<1>2. up \in Seq(Tokens) /\ Cardinality(At("queued")) \in Nat
  BY PlaceFinite DEF NetTypeInv
<1>3. \A a \in {"syn", "etx", "+"} : Append(up, a) \in Seq(Tokens)
  BY <1>1, <1>2, AppendProperties
<1>4. \A a \in Added : up \o a \in Seq(Tokens)
  <2> HIDE DEF Added
  <2> QED
    BY <1>1, <1>2, Extended
<1>5. ASSUME UNCHANGED <<coroutines, rx, pcb, pend, storing, want, txnotif, dirty, kicked>>,
             up' \in Seq(Tokens), etx' \in BOOLEAN, inherited' \in BOOLEAN,
             cur' \in Bodies,
             hostpc' \in {"gone", "dialing", "stopped", "acking", "waiting", "running"},
             out' = out \/ out' = Left
               \/ (out' = Without(out, Lowest(Unread)) /\ Unread # {})
      PROVE  NetTypeInv'
  <2>1. out' \in Seq(FrameTypes) /\ Cardinality(At("queued"))' <= Buffers
    <3>1. CASE out' = out
      BY <3>1, OutKept
    <3>2. CASE out' = Left
      <4>1. out' \in Seq(FrameTypes) /\ Cardinality(At("queued"))' = Cardinality(At("queued"))
        BY <3>2, FramesLeft DEF NetTypeInv
      <4> QED
        BY <4>1 DEF NetTypeInv
    <3>3. CASE out' = Without(out, Lowest(Unread)) /\ Unread # {}
      <4>1. Lowest(Unread) \in DOMAIN out
        BY <3>3, UnreadFirst DEF NetTypeInv
      <4>2. /\ out' \in Seq(FrameTypes)
            /\ Cardinality(At("queued"))' \in 0 .. Cardinality(At("queued"))
        BY <3>3, <4>1, FrameRemoved DEF NetTypeInv
      <4> QED
        BY <1>2, <4>2, NetAssumption DEF NetTypeInv
    <3> QED
      BY <1>5, <3>1, <3>2, <3>3
  <2> QED
    BY <1>5, <2>1 DEF NetTypeInv, coroutines
<1>6. CASE HostDials
  BY <1>3, <1>5, <1>6 DEF HostDials, frames, NetTypeInv
<1>7. CASE HostConnects
  BY <1>4, <1>5, <1>7 DEF HostConnects, frames, NetTypeInv, Bodies
<1>8. CASE HostSends \/ HostResends
  <2>1. \E pkt \in Bodies : SendPacket(pkt)
    BY <1>8 DEF HostSends, HostResends, NetTypeInv
  <2> QED
    BY <1>4, <1>5, <1>8, <2>1 DEF SendPacket, HostSends, HostResends, frames, NetTypeInv
<1>9. CASE HostInterrupts
  BY <1>3, <1>5, <1>9 DEF HostInterrupts, frames, NetTypeInv
<1>10. CASE HostReadsAck
  <2>1. up' \in Seq(Tokens)
    BY <1>2, <1>3, <1>10 DEF HostReadsAck
  <2>2. out' = Without(out, Lowest(Unread)) /\ Unread # {}
    BY <1>10 DEF HostReadsAck, Reads, Hands
  <2>3. hostpc' \in {"acking", "waiting", "running"}
    BY <1>10 DEF HostReadsAck
  <2> QED
    BY <1>5, <1>10, <2>1, <2>2, <2>3 DEF HostReadsAck, NetTypeInv
<1>11. CASE HostReadsReply
  <2>1. up' \in Seq(Tokens)
    BY <1>2, <1>3, <1>4, <1>11 DEF HostReadsReply
  <2>2. out' = Left \/ (out' = Without(out, Lowest(Unread)) /\ Unread # {})
    BY <1>11 DEF HostReadsReply, Reads, Hands
  <2>3. /\ hostpc' \in {"gone", "waiting", "running", "stopped"}
        /\ etx' \in BOOLEAN /\ inherited' \in BOOLEAN /\ cur' \in Bodies
    BY <1>11 DEF HostReadsReply, host, NetTypeInv
  <2> QED
    BY <1>5, <1>11, <2>1, <2>2, <2>3 DEF HostReadsReply
<1>12. CASE HostVanishes
  <2>1. up' \in Seq(Tokens)
    BY <1>2, <1>12, CutOff DEF HostVanishes
  <2> QED
    BY <1>5, <1>12, <2>1 DEF HostVanishes, NetTypeInv
<1> QED
  BY <1>6, <1>7, <1>8, <1>9, <1>10, <1>11, <1>12

LEMMA TypeNext == NetTypeInv /\ DrainInv /\ [NetNext]_netVars => NetTypeInv'
<1> SUFFICES ASSUME NetTypeInv, DrainInv, [NetNext]_netVars
             PROVE  NetTypeInv'
  OBVIOUS
<1>1. CASE UNCHANGED netVars
  BY <1>1, OutKept DEF netVars, coroutines, frames, host, NetTypeInv
<1> QED
  BY <1>1, SendingType, TransmittingType, ReceivingType, CoroutinesType, HostType
  DEF NetNext

\* The variables of NetDebugger keep their types: the queue holds no more than its
\* capacity, whatever a segment brings, and the transmit virtualiser no more
\* buffers than there are, however frames are sent, stored and returned.
THEOREM NetTypeCorrect == NetSpec => []NetTypeOK
<1>1. NetTypeInv /\ DrainInv => NetTypeOK
  <2> SUFFICES ASSUME NetTypeInv, DrainInv PROVE NetTypeOK
    OBVIOUS
  <2>1. /\ \A i \in DOMAIN up : up[i] \in Tokens
        /\ \A i \in DOMAIN rx : rx[i] \in Characters
        /\ \A i \in DOMAIN pend : pend[i] \in Replies \cup {"ack"}
        /\ \A i \in DOMAIN out : out[i] \in FrameTypes
    BY LenProperties DEF NetTypeInv
  <2>2. \A i \in DOMAIN out : /\ out[i].tok \in Replies \cup {"ack"}
                              /\ out[i].at \in {"chain", "queued", "arrived"}
    BY <2>1 DEF FrameTypes
  <2>3. Free \in 0 .. Buffers
    <3>1. Cardinality(At("queued")) \in Nat /\ Cardinality(At("queued")) <= Buffers
      BY PlaceFinite DEF NetTypeInv
    <3> QED
      BY <3>1, NetAssumption DEF Free
  <2>4. {want, txnotif, dirty, kicked, etx, inherited} \subseteq BOOLEAN
    BY DEF NetTypeInv
  <2> QED
    BY <2>1, <2>2, <2>3, <2>4 DEF NetTypeInv, NetTypeOK, DrainInv, Modes
<1>2. NetInit => NetTypeInv /\ DrainInv
  BY TypeInit, DrainInit
<1>3. NetTypeInv /\ DrainInv /\ [NetNext]_netVars => NetTypeInv' /\ DrainInv'
  BY TypeNext, DrainNext
<1> QED
  BY <1>1, <1>2, <1>3, PTL DEF NetSpec
-----------------------------------------------------------------------------
(* Frames that wait for a buffer *)

\* While frames are in the chain the virtualiser has told that it returned a
\* buffer, or will, unless this was the last buffer and came back while lwIP
\* stored the only frame there is in the chain, behind which none was sent.
FramesInv ==
  /\ storing => \/ At("queued") # {}
                \/ txnotif
                \/ Chain = {}
  /\ mode = "recheck" => want \/ txnotif
  /\ Chain # {} => \/ txnotif
                   \/ want /\ (At("queued") # {} \/ Alone)
                   \/ mode \in {"transmit", "request", "recheck"}

LEMMA NoneFree ==
  ASSUME NetTypeInv, ~(Free > 0)
  PROVE  At("queued") # {}
<1>1. Cardinality(At("queued")) # 0
  BY PlaceFinite, NetAssumption DEF NetTypeInv, Free
<1> QED
  BY <1>1, FS_EmptySet

\* lwIP finds no buffer, sends, or stores in the chain.
LEMMA SendingFrames ==
  ASSUME NetTypeInv, FramesInv, SendFrame \/ FindNoBuffer \/ enqueue_pbufs
  PROVE  FramesInv'
<1> DEFINE Puts(place) == /\ out' = Append(out, Frame(Head(pend), place))
                          /\ pend # <<>>
<1>1. ASSUME NEW place \in {"queued", "chain"}, Puts(place)
      PROVE  /\ \A p : At(p)' = IF place = p THEN At(p) \cup {Len(out) + 1} ELSE At(p)
             /\ Len(out') = Len(out) + 1
  <2>1. /\ Frame(Head(pend), place) \in FrameTypes
        /\ Frame(Head(pend), place).at = place
    BY <1>1, HeadTailProperties DEF Frame, FrameTypes, NetTypeInv
  <2> QED
    BY <1>1, <2>1, FrameAdded, AppendProperties DEF NetTypeInv
<1>2. mode' = mode /\ mode \notin {"transmit", "request", "recheck"} /\ pend # <<>>
  BY DEF SendFrame, FindNoBuffer, enqueue_pbufs, coroutines, NetTypeInv
<1>3. CASE SendFrame
  <2>1. At("queued")' # {} /\ Chain' = Chain
    BY <1>1, <1>3 DEF SendFrame, Chain
  <2>2. UNCHANGED <<storing, want, txnotif>>
    BY <1>3 DEF SendFrame
  <2> QED
    BY <1>2, <2>1, <2>2 DEF FramesInv
<1>4. CASE FindNoBuffer
  <2>1. At("queued") # {}
    BY <1>4, NoneFree DEF FindNoBuffer, HasBuffer
  <2>2. UNCHANGED <<want, txnotif, out>>
    BY <1>4 DEF FindNoBuffer
  <2>3. At("queued")' = At("queued") /\ Chain' = Chain /\ (Alone => Alone')
    BY <2>2 DEF At, Chain, Alone
  <2> QED
    BY <1>2, <2>1, <2>2, <2>3 DEF FramesInv
<1>5. CASE enqueue_pbufs
  <2>1. /\ At("queued")' = At("queued") /\ Chain' = Chain \cup {Len(out) + 1}
        /\ Len(out') = Len(out) + 1
    BY <1>1, <1>2, <1>5 DEF enqueue_pbufs, Chain
  <2>2. Chain = {} => Alone'
    BY <2>1 DEF Alone
  <2>3. storing /\ ~storing' /\ want' /\ txnotif' = txnotif
    BY <1>5 DEF enqueue_pbufs
  <2> QED
    BY <1>2, <2>1, <2>2, <2>3 DEF FramesInv
<1> QED
  BY <1>3, <1>4, <1>5

\* transmit empties the chain, or requests the signal and looks again; a buffer
\* the virtualiser returned before the request is found then.
LEMMA TransmittingFrames ==
  ASSUME NetTypeInv, FramesInv,
         \/ TransmitNotified \/ TransmitPbuf \/ TransmitLooks \/ TransmitRequests
         \/ TransmitRechecks \/ TimerTick \/ VirtTransmits
  PROVE  FramesInv'
<1>1. \A place : out' = out => At(place)' = At(place)
  BY DEF At
<1>2. CASE TransmitNotified
  <2>1. mode' = "transmit" /\ ~storing' /\ Chain' = Chain
    BY <1>1, <1>2 DEF TransmitNotified, NetTypeInv, Chain
  <2> QED
    BY <2>1 DEF FramesInv
<1>3. CASE TransmitPbuf
  <2>1. mode' = "transmit" /\ ~storing'
    BY <1>3 DEF TransmitPbuf, NetTypeInv, coroutines
  <2> QED
    BY <2>1 DEF FramesInv
<1>4. CASE TransmitLooks
  <2>1. ~storing' /\ Chain' = Chain /\ ((Chain = {} /\ mode' = "end") \/ mode' = "request")
    BY <1>1, <1>4 DEF TransmitLooks, NetTypeInv, Chain
  <2> QED
    BY <2>1 DEF FramesInv
<1>5. CASE TransmitRequests
  <2>1. ~storing' /\ want' /\ mode' = "recheck"
    BY <1>5 DEF TransmitRequests, NetTypeInv
  <2> QED
    BY <2>1 DEF FramesInv
<1>6. CASE TransmitRechecks
  <2>1. /\ ~storing' /\ (want \/ txnotif)
        /\ Chain' = Chain /\ At("queued")' = At("queued") /\ txnotif' = txnotif
    BY <1>1, <1>6 DEF TransmitRechecks, NetTypeInv, FramesInv, Chain
  <2>2. CASE BuffersCameBack
    <3>1. mode' = "transmit"
      BY <1>6, <2>2 DEF TransmitRechecks
    <3> QED
      BY <2>1, <3>1 DEF FramesInv
  <2>3. CASE ~BuffersCameBack
    <3>1. mode' = "end" /\ want' = want
      BY <1>6, <2>3 DEF TransmitRechecks
    <3>2. Chain = {} \/ At("queued") # {}
      BY <2>3, NoneFree DEF BuffersCameBack
    <3> QED
      BY <2>1, <3>1, <3>2 DEF FramesInv
  <2> QED
    BY <2>2, <2>3
<1>7. CASE TimerTick
  <2>1. Alone => Alone'
    BY <1>7 DEF TimerTick, Alone, Chain, At
  <2> QED
    BY <1>1, <1>7, <2>1 DEF TimerTick, FramesInv, coroutines, Chain
<1>8. CASE VirtTransmits
  <2>1. PICK i \in At("queued") :
          out' = IF out[i].tok = "ack" THEN Without(out, i)
                 ELSE [out EXCEPT ![i].at = "arrived"]
    BY <1>8 DEF VirtTransmits
  <2>2. i \in DOMAIN out
    BY DEF At
  <2>3. Chain' # {} => Chain # {}
    <3>1. CASE out[i].tok = "ack"
      BY <2>1, <2>2, <3>1, FrameRemoved DEF NetTypeInv, Chain
    <3>2. CASE out[i].tok # "ack"
      BY <2>1, <2>2, <3>2, FrameMoved DEF NetTypeInv
    <3> QED
      BY <3>1, <3>2
  <2>4. /\ storing' = storing /\ mode' = mode
        /\ txnotif' = (txnotif \/ want)
        /\ storing => mode \notin {"transmit", "request", "recheck"}
    BY <1>8 DEF VirtTransmits, coroutines, NetTypeInv
  <2> QED
    BY <2>3, <2>4 DEF FramesInv
<1> QED
  BY <1>2, <1>3, <1>4, <1>5, <1>6, <1>7, <1>8

\* What notified goes on with.
LEMMA GoesOn ==
  ASSUME DrainInv, ReceiveDone
  PROVE  \/ mainpc = "none" /\ mode' = "end"
         \/ mainpc # "none" /\ state = "Fault" /\ mode' = "notified"
         \/ mainpc # "none" /\ state = "EventLoop" /\ mode' = "main"
<1>1. CASE mainpc = "none"
  BY <1>1 DEF ReceiveDone, DrainInv
<1>2. CASE mainpc # "none" /\ state = "Fault"
  BY <1>2 DEF ReceiveDone, DrainInv
<1>3. CASE mainpc # "none" /\ state = "EventLoop"
  BY <1>3 DEF ReceiveDone, DrainInv
<1>4. mainpc # "none" => state \in {"Fault", "EventLoop"}
  BY DEF ReceiveDone, DrainInv
<1> QED
  BY <1>1, <1>2, <1>3, <1>4

\* Nobody else touches the frames but GDB, which reads what arrived.
LEMMA OthersFrames ==
  ASSUME NetTypeInv, DrainInv, FramesInv,
         \/ ReceiveNotified \/ SynReceived \/ tcp_accept_gdb \/ tcp_closed_gdb
         \/ tcp_recv_gdb \/ ReceiveDone \/ gdb_connected \/ NotifiedReturns
         \/ Wait \/ Seek \/ ReadBody \/ AwaitAck \/ fault \/ AwaitStopAck
         \/ ThreadFaults
         \/ HostDials \/ HostConnects \/ HostSends \/ HostInterrupts
         \/ HostReadsAck \/ HostReadsReply \/ HostVanishes \/ HostResends
         \/ UNCHANGED netVars
  PROVE  FramesInv'
<1> DEFINE Sending == {"transmit", "request", "recheck"}
<1>1. ASSUME UNCHANGED <<storing, want, txnotif>>,
             mode' = mode \/ (mode \notin Sending /\ mode' \notin Sending),
             Chain' # {} => Chain # {}, At("queued") # {} => At("queued")' # {},
             Alone => Alone'
      PROVE  FramesInv'
  BY <1>1 DEF FramesInv
<1>2. ASSUME out' = out
      PROVE  /\ Chain' = Chain /\ At("queued")' = At("queued")
             /\ Alone => Alone'
  BY <1>2 DEF Chain, At, Alone
<1>3. CASE \/ ReceiveNotified \/ SynReceived \/ tcp_accept_gdb \/ tcp_closed_gdb
           \/ tcp_recv_gdb \/ ReceiveDone \/ gdb_connected \/ NotifiedReturns
  <2>1. UNCHANGED <<storing, want, txnotif, out>>
    BY <1>3 DEF ReceiveNotified, SynReceived, tcp_accept_gdb, tcp_closed_gdb,
                tcp_recv_gdb, ReceiveDone, gdb_connected, NotifiedReturns, frames
  <2>2. mode \notin Sending /\ mode' \notin Sending
    BY <1>3, GoesOn DEF ReceiveNotified, SynReceived, tcp_accept_gdb, tcp_closed_gdb,
                        tcp_recv_gdb, ReceiveDone, gdb_connected, NotifiedReturns
  <2> QED
    BY <1>1, <1>2, <2>1, <2>2
<1>4. CASE \/ Wait \/ Seek \/ ReadBody \/ AwaitAck \/ fault \/ AwaitStopAck
           \/ ThreadFaults \/ UNCHANGED netVars
  <2>1. UNCHANGED <<storing, want, txnotif, out>>
    BY <1>4 DEF Wait, Seek, ReadBody, AwaitAck, fault, AwaitStopAck, ThreadFaults,
                netVars, frames
  <2>2. mode' = mode \/ (mode \notin Sending /\ mode' \notin Sending)
    BY <1>4 DEF Wait, Seek, ReadBody, AwaitAck, fault, AwaitStopAck, ThreadFaults,
                netVars, coroutines
  <2> QED
    BY <1>1, <1>2, <2>1, <2>2
<1>5. CASE \/ HostDials \/ HostConnects \/ HostSends \/ HostInterrupts \/ HostResends
  <2>1. UNCHANGED <<storing, want, txnotif, out, mode>>
    BY <1>5 DEF HostDials, HostConnects, HostSends, HostInterrupts, HostResends,
                frames, coroutines
  <2> QED
    BY <1>1, <1>2, <2>1
<1>6. CASE HostReadsAck \/ HostReadsReply \/ HostVanishes
  <2>1. UNCHANGED <<storing, want, txnotif, mode>>
    BY <1>6 DEF HostReadsAck, HostReadsReply, HostVanishes, coroutines
  <2>2. \/ out' = Left
        \/ /\ Unread # {} /\ out[Lowest(Unread)].at = "arrived"
           /\ out' = Without(out, Lowest(Unread))
    BY <1>6 DEF HostReadsAck, HostReadsReply, HostVanishes, Reads, Hands
  <2>3. /\ Chain' # {} => Chain # {}
        /\ At("queued") # {} => At("queued")' # {}
        /\ Alone => Alone'
    <3>1. CASE out' = Left
      BY <3>1, FramesLeft DEF NetTypeInv
    <3>2. CASE out' # Left
      <4>1. Lowest(Unread) \in DOMAIN out
        BY <2>2, <3>2, UnreadFirst DEF NetTypeInv
      <4> QED
        BY <2>2, <3>2, <4>1, FrameRemoved DEF NetTypeInv, Chain
    <3> QED
      BY <3>1, <3>2
  <2> QED
    BY <1>1, <2>1, <2>3
<1> QED
  BY <1>3, <1>4, <1>5, <1>6

LEMMA FramesInit == NetInit => FramesInv
  BY DEF NetInit, FramesInv, Chain, At

LEMMA FramesNext ==
  ASSUME NetTypeInv, DrainInv, FramesInv, [NetNext]_netVars
  PROVE  FramesInv'
  BY SendingFrames, TransmittingFrames, OthersFrames DEF NetNext

\* When nothing is on its way at most one frame waits in the chain.
LEMMA SilenceLeavesOne ==
  ASSUME NetTypeInv, FramesInv, Silence
  PROVE  Len(out) <= 1
<1>1. DOMAIN out = 1 .. Len(out) /\ Len(out) \in Nat
  BY LenProperties DEF NetTypeInv
<1>2. At("queued") = {} /\ Chain = DOMAIN out
  BY DEF Silence, Chain, At
<1>3. Chain # {} => Alone
  BY <1>2 DEF FramesInv, Silence
<1>4. ASSUME ~(Len(out) <= 1)
      PROVE  FALSE
  <2>1. 1 \in DOMAIN out /\ 1 # Len(out)
    BY <1>1, <1>4
  <2> QED
    BY <1>2, <1>3, <2>1 DEF Alone
<1> QED
  BY <1>4
-----------------------------------------------------------------------------
(* What is under way, both ways *)

\* x is an element of the sequence s, the only one there is, at most once.
In(x, s) == \E i \in DOMAIN s : s[i] = x
Only(x, s) == \A i \in DOMAIN s : s[i] = x
Once(x, s) == \A i, j \in DOMAIN s : s[i] = x /\ s[j] = x => i = j

\* What GDB sent and no coroutine has read yet.
line == [i \in 1 .. Len(rx) + Len(up) |->
           IF i <= Len(rx) THEN rx[i] ELSE up[i - Len(rx)]]

\* What the frames under way say to GDB, and what the debugger says in all.
said == [i \in DOMAIN out |-> out[i].tok]
wire == [i \in 1 .. Len(out) + Len(pend) |->
           IF i <= Len(out) THEN out[i].tok ELSE pend[i - Len(out)]]

\* GDB has a connection, as far as it knows.
Live == hostpc \notin {"gone", "dialing"}

\* The debugger is on its way to tell GDB that it has the packet.
Acked == In("+", wire)

\* t_fault waits for an acknowledgement: it swallows what comes before it.
FaultPending == mode \in {"fault", "notified"} \/ state = "Fault"

\* The element i of s, some x of s is for t_main; f: t_fault waits.
DueAt(s, i, f) == f => \E j \in DOMAIN s : j < i /\ s[j] = "+"
Due(x, s, f) == \E i \in DOMAIN s : s[i] = x /\ DueAt(s, i, f)
DueOnce(x, s, f) ==
  \A i, j \in DOMAIN s :
    s[i] = x /\ s[j] = x /\ DueAt(s, i, f) /\ DueAt(s, j, f) => i = j

\* At most the '$' of its packet comes before x.
Leads(x, s) == \A i, j \in DOMAIN s : s[i] = x /\ j < i => s[j] = "$"

\* What is said to GDB: no answer; none after an acknowledgement; no
\* acknowledgement after an answer; none after an answer to an acknowledged
\* packet; an answer after each acknowledgement.
Answer(tok) == tok \in {"reply", "stop"}
Unanswered(s) == \A i \in DOMAIN s : ~Answer(s[i])
Awaiting(s) == \A i, j \in DOMAIN s : s[i] = "+" /\ i < j => ~Answer(s[j])
AcksFirst(s) == \A i, j \in DOMAIN s : Answer(s[i]) /\ i < j => s[j] # "+"
OneTurn(s) == \A i, j, k \in DOMAIN s :
                s[i] = "+" /\ Answer(s[j]) /\ i < j /\ j < k => s[k] # "+"
Followed(s) == \A i \in DOMAIN s :
                 s[i] = "+" => \E j \in DOMAIN s : i < j /\ Answer(s[j])

\* t is what is left of s, nothing of what it is about having been lost but to
\* whom it was for.
Consumes(t, g, s, f) ==
  \A x : /\ In(x, t) => In(x, s)
         /\ Once(x, s) => Once(x, t)
         /\ Leads(x, s) => Leads(x, t)
         /\ Due(x, t, g) => Due(x, s, f)
         /\ DueOnce(x, s, f) => DueOnce(x, t, g)

\* t says what s said, with answers that do not come too early; with none.
Says(t, s) ==
  /\ In("+", t) <=> In("+", s)
  /\ Once("+", s) => Once("+", t)
  /\ AcksFirst(s) => AcksFirst(t)
  /\ OneTurn(s) => OneTurn(t)
  /\ Followed(s) => Followed(t)
SaysNoMore(t, s) ==
  /\ Says(t, s)
  /\ Unanswered(s) => Unanswered(t)
  /\ Awaiting(s) => Awaiting(t)

\* Some elements of s, in the order of s; all but acknowledgements of segments.
Within(t, s) ==
  \E f \in [DOMAIN t -> DOMAIN s] :
    /\ \A k, l \in DOMAIN t : k < l => f[k] < f[l]
    /\ \A k \in DOMAIN t : t[k] = s[f[k]]
Thins(t, s) ==
  \E f \in [DOMAIN t -> DOMAIN s] :
    /\ \A k, l \in DOMAIN t : k < l => f[k] < f[l]
    /\ \A k \in DOMAIN t : t[k] = s[f[k]]
    /\ \A i \in DOMAIN s : s[i] # "ack" => \E k \in DOMAIN t : f[k] = i

\* t is s, n elements, with one more; s without its first; s without one that
\* no other says anything before.
Extends(t, s, n, x) ==
  /\ n \in Nat /\ DOMAIN s = 1 .. n /\ DOMAIN t = 1 .. n + 1
  /\ (\A i \in 1 .. n : t[i] = s[i]) /\ t[n + 1] = x
Behead(t, s, n, h) ==
  /\ n \in Nat /\ DOMAIN s = 1 .. n + 1 /\ DOMAIN t = 1 .. n
  /\ (\A i \in 1 .. n : t[i] = s[i + 1]) /\ s[1] = h
Reading(t, s, n, tok, i) ==
  /\ n \in Nat /\ i \in 1 .. n + 1
  /\ DOMAIN s = 1 .. n + 1 /\ DOMAIN t = 1 .. n /\ s[i] = tok
  /\ \A j \in 1 .. n : t[j] = IF j < i THEN s[j] ELSE s[j + 1]
  /\ \A j \in 1 .. n + 1 : j < i => s[j] = "ack"

LEMMA WithinConsumes ==
  ASSUME NEW s, NEW t, DOMAIN s \subseteq Int, DOMAIN t \subseteq Int,
         Within(t, s), NEW b
  PROVE  Consumes(t, b, s, b)
<1>1. PICK f \in [DOMAIN t -> DOMAIN s] :
        /\ \A k, l \in DOMAIN t : k < l => f[k] < f[l]
        /\ \A k \in DOMAIN t : t[k] = s[f[k]]
  BY DEF Within
<1>2. \A k \in DOMAIN t : f[k] \in DOMAIN s /\ f[k] \in Int /\ k \in Int
  OBVIOUS
<1>3. ASSUME NEW k \in DOMAIN t, NEW l \in DOMAIN t, f[k] = f[l]
      PROVE  k = l
  <2>1. ~(k < l) /\ ~(l < k)
    BY <1>1, <1>2, <1>3
  <2> QED
    BY <1>2, <2>1
<1>4. ASSUME NEW k \in DOMAIN t, DueAt(t, k, b)
      PROVE  DueAt(s, f[k], b)
  BY <1>1, <1>4 DEF DueAt
<1> SUFFICES ASSUME NEW x
             PROVE  /\ In(x, t) => In(x, s)
                    /\ Once(x, s) => Once(x, t)
                    /\ Leads(x, s) => Leads(x, t)
                    /\ Due(x, t, b) => Due(x, s, b)
                    /\ DueOnce(x, s, b) => DueOnce(x, t, b)
  BY DEF Consumes
<1>5. In(x, t) => In(x, s)
  BY <1>1 DEF In
<1>6. Once(x, s) => Once(x, t)
  BY <1>1, <1>3 DEF Once
<1>7. Leads(x, s) => Leads(x, t)
  BY <1>1, <1>2 DEF Leads
<1>8. Due(x, t, b) => Due(x, s, b)
  BY <1>1, <1>4 DEF Due
<1>9. DueOnce(x, s, b) => DueOnce(x, t, b)
  BY <1>1, <1>3, <1>4 DEF DueOnce
<1> QED
  BY <1>5, <1>6, <1>7, <1>8, <1>9

LEMMA ThinsSays ==
  ASSUME NEW s, NEW t, DOMAIN s \subseteq Int, DOMAIN t \subseteq Int, Thins(t, s)
  PROVE  SaysNoMore(t, s)
<1>1. PICK f \in [DOMAIN t -> DOMAIN s] :
        /\ \A k, l \in DOMAIN t : k < l => f[k] < f[l]
        /\ \A k \in DOMAIN t : t[k] = s[f[k]]
        /\ \A i \in DOMAIN s : s[i] # "ack" => \E k \in DOMAIN t : f[k] = i
  BY DEF Thins
<1>2. Within(t, s)
  BY <1>1 DEF Within
<1>3. (In("+", t) => In("+", s)) /\ (Once("+", s) => Once("+", t))
  BY <1>2, WithinConsumes DEF Consumes
<1>4. In("+", s) => In("+", t)
  BY <1>1 DEF In
<1>5. \A k \in DOMAIN t : f[k] \in DOMAIN s
  OBVIOUS
<1>6. /\ AcksFirst(s) => AcksFirst(t)
      /\ Unanswered(s) => Unanswered(t)
      /\ Awaiting(s) => Awaiting(t)
  BY <1>1, <1>5 DEF AcksFirst, Unanswered, Awaiting
<1>7. OneTurn(s) => OneTurn(t)
  BY <1>1, <1>5 DEF OneTurn
<1>8. ASSUME Followed(s), NEW k \in DOMAIN t, t[k] = "+"
      PROVE  \E l \in DOMAIN t : k < l /\ Answer(t[l])
  <2>1. PICK j \in DOMAIN s : f[k] < j /\ Answer(s[j])
    BY <1>1, <1>5, <1>8 DEF Followed
  <2>2. PICK l \in DOMAIN t : f[l] = j
    BY <1>1, <2>1 DEF Answer
  <2>3. ~(l < k) /\ l # k
    BY <1>1, <1>5, <2>1, <2>2
  <2>4. k < l
    BY <2>3
  <2> QED
    BY <1>1, <2>1, <2>2, <2>4
<1> QED
  BY <1>3, <1>4, <1>6, <1>7, <1>8 DEF SaysNoMore, Says, Followed

\* One more element.
LEMMA Longer ==
  ASSUME NEW n, NEW s, NEW t, NEW x, Extends(t, s, n, x)
  PROVE  /\ \A y : In(y, t) <=> In(y, s) \/ y = x
         /\ \A y : Once(y, s) /\ (y = x => ~In(y, s)) => Once(y, t)
         /\ \A y : Leads(y, s) /\ x # y => Leads(y, t)
         /\ \A y, f : x # y => /\ Due(y, t, f) => Due(y, s, f)
                               /\ DueOnce(y, s, f) => DueOnce(y, t, f)
         /\ \A f : ~Due(x, s, f) => DueOnce(x, t, f)
<1> USE DEF Extends
<1>1. \A i : i \in 1 .. n + 1 <=> i \in 1 .. n \/ i = n + 1
  OBVIOUS
<1>2. ASSUME NEW y
      PROVE  In(y, t) <=> In(y, s) \/ y = x
  BY <1>1 DEF In
<1>3. ASSUME NEW y, Once(y, s), y = x => ~In(y, s)
      PROVE  Once(y, t)
  BY <1>1, <1>3 DEF Once, In
<1>4. ASSUME NEW y, Leads(y, s), x # y
      PROVE  Leads(y, t)
  <2> SUFFICES ASSUME NEW i \in 1 .. n + 1, NEW j \in 1 .. n + 1, t[i] = y, j < i
               PROVE  t[j] = "$"
    BY DEF Leads
  <2>1. i \in 1 .. n
    BY <1>1, <1>4
  <2>2. j \in 1 .. n
    BY <2>1
  <2> QED
    BY <1>4, <2>1, <2>2 DEF Leads
<1>5. ASSUME NEW i \in 1 .. n, NEW f
      PROVE  DueAt(t, i, f) => DueAt(s, i, f)
  <2> SUFFICES ASSUME NEW j \in 1 .. n + 1, j < i, t[j] = "+"
               PROVE  j \in 1 .. n /\ s[j] = "+"
    BY DEF DueAt
  <2>1. j \in 1 .. n
    OBVIOUS
  <2> QED
    BY <2>1
<1>6. ASSUME NEW y, NEW f, x # y
      PROVE  /\ Due(y, t, f) => Due(y, s, f)
             /\ DueOnce(y, s, f) => DueOnce(y, t, f)
  <2>1. \A i \in 1 .. n + 1 : t[i] = y => i \in 1 .. n
    BY <1>1, <1>6
  <2> QED
    BY <1>1, <1>5, <2>1 DEF Due, DueOnce
<1>7. ASSUME NEW f, ~Due(x, s, f)
      PROVE  DueOnce(x, t, f)
  <2>1. \A i \in 1 .. n + 1 : t[i] = x /\ DueAt(t, i, f) => i = n + 1
    BY <1>1, <1>5, <1>7 DEF Due
  <2> QED
    BY <2>1 DEF DueOnce
<1> QED
  BY <1>2, <1>3, <1>4, <1>6, <1>7

\* One more said.
LEMMA SaysMore ==
  ASSUME NEW n, NEW s, NEW t, NEW x, Extends(t, s, n, x)
  PROVE  /\ x # "+" => Says(t, s)
         /\ x # "+" /\ ~Answer(x) => SaysNoMore(t, s)
         /\ x = "+" => /\ In("+", t)
                       /\ Unanswered(s) => Unanswered(t)
                       /\ Awaiting(s) => Awaiting(t) /\ OneTurn(t)
                       /\ Unanswered(s) => AcksFirst(t)
         /\ Answer(x) => Followed(t)
<1>3. (In("+", t) <=> In("+", s) \/ x = "+") /\ (Once("+", s) /\ x # "+" => Once("+", t))
  BY Longer
<1> USE DEF Extends
<1>1. \A i : i \in 1 .. n + 1 <=> i \in 1 .. n \/ i = n + 1
  OBVIOUS
<1>2. \A i, j \in 1 .. n + 1 : i < j => i \in 1 .. n
  OBVIOUS
<1>4. ASSUME x # "+"
      PROVE  /\ AcksFirst(s) => AcksFirst(t)
             /\ OneTurn(s) => OneTurn(t)
  <2>1. \A i \in 1 .. n + 1 : t[i] = "+" => i \in 1 .. n /\ s[i] = "+"
    BY <1>1, <1>4
  <2>2. AcksFirst(s) => AcksFirst(t)
    BY <1>2, <2>1 DEF AcksFirst
  <2>3. OneTurn(s) => OneTurn(t)
    BY <1>2, <2>1 DEF OneTurn
  <2> QED
    BY <2>2, <2>3
<1>5. x # "+" /\ Followed(s) => Followed(t)
  <2> SUFFICES ASSUME x # "+", Followed(s), NEW i \in 1 .. n + 1, t[i] = "+"
               PROVE  \E j \in 1 .. n + 1 : i < j /\ Answer(t[j])
    BY DEF Followed
  <2>1. i \in 1 .. n /\ s[i] = "+"
    BY <1>1
  <2>2. PICK j \in 1 .. n : i < j /\ Answer(s[j])
    BY <2>1 DEF Followed
  <2> QED
    BY <1>1, <2>2
<1>6. ASSUME ~Answer(x)
      PROVE  /\ Unanswered(s) => Unanswered(t)
             /\ Awaiting(s) => Awaiting(t)
  <2>1. \A i \in 1 .. n + 1 : Answer(t[i]) => i \in 1 .. n /\ Answer(s[i])
    BY <1>1, <1>6
  <2> QED
    BY <1>2, <2>1 DEF Unanswered, Awaiting
<1>7. ASSUME x = "+"
      PROVE  /\ Awaiting(s) => OneTurn(t)
             /\ Unanswered(s) => AcksFirst(t)
  <2>1. \A i \in 1 .. n + 1 : Answer(t[i]) => i \in 1 .. n /\ Answer(s[i])
    BY <1>1, <1>7 DEF Answer
  <2>2. Awaiting(s) => OneTurn(t)
    BY <1>2, <2>1 DEF Awaiting, OneTurn
  <2>3. Unanswered(s) => AcksFirst(t)
    BY <2>1 DEF Unanswered, AcksFirst
  <2> QED
    BY <2>2, <2>3
<1>8. Answer(x) => Followed(t)
  <2> SUFFICES ASSUME Answer(x), NEW i \in 1 .. n + 1, t[i] = "+"
               PROVE  i < n + 1 /\ n + 1 \in 1 .. n + 1 /\ Answer(t[n + 1])
    BY DEF Followed
  <2>1. i # n + 1
    BY DEF Answer
  <2> QED
    BY <2>1
<1>9. ~Answer("+")
  BY DEF Answer
<1> QED
  BY <1>3, <1>4, <1>5, <1>6, <1>7, <1>8, <1>9 DEF Says, SaysNoMore

\* The first element is taken.
LEMMA Taken ==
  ASSUME NEW n, NEW s, NEW t, NEW h, Behead(t, s, n, h)
  PROVE  /\ \A f : Consumes(t, f, s, f)
         /\ h = "+" => Consumes(t, FALSE, s, TRUE)
         /\ In(h, s) /\ Due(h, s, FALSE)
         /\ Once(h, s) => ~In(h, t)
         /\ DueOnce(h, s, FALSE) => ~Due(h, t, FALSE)
         /\ \A x : Leads(x, s) /\ h # "$" /\ h # x => ~In(x, s)
<1> USE DEF Behead
<1> DEFINE f == [k \in 1 .. n |-> k + 1]
<1>1. /\ f \in [1 .. n -> 1 .. n + 1]
      /\ \A k, l \in 1 .. n : k < l => f[k] < f[l]
      /\ \A k \in 1 .. n : t[k] = s[f[k]]
  OBVIOUS
<1>2. \A b : Consumes(t, b, s, b)
  <2>1. Within(t, s)
    BY <1>1 DEF Within
  <2>2. 1 .. n \subseteq Int /\ 1 .. n + 1 \subseteq Int
    OBVIOUS
  <2> QED
    BY <2>1, <2>2, WithinConsumes
<1>3. 1 \in 1 .. n + 1 /\ \A i \in 1 .. n : i + 1 \in 1 .. n + 1 /\ 1 < i + 1
  OBVIOUS
<1>4. \A i \in 1 .. n + 1 : i # 1 => i - 1 \in 1 .. n /\ i - 1 + 1 = i
  OBVIOUS
<1>5. ASSUME h = "+"
      PROVE  Consumes(t, FALSE, s, TRUE)
  <2>1. \A i \in 1 .. n : DueAt(s, i + 1, TRUE)
    BY <1>3, <1>5 DEF DueAt
  <2>2. \A x : Due(x, t, FALSE) => Due(x, s, TRUE)
    BY <1>3, <2>1 DEF Due
  <2>3. ASSUME NEW x, DueOnce(x, s, TRUE)
        PROVE  DueOnce(x, t, FALSE)
    <3> SUFFICES ASSUME NEW i \in 1 .. n, NEW j \in 1 .. n, t[i] = x, t[j] = x
                 PROVE  i = j
      BY DEF DueOnce
    <3>1. i + 1 = j + 1
      BY <1>3, <2>1, <2>3 DEF DueOnce
    <3> QED
      BY <3>1
  <2> QED
    BY <1>2, <2>2, <2>3 DEF Consumes
<1>6. In(h, s) /\ Due(h, s, FALSE)
  BY <1>3 DEF In, Due, DueAt
<1>7. ASSUME NEW i \in 1 .. n, t[i] = h
      PROVE  i + 1 \in 1 .. n + 1 /\ s[i + 1] = h /\ i + 1 # 1
  BY <1>7
<1>8. Once(h, s) => ~In(h, t)
  BY <1>3, <1>7 DEF Once, In
<1>9. DueOnce(h, s, FALSE) => ~Due(h, t, FALSE)
  BY <1>3, <1>7 DEF DueOnce, Due, DueAt
<1>10. ASSUME NEW x, Leads(x, s), h # "$", h # x, NEW i \in 1 .. n + 1, s[i] = x
       PROVE  FALSE
  <2>1. i # 1 /\ 1 < i
    BY <1>10
  <2> QED
    BY <1>3, <1>10, <2>1 DEF Leads
<1> QED
  BY <1>2, <1>5, <1>6, <1>8, <1>9, <1>10 DEF In

\* GDB reads what says something first.
LEMMA FirstRead ==
  ASSUME NEW n, NEW s, NEW t, NEW tok, NEW i, Reading(t, s, n, tok, i)
  PROVE  /\ In(tok, s)
         /\ In("+", t) => In("+", s)
         /\ Once("+", s) => Once("+", t)
         /\ AcksFirst(s) => AcksFirst(t)
         /\ OneTurn(s) => OneTurn(t)
         /\ Unanswered(s) => Unanswered(t)
         /\ Awaiting(s) => Awaiting(t)
         /\ tok = "+" => /\ Once("+", s) => ~In("+", t)
                         /\ OneTurn(s) => AcksFirst(t)
                         /\ Awaiting(s) => Unanswered(t)
         /\ Answer(tok) => /\ In("+", s) => In("+", t)
                           /\ Followed(s) => Followed(t)
                           /\ AcksFirst(s) => ~In("+", t)
<1> USE DEF Reading
<1> DEFINE f == [k \in 1 .. n |-> IF k < i THEN k ELSE k + 1]
<1>1. /\ f \in [1 .. n -> 1 .. n + 1]
      /\ \A k, l \in 1 .. n : k < l => f[k] < f[l]
      /\ \A k \in 1 .. n : t[k] = s[f[k]]
      /\ \A k \in 1 .. n : f[k] # i
  OBVIOUS
<1>2. \A k \in 1 .. n : i < f[k] \/ t[k] = "ack"
  OBVIOUS
<1>3. \A j \in 1 .. n + 1 : j # i => \E k \in 1 .. n : f[k] = j
  <2> SUFFICES ASSUME NEW j \in 1 .. n + 1, j # i
               PROVE  \E k \in 1 .. n : f[k] = j
    OBVIOUS
  <2>1. CASE j < i
    <3>1. j \in 1 .. n /\ f[j] = j
      BY <2>1
    <3> QED
      BY <3>1
  <2>2. CASE i < j
    <3>1. j - 1 \in 1 .. n /\ f[j - 1] = j
      BY <2>2
    <3> QED
      BY <3>1
  <2> QED
    BY <2>1, <2>2
<1>4. 1 .. n \subseteq Int /\ 1 .. n + 1 \subseteq Int
  OBVIOUS
<1>5. \A k \in 1 .. n : f[k] \in 1 .. n + 1
  OBVIOUS
<1> HIDE DEF f
<1>6. /\ In("+", t) => In("+", s)
      /\ Once("+", s) => Once("+", t)
  <2>1. Within(t, s)
    BY <1>1 DEF Within
  <2> QED
    BY <1>4, <2>1, WithinConsumes DEF Consumes
<1>7. /\ AcksFirst(s) => AcksFirst(t)
      /\ Unanswered(s) => Unanswered(t)
      /\ Awaiting(s) => Awaiting(t)
  BY <1>1, <1>5 DEF AcksFirst, Unanswered, Awaiting
<1>8. OneTurn(s) => OneTurn(t)
  BY <1>1, <1>5 DEF OneTurn
<1>9. ASSUME tok = "+"
      PROVE  /\ Once("+", s) => ~In("+", t)
             /\ OneTurn(s) => AcksFirst(t)
             /\ Awaiting(s) => Unanswered(t)
  <2>1. Once("+", s) => ~In("+", t)
    BY <1>1, <1>5, <1>9, ZenonT(60) DEF Once, In
  <2>2. \A k \in 1 .. n : Answer(t[k]) => i < f[k]
    BY <1>2 DEF Answer
  <2>3. ASSUME OneTurn(s), NEW k \in 1 .. n, NEW l \in 1 .. n, Answer(t[k]), k < l
        PROVE  t[l] # "+"
    <3>1. /\ f[k] \in DOMAIN s /\ f[l] \in DOMAIN s /\ i \in DOMAIN s
          /\ i < f[k] /\ f[k] < f[l] /\ t[k] = s[f[k]] /\ t[l] = s[f[l]]
      BY <1>1, <1>5, <2>2, <2>3
    <3>2. s[i] = "+" /\ Answer(s[f[k]])
      BY <1>9, <2>3, <3>1
    <3> QED
      BY <2>3, <3>1, <3>2 DEF OneTurn
  <2>4. ASSUME Awaiting(s), NEW k \in 1 .. n
        PROVE  ~Answer(t[k])
    <3>1. f[k] \in DOMAIN s /\ i \in DOMAIN s /\ t[k] = s[f[k]] /\ s[i] = "+"
      BY <1>1, <1>5, <1>9
    <3> QED
      BY <2>2, <2>4, <3>1 DEF Awaiting
  <2> QED
    BY <2>1, <2>3, <2>4 DEF AcksFirst, Unanswered
<1>10. ASSUME Answer(tok)
       PROVE  /\ In("+", s) => In("+", t)
              /\ Followed(s) => Followed(t)
              /\ AcksFirst(s) => ~In("+", t)
  <2>1. tok # "+"
    BY <1>10 DEF Answer
  <2>2. ASSUME NEW j \in 1 .. n + 1, s[j] = "+"
        PROVE  In("+", t)
    <3>1. j # i
      BY <2>1, <2>2
    <3>2. PICK k \in 1 .. n : f[k] = j
      BY <1>3, <3>1
    <3>3. t[k] = "+"
      BY <1>1, <2>2, <3>2
    <3> QED
      BY <3>3 DEF In
  <2>3. \A k \in 1 .. n : t[k] = "+" => i < f[k]
    BY <1>2
  <2>4. AcksFirst(s) => ~In("+", t)
    BY <1>1, <1>5, <1>10, <2>3 DEF AcksFirst, In
  <2>5. ASSUME Followed(s), NEW k \in 1 .. n, t[k] = "+"
        PROVE  \E l \in 1 .. n : k < l /\ Answer(t[l])
    <3>1. PICK j \in 1 .. n + 1 : f[k] < j /\ Answer(s[j])
      BY <1>1, <1>5, <2>5 DEF Followed
    <3>2. j # i
      BY <1>5, <2>3, <2>5, <3>1
    <3>3. PICK l \in 1 .. n : f[l] = j
      BY <1>3, <3>2
    <3>4. k < l
      <4>1. ~(l < k) /\ l # k
        BY <1>1, <1>5, <3>1, <3>3
      <4> QED
        BY <4>1
    <3> QED
      BY <1>1, <3>1, <3>3, <3>4
  <2> QED
    BY <2>2, <2>4, <2>5 DEF Followed, In
<1>11. In(tok, s)
  BY DEF In
<1> QED
  BY <1>6, <1>7, <1>8, <1>9, <1>10, <1>11
-----------------------------------------------------------------------------
(* What the steps do to the two *)

LEMMA SaidIs ==
  ASSUME out \in Seq(FrameTypes)
  PROVE  /\ DOMAIN said = 1 .. Len(out) /\ DOMAIN out = 1 .. Len(out)
         /\ Len(out) \in Nat
         /\ \A i \in DOMAIN out : said[i] = out[i].tok
  BY LenProperties DEF said

\* A frame of pend is sent, or stored in the chain: for GDB nothing changes.
LEMMA FrameSays ==
  ASSUME NetTypeInv, NEW place \in {"queued", "chain"}, pend # <<>>,
         out' = Append(out, Frame(Head(pend), place)), pend' = Tail(pend)
  PROVE  /\ \A y : In(y, said') <=> In(y, said) \/ y = IF Hears THEN Head(pend) ELSE "ack"
         /\ Hears => wire' = wire
<1> DEFINE x == IF Hears THEN Head(pend) ELSE "ack"
<1>1. /\ Frame(Head(pend), place) \in FrameTypes
      /\ Frame(Head(pend), place).tok = x
  BY HeadTailProperties DEF Frame, FrameTypes, NetTypeInv
<1>2. /\ DOMAIN out = 1 .. Len(out) /\ Len(out) \in Nat
      /\ DOMAIN out' = 1 .. Len(out) + 1
      /\ \A i \in DOMAIN out : out'[i] = out[i]
      /\ out'[Len(out) + 1] = Frame(Head(pend), place)
      /\ Len(out') = Len(out) + 1
  BY <1>1, FrameAdded, AppendProperties DEF NetTypeInv
<1>3. /\ DOMAIN said = 1 .. Len(out) /\ DOMAIN said' = 1 .. Len(out) + 1
      /\ \A i \in 1 .. Len(out) : said'[i] = said[i]
      /\ said'[Len(out) + 1] = x
  BY <1>1, <1>2 DEF said
<1>4. \A y : In(y, said') <=> In(y, said) \/ y = x
  <2> SUFFICES ASSUME NEW tok, tok = x
               PROVE  \A y : In(y, said') <=> In(y, said) \/ y = tok
    OBVIOUS
  <2>1. /\ Len(out) \in Nat
        /\ DOMAIN said = 1 .. Len(out) /\ DOMAIN said' = 1 .. Len(out) + 1
        /\ \A i \in 1 .. Len(out) : said'[i] = said[i]
        /\ said'[Len(out) + 1] = tok
    BY <1>2, <1>3
  <2>2. Extends(said', said, Len(out), tok)
    BY <2>1 DEF Extends
  <2> HIDE DEF x
  <2> QED
    BY <2>2, Longer
<1>5. ASSUME Hears
      PROVE  wire' = wire
  <2>1. /\ Len(pend) \in Nat \ {0} /\ Head(pend) = pend[1]
        /\ Tail(pend) \in Seq(Replies \cup {"ack"}) /\ Len(Tail(pend)) = Len(pend) - 1
        /\ \A i \in 1 .. Len(Tail(pend)) : Tail(pend)[i] = pend[i + 1]
    BY EmptySeq, LenProperties, HeadTailProperties DEF NetTypeInv
  <2>2. /\ Len(pend') = Len(pend) - 1
        /\ \A i \in 1 .. Len(pend) - 1 : pend'[i] = pend[i + 1]
    BY <2>1
  <2>3. Len(out') + Len(pend') = Len(out) + Len(pend)
    BY <1>2, <2>1, <2>2
  <2> DEFINE N == Len(out) + Len(pend)
  <2>4. ASSUME NEW i \in 1 .. N
        PROVE  (IF i <= Len(out') THEN out'[i].tok ELSE pend'[i - Len(out')])
                 = (IF i <= Len(out) THEN out[i].tok ELSE pend[i - Len(out)])
    <3>1. CASE i <= Len(out)
      BY <1>2, <3>1
    <3>2. CASE i = Len(out) + 1
      BY <1>1, <1>2, <1>5, <2>1, <3>2
    <3>3. CASE i > Len(out) + 1
      <4>1. i - Len(out') \in 1 .. Len(pend) - 1 /\ i - Len(out') + 1 = i - Len(out)
        BY <1>2, <2>1, <3>3
      <4> QED
        BY <1>2, <2>2, <3>3, <4>1
    <3> QED
      BY <1>2, <2>1, <3>1, <3>2, <3>3
  <2> QED
    BY <2>3, <2>4 DEF wire
<1> QED
  BY <1>4, <1>5

\* The virtualiser and transmit say nothing new.
LEMMA MovesSay ==
  ASSUME NetTypeInv, TransmitPbuf \/ VirtTransmits
  PROVE  /\ \A x : In(x, said') => In(x, said)
         /\ SaysNoMore(wire', wire)
<1>1. PICK i \in DOMAIN out :
        \/ out[i].tok = "ack" /\ out' = Without(out, i)
        \/ \E to \in {"queued", "arrived"} : out' = [out EXCEPT ![i].at = to]
  <2>1. CASE TransmitPbuf
    <3>1. Lowest(Chain) \in Chain
      <4>1. Chain \subseteq Nat
        BY PlaceFinite DEF NetTypeInv, Chain
      <4> QED
        BY <2>1, <4>1, Least DEF TransmitPbuf
    <3>2. Lowest(Chain) \in DOMAIN out
      BY <3>1 DEF Chain, At
    <3> QED
      BY <2>1, <3>2 DEF TransmitPbuf
  <2>2. CASE VirtTransmits
    <3>1. PICK j \in At("queued") :
            out' = IF out[j].tok = "ack" THEN Without(out, j)
                   ELSE [out EXCEPT ![j].at = "arrived"]
      BY <2>2 DEF VirtTransmits
    <3>2. j \in DOMAIN out
      BY DEF At
    <3> QED
      BY <3>1, <3>2
  <2> QED
    BY <2>1, <2>2
<1>2. /\ DOMAIN out = 1 .. Len(out) /\ Len(out) \in Nat
      /\ Len(pend) \in Nat /\ pend' = pend
  BY LenProperties DEF NetTypeInv, TransmitPbuf, VirtTransmits
<1>3. CASE out[i].tok = "ack" /\ out' = Without(out, i)
  <2>1. /\ out' \in Seq(FrameTypes) /\ Len(out') = Len(out) - 1
        /\ \A j \in 1 .. Len(out) - 1 : out'[j] = IF j < i THEN out[j] ELSE out[j + 1]
    BY <1>2, <1>3, WithoutOne, ZenonT(60) DEF NetTypeInv
  <2>2. DOMAIN out' = 1 .. Len(out) - 1
    BY <2>1, LenProperties
  <2>3. \A x : In(x, said') => In(x, said)
    <3>1. /\ DOMAIN said = 1 .. Len(out) /\ DOMAIN said' = 1 .. Len(out) - 1
          /\ \A k \in 1 .. Len(out) : said[k] = out[k].tok
          /\ \A j \in 1 .. Len(out) - 1 : said'[j] = out'[j].tok
      BY <1>2, <2>2 DEF said
    <3>2. ASSUME NEW j \in 1 .. Len(out) - 1
          PROVE  \E k \in 1 .. Len(out) : said'[j] = said[k]
      <4> DEFINE k == IF j < i THEN j ELSE j + 1
      <4>1. k \in 1 .. Len(out)
        BY <1>2
      <4>2. out'[j] = out[k]
        BY <2>1
      <4> HIDE DEF k
      <4>3. said'[j] = said[k]
        BY <3>1, <4>1, <4>2
      <4> QED
        BY <4>1, <4>3
    <3> QED
      BY <3>1, <3>2 DEF In
  <2> DEFINE N == Len(out) + Len(pend)
             f == [k \in 1 .. N - 1 |-> IF k < i THEN k ELSE k + 1]
  <2>4. N - 1 = Len(out') + Len(pend') /\ N \in Nat
    BY <1>2, <2>1
  <2>5. DOMAIN wire' = 1 .. N - 1 /\ DOMAIN wire = 1 .. N
    BY <2>4 DEF wire
  <2>6. /\ f \in [1 .. N - 1 -> 1 .. N]
        /\ \A k, l \in 1 .. N - 1 : k < l => f[k] < f[l]
    BY <1>2, <2>4
  <2>7. ASSUME NEW k \in 1 .. N - 1
        PROVE  wire'[k] = wire[f[k]]
    <3>1. CASE k < i
      <4>1. k <= Len(out') /\ k <= Len(out) /\ f[k] = k /\ out'[k] = out[k]
        BY <1>2, <2>1, <3>1
      <4> QED
        BY <2>4, <4>1 DEF wire
    <3>2. CASE ~(k < i) /\ k <= Len(out) - 1
      <4>1. k <= Len(out') /\ k + 1 <= Len(out) /\ f[k] = k + 1 /\ out'[k] = out[k + 1]
        BY <1>2, <2>1, <3>2
      <4> QED
        BY <1>2, <2>4, <4>1 DEF wire
    <3>3. CASE k > Len(out) - 1
      <4>1. /\ ~(k <= Len(out')) /\ ~(k + 1 <= Len(out)) /\ f[k] = k + 1
            /\ k - Len(out') = k + 1 - Len(out)
        BY <1>2, <2>1, <3>3
      <4> QED
        BY <1>2, <2>4, <4>1 DEF wire
    <3> QED
      BY <1>2, <3>1, <3>2, <3>3
  <2>8. ASSUME NEW j \in 1 .. N, wire[j] # "ack"
        PROVE  \E k \in 1 .. N - 1 : f[k] = j
    <3>1. j # i
      BY <1>2, <1>3, <2>8 DEF wire
    <3>2. CASE j < i
      <4>1. j \in 1 .. N - 1 /\ f[j] = j
        BY <1>2, <3>2
      <4> QED
        BY <4>1
    <3>3. CASE j > i
      <4>1. j - 1 \in 1 .. N - 1 /\ f[j - 1] = j
        BY <1>2, <3>3
      <4> QED
        BY <4>1
    <3> QED
      BY <1>2, <3>1, <3>2, <3>3
  <2>9. Thins(wire', wire)
    <3>1. /\ f \in [DOMAIN wire' -> DOMAIN wire]
          /\ \A k, l \in DOMAIN wire' : k < l => f[k] < f[l]
          /\ \A k \in DOMAIN wire' : wire'[k] = wire[f[k]]
          /\ \A j \in DOMAIN wire : wire[j] # "ack" => \E k \in DOMAIN wire' : f[k] = j
      <4> HIDE DEF f
      <4> QED
        BY <2>5, <2>6, <2>7, <2>8
    <3> HIDE DEF f
    <3> QED
      BY <3>1 DEF Thins
  <2>10. DOMAIN wire' \subseteq Int /\ DOMAIN wire \subseteq Int
    BY <2>4, <2>5
  <2> QED
    BY <2>3, <2>9, <2>10, ThinsSays, SMTT(30)
<1>4. CASE \E to \in {"queued", "arrived"} : out' = [out EXCEPT ![i].at = to]
  <2>1. /\ DOMAIN out' = DOMAIN out /\ Len(out') = Len(out)
        /\ \A j \in DOMAIN out : out'[j].tok = out[j].tok
    <3>1. PICK to \in {"queued", "arrived"} : out' = [out EXCEPT ![i].at = to]
      BY <1>4
    <3>2. out' \in Seq(FrameTypes)
      BY <3>1, FrameMoved DEF NetTypeInv
    <3>3. \A j \in DOMAIN out : out[j] \in FrameTypes
      BY LenProperties DEF NetTypeInv
    <3>4. DOMAIN out' = DOMAIN out
      BY <3>1
    <3>5. Len(out') \in Nat /\ DOMAIN out' = 1 .. Len(out')
      BY <3>2, LenProperties
    <3> QED
      BY <1>2, <3>1, <3>3, <3>4, <3>5 DEF FrameTypes
  <2>2. wire' = wire
    BY <1>2, <2>1 DEF wire
  <2>3. said' = said
    BY <2>1 DEF said
  <2> QED
    BY <2>2, <2>3 DEF SaysNoMore, Says
<1> QED
  BY <1>1, <1>3, <1>4

\* The rest of a sequence, and two of them one behind the other.
LEMMA TailOf ==
  ASSUME NEW T, NEW s \in Seq(T), s # <<>>
  PROVE  /\ Len(s) \in Nat \ {0} /\ DOMAIN s = 1 .. Len(s) /\ Head(s) = s[1]
         /\ Tail(s) \in Seq(T) /\ Len(Tail(s)) = Len(s) - 1
         /\ DOMAIN Tail(s) = 1 .. Len(s) - 1
         /\ \A i \in 1 .. Len(s) - 1 : Tail(s)[i] = s[i + 1]
         /\ In(Head(s), s)
         /\ \A x : In(x, Tail(s)) => In(x, s)
         /\ \A x : In(x, s) /\ x # Head(s) => In(x, Tail(s))
<1>1. /\ Len(s) \in Nat \ {0} /\ DOMAIN s = 1 .. Len(s) /\ Head(s) = s[1]
  BY EmptySeq, LenProperties
<1>2. /\ Tail(s) \in Seq(T) /\ Len(Tail(s)) = Len(s) - 1
      /\ \A i \in 1 .. Len(Tail(s)) : Tail(s)[i] = s[i + 1]
  BY HeadTailProperties
<1>3. DOMAIN Tail(s) = 1 .. Len(s) - 1
  BY <1>2, LenProperties
<1> DEFINE t == Tail(s)
<1> HIDE DEF t
<1>4. /\ DOMAIN t = 1 .. Len(s) - 1
      /\ \A i \in DOMAIN t : i \in Int /\ i + 1 \in DOMAIN s /\ t[i] = s[i + 1]
  BY <1>1, <1>2, <1>3 DEF t
<1>5. In(Head(s), s) /\ \A x : In(x, t) => In(x, s)
  BY <1>1, <1>4 DEF In
<1>6. ASSUME NEW x, In(x, s), x # Head(s)
      PROVE  In(x, t)
  <2>1. PICK i \in DOMAIN s : s[i] = x
    BY <1>6 DEF In
  <2>2. i # 1
    BY <1>1, <1>6, <2>1
  <2>3. i - 1 \in DOMAIN t /\ i - 1 + 1 = i
    BY <1>1, <1>4, <2>2
  <2> QED
    BY <1>4, <2>1, <2>3 DEF In
<1> QED
  BY <1>1, <1>2, <1>3, <1>5, <1>6 DEF t

LEMMA Joined ==
  ASSUME NEW T, NEW s \in Seq(T), NEW t \in Seq(T)
  PROVE  \A x : In(x, s \o t) <=> In(x, s) \/ In(x, t)
<1> DEFINE u == s \o t
<1>1. /\ DOMAIN s = 1 .. Len(s) /\ Len(s) \in Nat
      /\ DOMAIN t = 1 .. Len(t) /\ Len(t) \in Nat
      /\ \A i \in DOMAIN s : i \in DOMAIN u /\ u[i] = s[i]
      /\ \A i \in DOMAIN t : Len(s) + i \in DOMAIN u /\ u[Len(s) + i] = t[i]
      /\ \A i \in DOMAIN u : i \in DOMAIN s \/ \E j \in DOMAIN t : i = Len(s) + j
  <2>1. DOMAIN u = 1 .. Len(s) + Len(t)
    BY Extended
  <2>2. /\ DOMAIN s = 1 .. Len(s) /\ Len(s) \in Nat
        /\ DOMAIN t = 1 .. Len(t) /\ Len(t) \in Nat
        /\ \A i \in DOMAIN s : u[i] = s[i]
        /\ \A i \in DOMAIN t : u[Len(s) + i] = t[i]
        /\ \A i \in DOMAIN u : i \in DOMAIN s \/ \E j \in DOMAIN t : i = Len(s) + j
    BY Extended
  <2> HIDE DEF u
  <2>3. \A i \in DOMAIN s : i \in DOMAIN u
    BY <2>1, <2>2
  <2>4. \A i \in DOMAIN t : Len(s) + i \in DOMAIN u
    BY <2>1, <2>2
  <2> QED
    BY <2>2, <2>3, <2>4
<1> HIDE DEF u
<1>2. ASSUME NEW x
      PROVE  In(x, u) <=> In(x, s) \/ In(x, t)
  BY <1>1 DEF In
<1> QED
  BY <1>2 DEF u

\* Characters get from the host's segments to the queue, unless it is full.
LEMMA ArrivalMoves ==
  ASSUME NetTypeInv, tcp_recv_gdb
  PROVE  /\ \A x : In(x, up') => In(x, up)
         /\ \A x : x \notin Characters /\ In(x, up) => In(x, up')
         /\ up # <<>> /\ up[1] \in Characters
         /\ \A f : Consumes(line', f, line, f)
<1>1. PICK n \in DOMAIN up :
        /\ \A i \in 1 .. n : up[i] \in Characters
        /\ Queue!Put(SubSeq(up, 1, n))
        /\ up' = SubSeq(up, n + 1, Len(up))
  BY DEF tcp_recv_gdb
<1>2. /\ DOMAIN up = 1 .. Len(up) /\ Len(up) \in Nat
      /\ DOMAIN rx = 1 .. Len(rx) /\ Len(rx) \in Nat
  BY LenProperties DEF NetTypeInv
<1>3. /\ up' \in Seq(Tokens) /\ Len(up') = Len(up) - n
      /\ \A i \in 1 .. Len(up) - n : up'[i] = up[i + n]
      /\ rx' \in Seq(Characters)
      /\ Len(rx') >= Len(rx) /\ Len(rx') <= Len(rx) + n
      /\ \A i \in 1 .. Len(rx') :
           rx'[i] = IF i <= Len(rx) THEN rx[i] ELSE up[i - Len(rx)]
  <2>1. /\ up \in Seq(Tokens) /\ rx \in Seq(Characters) /\ Len(rx) <= Capacity
        /\ Capacity \in Nat
    BY NetAssumption DEF NetTypeInv
  <2> HIDE DEF Tokens, Characters
  <2> QED
    BY <1>1, <2>1, SegmentArrives
<1>4. /\ DOMAIN up' = 1 .. Len(up) - n
      /\ DOMAIN rx' = 1 .. Len(rx') /\ Len(rx') \in Nat
  BY <1>3, LenProperties
<1>5. ASSUME NEW i \in DOMAIN up'
      PROVE  i + n \in DOMAIN up /\ up'[i] = up[i + n]
  BY <1>2, <1>3, <1>4
<1>6. \A x : In(x, up') => In(x, up)
  BY <1>5 DEF In
<1>7. ASSUME NEW x, x \notin Characters, In(x, up)
      PROVE  In(x, up')
  <2>1. PICK i \in DOMAIN up : up[i] = x
    BY <1>7 DEF In
  <2>2. i \notin 1 .. n
    BY <1>1, <1>7, <2>1
  <2>3. i - n \in DOMAIN up' /\ i - n + n = i
    BY <1>2, <1>4, <2>2
  <2> QED
    BY <1>5, <2>1, <2>3 DEF In
<1>8. up # <<>> /\ up[1] \in Characters
  <2>1. 1 \in 1 .. n /\ 1 \in DOMAIN up
    BY <1>2
  <2> QED
    BY <1>1, <1>2, <2>1
<1> DEFINE k == Len(rx')
           N == Len(rx) + Len(up)
           M == Len(rx') + Len(up')
           g == [i \in 1 .. M |-> IF i <= k THEN i ELSE i - k + Len(rx) + n]
<1>9. /\ DOMAIN line = 1 .. N /\ DOMAIN line' = 1 .. M
      /\ N \in Nat /\ M \in Nat /\ k \in Nat /\ n \in Nat
  BY <1>2, <1>3, <1>4 DEF line
<1>10. /\ g \in [1 .. M -> 1 .. N]
       /\ \A i, j \in 1 .. M : i < j => g[i] < g[j]
  <2>1. M = k + (Len(up) - n) /\ Len(rx) <= k /\ k <= Len(rx) + n /\ n <= Len(up)
    BY <1>2, <1>3
  <2>2. \A i \in 1 .. M : g[i] = IF i <= k THEN i ELSE i - k + Len(rx) + n
    OBVIOUS
  <2>3. \A i \in 1 .. M : g[i] \in 1 .. N
    <3> HIDE DEF g, M, k
    <3> QED
      BY <1>2, <1>9, <2>1, <2>2
  <2>4. \A i, j \in 1 .. M : i < j => g[i] < g[j]
    <3> HIDE DEF g, M, k
    <3> QED
      BY <1>2, <1>9, <2>1, <2>2
  <2> QED
    BY <2>3, <2>4
<1>11. ASSUME NEW i \in 1 .. M
       PROVE  line'[i] = line[g[i]]
  <2>1. CASE i <= Len(rx)
    <3>1. i <= k /\ i \in 1 .. k /\ g[i] = i /\ i \in 1 .. N
      BY <1>2, <1>3, <1>9, <2>1
    <3> QED
      BY <1>3, <2>1, <3>1 DEF line
  <2>2. CASE ~(i <= Len(rx)) /\ i <= k
    <3>1. i \in 1 .. k /\ g[i] = i /\ i \in 1 .. N
      BY <1>2, <1>3, <1>9, <2>2
    <3> QED
      BY <1>3, <2>2, <3>1 DEF line
  <2>3. CASE ~(i <= k)
    <3>1. /\ i - k \in 1 .. Len(up) - n
          /\ g[i] = i - k + Len(rx) + n /\ g[i] \in 1 .. N
          /\ ~(g[i] <= Len(rx)) /\ g[i] - Len(rx) = i - k + n
      BY <1>2, <1>3, <1>9, <2>3
    <3>2. line'[i] = up'[i - k]
      BY <2>3 DEF line
    <3>3. line[g[i]] = up[i - k + n]
      <4> HIDE DEF g
      <4> QED
        BY <3>1 DEF line
    <3> QED
      BY <1>3, <3>1, <3>2, <3>3
  <2> QED
    BY <2>1, <2>2, <2>3
<1>12. Within(line', line)
  <2>1. /\ g \in [DOMAIN line' -> DOMAIN line]
        /\ \A i, j \in DOMAIN line' : i < j => g[i] < g[j]
        /\ \A i \in DOMAIN line' : line'[i] = line[g[i]]
    <3> HIDE DEF g
    <3> QED
      BY <1>9, <1>10, <1>11
  <2> HIDE DEF g
  <2> QED
    BY <2>1 DEF Within
<1>13. DOMAIN line \subseteq Int /\ DOMAIN line' \subseteq Int
  BY <1>9
<1> QED
  BY <1>6, <1>7, <1>8, <1>12, <1>13, WithinConsumes
-----------------------------------------------------------------------------
(* The connection *)

\* The connection: what is in up comes from the connection GDB has or, up to its
\* end, from the one it had; of the latter no frame is left that says anything.
LinkInv ==
  /\ \A i \in DOMAIN up : up[i] = "established" => i = 1
  /\ pcb = "listen" =>
       /\ rx = <<>>
       /\ In("established", up) \/ Only("syn", up)
  /\ mode = "idle" /\ mainpc = "none" => pcb = "listen"
  /\ Live =>
       /\ ~In("syn", up) /\ ~In("fin", up)
       /\ pcb = "open" \/ (rx = <<>> /\ In("established", up))
  /\ ~Live =>
       /\ Only("ack", said)
       /\ In("fin", up) \/ (pcb # "open" /\ Only("ack", pend))
       /\ In("established", up) => In("fin", up)

LEMMA OnlyIn == \A x, s : Only(x, s) <=> \A y : In(y, s) => y = x
  BY DEF Only, In

\* Before the debugger runs its queue is empty, with or without a connection.
LEMMA IdleEmpty ==
  ASSUME DrainInv, LinkInv, mode = "idle"
  PROVE  rx = <<>>
  BY DEF DrainInv, LinkInv, Dormant

LEMMA LinkInit == NetInit => LinkInv
  BY DEF NetInit, LinkInv, Live, In, Only, said

\* What lwIP sends leaves the connection alone, and to a host that went away it
\* says nothing.
LEMMA FramesLink ==
  ASSUME NetTypeInv, LinkInv,
         \/ SendFrame \/ FindNoBuffer \/ enqueue_pbufs
         \/ TransmitNotified \/ TransmitPbuf \/ TransmitLooks
         \/ TransmitRequests \/ TransmitRechecks \/ TimerTick \/ VirtTransmits
  PROVE  LinkInv'
<1>1. UNCHANGED <<up, rx, pcb, hostpc, mainpc>> /\ (mode' = "idle" => mode = "idle")
  BY DEF SendFrame, FindNoBuffer, enqueue_pbufs, TransmitNotified, TransmitPbuf,
         TransmitLooks, TransmitRequests, TransmitRechecks, TimerTick, VirtTransmits,
         coroutines, host
<1>2. ASSUME ~Live => /\ Only("ack", said')
                      /\ In("fin", up) \/ (Only("ack", pend) => Only("ack", pend'))
      PROVE  LinkInv'
  BY <1>1, <1>2 DEF LinkInv, Live
<1>3. CASE SendFrame \/ enqueue_pbufs
  <2>1. /\ pend # <<>> /\ pend' = Tail(pend)
        /\ \E place \in {"queued", "chain"} : out' = Append(out, Frame(Head(pend), place))
    BY <1>3 DEF SendFrame, enqueue_pbufs, NetTypeInv
  <2>2. /\ In(Head(pend), pend) /\ \A x : In(x, pend') => In(x, pend)
    BY <2>1, TailOf DEF NetTypeInv
  <2>3. \A y : In(y, said') => In(y, said) \/ y = (IF Hears THEN Head(pend) ELSE "ack")
    BY <2>1, FrameSays
  <2>4. Hears <=> ~In("fin", up)
    BY DEF Hears, In
  <2>5. ~Live => Only("ack", said) /\ (In("fin", up) \/ Only("ack", pend))
    BY DEF LinkInv
  <2>6. ~Live => Only("ack", said')
    BY <2>2, <2>3, <2>4, <2>5, OnlyIn
  <2>7. Only("ack", pend) => Only("ack", pend')
    BY <2>2, OnlyIn
  <2> QED
    BY <1>2, <2>6, <2>7
<1>4. CASE TransmitPbuf \/ VirtTransmits
  <2>1. \A x : In(x, said') => In(x, said)
    BY <1>4, MovesSay
  <2>2. ~Live => Only("ack", said')
    BY <2>1, OnlyIn DEF LinkInv
  <2>3. pend' = pend
    BY <1>4 DEF TransmitPbuf, VirtTransmits
  <2> QED
    BY <1>2, <2>2, <2>3
<1>5. CASE \/ FindNoBuffer \/ TransmitNotified \/ TransmitLooks
           \/ TransmitRequests \/ TransmitRechecks \/ TimerTick
  <2>1. UNCHANGED <<out, pend>>
    BY <1>5 DEF FindNoBuffer, TransmitNotified, TransmitLooks, TransmitRequests,
                TransmitRechecks, TimerTick
  <2>2. said' = said
    BY <2>1 DEF said
  <2> QED
    BY <1>2, <2>1, <2>2 DEF LinkInv
<1> QED
  BY <1>3, <1>4, <1>5

\* What lwIP takes from the host first.
LEMMA FirstOf ==
  ASSUME NetTypeInv, LinkInv, up # <<>>
  PROVE  /\ Head(up) = up[1] /\ 1 \in DOMAIN up
         /\ In("established", up) => Head(up) = "established"
         /\ ~In("established", Tail(up))
<1>1. /\ Len(up) \in Nat \ {0} /\ DOMAIN up = 1 .. Len(up) /\ Head(up) = up[1]
  BY EmptySeq, LenProperties DEF NetTypeInv
<1>2. /\ Len(Tail(up)) = Len(up) - 1 /\ Tail(up) \in Seq(Tokens)
      /\ \A i \in 1 .. Len(Tail(up)) : Tail(up)[i] = up[i + 1]
  BY HeadTailProperties DEF NetTypeInv
<1>3. DOMAIN Tail(up) = 1 .. Len(up) - 1
  BY <1>2, LenProperties
<1>4. In("established", up) => Head(up) = "established"
  BY <1>1 DEF LinkInv, In
<1>5. ASSUME NEW i \in DOMAIN Tail(up)
      PROVE  Tail(up)[i] # "established"
  <2>1. i + 1 \in DOMAIN up /\ i + 1 # 1 /\ Tail(up)[i] = up[i + 1]
    BY <1>1, <1>2, <1>3
  <2> QED
    BY <2>1 DEF LinkInv
<1> QED
  BY <1>1, <1>4, <1>5 DEF In

\* sddf_lwip_process_rx and the callbacks of tcp.c.
LEMMA ReceivingLink ==
  ASSUME NetTypeInv, DrainInv, LinkInv,
         \/ ReceiveNotified \/ SynReceived \/ tcp_accept_gdb \/ tcp_closed_gdb
         \/ tcp_recv_gdb \/ ReceiveDone \/ gdb_connected \/ NotifiedReturns
  PROVE  LinkInv'
<1>1. out' = out => said' = said
  BY DEF said
<1>2. CASE ReceiveNotified \/ ReceiveDone \/ gdb_connected \/ NotifiedReturns
  <2>1. /\ UNCHANGED <<up, rx, pcb, pend, out, hostpc>>
        /\ mode' = "idle" /\ mainpc' = "none" => pcb = "listen"
    BY <1>2, GoesOn DEF ReceiveNotified, ReceiveDone, gdb_connected,
                        NotifiedReturns, frames, host
  <2> QED
    BY <1>1, <2>1 DEF LinkInv, Live
<1>3. CASE SynReceived \/ tcp_accept_gdb \/ tcp_closed_gdb
  <2>1. /\ up # <<>> /\ up' = Tail(up) /\ mode' = "received" /\ pend = <<>>
        /\ UNCHANGED <<rx, out, hostpc>>
    BY <1>3 DEF SynReceived, tcp_accept_gdb, tcp_closed_gdb, Resting, frames, host
  <2>2. /\ In(Head(up), up)
        /\ \A x : In(x, up') => In(x, up)
        /\ \A x : In(x, up) /\ x # Head(up) => In(x, up')
    BY <2>1, TailOf DEF NetTypeInv
  <2>3. /\ In("established", up) => Head(up) = "established"
        /\ ~In("established", up')
    BY <2>1, FirstOf
  <2>4. \A i \in DOMAIN up' : up'[i] # "established"
    BY <2>3 DEF In
  <2>5. Only("syn", up) => Only("syn", up')
    BY <2>2, OnlyIn
  <2>6. pend' = <<"ack">> => Only("ack", pend')
    BY DEF Only
  <2>7. CASE SynReceived
    <3>1. Head(up) = "syn" /\ pcb' = pcb /\ pend' = <<"ack">> /\ ~Live
      BY <2>2, <1>3, <2>7 DEF SynReceived, LinkInv
    <3>2. ~In("established", up)
      BY <2>3, <3>1
    <3> QED
      BY <1>1, <2>1, <2>2, <2>3, <2>4, <2>5, <2>6, <3>1, <3>2 DEF LinkInv, Live
  <2>8. CASE tcp_accept_gdb
    <3>1. Head(up) = "established" /\ pcb' = "open" /\ pend' = pend
      BY <2>8 DEF tcp_accept_gdb, Accepted, frames
    <3> QED
      BY <1>1, <2>1, <2>2, <2>3, <2>4, <3>1 DEF LinkInv, Live
  <2>9. CASE tcp_closed_gdb
    <3>1. Head(up) = "fin" /\ pcb' = "closed" /\ pend' = <<>> /\ ~Live
      BY <2>1, <2>2, <2>9 DEF tcp_closed_gdb, frames, LinkInv
    <3>2. Only("ack", pend')
      BY <3>1 DEF Only
    <3> QED
      BY <1>1, <2>1, <2>3, <2>4, <3>1, <3>2 DEF LinkInv, Live
  <2> QED
    BY <1>3, <2>7, <2>8, <2>9
<1>4. CASE tcp_recv_gdb
  <2>1. /\ \A x : In(x, up') => In(x, up)
        /\ \A x : x \notin Characters /\ In(x, up) => In(x, up')
        /\ up # <<>> /\ up[1] \in Characters
    BY <1>4, ArrivalMoves
  <2>2. /\ mode' = "received" /\ pend' \in {<<>>, <<"ack">>}
        /\ UNCHANGED <<pcb, out, hostpc>>
    BY <1>4 DEF tcp_recv_gdb, host
  <2>3. ~In("established", up) /\ In(Head(up), up) /\ Head(up) # "syn"
    <3>1. Head(up) = up[1] /\ (In("established", up) => up[1] = "established")
      BY <2>1, FirstOf
    <3>2. "established" \notin Characters /\ "syn" \notin Characters
      BY DEF Characters, Bodies
    <3>3. In(Head(up), up)
      BY <2>1, TailOf DEF NetTypeInv
    <3> QED
      BY <2>1, <3>1, <3>2, <3>3
  <2>4. ~In("established", up')
    BY <2>1, <2>3
  <2>5. \A i \in DOMAIN up' : up'[i] # "established"
    BY <2>4 DEF In
  <2>6. pcb # "listen"
    BY <2>3, OnlyIn DEF LinkInv
  <2>7. Only("ack", pend')
    BY <2>2 DEF Only
  <2>8. "fin" \notin Characters
    BY DEF Characters, Bodies
  <2>9. Live => /\ ~In("syn", up') /\ ~In("fin", up') /\ pcb = "open"
    BY <2>1, <2>3 DEF LinkInv
  <2>10. ~Live => /\ Only("ack", said)
                  /\ In("fin", up') \/ pcb # "open"
    BY <2>1, <2>8 DEF LinkInv
  <2> QED
    BY <1>1, <2>2, <2>4, <2>5, <2>6, <2>7, <2>9, <2>10 DEF LinkInv, Live
<1> QED
  BY <1>2, <1>3, <1>4

\* The coroutines answer over the connection they find.
LEMMA CoroutinesLink ==
  ASSUME NetTypeInv, DrainInv, LinkInv,
         \/ Wait \/ Seek \/ ReadBody \/ AwaitAck \/ fault \/ AwaitStopAck
         \/ ThreadFaults \/ UNCHANGED netVars
  PROVE  LinkInv'
<1>1. /\ UNCHANGED <<up, pcb, out, hostpc>> /\ (rx = <<>> => rx' = <<>>)
      /\ mode' = "idle" /\ mainpc' = "none" => pcb = "listen"
  <2>1. CASE Wait \/ ThreadFaults \/ fault \/ UNCHANGED netVars
    BY <2>1 DEF Wait, ThreadFaults, fault, netVars, coroutines, frames, host,
                DrainInv, LinkInv
  <2>2. CASE Seek \/ ReadBody \/ AwaitAck \/ AwaitStopAck
    <3>1. Take
      BY <2>2 DEF Seek, ReadBody, AwaitAck, AwaitStopAck
    <3>2. rx # <<>>
      BY <3>1, TakeFindsOne
    <3>3. mode' = "idle" => mainpc' # "none"
      BY <2>2 DEF Seek, ReadBody, AwaitAck, AwaitStopAck, DrainInv
    <3> QED
      BY <2>2, <3>2, <3>3 DEF Seek, ReadBody, AwaitAck, AwaitStopAck, host
  <2> QED
    BY <2>1, <2>2
<1>2. pcb # "open" => pend' = pend \/ Only("ack", pend')
  <2>1. pcb # "open" => \A toks : Outgoing(toks) = <<>>
    BY DEF Outgoing
  <2>2. Only("ack", <<>>)
    BY DEF Only
  <2>3. \/ pend' = pend \/ pend' = <<>> \/ \E toks : pend' = Outgoing(toks)
    BY DEF Wait, Seek, ReadBody, AwaitAck, fault, AwaitStopAck, ThreadFaults,
           Process, netVars, frames
  <2> QED
    BY <2>1, <2>2, <2>3
<1>3. said' = said
  BY <1>1 DEF said
<1> QED
  BY <1>1, <1>2, <1>3 DEF LinkInv, Live

\* GDB sends over the connection it has, and what it sent before it went away
\* ends with its end.
LEMMA HostLink ==
  ASSUME NetTypeInv, DrainInv, LinkInv,
         \/ HostDials \/ HostConnects \/ HostSends \/ HostInterrupts
         \/ HostReadsAck \/ HostReadsReply \/ HostVanishes \/ HostResends
  PROVE  LinkInv'
<1>1. UNCHANGED <<mode, mainpc, pcb, rx, pend>>
  BY DEF HostDials, HostConnects, HostSends, HostInterrupts, HostReadsAck,
         HostReadsReply, HostVanishes, HostResends, coroutines, frames
<1>2. up \in Seq(Tokens) /\ DOMAIN up = 1 .. Len(up) /\ Len(up) \in Nat
  BY LenProperties DEF NetTypeInv
<1>3. ASSUME NEW t \in Seq({"+", "$", "etx", "fin", "syn"} \cup Bodies), up' = up \o t
      PROVE  /\ \A x : In(x, up') <=> In(x, up) \/ In(x, t)
             /\ ~In("established", t)
             /\ \A i \in DOMAIN up' : up'[i] = "established" => i = 1
  <2>1. t \in Seq(Tokens)
    <3>1. {"+", "$", "etx", "fin", "syn"} \cup Bodies \subseteq Tokens
      BY DEF Tokens, Characters
    <3> QED
      BY <3>1, SeqMonotonic
  <2>2. \A x : In(x, up') <=> In(x, up) \/ In(x, t)
    BY <1>2, <1>3, <2>1, Joined
  <2>3. ~In("established", t)
    <3>1. \A i \in DOMAIN t : t[i] \in {"+", "$", "etx", "fin", "syn"} \cup Bodies
      BY LenProperties
    <3> QED
      BY <3>1 DEF In, Bodies
  <2>4. \A i \in DOMAIN up' : (i \in DOMAIN up /\ up'[i] = up[i]) \/ In(up'[i], t)
    <3>1. /\ \A i \in DOMAIN up : up'[i] = up[i]
          /\ \A i \in DOMAIN t : up'[Len(up) + i] = t[i]
          /\ \A i \in DOMAIN up' :
               i \in DOMAIN up \/ \E j \in DOMAIN t : i = Len(up) + j
      <4> DEFINE u == up \o t
      <4>1. /\ \A i \in DOMAIN up : u[i] = up[i]
            /\ \A i \in DOMAIN t : u[Len(up) + i] = t[i]
            /\ \A i \in DOMAIN u :
                 i \in DOMAIN up \/ \E j \in DOMAIN t : i = Len(up) + j
        BY <1>2, <2>1, Extended
      <4>2. up' = u
        BY <1>3
      <4> HIDE DEF u
      <4> QED
        BY <4>1, <4>2
    <3> QED
      BY <3>1 DEF In
  <2> QED
    BY <2>2, <2>3, <2>4 DEF LinkInv
\* It stays connected.
<1>4. ASSUME Live, Live', NEW t \in Seq({"+", "$", "etx"} \cup Bodies),
             up' = up \o t \/ up' = up
      PROVE  LinkInv'
  <2>1. /\ \A x : In(x, up) => In(x, up')
        /\ ~In("syn", up') /\ ~In("fin", up')
        /\ \A i \in DOMAIN up' : up'[i] = "established" => i = 1
    <3>1. CASE up' = up
      BY <1>4, <3>1 DEF LinkInv
    <3>2. CASE up' = up \o t
      <4>1. t \in Seq({"+", "$", "etx", "fin", "syn"} \cup Bodies)
        BY SeqMonotonic
      <4>2. ~In("syn", t) /\ ~In("fin", t)
        <5>1. \A i \in DOMAIN t : t[i] \in {"+", "$", "etx"} \cup Bodies
          BY LenProperties
        <5> QED
          BY <5>1 DEF In, Bodies
      <4> QED
        BY <1>3, <1>4, <3>2, <4>1, <4>2 DEF LinkInv
    <3> QED
      BY <1>4, <3>1, <3>2
  <2>2. pcb = "listen" => In("established", up)
    BY <1>4 DEF LinkInv
  <2> QED
    BY <1>1, <1>4, <2>1, <2>2 DEF LinkInv
<1>5. ASSUME NEW pkt \in Bodies
      PROVE  <<"$", pkt>> \in Seq({"+", "$", "etx"} \cup Bodies)
  OBVIOUS
<1>6. /\ <<"+">> \in Seq({"+", "$", "etx"} \cup Bodies)
      /\ <<"etx">> \in Seq({"+", "$", "etx"} \cup Bodies)
      /\ Append(up, "+") = up \o <<"+">> /\ Append(up, "etx") = up \o <<"etx">>
      /\ Append(up, "syn") = up \o <<"syn">>
  <2>1. "+" \in Tokens /\ "etx" \in Tokens /\ "syn" \in Tokens
    BY DEF Tokens, Characters
  <2> QED
    BY <1>2, <2>1, AppendIsConcat
<1>7. CASE HostSends \/ HostResends
  <2>1. PICK pkt \in Bodies : up' = up \o <<"$", pkt>>
    BY <1>7 DEF HostSends, HostResends, SendPacket, NetTypeInv
  <2>2. Live /\ Live'
    BY <1>7 DEF HostSends, HostResends, SendPacket, Live
  <2> QED
    BY <1>4, <1>5, <2>1, <2>2
<1>8. CASE HostInterrupts
  <2>1. Live /\ Live' /\ up' = up \o <<"etx">>
    BY <1>6, <1>8 DEF HostInterrupts, Live
  <2> QED
    BY <1>4, <1>6, <2>1
<1>9. CASE HostReadsAck
  <2>1. Live /\ Live' /\ (up' = up \/ up' = up \o <<"+">>)
    BY <1>6, <1>9 DEF HostReadsAck, Live
  <2> QED
    BY <1>4, <1>6, <2>1
\* It dials.
<1>10. CASE HostDials
  <2>1. up' = up \o <<"syn">> /\ ~Live /\ ~Live' /\ out' = out
    BY <1>6, <1>10 DEF HostDials, Live, frames
  <2>2. <<"syn">> \in Seq({"+", "$", "etx", "fin", "syn"} \cup Bodies)
    OBVIOUS
  <2>3. \A x : In(x, <<"syn">>) <=> x = "syn"
    BY DEF In
  <2>4. /\ \A x : In(x, up') <=> In(x, up) \/ x = "syn"
        /\ \A i \in DOMAIN up' : up'[i] = "established" => i = 1
    BY <1>3, <2>1, <2>2, <2>3
  <2>5. Only("syn", up) => Only("syn", up')
    BY <2>4, OnlyIn
  <2>6. said' = said
    BY <2>1 DEF said
  <2> QED
    BY <1>1, <2>1, <2>4, <2>5, <2>6 DEF LinkInv
<1>11. CASE HostConnects
  <2> DEFINE t == <<"established", "+", "$", "query">>
  <2>1. /\ rx = <<>> /\ up = <<>> /\ up' = up \o t /\ Live'
    BY <1>11, IdleEmpty DEF HostConnects, Live
  <2>2. up' = t
    <3>1. t \in Seq(Tokens)
      BY DEF Tokens, Characters, Bodies
    <3> QED
      BY <2>1, <3>1, ConcatEmptySeq
  <2>3. /\ DOMAIN up' = 1 .. 4
        /\ up'[1] = "established" /\ up'[2] = "+" /\ up'[3] = "$" /\ up'[4] = "query"
    BY <2>2
  <2>4. /\ \A i \in DOMAIN up' : up'[i] = "established" => i = 1
        /\ In("established", up') /\ ~In("syn", up') /\ ~In("fin", up')
    BY <2>3 DEF In
  <2> QED
    BY <1>1, <2>1, <2>4 DEF LinkInv
\* It goes away.
<1>12. ASSUME ~Live', Live, out' = Left, In("fin", up'),
              In("established", up) => In("established", up'),
              \A i \in DOMAIN up' : up'[i] = "established" => i = 1
       PROVE  LinkInv'
  <2>1. Only("ack", said')
    BY <1>12, FramesLeft DEF NetTypeInv, Only, said
  <2> QED
    BY <1>1, <1>12, <2>1 DEF LinkInv
<1>13. CASE HostReadsReply
  <2>1. CASE hostpc' # "gone"
    <3>1. Live /\ Live' /\ (up' = up \/ up' = up \o <<"+">>)
      BY <1>6, <1>13, <2>1 DEF HostReadsReply, Live, host
    <3> QED
      BY <1>4, <1>6, <3>1
  <2>2. CASE hostpc' = "gone"
    <3>1. ~Live' /\ Live /\ out' = Left /\ up' = up \o <<"+", "fin">>
      BY <1>13, <2>2 DEF HostReadsReply, Live, host
    <3>2. <<"+", "fin">> \in Seq({"+", "$", "etx", "fin", "syn"} \cup Bodies)
      OBVIOUS
    <3>3. In("fin", <<"+", "fin">>)
      <4>1. 2 \in DOMAIN <<"+", "fin">> /\ <<"+", "fin">>[2] = "fin"
        OBVIOUS
      <4> QED
        BY <4>1 DEF In
    <3> QED
      BY <1>3, <1>12, <3>1, <3>2, <3>3
  <2> QED
    BY <2>1, <2>2
<1>14. CASE HostVanishes
  <2>1. ~Live' /\ Live /\ out' = Left
    BY <1>14 DEF HostVanishes, Live
  <2>2. PICK n \in 0 .. Len(up) :
          /\ \A i \in n + 1 .. Len(up) : up[i] \in Characters
          /\ up' = Append(SubSeq(up, 1, n), "fin")
    BY <1>14 DEF HostVanishes
  <2>3. /\ DOMAIN up' = 1 .. n + 1
        /\ \A i \in 1 .. n : up'[i] = up[i]
        /\ up'[n + 1] = "fin"
    BY <1>2, <2>2, CutOff
  <2>4. In("fin", up')
    <3>1. n + 1 \in DOMAIN up'
      BY <2>3
    <3> QED
      BY <2>3, <3>1 DEF In
  <2>5. \A i \in DOMAIN up' : up'[i] = "established" => i = 1
    <3>1. \A i \in 1 .. n : i \in DOMAIN up
      BY <1>2
    <3>2. \A i \in 1 .. n + 1 : i \in 1 .. n \/ i = n + 1
      OBVIOUS
    <3> QED
      BY <2>3, <3>1, <3>2 DEF LinkInv
  <2>6. ASSUME In("established", up)
        PROVE  In("established", up')
    <3>1. PICK i \in DOMAIN up : up[i] = "established"
      BY <2>6 DEF In
    <3>2. up[i] \notin Characters
      BY <3>1 DEF Characters, Bodies
    <3>3. i \in 1 .. n
      <4>1. i \notin n + 1 .. Len(up)
        BY <2>2, <3>2
      <4> QED
        BY <1>2, <4>1
    <3> QED
      BY <2>3, <3>1, <3>3 DEF In
  <2> QED
    BY <1>12, <2>1, <2>4, <2>5, <2>6
<1> QED
  BY <1>7, <1>8, <1>9, <1>10, <1>11, <1>13, <1>14
-----------------------------------------------------------------------------
(* What the steps do to what is under way *)

LEMMA LineIs ==
  ASSUME NetTypeInv
  PROVE  /\ Len(rx) \in Nat /\ DOMAIN rx = 1 .. Len(rx)
         /\ Len(up) \in Nat /\ DOMAIN up = 1 .. Len(up)
         /\ DOMAIN line = 1 .. Len(rx) + Len(up)
  BY LenProperties DEF NetTypeInv, line

LEMMA SameLine ==
  ASSUME UNCHANGED <<rx, up>>
  PROVE  line' = line /\ \A f : Consumes(line', f, line, f)
  BY DEF line, Consumes

\* A coroutine takes a character.
LEMMA LineTaken ==
  ASSUME NetTypeInv, Take, up' = up, NEW h, h = Head(rx)
  PROVE  /\ \A f : Consumes(line', f, line, f)
         /\ h = "+" => Consumes(line', FALSE, line, TRUE)
         /\ In(h, line) /\ Due(h, line, FALSE)
         /\ Once(h, line) => ~In(h, line')
         /\ DueOnce(h, line, FALSE) => ~Due(h, line', FALSE)
         /\ \A x : Leads(x, line) /\ h # "$" /\ h # x => ~In(x, line)
<1>1. rx # <<>> /\ rx' = Tail(rx)
  BY DEF Take, Queue!Get
<1>2. /\ Len(rx) \in Nat \ {0} /\ DOMAIN rx = 1 .. Len(rx) /\ h = rx[1]
      /\ Len(rx') = Len(rx) - 1
      /\ \A i \in 1 .. Len(rx) - 1 : rx'[i] = rx[i + 1]
  BY <1>1, TailOf DEF NetTypeInv
<1>3. Len(up) \in Nat
  BY LineIs
<1> DEFINE n == Len(rx) - 1 + Len(up)
<1>4. n \in Nat /\ DOMAIN line = 1 .. n + 1 /\ DOMAIN line' = 1 .. n
  BY <1>2, <1>3 DEF line
<1>5. ASSUME NEW i \in 1 .. n
      PROVE  line'[i] = line[i + 1]
  <2>1. i + 1 \in 1 .. n + 1
    BY <1>4
  <2>2. CASE i <= Len(rx) - 1
    <3>1. i \in 1 .. Len(rx) - 1 /\ i <= Len(rx') /\ i + 1 <= Len(rx)
      BY <1>2, <1>3, <2>2
    <3> QED
      BY <1>2, <1>3, <2>1, <3>1 DEF line
  <2>3. CASE ~(i <= Len(rx) - 1)
    <3>1. /\ ~(i <= Len(rx')) /\ ~(i + 1 <= Len(rx))
          /\ i - Len(rx') = i + 1 - Len(rx)
      BY <1>2, <1>3, <2>3
    <3> QED
      BY <1>2, <1>3, <2>1, <3>1 DEF line
  <2> QED
    BY <2>2, <2>3
<1>6. line[1] = h
  BY <1>2, <1>3 DEF line
<1> HIDE DEF n
<1> QED
  <2>1. Behead(line', line, n, h)
    BY <1>4, <1>5, <1>6 DEF Behead
  <2> QED
    BY <2>1, Taken, ZenonT(60)

\* lwIP takes a segment that carries no character.
LEMMA LinePassed ==
  ASSUME NetTypeInv, rx' = rx, up # <<>>, up' = Tail(up)
  PROVE  \A f : Consumes(line', f, line, f)
<1>1. /\ Len(up) \in Nat \ {0} /\ DOMAIN up = 1 .. Len(up)
      /\ Len(up') = Len(up) - 1
      /\ \A i \in 1 .. Len(up) - 1 : up'[i] = up[i + 1]
  BY TailOf DEF NetTypeInv
<1>2. Len(rx) \in Nat
  BY LineIs
<1> DEFINE N == Len(rx) + Len(up)
           g == [i \in 1 .. N - 1 |-> IF i <= Len(rx) THEN i ELSE i + 1]
<1>3. N \in Nat /\ DOMAIN line = 1 .. N /\ DOMAIN line' = 1 .. N - 1
  BY <1>1, <1>2 DEF line
<1>4. /\ g \in [1 .. N - 1 -> 1 .. N]
      /\ \A i, j \in 1 .. N - 1 : i < j => g[i] < g[j]
  BY <1>1, <1>2
<1>5. ASSUME NEW i \in 1 .. N - 1
      PROVE  line'[i] = line[g[i]]
  <2>1. CASE i <= Len(rx)
    BY <1>1, <1>2, <2>1 DEF line
  <2>2. CASE ~(i <= Len(rx))
    <3>1. /\ i - Len(rx) \in 1 .. Len(up) - 1 /\ g[i] = i + 1
          /\ i + 1 \in 1 .. N /\ ~(i + 1 <= Len(rx)) /\ i + 1 - Len(rx) = i - Len(rx) + 1
      BY <1>1, <1>2, <2>2
    <3>2. line'[i] = up'[i - Len(rx)]
      BY <1>1, <1>2, <2>2 DEF line
    <3>3. line[i + 1] = up[i - Len(rx) + 1]
      BY <3>1 DEF line
    <3> QED
      BY <1>1, <3>1, <3>2, <3>3
  <2> QED
    BY <2>1, <2>2
<1>6. Within(line', line)
  <2>1. /\ g \in [DOMAIN line' -> DOMAIN line]
        /\ \A i, j \in DOMAIN line' : i < j => g[i] < g[j]
        /\ \A i \in DOMAIN line' : line'[i] = line[g[i]]
    <3> HIDE DEF g
    <3> QED
      BY <1>3, <1>4, <1>5
  <2> HIDE DEF g
  <2> QED
    BY <2>1 DEF Within
<1>7. DOMAIN line \subseteq Int /\ DOMAIN line' \subseteq Int
  BY <1>3
<1> QED
  BY <1>6, <1>7, WithinConsumes

\* GDB sends while the queue is empty: one token, or two.
LEMMA LineGrows ==
  ASSUME NetTypeInv, rx = <<>>, rx' = <<>>, NEW x \in Tokens, up' = Append(up, x)
  PROVE  /\ \A y : In(y, line') <=> In(y, line) \/ y = x
         /\ \A y : Once(y, line) /\ (y = x => ~In(y, line)) => Once(y, line')
         /\ \A y : Leads(y, line) /\ x # y => Leads(y, line')
         /\ \A y, f : x # y => /\ Due(y, line', f) => Due(y, line, f)
                               /\ DueOnce(y, line, f) => DueOnce(y, line', f)
<1>1. /\ Len(up) \in Nat /\ Len(rx) = 0 /\ Len(rx') = 0
      /\ Len(up') = Len(up) + 1
      /\ \A i \in 1 .. Len(up) : up'[i] = up[i]
      /\ up'[Len(up) + 1] = x
  BY LineIs, EmptySeq, AppendProperties DEF NetTypeInv
<1>2. /\ DOMAIN line = 1 .. Len(up) /\ DOMAIN line' = 1 .. Len(up) + 1
      /\ \A i \in 1 .. Len(up) : line'[i] = line[i]
      /\ line'[Len(up) + 1] = x
  BY <1>1 DEF line
<1>3. Extends(line', line, Len(up), x)
  BY <1>1, <1>2 DEF Extends
<1> QED
  BY <1>3, Longer

LEMMA LineGrowsTwice ==
  ASSUME NetTypeInv, rx = <<>>, rx' = <<>>, NEW x \in Tokens, NEW z \in Tokens, x # z,
         up' = up \o <<x, z>>
  PROVE  /\ \A y : In(y, line') <=> In(y, line) \/ y = x \/ y = z
         /\ ~In(z, line) => Once(z, line')
         /\ \A y, f : y \notin {x, z} => (Due(y, line', f) => Due(y, line, f))
         /\ \A f : ~Due(z, line, f) => DueOnce(z, line', f)
<1> DEFINE n == Len(up)
           s == [i \in 1 .. n + 1 |-> IF i = n + 1 THEN x ELSE line[i]]
<1>1. /\ n \in Nat /\ Len(rx) = 0 /\ Len(rx') = 0 /\ Len(up') = n + 2
      /\ \A i \in 1 .. n : up'[i] = up[i]
      /\ up'[n + 1] = x /\ up'[n + 2] = z
  <2>1. <<x, z>> \in Seq(Tokens) /\ Len(<<x, z>>) = 2 /\ up \in Seq(Tokens)
    BY DEF NetTypeInv
  <2>2. /\ Len(up') = n + 2
        /\ \A i \in 1 .. n + 2 : up'[i] = IF i <= n THEN up[i] ELSE <<x, z>>[i - n]
    BY <2>1, ConcatProperties
  <2>3. n \in Nat
    BY LineIs
  <2> QED
    BY <2>2, <2>3, EmptySeq
<1>2. /\ DOMAIN line = 1 .. n /\ DOMAIN line' = 1 .. n + 2
      /\ \A i \in 1 .. n : line'[i] = line[i]
      /\ line'[n + 1] = x /\ line'[n + 2] = z
  BY <1>1 DEF line
<1>3. Extends(s, line, n, x) /\ Extends(line', s, n + 1, z)
  BY <1>1, <1>2 DEF Extends
<1> HIDE DEF s, n
<1>4. /\ \A y : In(y, s) <=> In(y, line) \/ y = x
      /\ \A y, f : x # y => (Due(y, s, f) => Due(y, line, f))
  BY <1>3, Longer
<1>5. /\ \A y : In(y, line') <=> In(y, s) \/ y = z
      /\ \A y : Once(y, s) /\ (y = z => ~In(y, s)) => Once(y, line')
      /\ \A y, f : z # y => (Due(y, line', f) => Due(y, s, f))
      /\ \A f : ~Due(z, s, f) => DueOnce(z, line', f)
  BY <1>3, Longer
<1>6. ~In(z, s) => Once(z, s)
  BY DEF In, Once
<1> QED
  BY <1>4, <1>5, <1>6

\* The debugger sends one token, or acknowledges and answers.
LEMMA WireIs ==
  ASSUME NetTypeInv
  PROVE  /\ Len(out) \in Nat /\ DOMAIN out = 1 .. Len(out)
         /\ Len(pend) \in Nat
         /\ DOMAIN wire = 1 .. Len(out) + Len(pend)
  BY LenProperties DEF NetTypeInv, wire

LEMMA SameWire ==
  ASSUME UNCHANGED <<out, pend>>
  PROVE  wire' = wire /\ SaysNoMore(wire', wire)
  BY DEF wire, SaysNoMore, Says

LEMMA WirePut ==
  ASSUME NetTypeInv, pend = <<>>, out' = out, NEW x, pend' = <<x>>
  PROVE  /\ x # "+" => Says(wire', wire)
         /\ x # "+" /\ ~Answer(x) => SaysNoMore(wire', wire)
         /\ x = "+" => /\ In("+", wire')
                       /\ Unanswered(wire) => Unanswered(wire')
                       /\ Awaiting(wire) => Awaiting(wire') /\ OneTurn(wire')
                       /\ Unanswered(wire) => AcksFirst(wire')
         /\ Answer(x) => Followed(wire')
<1>1. /\ Len(out) \in Nat /\ Len(pend) = 0 /\ Len(pend') = 1 /\ pend'[1] = x
  BY WireIs
<1>2. /\ DOMAIN wire = 1 .. Len(out) /\ DOMAIN wire' = 1 .. Len(out) + 1
      /\ \A i \in 1 .. Len(out) : wire'[i] = wire[i]
      /\ wire'[Len(out) + 1] = x
  BY <1>1 DEF wire
<1>3. Extends(wire', wire, Len(out), x)
  BY <1>1, <1>2 DEF Extends
<1> QED
  BY <1>3, SaysMore

LEMMA WirePutTwo ==
  ASSUME NetTypeInv, pend = <<>>, out' = out, ~Acked,
         pend' = Append(<<"+">>, "reply")
  PROVE  Once("+", wire') /\ Followed(wire')
<1> DEFINE n == Len(out)
           s == [i \in 1 .. n + 1 |-> IF i = n + 1 THEN "+" ELSE wire[i]]
<1>1. /\ n \in Nat /\ Len(pend) = 0 /\ Len(pend') = 2
      /\ pend'[1] = "+" /\ pend'[2] = "reply"
  <2>1. <<"+">> \in Seq(Replies) /\ "reply" \in Replies /\ Len(<<"+">>) = 1
    BY DEF Replies
  <2> QED
    BY <2>1, WireIs, AppendProperties
<1>2. /\ DOMAIN wire = 1 .. n /\ DOMAIN wire' = 1 .. n + 2
      /\ \A i \in 1 .. n : wire'[i] = wire[i]
      /\ wire'[n + 1] = "+" /\ wire'[n + 2] = "reply"
  BY <1>1 DEF wire
<1>3. Extends(s, wire, n, "+") /\ Extends(wire', s, n + 1, "reply")
  BY <1>1, <1>2 DEF Extends
<1> HIDE DEF s, n
<1>4. Once("+", wire) /\ ~In("+", wire)
  BY DEF Acked, In, Once
<1>5. Once("+", s)
  BY <1>3, <1>4, Longer
<1>6. Once("+", wire')
  BY <1>3, <1>5, Longer
<1>7. Followed(wire')
  <2>1. Answer("reply")
    BY DEF Answer
  <2> QED
    BY <1>3, <2>1, SaysMore
<1> QED
  BY <1>6, <1>7

\* The output buffer is sent, once more or for the first time.
LEMMA WireAnswers ==
  ASSUME NetTypeInv, pend = <<>>, out' = out, NEW x \in {"reply", "stop"},
         pend' = Outgoing(<<x>>)
  PROVE  Says(wire', wire) /\ (pcb = "open" => Followed(wire'))
<1>1. CASE pcb = "open"
  BY <1>1, WirePut DEF Outgoing, Answer
<1>2. CASE pcb # "open"
  <2>1. UNCHANGED <<out, pend>>
    BY <1>2 DEF Outgoing
  <2> QED
    BY <1>2, <2>1, SameWire DEF SaysNoMore
<1> QED
  BY <1>1, <1>2

\* GDB reads a token.
LEMMA WireRead ==
  ASSUME NetTypeInv, pend = <<>>, pend' = <<>>, NEW tok, Reads(tok)
  PROVE  /\ Acked' => Acked
         /\ Once("+", wire) => Once("+", wire')
         /\ AcksFirst(wire) => AcksFirst(wire')
         /\ OneTurn(wire) => OneTurn(wire')
         /\ Unanswered(wire) => Unanswered(wire')
         /\ Awaiting(wire) => Awaiting(wire')
         /\ tok = "+" => /\ Acked
                         /\ Once("+", wire) => ~Acked'
                         /\ OneTurn(wire) => AcksFirst(wire')
                         /\ Awaiting(wire) => Unanswered(wire')
         /\ Answer(tok) => /\ Acked => Acked'
                           /\ Followed(wire) => Followed(wire')
                           /\ AcksFirst(wire) => ~Acked'
                           /\ ~Unanswered(wire)
<1> DEFINE i == Lowest(Unread)
<1>1. /\ i \in DOMAIN out /\ out[i].tok = tok /\ out' = Without(out, i)
      /\ \A j \in DOMAIN out : j < i => out[j].tok = "ack"
  BY UnreadFirst DEF NetTypeInv, Reads, Hands
<1> HIDE DEF i
<1>2. DOMAIN out = 1 .. Len(out) /\ Len(out) \in Nat
  BY WireIs, SMTT(30)
<1>3. /\ out' \in Seq(FrameTypes) /\ Len(out') = Len(out) - 1
      /\ \A j \in 1 .. Len(out) - 1 : out'[j] = IF j < i THEN out[j] ELSE out[j + 1]
  BY <1>1, <1>2, WithoutOne, ZenonT(60) DEF NetTypeInv
<1> DEFINE n == Len(out) - 1
<1>4. n \in Nat /\ i \in 1 .. n + 1 /\ Len(pend) = 0 /\ Len(pend') = 0
  BY <1>1, <1>2
<1>5. DOMAIN wire = 1 .. n + 1 /\ DOMAIN wire' = 1 .. n
  BY <1>2, <1>3, <1>4 DEF wire
<1>6. /\ wire[i] = tok
      /\ \A j \in 1 .. n + 1 : wire[j] = out[j].tok
      /\ \A j \in 1 .. n : wire'[j] = out'[j].tok
  BY <1>1, <1>2, <1>3, <1>4 DEF wire
<1>7. \A j \in 1 .. n : wire'[j] = IF j < i THEN wire[j] ELSE wire[j + 1]
  BY <1>2, <1>3, <1>4, <1>6
<1>8. \A j \in 1 .. n + 1 : j < i => wire[j] = "ack"
  BY <1>1, <1>2, <1>6
<1>9. Answer(tok) => ~Unanswered(wire)
  BY <1>4, <1>5, <1>6 DEF Unanswered
<1>10. Reading(wire', wire, n, tok, i)
  BY <1>4, <1>5, <1>6, <1>7, <1>8 DEF Reading
<1> HIDE DEF n
<1> QED
  BY <1>9, <1>10, FirstRead DEF Acked
-----------------------------------------------------------------------------
(* The packet of GDB, its acknowledgement and the answers *)

NoBody(S) == \A b \in Bodies \ S : ~In(b, line)
DueContinue == Due("continue", line, FaultPending)

\* GDB waits for nothing, or for an answer only.  A continue sent twice that
\* t_fault is yet to swallow may be under way until then.
Quiet == NoBody({"continue"}) /\ ~DueContinue /\ ~Acked

\* It waits for the acknowledgement of a packet other than continue: one of the
\* two is under way, and the acknowledgement has an answer behind it.
Asked ==
  /\ NoBody({"continue", cur}) /\ Once(cur, line) /\ ~DueContinue
  /\ Acked => ~In(cur, line)
  /\ Once("+", wire) /\ Followed(wire)

\* It waits for the acknowledgement of continue, or for the stop after it: sent
\* again behind an acknowledgement that waits in the chain, it is the first that
\* t_main reads, while the debuggees run.
Continued ==
  /\ NoBody({"continue"}) /\ OneTurn(wire)
  /\ ~Acked => /\ target = "stopped" \/ inherited
               /\ DueOnce("continue", line, FaultPending)
  /\ Acked /\ DueContinue => target # "stopped" /\ Leads("continue", line)
  /\ IF target = "stopped" THEN Followed(wire) ELSE Awaiting(wire)
Runs ==
  /\ NoBody({"continue"}) /\ AcksFirst(wire)
  /\ DueContinue => target # "stopped" /\ Leads("continue", line)
  /\ target # "stopped" => Unanswered(wire)

PacketInv ==
  /\ hostpc = "waiting" => cur # "continue"
  /\ hostpc = "running" => cur = "continue"
  /\ Live /\ pcb # "open" => hostpc = "acking" /\ cur = "query" /\ ~Acked
  /\ hostpc \in {"stopped", "waiting"} => Quiet
  /\ hostpc = "acking" => IF cur = "continue" THEN Continued ELSE Asked
  /\ hostpc = "running" => Runs

\* The debuggees run on under a GDB that found them running, until it is told
\* that a continue of its own was read.
Inherits ==
  inherited /\ Live /\ (cur = "continue" => hostpc = "acking" /\ ~Acked)

\* What the debuggees do while GDB waits for an acknowledgement or an answer.
TargetInv ==
  /\ target # "stopped" =>
       \/ detached \/ ~Live \/ Inherits
       \/ cur = "continue" /\ hostpc \in {"acking", "running"}
  /\ detached => \/ ~Live
                 \/ hostpc \in {"acking", "waiting"} /\ cur = "detach"
                 \/ hostpc = "acking" /\ cur = "query" /\ ~Acked
  /\ mainpc = "ack" /\ target # "stopped" => detached \/ ~Live \/ Inherits
  /\ FaultPending => target = "stopped"
  /\ mode = "main" => state = "none"

LEMMA PacketInit == NetInit => PacketInv
  BY DEF NetInit, PacketInv, Live, DueContinue, Due, line

\* Characters are taken that are nothing to those concerned, and segments
\* acknowledged.
LEMMA PacketKept ==
  ASSUME PacketInv, UNCHANGED <<hostpc, cur, inherited>>,
         Consumes(line', FaultPending', line, FaultPending),
         Live => pcb' \in {pcb, "open"} /\ SaysNoMore(wire', wire),
         Live /\ cur = "continue" => (target' = "stopped" <=> target = "stopped")
  PROVE  PacketInv'
<1>1. /\ \A x : In(x, line') => In(x, line)
      /\ \A x : Once(x, line) => Once(x, line')
      /\ Leads("continue", line) => Leads("continue", line')
      /\ DueContinue' => DueContinue
      /\ DueOnce("continue", line, FaultPending)
           => DueOnce("continue", line, FaultPending)'
  BY DEF Consumes, DueContinue
<1>2. \A S : NoBody(S) => NoBody(S)'
  BY <1>1 DEF NoBody
<1>3. Live => /\ Acked' <=> Acked
              /\ Once("+", wire) => Once("+", wire')
              /\ AcksFirst(wire) => AcksFirst(wire')
              /\ OneTurn(wire) => OneTurn(wire')
              /\ Followed(wire) => Followed(wire')
              /\ Unanswered(wire) => Unanswered(wire')
              /\ Awaiting(wire) => Awaiting(wire')
  BY DEF SaysNoMore, Says, Acked
<1>4. Live /\ Quiet => Quiet'
  BY <1>1, <1>2, <1>3 DEF Quiet
<1>5. Live /\ Asked => Asked'
  BY <1>1, <1>2, <1>3 DEF Asked
<1>6. Live /\ cur = "continue" /\ Continued => Continued'
  BY <1>1, <1>2, <1>3 DEF Continued
<1>7. Live /\ cur = "continue" /\ Runs => Runs'
  BY <1>1, <1>2, <1>3 DEF Runs
<1> QED
  BY <1>1, <1>3, <1>4, <1>5, <1>6, <1>7 DEF PacketInv, Live

\* The debugger answers, and the debuggees are or become stopped, or run on as
\* they did when GDB came.
LEMMA PacketAnswered ==
  ASSUME PacketInv, UNCHANGED <<hostpc, cur, pcb>>,
         Consumes(line', FaultPending', line, FaultPending),
         Live => Says(wire', wire),
         Live /\ cur = "continue" =>
           \/ /\ target' = "stopped"
              /\ target # "stopped" =>
                   Followed(wire') /\ (hostpc = "running" \/ Acked => ~DueContinue')
           \/ /\ target' = target /\ target # "stopped" /\ inherited'
              /\ hostpc = "acking" /\ ~Acked
  PROVE  PacketInv'
<1>1. /\ \A x : In(x, line') => In(x, line)
      /\ \A x : Once(x, line) => Once(x, line')
      /\ DueContinue' => DueContinue
      /\ DueOnce("continue", line, FaultPending)
           => DueOnce("continue", line, FaultPending)'
  BY DEF Consumes, DueContinue
<1>2. \A S : NoBody(S) => NoBody(S)'
  BY <1>1 DEF NoBody
<1>3. Live => /\ Acked' <=> Acked
              /\ Once("+", wire) => Once("+", wire')
              /\ AcksFirst(wire) => AcksFirst(wire')
              /\ OneTurn(wire) => OneTurn(wire')
              /\ Followed(wire) => Followed(wire')
  BY DEF Says, Acked
<1>4. Live /\ Quiet => Quiet'
  BY <1>1, <1>2, <1>3 DEF Quiet
<1>5. Live /\ Asked => Asked'
  BY <1>1, <1>2, <1>3 DEF Asked
<1>6. Live /\ hostpc = "acking" /\ cur = "continue" /\ Continued => Continued'
  <2>1. CASE target' = "stopped"
    BY <1>1, <1>2, <1>3, <2>1 DEF Continued
  <2>2. CASE target' # "stopped"
    <3>1. SUFFICES ASSUME Live, hostpc = "acking", cur = "continue", Continued
                   PROVE  Continued'
      OBVIOUS
    <3>2. target' = target /\ inherited' /\ ~Acked
      BY <2>2, <3>1
    <3>3. ~Acked' /\ Awaiting(wire')
      BY <1>3, <3>1, <3>2 DEF Acked, Awaiting, In
    <3> QED
      BY <1>1, <1>2, <1>3, <2>2, <3>1, <3>2, <3>3 DEF Continued
  <2> QED
    BY <2>1, <2>2
<1>7. Live /\ hostpc = "running" /\ cur = "continue" /\ Runs => Runs'
  BY <1>1, <1>2, <1>3 DEF Runs
<1> QED
  BY <1>1, <1>3, <1>4, <1>5, <1>6, <1>7 DEF PacketInv, Live

\* A frame goes from what is being sent to what is under way: GDB is told nothing
\* new.
LEMMA FramesSay ==
  ASSUME NetTypeInv, LinkInv, Live,
         \/ SendFrame \/ FindNoBuffer \/ enqueue_pbufs
         \/ TransmitNotified \/ TransmitPbuf \/ TransmitLooks
         \/ TransmitRequests \/ TransmitRechecks \/ TimerTick \/ VirtTransmits
  PROVE  SaysNoMore(wire', wire)
<1>1. CASE SendFrame \/ enqueue_pbufs
  <2>1. /\ pend # <<>> /\ pend' = Tail(pend)
        /\ \E place \in {"queued", "chain"} : out' = Append(out, Frame(Head(pend), place))
    BY <1>1 DEF SendFrame, enqueue_pbufs, NetTypeInv
  <2>2. Hears => wire' = wire
    BY <2>1, FrameSays
  <2>3. Hears
    BY DEF Hears, In, LinkInv
  <2> QED
    BY <2>2, <2>3 DEF SaysNoMore, Says
<1>2. CASE TransmitPbuf \/ VirtTransmits
  BY <1>2, MovesSay
<1>3. CASE \/ FindNoBuffer \/ TransmitNotified \/ TransmitLooks
           \/ TransmitRequests \/ TransmitRechecks \/ TimerTick
  <2>1. UNCHANGED <<out, pend>>
    BY <1>3 DEF FindNoBuffer, TransmitNotified, TransmitLooks, TransmitRequests,
                TransmitRechecks, TimerTick
  <2> QED
    BY <2>1, SameWire
<1> QED
  BY <1>1, <1>2, <1>3

\* Frames say nothing new, and the debuggees are left alone.
LEMMA FramesPacket ==
  ASSUME NetTypeInv, LinkInv, PacketInv,
         \/ SendFrame \/ FindNoBuffer \/ enqueue_pbufs
         \/ TransmitNotified \/ TransmitPbuf \/ TransmitLooks
         \/ TransmitRequests \/ TransmitRechecks \/ TimerTick \/ VirtTransmits
  PROVE  PacketInv'
<1>1. /\ UNCHANGED <<up, rx, pcb, hostpc, cur, inherited, target, state>>
      /\ mode' = mode \/ {mode, mode'} \subseteq {"idle", "transmit", "request", "recheck", "end"}
  BY DEF SendFrame, FindNoBuffer, enqueue_pbufs, TransmitNotified, TransmitPbuf,
         TransmitLooks, TransmitRequests, TransmitRechecks, TimerTick, VirtTransmits,
         coroutines, host
<1>2. FaultPending' = FaultPending
  BY <1>1 DEF FaultPending
<1>3. Live => SaysNoMore(wire', wire)
  BY FramesSay
<1>4. Consumes(line', FaultPending', line, FaultPending)
  BY <1>1, <1>2, SameLine
<1> QED
  BY <1>1, <1>3, <1>4, PacketKept

\* sddf_lwip_process_rx and the callbacks of tcp.c.
LEMMA ReceivingPacket ==
  ASSUME NetTypeInv, DrainInv, LinkInv, PacketInv,
         \/ ReceiveNotified \/ SynReceived \/ tcp_accept_gdb \/ tcp_closed_gdb
         \/ tcp_recv_gdb \/ ReceiveDone \/ gdb_connected \/ NotifiedReturns
  PROVE  PacketInv'
<1>1. UNCHANGED <<hostpc, cur, inherited, target, out>>
  BY DEF ReceiveNotified, SynReceived, tcp_accept_gdb, tcp_closed_gdb, tcp_recv_gdb,
         ReceiveDone, gdb_connected, NotifiedReturns, frames, host
<1>2. FaultPending' = FaultPending
  <2>1. CASE ReceiveDone
    BY <2>1, GoesOn DEF ReceiveDone, FaultPending, DrainInv
  <2>2. CASE ~ReceiveDone
    <3>1. state' = state /\ mode \notin {"fault", "notified"} /\ mode' \notin {"fault", "notified"}
      BY <2>2 DEF ReceiveNotified, SynReceived, tcp_accept_gdb, tcp_closed_gdb,
                  tcp_recv_gdb, gdb_connected, NotifiedReturns
    <3> QED
      BY <3>1 DEF FaultPending
  <2> QED
    BY <2>1, <2>2
<1>3. CASE ReceiveNotified \/ ReceiveDone \/ gdb_connected \/ NotifiedReturns
  <2>1. UNCHANGED <<up, rx, pcb, pend>>
    BY <1>3 DEF ReceiveNotified, ReceiveDone, gdb_connected, NotifiedReturns, frames
  <2>2. Consumes(line', FaultPending', line, FaultPending)
    BY <1>2, <2>1, SameLine
  <2>3. SaysNoMore(wire', wire)
    BY <1>1, <2>1, SameWire
  <2> QED
    BY <1>1, <2>1, <2>2, <2>3, PacketKept
<1>4. CASE SynReceived \/ tcp_accept_gdb \/ tcp_closed_gdb
  <2>1. up # <<>> /\ up' = Tail(up) /\ rx' = rx
    BY <1>4 DEF SynReceived, tcp_accept_gdb, tcp_closed_gdb
  <2>2. Consumes(line', FaultPending', line, FaultPending)
    BY <1>2, <2>1, LinePassed
  <2>3. In(Head(up), up)
    BY <2>1, TailOf DEF NetTypeInv
  <2>4. Live => pcb' = "open" /\ pend' = pend
    BY <1>4, <2>3 DEF SynReceived, tcp_accept_gdb, tcp_closed_gdb, Accepted, frames,
                      LinkInv
  <2>5. Live => SaysNoMore(wire', wire)
    BY <1>1, <2>4, SameWire
  <2> QED
    BY <1>1, <2>2, <2>4, <2>5, PacketKept
<1>5. CASE tcp_recv_gdb
  <2>1. Consumes(line', FaultPending', line, FaultPending)
    BY <1>2, <1>5, ArrivalMoves
  <2>2. pcb' = pcb /\ pend = <<>> /\ pend' \in {<<>>, <<"ack">>}
    BY <1>5 DEF tcp_recv_gdb, Resting
  <2>3. SaysNoMore(wire', wire)
    <3>1. CASE pend' = <<>>
      BY <1>1, <2>2, <3>1, SameWire
    <3>2. CASE pend' = <<"ack">>
      BY <1>1, <2>2, <3>2, WirePut DEF Answer
    <3> QED
      BY <2>2, <3>1, <3>2
  <2> QED
    BY <1>1, <2>1, <2>2, <2>3, PacketKept
<1> QED
  BY <1>3, <1>4, <1>5

\* A body that t_main reads is the packet GDB waits for, but for a continue,
\* which may have GDB waiting for its stop already; or GDB went away.
LEMMA BodyRead ==
  ASSUME NetTypeInv, LinkInv, PacketInv, TargetInv, ReadBody, Head(rx) \in Bodies
  PROVE  /\ Live => cur = Head(rx) /\ hostpc \in {"acking", "running"}
         /\ Live /\ Head(rx) # "continue" => hostpc = "acking" /\ ~Acked
<1> DEFINE h == Head(rx)
<1>1. Take /\ mode = "main" /\ up' = up
  BY DEF ReadBody
<1>2. FaultPending = FALSE
  BY <1>1 DEF FaultPending, TargetInv
<1>3. In(h, line) /\ Due(h, line, FALSE)
  BY <1>1, LineTaken
<1>4. h \in Bodies
  OBVIOUS
<1> HIDE DEF h
<1>5. h = "continue" => DueContinue
  BY <1>2, <1>3 DEF DueContinue
<1>6. Live => pcb = "open"
  <2>1. rx # <<>>
    BY <1>1, TakeFindsOne
  <2> QED
    BY <2>1 DEF LinkInv
<1>7. CASE Live /\ h = "continue"
  <2>1. cur = "continue" /\ hostpc \in {"acking", "running"}
    BY <1>5, <1>7 DEF PacketInv, Quiet, Asked, Live, NetTypeInv
  <2> QED
    BY <1>7, <2>1 DEF h
<1>8. CASE Live /\ h # "continue"
  <2>1. hostpc = "acking" /\ cur # "continue" /\ cur = h /\ Asked
    BY <1>3, <1>4, <1>8 DEF PacketInv, Quiet, Continued, Asked, Runs, NoBody, Live,
                            NetTypeInv
  <2>2. ~Acked
    BY <1>3, <2>1 DEF Asked
  <2> QED
    BY <1>8, <2>1, <2>2 DEF h
<1> QED
  BY <1>7, <1>8 DEF h

LEMMA BodyPacket ==
  ASSUME NetTypeInv, LinkInv, PacketInv, TargetInv, ReadBody, Head(rx) \in Bodies
  PROVE  PacketInv'
<1> DEFINE h == Head(rx)
<1>1. /\ Take /\ pend = <<>> /\ Process(h, <<"+">>)
      /\ UNCHANGED <<mode, state, pcb, up, out, hostpc, cur, inherited>>
      /\ mode = "main"
  BY DEF ReadBody, Take, Resting, host
<1>2. FaultPending = FALSE /\ FaultPending' = FALSE
  BY <1>1 DEF FaultPending, TargetInv
<1>3. /\ Consumes(line', FALSE, line, FALSE)
      /\ In(h, line) /\ Due(h, line, FALSE)
      /\ Once(h, line) => ~In(h, line')
      /\ DueOnce(h, line, FALSE) => ~Due(h, line', FALSE)
  BY <1>1, LineTaken
<1>4. /\ \A x : In(x, line') => In(x, line)
      /\ \A x : Once(x, line) => Once(x, line')
      /\ Leads("continue", line) => Leads("continue", line')
      /\ DueContinue' => DueContinue
  BY <1>2, <1>3 DEF Consumes, DueContinue
<1>5. \A S : NoBody(S) => NoBody(S)'
  BY <1>4 DEF NoBody
<1>6. Live => /\ cur = h /\ hostpc \in {"acking", "running"}
              /\ h # "continue" => hostpc = "acking" /\ ~Acked
  BY BodyRead
<1>7. h # "etx"
  BY DEF Bodies
<1> HIDE DEF h
<1>8. CASE ~Live
  BY <1>1, <1>4, <1>8 DEF PacketInv, Live
<1>9. Live => pcb = "open"
  <2>1. rx # <<>>
    BY <1>1, TakeFindsOne
  <2> QED
    BY <2>1 DEF LinkInv
<1>10. CASE Live /\ h = "continue"
  <2>1. /\ DueContinue /\ pcb = "open"
        /\ DueOnce("continue", line, FaultPending) => ~DueContinue'
    BY <1>2, <1>3, <1>9, <1>10 DEF DueContinue
  <2>2. /\ cur = "continue"
        /\ \/ hostpc = "acking" /\ Continued
           \/ hostpc = "running" /\ Runs
    BY <1>6, <1>10 DEF PacketInv, Continued, Runs
  <2>3. target' = "running" /\ pend' = <<"+">>
    BY <1>1, <1>10, <2>1 DEF Process, Outgoing
  <2>4. /\ Acked'
        /\ Unanswered(wire) => Unanswered(wire') /\ AcksFirst(wire')
        /\ Awaiting(wire) => Awaiting(wire') /\ OneTurn(wire')
    BY <1>1, <2>3, WirePut DEF Acked
  <2>5. CASE hostpc = "acking"
    <3>1. ~Acked => Awaiting(wire)
      BY DEF Acked, Awaiting, In
    <3>2. Awaiting(wire)
      BY <2>1, <2>2, <2>5, <3>1 DEF Continued
    <3>3. DueContinue' => Leads("continue", line')
      BY <1>4, <2>1, <2>2, <2>5 DEF Continued
    <3>4. Continued'
      BY <1>5, <2>2, <2>3, <2>4, <2>5, <3>2, <3>3 DEF Continued
    <3> QED
      BY <1>1, <1>10, <2>1, <2>2, <2>5, <3>4 DEF PacketInv, Live
  <2>6. CASE hostpc = "running"
    <3>1. Runs'
      BY <1>4, <1>5, <2>1, <2>2, <2>3, <2>4, <2>6 DEF Runs
    <3> QED
      BY <1>1, <1>10, <2>1, <2>2, <2>6, <3>1 DEF PacketInv, Live
  <2> QED
    BY <2>2, <2>5, <2>6
<1>11. CASE Live /\ h # "continue"
  <2>1. hostpc = "acking" /\ cur # "continue" /\ cur = h /\ Asked
    BY <1>6, <1>11 DEF PacketInv, Asked
  <2>2. ~Acked /\ ~In(cur, line')
    BY <1>3, <1>6, <1>11, <2>1 DEF Asked
  <2>3. pend' = Append(<<"+">>, "reply")
    BY <1>1, <1>7, <1>9, <1>11 DEF Process, Outgoing
  <2>4. Once("+", wire') /\ Followed(wire')
    BY <1>1, <2>2, <2>3, WirePutTwo
  <2>5. Asked'
    BY <1>1, <1>4, <1>5, <2>1, <2>2, <2>4 DEF Asked
  <2> QED
    BY <1>1, <1>9, <1>11, <2>1, <2>5 DEF PacketInv, Live
<1> QED
  BY <1>8, <1>10, <1>11

\* The coroutines take characters and answer; a stop of running debuggees comes
\* when nothing that t_main would take for a packet is under way.
LEMMA CoroutinesPacket ==
  ASSUME NetTypeInv, DrainInv, LinkInv, PacketInv, TargetInv,
         \/ Wait \/ Seek \/ ReadBody \/ AwaitAck \/ fault \/ AwaitStopAck
         \/ ThreadFaults \/ UNCHANGED netVars
  PROVE  PacketInv'
<1>1. UNCHANGED <<hostpc, cur, pcb, up, out>>
  BY DEF Wait, Seek, ReadBody, AwaitAck, fault, AwaitStopAck, ThreadFaults, netVars,
         host, frames
<1>2. Wait \/ Seek \/ ReadBody \/ AwaitAck \/ AwaitStopAck \/ ThreadFaults
         \/ UNCHANGED netVars => inherited' = inherited
  BY DEF Wait, Seek, ReadBody, AwaitAck, fault, AwaitStopAck, ThreadFaults, netVars,
         host, frames
\* Who believes its target to run has a pcb to send the stop over.
<1>3. Live /\ cur = "continue" => /\ pcb = "open"
                                  /\ detached => FALSE
                                  /\ target # "stopped" => hostpc \in {"acking", "running"}
  BY DEF PacketInv, TargetInv, Inherits
<1>4. Live /\ cur = "continue" /\ target # "stopped" /\ DueContinue =>
        (hostpc = "acking" /\ ~Acked) \/ Leads("continue", line)
  <2>1. ASSUME Live, cur = "continue", target # "stopped", DueContinue,
               ~(hostpc = "acking" /\ ~Acked)
        PROVE  Leads("continue", line)
    <3>1. \/ hostpc = "acking" /\ Continued
          \/ hostpc = "running" /\ Runs
      BY <1>3, <2>1 DEF PacketInv
    <3> QED
      BY <2>1, <3>1 DEF Continued, Runs
  <2> QED
    BY <2>1
<1>5. CASE Wait \/ ThreadFaults \/ UNCHANGED netVars
  <2>1. UNCHANGED <<rx, pend>> /\ (target' = "stopped" <=> target = "stopped")
    BY <1>5 DEF Wait, ThreadFaults, netVars, coroutines, frames
  <2>2. FaultPending' = FaultPending
    BY <1>5 DEF Wait, ThreadFaults, netVars, coroutines, FaultPending, TargetInv
  <2>3. Consumes(line', FaultPending', line, FaultPending)
    BY <1>1, <2>1, <2>2, SameLine
  <2>4. SaysNoMore(wire', wire)
    BY <1>1, <2>1, SameWire
  <2> QED
    BY <1>1, <1>5, <1>2, <2>1, <2>3, <2>4, PacketKept
<1>6. CASE Seek
  <2>1. /\ Take /\ pend = <<>> /\ mode = "main" /\ UNCHANGED <<mode, state>>
    BY <1>6 DEF Seek, Take, Resting
  <2>2. FaultPending = FALSE /\ FaultPending' = FALSE
    BY <2>1 DEF FaultPending, TargetInv
  <2>3. /\ Consumes(line', FaultPending', line, FaultPending)
        /\ Leads("continue", line) /\ Head(rx) = "etx" => ~In("continue", line)
    BY <1>1, <2>1, <2>2, LineTaken
  <2>4. CASE Head(rx) = "etx"
    <3>1. target' = "stopped" /\ pend' = Outgoing(<<"stop">>)
      <4>1. Append(<<>>, "stop") = <<"stop">>
        OBVIOUS
      <4> QED
        BY <1>6, <2>4, <4>1 DEF Seek, Process, Suspends
    <3>2. Says(wire', wire) /\ (pcb = "open" => Followed(wire'))
      BY <1>1, <2>1, <3>1, WireAnswers
    <3>3. Live /\ cur = "continue" /\ target # "stopped" =>
            (hostpc = "running" \/ Acked => ~DueContinue')
      <4>1. DueContinue' => DueContinue
        BY <2>3 DEF Consumes, DueContinue
      <4>2. DueContinue => In("continue", line)
        BY DEF DueContinue, Due, In
      <4> QED
        BY <1>4, <2>3, <2>4, <4>1, <4>2
    <3> QED
      BY <1>1, <1>3, <2>3, <3>1, <3>2, <3>3, PacketAnswered
  <2>5. CASE Head(rx) # "etx"
    <3>1. UNCHANGED <<target, pend>>
      BY <1>6, <2>5 DEF Seek
    <3>2. SaysNoMore(wire', wire)
      BY <1>1, <3>1, SameWire
    <3> QED
      BY <1>1, <1>6, <1>2, <2>3, <3>1, <3>2, PacketKept
  <2> QED
    BY <2>4, <2>5
<1>7. CASE ReadBody
  <2>1. CASE Head(rx) \in Bodies
    BY <1>7, <2>1, BodyPacket
  <2>2. CASE Head(rx) \notin Bodies
    <3>1. /\ Take /\ mode = "main" /\ UNCHANGED <<mode, state, target, pend>>
      BY <1>7, <2>2 DEF ReadBody
    <3>2. FaultPending' = FaultPending
      BY <3>1 DEF FaultPending
    <3>3. Consumes(line', FaultPending', line, FaultPending)
      BY <1>1, <3>1, <3>2, LineTaken
    <3>4. SaysNoMore(wire', wire)
      BY <1>1, <3>1, SameWire
    <3> QED
      BY <1>1, <1>7, <1>2, <3>1, <3>3, <3>4, PacketKept
  <2> QED
    BY <2>1, <2>2
<1>8. CASE AwaitAck
  <2>1. /\ Take /\ pend = <<>> /\ UNCHANGED <<mode, state>> /\ mainpc = "ack"
    BY <1>8 DEF AwaitAck, Take, Resting
  <2>2. FaultPending' = FaultPending
    BY <2>1 DEF FaultPending
  <2>3. Consumes(line', FaultPending', line, FaultPending)
    BY <1>1, <2>1, <2>2, LineTaken
  <2>4. Live /\ cur = "continue" =>
          \/ target = "stopped" /\ target' = "stopped"
          \/ /\ target' = target /\ target # "stopped" /\ inherited'
             /\ hostpc = "acking" /\ ~Acked
    BY <1>3, <1>8, <1>2, <2>1 DEF AwaitAck, TargetInv, Inherits
  <2>5. CASE Head(rx) = "+"
    <3>1. UNCHANGED <<out, pend>>
      BY <1>1, <1>8, <2>1, <2>5 DEF AwaitAck
    <3>2. SaysNoMore(wire', wire)
      BY <3>1, SameWire
    <3> QED
      BY <1>1, <1>8, <1>2, <2>3, <2>4, <3>2, PacketKept
  <2>6. CASE Head(rx) # "+"
    <3>1. pend' = Outgoing(<<output>>) /\ output \in {"reply", "stop"}
      BY <1>8, <2>6 DEF AwaitAck, NetTypeInv
    <3>2. Says(wire', wire)
      BY <1>1, <2>1, <3>1, WireAnswers
    <3> QED
      BY <1>1, <2>3, <2>4, <3>2, PacketAnswered
  <2> QED
    BY <2>5, <2>6
<1>9. CASE fault
  <2>1. /\ pend = <<>> /\ rx' = rx /\ target = "faulted" /\ target' = "stopped"
        /\ pend' = Outgoing(<<"stop">>) /\ FaultPending'
    BY <1>9 DEF fault, FaultPending, NetTypeInv
  <2>2. FaultPending = FALSE
    BY <2>1 DEF TargetInv, FaultPending
  <2>3. line' = line
    BY <1>1, <2>1, SameLine
  <2>4. Consumes(line', FaultPending', line, FaultPending)
    <3>1. \A x : (Due(x, line, TRUE) => Due(x, line, FALSE))
      BY DEF Due, DueAt
    <3>2. \A x : (DueOnce(x, line, FALSE) => DueOnce(x, line, TRUE))
      BY DEF DueOnce, DueAt
    <3>3. Consumes(line, TRUE, line, FALSE)
      BY <3>1, <3>2 DEF Consumes
    <3>4. FaultPending' = TRUE
      BY <2>1 DEF FaultPending
    <3> QED
      BY <2>2, <2>3, <3>3, <3>4
  <2>5. Says(wire', wire) /\ (pcb = "open" => Followed(wire'))
    BY <1>1, <2>1, WireAnswers
  <2>6. Live /\ cur = "continue" => (hostpc = "running" \/ Acked => ~DueContinue')
    <3>1. ASSUME Live, cur = "continue", hostpc = "running" \/ Acked, DueContinue'
          PROVE  FALSE
      <4>1. DueContinue
        BY <2>4, <3>1 DEF Consumes, DueContinue
      <4>2. Leads("continue", line)
        BY <1>4, <2>1, <3>1, <4>1
      <4>3. Due("continue", line, TRUE)
        BY <2>1, <2>3, <3>1 DEF DueContinue, Due, DueAt
      <4>4. PICK i \in DOMAIN line : line[i] = "continue" /\ DueAt(line, i, TRUE)
        BY <4>3 DEF Due
      <4>5. PICK j \in DOMAIN line : j < i /\ line[j] = "+"
        BY <4>4 DEF DueAt
      <4> QED
        BY <4>2, <4>4, <4>5 DEF Leads
    <3> QED
      BY <3>1
  <2> QED
    BY <1>1, <1>3, <2>1, <2>4, <2>5, <2>6, PacketAnswered
<1>10. CASE AwaitStopAck
  <2>1. /\ Take /\ pend = <<>> /\ mode \in {"fault", "notified"} /\ target' = target
    BY <1>10 DEF AwaitStopAck, Take, Resting
  <2>2. FaultPending = TRUE /\ target = "stopped"
    BY <2>1 DEF FaultPending, TargetInv
  <2>3. CASE Head(rx) = "+"
    <3>1. pend' = pend /\ FaultPending' = FALSE
      BY <1>10, <2>1, <2>3 DEF AwaitStopAck, FaultPending, HandsOver
    <3>2. Consumes(line', FaultPending', line, FaultPending)
      BY <1>1, <2>1, <2>2, <2>3, <3>1, LineTaken
    <3>3. SaysNoMore(wire', wire)
      BY <1>1, <3>1, SameWire
    <3> QED
      BY <1>1, <1>10, <1>2, <2>1, <3>2, <3>3, PacketKept
  <2>4. CASE Head(rx) # "+"
    <3>1. /\ pend' = Outgoing(<<output>>) /\ output \in {"reply", "stop"}
          /\ FaultPending' = FaultPending
      BY <1>10, <2>4 DEF AwaitStopAck, NetTypeInv, FaultPending
    <3>2. Consumes(line', FaultPending', line, FaultPending)
      BY <1>1, <2>1, <3>1, LineTaken
    <3>3. Says(wire', wire)
      BY <1>1, <2>1, <3>1, WireAnswers
    <3> QED
      BY <1>1, <2>1, <2>2, <3>2, <3>3, PacketAnswered
  <2> QED
    BY <2>3, <2>4
<1> QED
  BY <1>5, <1>6, <1>7, <1>8, <1>9, <1>10

\* GDB sends one packet at a time, the same again only when nothing is on its way
\* but what waits in the chain, and reads the acknowledgement before the answer.
LEMMA HostPacket ==
  ASSUME NetTypeInv, DrainInv, FramesInv, LinkInv, PacketInv, TargetInv,
         \/ HostDials \/ HostConnects \/ HostSends \/ HostInterrupts
         \/ HostReadsAck \/ HostReadsReply \/ HostVanishes \/ HostResends
  PROVE  PacketInv'
<1>1. /\ UNCHANGED <<mode, state, target, pcb, rx, pend>>
      /\ mode = "idle" /\ rx = <<>> /\ pend = <<>>
  <2>1. UNCHANGED <<mode, state, target, pcb, rx, pend>> /\ mode = "idle"
    BY DEF HostDials, HostConnects, HostSends, HostInterrupts, HostReadsAck,
           HostReadsReply, HostVanishes, HostResends, Silence, coroutines, frames
  <2> QED
    BY <2>1, IdleEmpty DEF NetTypeInv
<1>2. FaultPending' = FaultPending
  BY <1>1 DEF FaultPending
<1>3. out' = out => wire' = wire
  BY <1>1, SameWire
<1>4. "continue" \notin {"+", "$", "etx", "syn", "fin"} /\ ~In("continue", <<>>)
  BY DEF In
<1>5. {"+", "$", "etx", "syn", "fin"} \subseteq Tokens /\ Bodies \subseteq Tokens
  BY DEF Tokens, Characters
\* One token sent.
<1>6. ASSUME NEW x \in {"+", "$", "etx", "syn", "fin"}, up' = Append(up, x)
      PROVE  /\ \A S : NoBody(S) => NoBody(S)'
             /\ \A y : y # x => (In(y, line') => In(y, line))
             /\ \A y : y # x => (Once(y, line) => Once(y, line'))
             /\ Leads("continue", line) => Leads("continue", line')
             /\ DueContinue' => DueContinue
             /\ DueOnce("continue", line, FaultPending)
                  => DueOnce("continue", line, FaultPending)'
  <2>1. /\ \A y : In(y, line') <=> In(y, line) \/ y = x
        /\ \A y : Once(y, line) /\ (y = x => ~In(y, line)) => Once(y, line')
        /\ \A y : Leads(y, line) /\ x # y => Leads(y, line')
        /\ \A y, f : x # y => /\ Due(y, line', f) => Due(y, line, f)
                              /\ DueOnce(y, line, f) => DueOnce(y, line', f)
    BY <1>1, <1>5, <1>6, LineGrows
  <2>2. x \notin Bodies /\ x # "continue"
    BY <1>6 DEF Bodies
  <2>3. \A S : NoBody(S) => NoBody(S)'
    BY <2>1, <2>2 DEF NoBody
  <2> QED
    BY <1>2, <2>1, <2>2, <2>3 DEF DueContinue
<1>7. up' = up => /\ line' = line
                  /\ \A S : NoBody(S) => NoBody(S)'
                  /\ DueContinue' = DueContinue
  BY <1>1, <1>2, SameLine DEF NoBody, DueContinue
\* A packet sent.
<1>8. ASSUME NEW pkt \in Bodies, up' = up \o <<"$", pkt>>
      PROVE  /\ \A S : NoBody(S) => NoBody(S \cup {pkt})'
             /\ ~In(pkt, line) => Once(pkt, line')
             /\ pkt # "continue" => (DueContinue' => DueContinue)
             /\ pkt = "continue" /\ ~DueContinue
                  => DueOnce("continue", line, FaultPending)'
  <2>1. pkt # "$" /\ "$" \in Tokens /\ pkt \in Tokens
    BY <1>5 DEF Bodies
  <2>2. /\ \A y : In(y, line') <=> In(y, line) \/ y = "$" \/ y = pkt
        /\ ~In(pkt, line) => Once(pkt, line')
        /\ \A y, f : y \notin {"$", pkt} => (Due(y, line', f) => Due(y, line, f))
        /\ \A f : ~Due(pkt, line, f) => DueOnce(pkt, line', f)
    BY <1>1, <1>8, <2>1, LineGrowsTwice
  <2>3. \A S : NoBody(S) => NoBody(S \cup {pkt})'
    <3>1. "$" \notin Bodies
      BY DEF Bodies
    <3> QED
      BY <2>2, <3>1 DEF NoBody
  <2> QED
    BY <1>2, <2>2, <2>3 DEF DueContinue
<1>9. CASE HostDials
  BY <1>9 DEF HostDials, PacketInv, Live
<1>10. CASE HostConnects
  <2> DEFINE t == <<"established", "+", "$", "query">>
  <2>1. /\ up = <<>> /\ out = <<>> /\ out' = out /\ up' = up \o t
        /\ hostpc' = "acking" /\ cur' = "query"
    BY <1>10 DEF HostConnects, frames
  <2>2. up' = t
    <3>1. t \in Seq(Tokens)
      BY DEF Tokens, Characters, Bodies
    <3> QED
      BY <2>1, <3>1, ConcatEmptySeq
  <2>3. /\ DOMAIN line' = 1 .. 4
        /\ line'[1] = "established" /\ line'[2] = "+" /\ line'[3] = "$"
        /\ line'[4] = "query"
    <3>1. Len(up') = 4 /\ Len(rx') = 0
      BY <1>1, <2>2
    <3> QED
      BY <2>2, <3>1 DEF line
  <2>4. \A y \in Bodies \ {"query"} : ~In(y, line')
    BY <2>3 DEF In, Bodies
  <2>5. Once("query", line') /\ ~DueContinue' /\ NoBody({"continue", "query"})'
    <3>1. ~DueContinue'
      BY <2>4 DEF DueContinue, Due, In, Bodies
    <3>2. Once("query", line')
      <4>1. \A i \in 1 .. 4 : i = 1 \/ i = 2 \/ i = 3 \/ i = 4
        OBVIOUS
      <4>2. \A i \in 1 .. 4 : line'[i] = "query" => i = 4
        BY <2>3, <4>1
      <4> QED
        BY <2>3, <4>2 DEF Once
    <3> QED
      BY <2>4, <3>1, <3>2 DEF NoBody
  <2>6. DOMAIN wire' = {}
    BY <1>1, <2>1, WireIs DEF wire
  <2>7. ~Acked' /\ Once("+", wire') /\ Followed(wire')
    BY <2>6 DEF Acked, In, Once, Followed
  <2>8. Asked'
    BY <2>1, <2>5, <2>7 DEF Asked
  <2> QED
    BY <2>1, <2>7, <2>8 DEF PacketInv, Live
<1>11. CASE HostSends
  <2>1. PICK pkt \in Bodies : SendPacket(pkt)
    BY <1>11 DEF HostSends
  <2>2. /\ up' = up \o <<"$", pkt>> /\ cur' = pkt /\ hostpc' = "acking"
        /\ hostpc = "stopped" /\ out' = out /\ inherited' = inherited
    BY <1>11, <2>1 DEF HostSends, SendPacket, frames
  <2>3. Quiet /\ pcb = "open" /\ (target = "stopped" \/ inherited)
    BY <2>2 DEF PacketInv, TargetInv, Inherits, Live
  <2>4. /\ ~Acked' /\ Followed(wire') /\ OneTurn(wire') /\ Once("+", wire')
        /\ Awaiting(wire')
    BY <1>3, <2>2, <2>3 DEF Quiet, Acked, In, Followed, OneTurn, Once, Awaiting
  <2>5. CASE pkt = "continue"
    <3>1. NoBody({"continue"})' /\ DueOnce("continue", line, FaultPending)'
      <4>1. NoBody({"continue"} \cup {pkt})'
        BY <1>8, <2>2, <2>3 DEF Quiet
      <4>2. {"continue"} \cup {pkt} = {"continue"}
        BY <2>5
      <4> QED
        BY <1>8, <2>2, <2>3, <2>5, <4>1, <4>2 DEF Quiet
    <3>2. Continued'
      BY <1>1, <2>2, <2>3, <2>4, <3>1 DEF Continued
    <3> QED
      BY <1>1, <2>2, <2>3, <2>5, <3>2 DEF PacketInv, Live
  <2>6. CASE pkt # "continue"
    <3>1. NoBody({"continue", cur})' /\ Once(cur, line)' /\ ~DueContinue'
      <4>1. NoBody({"continue"} \cup {pkt})'
        BY <1>8, <2>2, <2>3 DEF Quiet
      <4>2. {"continue"} \cup {pkt} = {"continue", cur'}
        BY <2>2
      <4>3. ~In(pkt, line)
        BY <2>3, <2>6 DEF Quiet, NoBody
      <4> QED
        BY <1>8, <2>2, <2>3, <2>6, <4>1, <4>2, <4>3 DEF Quiet
    <3>2. Asked'
      BY <2>4, <3>1 DEF Asked
    <3> QED
      BY <1>1, <2>2, <2>3, <2>6, <3>2 DEF PacketInv, Live
  <2> QED
    BY <2>5, <2>6
<1>12. CASE HostInterrupts
  <2>1. /\ hostpc = "running" /\ up' = Append(up, "etx") /\ out' = out
        /\ UNCHANGED <<hostpc, cur>>
    BY <1>12 DEF HostInterrupts, frames
  <2>2. wire' = wire
    BY <1>3, <2>1
  <2>3. Runs'
    BY <1>1, <1>6, <2>1, <2>2 DEF PacketInv, Runs
  <2> QED
    BY <1>1, <2>1, <2>3 DEF PacketInv, Live
<1>13. CASE HostReadsAck
  <2>1. hostpc = "acking" /\ cur' = cur
    BY <1>13 DEF HostReadsAck
  <2>2. CASE hostpc' # "acking"
    <3>1. /\ Reads("+") /\ up' = up
          /\ hostpc' = IF cur = "continue" THEN "running" ELSE "waiting"
      BY <1>13, <2>2 DEF HostReadsAck
    <3>2. /\ Acked
          /\ Once("+", wire) => ~Acked'
          /\ OneTurn(wire) => AcksFirst(wire')
          /\ Awaiting(wire) => Unanswered(wire')
      BY <1>1, <3>1, WireRead
    <3>3. pcb = "open"
      BY <2>1, <3>2 DEF PacketInv, Live
    <3>4. CASE cur = "continue"
      <4>1. Continued /\ hostpc' = "running"
        BY <2>1, <3>1, <3>4 DEF PacketInv
      <4>2. Runs'
        BY <1>1, <1>7, <3>1, <3>2, <4>1 DEF Continued, Runs
      <4> QED
        BY <1>1, <2>1, <3>3, <3>4, <4>1, <4>2 DEF PacketInv, Live
    <3>5. CASE cur # "continue"
      <4>1. Asked /\ hostpc' = "waiting"
        BY <2>1, <3>1, <3>5 DEF PacketInv
      <4>2. NoBody({"continue"})
        BY <3>2, <4>1 DEF Asked, NoBody
      <4>3. Quiet'
        BY <1>7, <3>1, <3>2, <4>1, <4>2 DEF Asked, Quiet
      <4> QED
        BY <1>1, <2>1, <3>3, <3>5, <4>1, <4>3 DEF PacketInv, Live
    <3> QED
      BY <3>4, <3>5
  <2>3. CASE hostpc' = "acking"
    <3>1. PICK tok \in {"reply", "stop"} : Reads(tok)
      BY <1>13, <2>3 DEF HostReadsAck
    <3>2. up' = Append(up, "+") /\ inherited' = inherited
      BY <1>13, <2>1, <2>3 DEF HostReadsAck
    <3>3. Answer(tok)
      BY DEF Answer
    <3>4. /\ Acked' <=> Acked
          /\ Once("+", wire) => Once("+", wire')
          /\ OneTurn(wire) => OneTurn(wire')
          /\ Awaiting(wire) => Awaiting(wire')
          /\ Followed(wire) => Followed(wire')
      BY <1>1, <3>1, <3>3, WireRead
    <3>5. CASE cur = "continue"
      <4>1. Continued
        BY <2>1, <3>5 DEF PacketInv
      <4>2. /\ NoBody({"continue"})'
            /\ DueContinue' => DueContinue
            /\ Leads("continue", line) => Leads("continue", line')
            /\ DueOnce("continue", line, FaultPending)
                 => DueOnce("continue", line, FaultPending)'
        BY <1>6, <3>2, <4>1 DEF Continued
      <4>3. Continued'
        BY <1>1, <3>2, <3>4, <4>1, <4>2 DEF Continued
      <4> QED
        BY <1>1, <2>1, <2>3, <3>4, <3>5, <4>3 DEF PacketInv, Live
    <3>6. CASE cur # "continue"
      <4>1. Asked /\ cur # "+"
        BY <2>1, <3>6 DEF PacketInv, NetTypeInv, Bodies
      <4>2. /\ NoBody({"continue", cur})' /\ Once(cur, line)'
            /\ DueContinue' => DueContinue
            /\ In(cur, line') => In(cur, line)
        BY <1>6, <2>1, <3>2, <4>1 DEF Asked
      <4>3. Asked'
        BY <2>1, <3>4, <4>1, <4>2 DEF Asked
      <4> QED
        BY <1>1, <2>1, <2>3, <3>4, <3>6, <4>3 DEF PacketInv, Live
    <3> QED
      BY <3>5, <3>6
  <2> QED
    BY <2>2, <2>3
<1>14. CASE HostReadsReply
  <2>1. /\ hostpc \in {"waiting", "running"} /\ cur' = cur /\ pcb = "open"
        /\ hostpc = "waiting" => Quiet /\ cur # "continue"
        /\ hostpc = "running" => Runs /\ cur = "continue"
    BY <1>14 DEF HostReadsReply, PacketInv, Live, host
  <2>2. CASE Reads("+") /\ UNCHANGED <<up, host>>
    <3>1. /\ Acked
          /\ AcksFirst(wire) => AcksFirst(wire')
          /\ Unanswered(wire) => Unanswered(wire')
      BY <1>1, <2>2, WireRead
    <3>2. hostpc = "running"
      BY <2>1, <3>1 DEF Quiet
    <3>3. Runs'
      BY <1>1, <1>7, <2>1, <2>2, <3>1, <3>2 DEF Runs
    <3> QED
      BY <1>1, <2>1, <2>2, <3>2, <3>3 DEF PacketInv, Live, host
  <2>3. CASE /\ cur # "detach"
             /\ Reads("reply") \/ Reads("stop")
             /\ up' = Append(up, "+")
             /\ hostpc' = "stopped"
    <3>1. PICK tok \in {"reply", "stop"} : Reads(tok)
      BY <2>3
    <3>2. Answer(tok)
      BY DEF Answer
    <3>3. /\ Acked' => Acked
          /\ AcksFirst(wire) => ~Acked'
          /\ ~Unanswered(wire)
      BY <1>1, <3>1, <3>2, WireRead
    <3>4. Quiet'
      BY <1>6, <2>1, <2>3, <3>3 DEF Quiet, Runs
    <3> QED
      BY <1>1, <2>1, <2>3, <3>4 DEF PacketInv, Live
  <2>4. CASE cur = "detach" /\ hostpc' = "gone"
    BY <2>4 DEF PacketInv, Live
  <2> QED
    BY <1>14, <2>2, <2>3, <2>4 DEF HostReadsReply
<1>15. CASE HostVanishes
  BY <1>15 DEF HostVanishes, PacketInv, Live
<1>16. CASE HostResends
  <2>1. /\ hostpc = "acking" /\ Silence /\ up = <<>> /\ up' = up \o <<"$", cur>>
        /\ UNCHANGED <<hostpc, cur, out, inherited>> /\ cur \in Bodies
    BY <1>16 DEF HostResends, SendPacket, Silence, frames, NetTypeInv
  <2>2. wire' = wire
    BY <1>3, <2>1
  <2>3. DOMAIN line = {}
    BY <1>1, <2>1, LineIs
  <2>4. ~DueContinue /\ \A x : ~In(x, line)
    BY <2>3 DEF DueContinue, Due, In
  <2>5. NoBody({})
    BY <2>4 DEF NoBody
  <2>6. NoBody({cur})'
    <3>1. NoBody({} \cup {cur})'
      BY <1>8, <2>1, <2>5
    <3>2. {} \cup {cur} = {cur'}
      BY <2>1
    <3> QED
      BY <3>1, <3>2
  <2>7. Followed(wire) => ~Acked
    <3>1. DOMAIN wire \subseteq {1}
      <4>1. Len(out) <= 1 /\ Len(out) \in Nat /\ Len(pend) = 0
        BY <1>1, <2>1, SilenceLeavesOne, WireIs
      <4>2. DOMAIN wire = 1 .. Len(out)
        BY <1>1, <4>1 DEF wire
      <4> QED
        BY <4>1, <4>2
    <3> QED
      BY <3>1 DEF Followed, Acked, In
  <2>8. CASE cur = "continue"
    <3>1. Continued
      BY <2>1, <2>8 DEF PacketInv
    <3>2. Acked => target # "stopped"
      BY <2>7, <3>1 DEF Continued
    <3>3. DueOnce("continue", line, FaultPending)'
      BY <1>8, <2>1, <2>4, <2>8
    <3>4. Leads("continue", line')
      <4>1. /\ DOMAIN line' = 1 .. 2 /\ line'[1] = "$" /\ line'[2] = "continue"
        <5>1. up' = <<"$", "continue">>
          <6>1. <<"$", "continue">> \in Seq(Tokens)
            BY <1>5 DEF Bodies
          <6> QED
            BY <2>1, <2>8, <6>1, ConcatEmptySeq
        <5>2. Len(up') = 2 /\ Len(rx') = 0
          BY <1>1, <5>1
        <5> QED
          BY <5>1, <5>2 DEF line
      <4>2. \A i, j \in 1 .. 2 : j < i => j = 1
        OBVIOUS
      <4> QED
        BY <4>1, <4>2 DEF Leads
    <3>5. Continued'
      BY <1>1, <2>1, <2>2, <2>6, <2>8, <3>1, <3>2, <3>3, <3>4 DEF Continued, Acked
    <3> QED
      BY <1>1, <2>1, <2>2, <2>8, <3>5 DEF PacketInv, Live, Acked
  <2>9. CASE cur # "continue"
    <3>1. Asked
      BY <2>1, <2>9 DEF PacketInv
    <3>2. ~Acked
      BY <2>7, <3>1 DEF Asked
    <3>3. Once(cur, line)' /\ ~DueContinue'
      BY <1>8, <2>1, <2>4, <2>9
    <3>4. NoBody({"continue", cur})'
      BY <2>6 DEF NoBody
    <3>5. Asked'
      BY <2>1, <2>2, <3>1, <3>2, <3>3, <3>4 DEF Asked, Acked
    <3> QED
      BY <1>1, <2>1, <2>2, <2>9, <3>5 DEF PacketInv, Live, Acked
  <2> QED
    BY <2>8, <2>9
<1> QED
  BY <1>9, <1>10, <1>11, <1>12, <1>13, <1>14, <1>15, <1>16
-----------------------------------------------------------------------------
(* The debuggees *)

LEMMA TargetInit == NetInit => TargetInv
  BY DEF NetInit, TargetInv, FaultPending, Live

\* What matters of a step that leaves GDB and the debuggees alone.
LEMMA TargetKept ==
  ASSUME TargetInv, UNCHANGED <<detached, target, hostpc, cur, inherited>>,
         mainpc' = "ack" => mainpc = "ack",
         mode' \in {"fault", "notified"} \/ state' = "Fault" => target = "stopped",
         mode' = "main" => state' = "none",
         Live => (Acked' => Acked)
  PROVE  TargetInv'
  BY DEF TargetInv, Inherits, Live, FaultPending

\* A frame sent makes no acknowledgement.
LEMMA FramesTarget ==
  ASSUME NetTypeInv, LinkInv, TargetInv,
         \/ SendFrame \/ FindNoBuffer \/ enqueue_pbufs
         \/ TransmitNotified \/ TransmitPbuf \/ TransmitLooks
         \/ TransmitRequests \/ TransmitRechecks \/ TimerTick \/ VirtTransmits
  PROVE  TargetInv'
<1>1. /\ UNCHANGED <<state, mainpc, detached, target, hostpc, cur, inherited>>
      /\ mode' \in {"fault", "notified", "main"} => mode' = mode
  BY DEF SendFrame, FindNoBuffer, enqueue_pbufs, TransmitNotified, TransmitPbuf,
         TransmitLooks, TransmitRequests, TransmitRechecks, TimerTick, VirtTransmits,
         coroutines, host
<1>2. /\ mode' \in {"fault", "notified"} \/ state' = "Fault" => target = "stopped"
      /\ mode' = "main" => state' = "none"
  BY <1>1 DEF TargetInv, FaultPending
<1>3. Live => (Acked' => Acked)
  BY FramesSay DEF SaysNoMore, Says, Acked
<1> QED
  BY <1>1, <1>2, <1>3, TargetKept

\* Segments are received, and a debuggee that runs faults.
LEMMA ReceivingTarget ==
  ASSUME NetTypeInv, DrainInv, TargetInv,
         \/ ReceiveNotified \/ SynReceived \/ tcp_accept_gdb \/ tcp_closed_gdb
         \/ tcp_recv_gdb \/ ReceiveDone \/ gdb_connected \/ NotifiedReturns
         \/ Wait \/ ThreadFaults \/ UNCHANGED netVars
  PROVE  TargetInv'
<1>1. UNCHANGED <<detached, hostpc, cur, inherited, out>>
  BY DEF ReceiveNotified, SynReceived, tcp_accept_gdb, tcp_closed_gdb,
         tcp_recv_gdb, ReceiveDone, gdb_connected, NotifiedReturns, Wait,
         ThreadFaults, netVars, coroutines, frames, host
<1>2. pend' = pend \/ (pend = <<>> /\ pend' \in {<<"ack">>, <<>>})
  BY DEF ReceiveNotified, SynReceived, tcp_accept_gdb, tcp_closed_gdb,
         tcp_recv_gdb, ReceiveDone, gdb_connected, NotifiedReturns, Wait,
         ThreadFaults, netVars, frames, Resting
<1>3. SaysNoMore(wire', wire)
  <2>1. CASE pend' = pend
    BY <1>1, <2>1, SameWire
  <2>2. CASE pend = <<>> /\ pend' = <<"ack">>
    BY <1>1, <2>2, WirePut DEF Answer
  <2> QED
    BY <1>2, <2>1, <2>2
<1>4. Acked' => Acked
  BY <1>3 DEF SaysNoMore, Says, Acked
<1>5. mainpc' = "ack" => mainpc = "ack"
  BY DEF ReceiveNotified, SynReceived, tcp_accept_gdb, tcp_closed_gdb,
         tcp_recv_gdb, ReceiveDone, gdb_connected, NotifiedReturns, Wait,
         ThreadFaults, netVars, coroutines
<1>6. CASE ThreadFaults
  <2>1. /\ mode = "idle" /\ target = "running" /\ target' = "faulted"
        /\ UNCHANGED <<mode, state, mainpc>>
    BY <1>6 DEF ThreadFaults
  <2> QED
    BY <1>1, <1>4, <2>1 DEF TargetInv, Inherits, FaultPending, Live
<1>7. CASE ~ThreadFaults
  <2>1. /\ target' = target
        /\ mode' \in {"fault", "notified"} \/ state' = "Fault" => target = "stopped"
        /\ mode' = "main" => state' = "none"
    <3>1. CASE ReceiveDone
      BY <3>1, GoesOn DEF ReceiveDone, TargetInv, FaultPending
    <3>2. CASE Wait \/ gdb_connected
      BY <3>2 DEF Wait, gdb_connected, TargetInv, DrainInv, FaultPending
    <3>3. CASE \/ ReceiveNotified \/ SynReceived \/ tcp_accept_gdb
               \/ tcp_closed_gdb \/ tcp_recv_gdb \/ NotifiedReturns
               \/ UNCHANGED netVars
      BY <3>3 DEF ReceiveNotified, SynReceived, tcp_accept_gdb, tcp_closed_gdb,
                  tcp_recv_gdb, NotifiedReturns, netVars, coroutines, TargetInv,
                  FaultPending
    <3> QED
      BY <1>7, <3>1, <3>2, <3>3
  <2> QED
    BY <1>1, <1>4, <1>5, <2>1, TargetKept
<1> QED
  BY <1>6, <1>7

\* t_main stops the debuggees for whoever finds them running, and lets them run
\* for a continue it acknowledges and for the detach of a GDB that goes.
LEMMA CoroutinesTarget ==
  ASSUME NetTypeInv, LinkInv, PacketInv, TargetInv,
         Seek \/ ReadBody \/ AwaitAck \/ fault \/ AwaitStopAck
  PROVE  TargetInv'
<1>1. UNCHANGED <<hostpc, cur, out>> /\ (~fault => inherited' = inherited)
  BY DEF Seek, ReadBody, AwaitAck, fault, AwaitStopAck, host
<1>2. (Live' <=> Live) /\ (hostpc \in {"acking", "running"} => Live)
  BY <1>1 DEF Live
<1>3. ASSUME target' = "stopped", mode' = "main" => state' = "none",
             detached' => detached, Acked' => Acked
      PROVE  TargetInv'
  BY <1>1, <1>2, <1>3 DEF TargetInv
<1>4. ASSUME pend = <<>>, pend' = Outgoing(<<output>>) \/ pend' = Outgoing(<<"stop">>)
      PROVE  Acked' => Acked
  <2>1. \E x \in {"reply", "stop"} : pend' = Outgoing(<<x>>)
    BY <1>4 DEF NetTypeInv
  <2>2. Says(wire', wire)
    BY <1>1, <1>4, <2>1, WireAnswers
  <2> QED
    BY <2>2 DEF Says, Acked
<1>5. ASSUME pend' = pend
      PROVE  Acked' => Acked
  BY <1>1, <1>5, SameWire DEF Acked
<1>6. CASE Seek
  <2>1. mode = "main" /\ mode' = mode /\ state' = state
    BY <1>6 DEF Seek
  <2>2. CASE Process("etx", <<>>)
    <3>1. target' = "stopped" /\ ~detached'
      BY <2>2 DEF Process, Suspends
    <3> QED
      BY <1>1, <2>1, <3>1 DEF TargetInv
  <2>3. CASE UNCHANGED <<detached, output, target, pend>> /\ mainpc' # "ack"
    <3>1. Acked' => Acked
      BY <1>5, <2>3
    <3> QED
      BY <1>1, <1>6, <2>1, <2>3, <3>1, TargetKept DEF TargetInv, fault
  <2> QED
    BY <1>6, <2>2, <2>3 DEF Seek
<1>7. CASE ReadBody
  <2>1. mode = "main" /\ mode' = mode /\ state' = state
    BY <1>7 DEF ReadBody
  <2>2. CASE Head(rx) \notin Bodies
    <3>1. UNCHANGED <<mainpc, detached, target, pend>>
      BY <1>7, <2>2 DEF ReadBody
    <3>2. Acked' => Acked
      BY <1>5, <3>1
    <3> QED
      BY <1>1, <2>1, <3>1, <3>2, TargetKept DEF TargetInv, fault
  <2>3. CASE Head(rx) \in Bodies
    <3> DEFINE pkt == Head(rx)
    <3>1. Process(pkt, <<"+">>)
      BY <1>7, <2>3 DEF ReadBody
    <3>2. /\ Live => cur = pkt /\ hostpc \in {"acking", "running"}
          /\ Live /\ pkt # "continue" => hostpc = "acking" /\ ~Acked
      BY <1>7, <2>3, BodyRead
    <3> HIDE DEF pkt
    <3>3. CASE pkt = "continue"
      <4>1. /\ target' = "running" /\ ~detached' /\ mainpc' = "seek"
            /\ mode' = "main" /\ state' = "none"
        BY <2>1, <3>1, <3>3 DEF Process, TargetInv
      <4> QED
        BY <1>1, <1>2, <3>2, <3>3, <4>1 DEF TargetInv, FaultPending
    <3>4. CASE pkt # "continue"
      <4>1. detached \/ target = "stopped" \/ ~Live \/ inherited
        BY <1>2, <3>2, <3>4 DEF TargetInv, Inherits
      <4>2. /\ target' = "stopped" \/ (target' = target /\ ~detached)
            /\ detached' = (pkt = "detach")
        BY <3>1, <3>4 DEF Process, Suspends
      <4>3. inherited' = inherited
        BY <1>1, <2>1 DEF fault
      <4> QED
        BY <1>1, <1>2, <2>1, <3>2, <3>4, <4>1, <4>2, <4>3
        DEF TargetInv, Inherits, FaultPending
    <3> QED
      BY <3>3, <3>4
  <2> QED
    BY <2>2, <2>3
<1>8. CASE AwaitAck
  <2>1. /\ mode = "main" /\ mainpc = "ack" /\ UNCHANGED <<mode, state, detached>>
        /\ target' = target \/ (detached /\ target' = "running")
        /\ pend = <<>>
        /\ pend' = pend \/ pend' = Outgoing(<<output>>)
    BY <1>8 DEF AwaitAck, Take, Resting
  <2>2. Acked' => Acked
    BY <1>4, <1>5, <2>1
  <2>3. target' # "stopped" => detached \/ ~Live \/ Inherits
    BY <2>1 DEF TargetInv
  <2>4. inherited' = inherited
    BY <1>1, <2>1 DEF fault
  <2> QED
    BY <1>1, <1>2, <2>1, <2>2, <2>3, <2>4 DEF TargetInv, Inherits, FaultPending
<1>9. CASE fault
  <2>1. /\ target' = "stopped" /\ mode' = "fault" /\ detached' = detached
        /\ pend = <<>> /\ pend' = Outgoing(<<"stop">>)
    BY <1>9 DEF fault, NetTypeInv
  <2>2. Acked' => Acked
    BY <1>4, <2>1
  <2> QED
    BY <1>3, <2>1, <2>2
<1>10. CASE AwaitStopAck
  <2>1. /\ mode \in {"fault", "notified"} /\ UNCHANGED <<target, detached>>
        /\ mode' = "main" => state' = "none"
        /\ pend = <<>>
        /\ pend' = pend \/ pend' = Outgoing(<<output>>)
    BY <1>10 DEF AwaitStopAck, HandsOver, Take, Resting
  <2>2. target' = "stopped"
    BY <2>1 DEF TargetInv, FaultPending
  <2>3. Acked' => Acked
    BY <1>4, <1>5, <2>1
  <2> QED
    BY <1>3, <2>1, <2>2, <2>3
<1> QED
  BY <1>6, <1>7, <1>8, <1>9, <1>10

\* GDB takes the target for stopped when an answer comes, of which there is none
\* while it runs.
LEMMA HostTarget ==
  ASSUME NetTypeInv, DrainInv, LinkInv, PacketInv, TargetInv,
         \/ HostDials \/ HostConnects \/ HostSends \/ HostInterrupts
         \/ HostReadsAck \/ HostReadsReply \/ HostVanishes \/ HostResends
  PROVE  TargetInv'
<1>1. /\ UNCHANGED <<mode, state, mainpc, detached, target, pend>>
      /\ pend = <<>> /\ pend' = <<>>
  BY DEF HostDials, HostConnects, HostSends, HostInterrupts, HostReadsAck,
         HostReadsReply, HostVanishes, HostResends, Silence, coroutines, frames,
         NetTypeInv
<1>2. FaultPending' = FaultPending
  BY <1>1 DEF FaultPending
<1>3. CASE HostDials
  BY <1>1, <1>2, <1>3 DEF HostDials, TargetInv, Live
<1>4. CASE HostConnects
  <2>1. /\ hostpc = "dialing" /\ hostpc' = "acking" /\ cur' = "query" /\ out' = <<>>
        /\ inherited' = (target # "stopped" /\ ~detached)
    BY <1>4 DEF HostConnects, frames
  <2>2. ~Acked'
    <3>1. Len(out') = 0 /\ Len(pend') = 0
      BY <1>1, <2>1
    <3>2. DOMAIN wire' = {}
      BY <3>1 DEF wire
    <3> QED
      BY <3>2 DEF Acked, In
  <2> QED
    BY <1>1, <1>2, <2>1, <2>2 DEF TargetInv, Inherits, Live
<1>5. CASE HostSends
  <2>1. /\ hostpc = "stopped" /\ hostpc' = "acking" /\ cur' \in Bodies
        /\ UNCHANGED <<out, inherited>>
    BY <1>5 DEF HostSends, SendPacket, frames
  <2>2. (target = "stopped" \/ inherited) /\ ~detached /\ Live /\ Live'
    BY <2>1 DEF TargetInv, Inherits, Live
  <2>3. ~Acked'
    <3>1. ~Acked
      BY <2>1 DEF PacketInv, Quiet
    <3>2. wire' = wire
      BY <1>1, <2>1, SameWire
    <3> QED
      BY <3>1, <3>2 DEF Acked
  <2> QED
    BY <1>1, <1>2, <2>1, <2>2, <2>3 DEF TargetInv, Inherits
<1>6. CASE HostInterrupts \/ HostResends
  <2>1. UNCHANGED <<hostpc, cur, out, inherited>>
    BY <1>6 DEF HostInterrupts, HostResends, SendPacket, frames
  <2>2. Acked' => Acked
    BY <1>1, <2>1, SameWire DEF Acked
  <2> QED
    BY <1>1, <1>2, <2>1, <2>2 DEF TargetInv, Inherits, Live
<1>7. CASE HostReadsAck
  <2>1. hostpc = "acking" /\ cur' = cur /\ Live
    BY <1>7 DEF HostReadsAck, Live
  <2>2. CASE hostpc' # "acking"
    <3>1. /\ Reads("+")
          /\ hostpc' = IF cur = "continue" THEN "running" ELSE "waiting"
          /\ inherited' = (inherited /\ cur # "continue")
      BY <1>7, <2>1, <2>2 DEF HostReadsAck
    <3>2. Acked
      BY <1>1, <3>1, WireRead
    <3>3. detached => cur = "detach"
      BY <2>1, <3>2 DEF TargetInv
    <3> QED
      BY <1>1, <1>2, <2>1, <3>1, <3>2, <3>3 DEF TargetInv, Inherits, Live
  <2>3. CASE hostpc' = "acking"
    <3>1. (Reads("reply") \/ Reads("stop")) /\ inherited' = inherited
      BY <1>7, <2>1, <2>3 DEF HostReadsAck
    <3>2. Acked' => Acked
      BY <1>1, <3>1, WireRead
    <3> QED
      BY <1>1, <1>2, <2>1, <2>3, <3>1, <3>2 DEF TargetInv, Inherits, Live
  <2> QED
    BY <2>2, <2>3
<1>8. CASE HostReadsReply
  <2>1. hostpc \in {"waiting", "running"} /\ cur' = cur /\ Live
    BY <1>8 DEF HostReadsReply, host, Live
  <2>2. CASE Reads("+") /\ UNCHANGED host
    <3>1. ~Acked' \/ Acked
      BY <1>1, <2>2, WireRead
    <3> QED
      BY <1>1, <1>2, <2>1, <2>2, <3>1 DEF TargetInv, Inherits, Live, host
  <2>3. CASE /\ cur # "detach" /\ (Reads("reply") \/ Reads("stop"))
             /\ hostpc' = "stopped" /\ inherited' = inherited
    <3>1. PICK tok \in {"reply", "stop"} : Reads(tok)
      BY <2>3
    <3>2. Answer(tok)
      BY DEF Answer
    <3>3. ~Unanswered(wire)
      BY <1>1, <3>1, <3>2, WireRead
    <3>4. ~detached
      BY <2>1, <2>3 DEF TargetInv
    <3>5. target = "stopped" \/ (inherited /\ cur # "continue")
      BY <2>1, <3>3, <3>4 DEF TargetInv, PacketInv, Inherits, Runs
    <3> QED
      BY <1>1, <1>2, <2>1, <2>3, <3>4, <3>5 DEF TargetInv, Inherits, Live
  <2>4. CASE cur = "detach" /\ hostpc' = "gone"
    BY <1>1, <1>2, <2>1, <2>4 DEF TargetInv, Live
  <2> QED
    BY <1>8, <2>2, <2>3, <2>4 DEF HostReadsReply
<1>9. CASE HostVanishes
  <2>1. hostpc' = "gone"
    BY <1>9 DEF HostVanishes
  <2> QED
    BY <1>1, <1>2, <2>1 DEF TargetInv, Live
<1> QED
  BY <1>3, <1>4, <1>5, <1>6, <1>7, <1>8, <1>9

\* The three invariants, step by step.
LEMMA LinkNext ==
  ASSUME NetTypeInv, DrainInv, LinkInv, [NetNext]_netVars
  PROVE  LinkInv'
  BY FramesLink, ReceivingLink, CoroutinesLink, HostLink DEF NetNext

LEMMA PacketNext ==
  ASSUME NetTypeInv, DrainInv, FramesInv, LinkInv, PacketInv, TargetInv,
         [NetNext]_netVars
  PROVE  PacketInv'
  BY FramesPacket, ReceivingPacket, CoroutinesPacket, HostPacket DEF NetNext

LEMMA TargetNext ==
  ASSUME NetTypeInv, DrainInv, LinkInv, PacketInv, TargetInv, [NetNext]_netVars
  PROVE  TargetInv'
  BY FramesTarget, ReceivingTarget, CoroutinesTarget, HostTarget DEF NetNext

\* While GDB believes the target stopped it is, unless the target ran when this
\* GDB connected, the one before having been killed while it ran, and has neither
\* faulted nor been resumed by this one: over any number of connections, of which
\* GDB may leave any by a detach or at any time without a word, with any segments
\* and any waiting of frames for buffers; also when the virtualiser returns one
\* between the look of lwIP for it and the request of enqueue_pbufs for a signal,
\* the stored frame stays behind, and GDB sends a packet again that was processed.
THEOREM StoppedForGdb == NetSpec => []AllStop
<1> DEFINE Inv == NetTypeInv /\ DrainInv /\ FramesInv /\ LinkInv /\ PacketInv /\ TargetInv
<1>1. NetInit => Inv
  BY TypeInit, DrainInit, FramesInit, LinkInit, PacketInit, TargetInit
<1>2. Inv /\ [NetNext]_netVars => Inv'
  <2> SUFFICES ASSUME Inv, [NetNext]_netVars
               PROVE  Inv'
    OBVIOUS
  <2>1. NetTypeInv' /\ DrainInv'
    BY TypeNext, DrainNext
  <2>2. FramesInv'
    BY FramesNext
  <2>3. LinkInv' /\ PacketInv' /\ TargetInv'
    BY LinkNext, PacketNext, TargetNext
  <2> QED
    BY <2>1, <2>2, <2>3
<1>3. Inv => AllStop
  BY DEF TargetInv, Inherits, AllStop, Live
<1> QED
  BY <1>1, <1>2, <1>3, PTL DEF NetSpec
=============================================================================
