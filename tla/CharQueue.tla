----------------------------- MODULE CharQueue -----------------------------
(***************************************************************************)
(* The queue of received characters of the sDDF net example                *)
(* (examples/microkit_sddf_net/apps/debugger/char_queue.h): a ring of      *)
(* QUEUE_CAPACITY characters between a head and a tail that run freely and *)
(* wrap with the width of a uint32_t, not with the ring.  The operations   *)
(* on a local head or tail, which nothing calls, are these ones with the   *)
(* new index kept by the caller.                                           *)
(***************************************************************************)
EXTENDS Naturals, Sequences

CONSTANTS Capacity,     \* QUEUE_CAPACITY
          IndexMod,     \* 2^32: an index is a uint32_t
          Char,
          NoChar,       \* what the ring holds before a character is put there
          Batch         \* the sequences of characters a segment may carry

ASSUME RingAssumption ==
  /\ Capacity \in Nat \ {0} /\ IndexMod \in Nat \ {0}
  /\ IndexMod % Capacity = 0 /\ Capacity < IndexMod
ASSUME CharAssumption == NoChar \notin Char
ASSUME BatchAssumption ==
  /\ \A b \in Batch : b \in Seq(Char)
  /\ \A c \in Char : <<c>> \in Batch

VARIABLES head, tail, buf
queue == <<head, tail, buf>>

Least(m, n) == IF m < n THEN m ELSE n
Cell == 0 .. Capacity - 1

\* Mutant: the index is subtracted as if it did not wrap.
char_queue_length_Flat == IF tail < head THEN 0 ELSE tail - head
char_queue_length == (tail + IndexMod - head) % IndexMod
char_queue_empty == head = tail
char_queue_full == char_queue_length = Capacity
char_queue_free == Capacity - char_queue_length
\* Mutant: the end of the ring is not minded.
char_queue_contiguous_free_Ring == char_queue_free
char_queue_contiguous_free == Least(Capacity - (tail % Capacity), char_queue_free)

\* Mutant: the index wraps with the ring.
Advanced_InRing(i, n) == (i + n) % Capacity
Advanced(i, n) == (i + n) % IndexMod

Init == head = 0 /\ tail = 0 /\ buf = [c \in Cell |-> NoChar]

\* Mutant: a full queue takes the batch.
Enqueued_All(src) == Len(src)
Enqueued(src) == Least(Len(src), char_queue_free)

\* What fits of src goes to the cells from tail on up to the end of the ring,
\* and the rest to its beginning.
char_queue_enqueue_batch(src) ==
  LET dst == tail % Capacity
      num == Enqueued(src)
      prewrap == Least(num, char_queue_contiguous_free)
      postwrap == num - prewrap
  IN /\ buf' = [c \in Cell |->
                  IF dst <= c /\ c < dst + prewrap THEN src[c - dst + 1]
                  ELSE IF c < postwrap THEN src[prewrap + c + 1]
                  ELSE buf[c]]
     /\ tail' = Advanced(tail, num)
     /\ UNCHANGED head

char_enqueue(c) ==
  /\ ~char_queue_full
  /\ buf' = [buf EXCEPT ![tail % Capacity] = c]
  /\ tail' = Advanced(tail, 1)
  /\ UNCHANGED head

char_dequeue ==
  /\ ~char_queue_empty
  /\ head' = Advanced(head, 1)
  /\ UNCHANGED <<tail, buf>>

Next ==
  \/ char_dequeue
  \/ \E c \in Char : char_enqueue(c)
  \/ \E src \in Batch : char_queue_enqueue_batch(src)

Spec == Init /\ [][Next]_queue
-----------------------------------------------------------------------------
(* Properties *)

\* char_queue_update_shared_tail asserts that the tail moves forward and that
\* the queue never holds more than the ring.
TypeOK ==
  /\ head \in 0 .. IndexMod - 1 /\ tail \in 0 .. IndexMod - 1
  /\ buf \in [Cell -> Char \cup {NoChar}]
  /\ char_queue_length <= Capacity

\* The character a dequeue would return when k others went before.
CharAt(k) == buf[((head + k) % IndexMod) % Capacity]

\* The characters between head and tail, in their order.
Contents == [k \in 1 .. char_queue_length |-> CharAt(k - 1)]

\* The queue is first in first out and loses only the end of a batch that does
\* not fit, wherever head and tail are in the ring and whenever they wrap, at
\* its end or at that of a uint32_t.
Fifo == INSTANCE BoundedFifo WITH items <- Contents
ImplementsFifo == Fifo!Spec
=============================================================================
