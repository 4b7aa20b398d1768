---------------------------- MODULE BoundedFifo ----------------------------
(***************************************************************************)
(* What the character queue of the sDDF net example promises: a first-in   *)
(* first-out queue of Capacity characters, to which a batch is appended as *)
(* far as it fits.                                                         *)
(***************************************************************************)
EXTENDS Naturals, Sequences

CONSTANTS Capacity,
          Batch         \* the sequences of characters that are put at once

VARIABLE items

\* The first n elements of s, or all of them.
Prefix(s, n) == SubSeq(s, 1, IF n < Len(s) THEN n ELSE Len(s))

Init == items = <<>>
Put(s) == items' = items \o Prefix(s, Capacity - Len(items))
Get == items # <<>> /\ items' = Tail(items)

Next == Get \/ \E s \in Batch : Put(s)
Spec == Init /\ [][Next]_items
=============================================================================
