----------------------------- MODULE MCCharQueue -----------------------------
(***************************************************************************)
(* An instance of CharQueue: a ring of three cells and indices that        *)
(* wrap after a few rounds.                                                *)
(***************************************************************************)
EXTENDS CharQueue

CONSTANT MaxBatch       \* bound: characters of a segment

BatchUpTo == UNION {[1 .. n -> Char] : n \in 0 .. MaxBatch}
=============================================================================
