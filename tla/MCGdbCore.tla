------------------------------ MODULE MCGdbCore ------------------------------
(***************************************************************************)
(* Small instances of GdbCore.  An instance scales the arrays of gdb.c down *)
(* (64 inferiors, 256 threads) and keeps their relation to the width of an  *)
(* id on the wire: one byte counts as many threads as threads[] holds.      *)
(***************************************************************************)
EXTENDS GdbCore, TLC

\* Thread capabilities are interchangeable: no action tells two apart.
TcbSymmetry == Permutations(Tcb)
=============================================================================
