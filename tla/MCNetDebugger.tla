---------------------------- MODULE MCNetDebugger ----------------------------
(***************************************************************************)
(* Instances of NetDebugger: two transmit buffers, so that frames wait for *)
(* a buffer and are acknowledged behind others.                            *)
(***************************************************************************)
EXTENDS NetDebugger
=============================================================================
