----------------------------- MODULE MCEventLoop -----------------------------
(***************************************************************************)
(* Instances of EventLoop: two children with one thread each, as in the    *)
(* example.                                                                *)
(***************************************************************************)
EXTENDS EventLoop
=============================================================================
