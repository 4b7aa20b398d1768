----------------------- MODULE MCSoftwareBreakpoints -----------------------
(***************************************************************************)
(* Small instances of SoftwareBreakpoints: a table of two slots and a text *)
(* of a few instructions, some addresses of which are not mapped.          *)
(***************************************************************************)
EXTENDS SoftwareBreakpoints
=============================================================================
