--------------------------- MODULE MCTargetAccess ---------------------------
(***************************************************************************)
(* Instances of TargetAccess: words of two bytes, a memory of six to eight *)
(* bytes, two registers and spsr, reads of up to six bytes, the longest of *)
(* which does not fit the buffer, and writes of one and three.             *)
(***************************************************************************)
EXTENDS TargetAccess

MCWriteData == {<<234>>, <<9, 160, 234>>}
MCContextData == {<<250, 175, 9, 144, 16>>}
=============================================================================
