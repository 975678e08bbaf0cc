--------------------------- MODULE MCSysproSession ---------------------------
(* Instances of SysproSession for TLC. *)
EXTENDS SysproSession
=============================================================================
