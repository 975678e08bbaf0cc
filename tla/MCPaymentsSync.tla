--------------------------- MODULE MCPaymentsSync ---------------------------
(* Instances of PaymentsSync for TLC. *)
EXTENDS PaymentsSync
=============================================================================
