-------------------------- MODULE MCFulfilmentSync --------------------------
(* Instances of FulfilmentSync for TLC, given in the .cfg files. *)
EXTENDS FulfilmentSync
=============================================================================
