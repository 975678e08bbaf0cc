---------------------------- MODULE MCCancelGate ----------------------------
(* Instances of CancelGate for TLC: model values, given in the .cfg files. *)
EXTENDS CancelGate
=============================================================================
