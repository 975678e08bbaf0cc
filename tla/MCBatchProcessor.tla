-------------------------- MODULE MCBatchProcessor --------------------------
(* Instances of BatchProcessor for TLC. *)
EXTENDS BatchProcessor, TLC

\* Instances are interchangeable; orders are not, they have an order.
InstanceSymmetry == Permutations(Instances)
=============================================================================
