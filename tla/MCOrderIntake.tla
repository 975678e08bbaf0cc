---------------------------- MODULE MCOrderIntake ----------------------------
(* Instances of OrderIntake for TLC. *)
EXTENDS OrderIntake, TLC

\* Orders, webhook ids and requests are each interchangeable.
IntakeSymmetry ==
    Permutations(Orders) \cup Permutations(Hooks) \cup Permutations(Handlers)
=============================================================================
