------------------------- MODULE MCMachineLifecycle -------------------------
(* Instances of MachineLifecycle for TLC. *)
EXTENDS MachineLifecycle, TLC

Symmetry == Permutations(Objects) \cup Permutations(Nodes \ VMNodes)
=============================================================================
