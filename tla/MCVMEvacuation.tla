--------------------------- MODULE MCVMEvacuation ---------------------------
(* Instances of VMEvacuation for TLC. *)
EXTENDS VMEvacuation, TLC

Symmetry == Permutations(Machines) \cup Permutations(Hosts) \cup Permutations(OpIDs)
=============================================================================
