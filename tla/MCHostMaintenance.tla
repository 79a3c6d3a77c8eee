------------------------- MODULE MCHostMaintenance --------------------------
(* Instances of HostMaintenance for TLC. *)
EXTENDS HostMaintenance, TLC

Symmetry == Permutations(Hosts) \cup Permutations(VMs) \cup Permutations(OpIDs)
=============================================================================
