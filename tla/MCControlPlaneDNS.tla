-------------------------- MODULE MCControlPlaneDNS --------------------------
(* Instances of ControlPlaneDNS for TLC. *)
EXTENDS ControlPlaneDNS, TLC
=============================================================================
