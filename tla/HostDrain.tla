----------------------------- MODULE HostDrain ------------------------------
(***************************************************************************)
(* What draining an LXD host promises, whoever does it and however often   *)
(* it has to start over (pkg/maas/maintenance/contracts.go, the comment of *)
(* HostEvacuationFinalizer): a host goes from serving to draining, its     *)
(* gate opens only while no VM is settled on it, and only through an open  *)
(* gate is it taken away.  A VM that reaches a host whose gate is already  *)
(* open does not settle; when the gate closes again, it does.              *)
(***************************************************************************)
CONSTANTS Hosts, VMs, NoHost

VARIABLES
  phase,  \* of a host
  home    \* the host a VM is settled on

vars == <<phase, home>>

Phase == {"serving", "draining", "open", "gone"}

SettledOn(h) == {v \in VMs : home[v] = h}

TypeOK == phase \in [Hosts -> Phase] /\ home \in [VMs -> Hosts \cup {NoHost}]

Init == phase = [h \in Hosts |-> "serving"] /\ home = [v \in VMs |-> NoHost]

Settle(v, h) ==
  /\ phase[h] \in {"serving", "draining"} /\ home[v] = NoHost
  /\ home' = [home EXCEPT ![v] = h]
  /\ UNCHANGED phase

Leave(v) == home' = [home EXCEPT ![v] = NoHost] /\ UNCHANGED phase

StartDraining(h) ==
  /\ phase[h] = "serving"
  /\ phase' = [phase EXCEPT ![h] = "draining"]
  /\ UNCHANGED home

OpenGate(h) ==
  /\ phase[h] \in {"serving", "draining"} /\ SettledOn(h) = {}
  /\ phase' = [phase EXCEPT ![h] = "open"]
  /\ UNCHANGED home

\* The drain starts over: VMs that slipped in are settled from now on.
CloseGate(h) ==
  /\ phase[h] = "open"
  /\ phase' = [phase EXCEPT ![h] = "draining"]
  /\ \E vs \in SUBSET {v \in VMs : home[v] = NoHost} :
       home' = [v \in VMs |-> IF v \in vs THEN h ELSE home[v]]

Take(h) ==
  /\ phase[h] = "open"
  /\ phase' = [phase EXCEPT ![h] = "gone"]
  /\ UNCHANGED home

Return(h) ==
  /\ phase[h] = "gone"
  /\ phase' = [phase EXCEPT ![h] = "serving"]
  /\ UNCHANGED home

Next ==
  \/ \E v \in VMs : Leave(v) \/ \E h \in Hosts : Settle(v, h)
  \/ \E h \in Hosts : StartDraining(h) \/ OpenGate(h) \/ CloseGate(h)
                        \/ Take(h) \/ Return(h)

Spec == Init /\ [][Next]_vars

\* No VM is settled on a host that is taken away, nor while its gate is open.
NoSettledVMIsTaken ==
  \A h \in Hosts : phase[h] \in {"open", "gone"} => SettledOn(h) = {}
=============================================================================
