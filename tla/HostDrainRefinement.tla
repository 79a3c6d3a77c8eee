------------------------ MODULE HostDrainRefinement ------------------------
(***************************************************************************)
(* HostMaintenance implements HostDrain, for every set of hosts and VMs:   *)
(* every step of the controllers is a step of the abstract drain or leaves *)
(* the phases of the hosts and the homes of the VMs alone.  Condition: the *)
(* lists with which hosts are found empty leave no VM out (ReadsComplete). *)
(* The code leaves one out when it cannot be read, and then takes a host   *)
(* with that guest (HostMaintenancePartialRead.cfg).                       *)
(***************************************************************************)
EXTENDS HostMaintenanceProofs

-----------------------------------------------------------------------------
(* What the mapping needs beyond IInv.                                     *)

\* A late VM is on a host that was found empty before it came.
LateOnGated == \A v \in late : loc[v] \in Hosts /\ gated[loc[v]]

\* Only a live host has guests.
GuestsOnLive == \A v \in VMs : loc[v] # NoHost => stage[loc[v]] = "live"

\* A VM a host is selected for does not run yet.
SelectedIsNew == \A v \in VMs : sel[v] # NoHost => loc[v] = NoHost

\* A MaasMachine is deleted after its Machine, and both are when it is gone.
DeletionsNest ==
  \A h \in Hosts :
    /\ deleting[h] => leaving[h]
    /\ stage[h] = "gone" => ~leaving[h]

MapInv == LateOnGated /\ GuestsOnLive /\ SelectedIsNew /\ DeletionsNest

USE SessionAssumption, HostMaintenanceAssumption
    DEF hostVars, vmVars, cmVars, auxVars, vars, Guests

\* Every step keeps what the mapping needs.
LEMMA NextKeepsMapInv ==
  ASSUME IInv, MapInv, Next
  PROVE  MapInv'
<1> USE DEF IInv, TypeOK, MapInv
<1>1. ASSUME NEW h \in Hosts, ReconcileMaasMachine(h) PROVE MapInv'
  BY <1>1 DEF ReconcileMaasMachine, CloseGate, LateOnGated, GuestsOnLive, SelectedIsNew,
     DeletionsNest
<1>2. CASE ReconcileConfigMap
  BY <1>2 DEF ReconcileConfigMap, LateOnGated, GuestsOnLive, SelectedIsNew,
     DeletionsNest
<1>3. CASE PassStep
  <2>1. UNCHANGED <<stage, leaving, deleting, loc, sel>>
    BY <1>3 DEF PassStep, AssignMaintenance, AssignNoSchedule, AssignOp,
       CheckHostEmpty, CheckWLCReadyTags, ReadHostTags, ClearMaintenance,
       ClearNoSchedule, ClearOp, OpsCleared, RemoveFinalizer, Conflict,
       Annotate, Complete
  <2>2. LateOnGated'
    BY <1>3, <2>1 DEF PassStep, AssignMaintenance, AssignNoSchedule, AssignOp,
       CheckHostEmpty, CheckWLCReadyTags, ReadHostTags, ClearMaintenance,
       ClearNoSchedule, ClearOp, OpsCleared, RemoveFinalizer, Conflict, Annotate,
       Complete, CloseGate, LateOnGated
  <2>3. QED
    BY <2>1, <2>2 DEF GuestsOnLive, SelectedIsNew, DeletionsNest
<1>4. CASE Fail
  BY <1>4 DEF Fail, CloseGate, LateOnGated, GuestsOnLive, SelectedIsNew, DeletionsNest
<1>5. CASE MaasMachineController
  BY <1>5 DEF MaasMachineController, AddEvacuationFinalizer, Provision,
     DropFinalizerWithoutID, Release, Finalize,
     LateOnGated, GuestsOnLive, SelectedIsNew, DeletionsNest
<1>6. CASE Workload
  BY <1>6 DEF Workload, SelectHost, Compose, AckReady, RemoveVM,
     LateOnGated, GuestsOnLive, SelectedIsNew, DeletionsNest
<1>7. CASE Operator
  <2>1. ASSUME NEW h \in Hosts, DeleteHost(h) PROVE MapInv'
    BY <2>1 DEF DeleteHost, LateOnGated, GuestsOnLive, SelectedIsNew,
       DeletionsNest
  <2>2. ASSUME NEW h \in Hosts, DeleteMaasMachine(h) PROVE MapInv'
    BY <2>2 DEF DeleteMaasMachine, LateOnGated, GuestsOnLive, SelectedIsNew,
       DeletionsNest
  <2>3. ASSUME NEW h \in Hosts, RecreateHost(h) PROVE MapInv'
    BY <2>3 DEF RecreateHost, LateOnGated, GuestsOnLive, SelectedIsNew,
       DeletionsNest
  <2>4. ASSUME NEW t \in Triggers \cup {NoTrigger}, SetTrigger(t) PROVE MapInv'
    BY <2>4 DEF SetTrigger, LateOnGated, GuestsOnLive, SelectedIsNew,
       DeletionsNest
  <2>5. QED  BY <1>7, <2>1, <2>2, <2>3, <2>4 DEF Operator
<1>8. QED
  BY <1>1, <1>2, <1>3, <1>4, <1>5, <1>6, <1>7 DEF Next, HMC

-----------------------------------------------------------------------------
(* The mapping.                                                            *)

phaseBar == [h \in Hosts |-> DrainPhase(h)]
homeBar  == [v \in VMs |-> IF v \in late THEN NoHost ELSE loc[v]]

\* The phase of a host depends on its own MaasMachine and gate only.
LEMMA SamePhases ==
  ASSUME IInv,
         UNCHANGED <<stage, leaving>>,
         \A h \in Hosts : (gated[h] \/ ~evacFin[h])' = (gated[h] \/ ~evacFin[h])
  PROVE  phaseBar' = phaseBar
BY DEF phaseBar, DrainPhase

\* Closing the gate of a host settles the VMs that came late to it.
LEMMA GateCloses ==
  ASSUME IInv, MapInv, NEW h \in Hosts,
         stage[h] = "live", leaving[h], evacFin[h],
         UNCHANGED <<hostVars, vmVars>>, CloseGate(h)
  PROVE  [Drain!Next]_(Drain!vars)
<1> USE DEF IInv, TypeOK, MapInv, CloseGate
<1>1. CASE gated[h]
  <2> DEFINE vs == late \cap Guests(h)
  <2>1. phaseBar[h] = "open"
    BY <1>1 DEF phaseBar, DrainPhase
  <2>2. phaseBar' = [phaseBar EXCEPT ![h] = "draining"]
    BY DEF phaseBar, DrainPhase
  <2>3. vs \in SUBSET {v \in VMs : homeBar[v] = NoHost}
    BY DEF homeBar
  <2>4. homeBar' = [v \in VMs |-> IF v \in vs THEN h ELSE homeBar[v]]
    BY DEF homeBar
  <2>5. Drain!CloseGate(h)
    BY <2>1, <2>2, <2>3, <2>4 DEF Drain!CloseGate, phaseBar, homeBar
  <2>6. QED  BY <2>5 DEF Drain!Next
<1>2. CASE ~gated[h]
  <2>1. late' = late /\ gated' = gated
    BY <1>2 DEF LateOnGated
  <2>2. phaseBar' = phaseBar /\ homeBar' = homeBar
    BY <2>1 DEF phaseBar, homeBar, DrainPhase
  <2>3. QED  BY <2>2 DEF Drain!vars, phaseBar, homeBar
<1>3. QED  BY <1>1, <1>2

\* A step that changes neither the objects of the hosts nor gates nor VMs.
LEMMA Stutters ==
  ASSUME IInv, UNCHANGED <<stage, leaving, evacFin, gated, loc, late>>
  PROVE  UNCHANGED Drain!vars
BY DEF Drain!vars, DrainPhase

\* The worker: a pass opens the gate of its host or closes it again.
LEMMA HMCRefines ==
  ASSUME IInv, MapInv, ReadsComplete, HMC \/ Fail
  PROVE  [Drain!Next]_(Drain!vars)
<1> USE DEF IInv, TypeOK
<1>1. ASSUME NEW h \in Hosts, ReconcileMaasMachine(h)
      PROVE  [Drain!Next]_(Drain!vars)
  BY <1>1, GateCloses DEF ReconcileMaasMachine
<1>2. ASSUME CheckHostEmpty
      PROVE  [Drain!Next]_(Drain!vars)
  <2>1. PICK h \in Hosts : /\ h = hmc.host
                          /\ stage[h] = "live" /\ leaving[h] /\ evacFin[h]
    BY <1>2 DEF CheckHostEmpty, PassOK, BeforeGate
  <2>2. CASE Guests(h) = {} /\ hmc' # Idle
    <3>0. /\ gated' = [gated EXCEPT ![h] = TRUE] /\ late' = late
          /\ UNCHANGED <<hostVars, vmVars>> /\ ~gated[h]
      <4>1. gated' = [gated EXCEPT ![h] = TRUE] /\ late' = late \ Guests(h)
        BY <1>2, <2>1, <2>2 DEF CheckHostEmpty
      <4>2. late' = late
        BY <2>2, <4>1
      <4>3. UNCHANGED <<hostVars, vmVars>>
        BY <1>2 DEF CheckHostEmpty
      <4>4. ~gated[h]
        BY <1>2, <2>1 DEF CheckHostEmpty, PassOK, GateOK, BeforeGate
      <4>5. QED  BY <4>1, <4>2, <4>3, <4>4
    <3>1. phaseBar' = [phaseBar EXCEPT ![h] = "open"] /\ homeBar' = homeBar
      BY <2>1, <3>0 DEF phaseBar, homeBar, DrainPhase
    <3>2. phaseBar[h] = "draining"
      BY <2>1, <3>0 DEF phaseBar, DrainPhase
    <3>3. \A v \in VMs : homeBar[v] # h
      BY <2>1, <2>2 DEF homeBar
    <3>4. Drain!OpenGate(h)
      BY <3>1, <3>2, <3>3 DEF Drain!OpenGate, Drain!SettledOn, phaseBar, homeBar
    <3>5. QED  BY <3>4 DEF Drain!Next
  <2>3. CASE hmc' = Idle
    <3>1. UNCHANGED auxVars
      BY <1>2, <2>3 DEF CheckHostEmpty, Idle, Pass
    <3>2. QED  BY <1>2, <3>1, Stutters DEF CheckHostEmpty
  <2>4. hmc' # Idle => Guests(h) = {}
    BY <1>2, <2>1 DEF CheckHostEmpty, ReadsComplete, Pass
  <2>5. QED  BY <2>2, <2>3, <2>4
<1>3. ASSUME CheckWLCReadyTags
      PROVE  [Drain!Next]_(Drain!vars)
  <2>1. PICK h \in Hosts : /\ h = hmc.host
                          /\ stage[h] = "live" /\ leaving[h] /\ evacFin[h]
    BY <1>3 DEF CheckWLCReadyTags, PassOK, BeforeGate
  <2>2. CASE UNCHANGED auxVars
    BY <1>3, <2>2, Stutters DEF CheckWLCReadyTags
  <2>3. CASE CloseGate(h)
    BY <1>3, <2>1, <2>3, GateCloses DEF CheckWLCReadyTags
  <2>4. QED  BY <1>3, <2>1, <2>2, <2>3 DEF CheckWLCReadyTags
<1>4. ASSUME RemoveFinalizer
      PROVE  [Drain!Next]_(Drain!vars)
  <2>1. hmc.host \in Hosts /\ leaving[hmc.host] /\ gated[hmc.host]
    BY <1>4 DEF RemoveFinalizer, Goto, PassOK, GateOK, BeforeGate, BehindGate
  <2>2. phaseBar' = phaseBar /\ homeBar' = homeBar
    BY <1>4, <2>1 DEF RemoveFinalizer, phaseBar, homeBar, DrainPhase
  <2>3. QED  BY <2>2 DEF Drain!vars, phaseBar, homeBar
<1>5. ASSUME Fail \/ Conflict
      PROVE  [Drain!Next]_(Drain!vars)
  <2>1. CASE UNCHANGED auxVars
    BY <1>5, <2>1, Stutters DEF Fail, Conflict
  <2>2. CASE ~UNCHANGED auxVars
    <3>1. hmc.mm /\ hmc.pc \notin {"idle", "annotate", "complete"} /\ CloseGate(hmc.host)
      BY <1>5, <2>2 DEF Fail, Conflict, PassOK, BeforeGate
    <3>2. PICK h \in Hosts : /\ h = hmc.host
                            /\ stage[h] = "live" /\ leaving[h] /\ evacFin[h]
      BY <3>1 DEF PassOK
    <3>3. UNCHANGED <<hostVars, vmVars>>
      BY <1>5 DEF Fail, Conflict
    <3>4. QED  BY <3>1, <3>2, <3>3, GateCloses
  <2>3. QED  BY <2>1, <2>2
<1>6. ASSUME ReconcileConfigMap \/ AssignMaintenance \/ AssignNoSchedule
               \/ AssignOp \/ ReadHostTags \/ ClearMaintenance
               \/ ClearNoSchedule \/ ClearOp \/ OpsCleared \/ Annotate
               \/ Complete
      PROVE  [Drain!Next]_(Drain!vars)
  <2>1. UNCHANGED <<stage, leaving, evacFin, gated, loc, late>>
    BY <1>6 DEF ReconcileConfigMap, AssignMaintenance, AssignNoSchedule,
       AssignOp, ReadHostTags, ClearMaintenance, ClearNoSchedule, ClearOp,
       OpsCleared, Annotate, Complete
  <2>2. QED  BY <2>1, Stutters
<1>7. QED
  BY <1>1, <1>2, <1>3, <1>4, <1>5, <1>6 DEF HMC, PassStep

\* The MaasMachine controller: an empty host without system ID needs no gate;
\* a release takes the host.
LEMMA MaasMachineControllerRefines ==
  ASSUME IInv, MapInv, LateOK, MaasMachineController
  PROVE  [Drain!Next]_(Drain!vars)
<1> USE DEF IInv, TypeOK, MapInv
<1>0. ASSUME NEW h \in Hosts, AddEvacuationFinalizer(h)
      PROVE  [Drain!Next]_(Drain!vars)
  <2>1. homeBar' = homeBar
    BY <1>0 DEF AddEvacuationFinalizer, homeBar
  <2>2. CASE leaving[h] /\ ~gated[h]
    <3>1. phaseBar[h] = "open" /\ phaseBar' = [phaseBar EXCEPT ![h] = "draining"]
      BY <1>0, <2>2 DEF AddEvacuationFinalizer, phaseBar, DrainPhase
    <3>2. homeBar' = [v \in VMs |-> IF v \in {} THEN h ELSE homeBar[v]]
      BY <2>1 DEF homeBar
    <3>3. Drain!CloseGate(h)
      BY <3>1, <3>2 DEF Drain!CloseGate, phaseBar, homeBar
    <3>4. QED  BY <3>3 DEF Drain!Next
  <2>3. CASE ~(leaving[h] /\ ~gated[h])
    <3>1. phaseBar' = phaseBar
      BY <1>0, <2>3 DEF AddEvacuationFinalizer, phaseBar, DrainPhase
    <3>2. QED  BY <2>1, <3>1 DEF Drain!vars, phaseBar, homeBar
  <2>4. QED  BY <2>2, <2>3
<1>1. ASSUME NEW h \in Hosts, Provision(h)
      PROVE  [Drain!Next]_(Drain!vars)
  <2>1. phaseBar' = phaseBar /\ homeBar' = homeBar
    BY <1>1 DEF Provision, phaseBar, homeBar, DrainPhase
  <2>2. QED  BY <2>1 DEF Drain!vars, phaseBar, homeBar
<1>2. ASSUME NEW h \in Hosts, DropFinalizerWithoutID(h)
      PROVE  [Drain!Next]_(Drain!vars)
  <2>1. phaseBar[h] = "draining" \/ phaseBar[h] = "open"
    BY <1>2 DEF DropFinalizerWithoutID, DeletionsNest, phaseBar, DrainPhase
  <2>2. phaseBar' = [phaseBar EXCEPT ![h] = "open"] /\ homeBar' = homeBar
    BY <1>2 DEF DropFinalizerWithoutID, DeletionsNest, phaseBar, homeBar, DrainPhase
  <2>3. \A v \in VMs : homeBar[v] # h
    BY <1>2 DEF DropFinalizerWithoutID, GuestsOnLive, homeBar
  <2>4. phaseBar[h] = "draining" => Drain!OpenGate(h)
    BY <2>2, <2>3 DEF Drain!OpenGate, Drain!SettledOn, phaseBar, homeBar
  <2>5. phaseBar[h] = "open" => phaseBar' = phaseBar
    BY <2>2 DEF phaseBar
  <2>6. QED
    BY <2>1, <2>2, <2>4, <2>5 DEF Drain!Next, Drain!vars, phaseBar, homeBar
<1>3. ASSUME NEW h \in Hosts, Release(h)
      PROVE  [Drain!Next]_(Drain!vars)
  <2>1. phaseBar[h] = "open"
    BY <1>3 DEF Release, DeletionsNest, phaseBar, DrainPhase
  <2>2. phaseBar' = [phaseBar EXCEPT ![h] = "gone"]
    BY <1>3 DEF Release, DeletionsNest, phaseBar, DrainPhase
  <2>3. Guests(h) \subseteq late
    BY <1>3 DEF Release, HeldOrGated, LateOK
  <2>4. homeBar' = homeBar
    BY <1>3, <2>3 DEF Release, homeBar
  <2>5. Drain!Take(h)
    BY <2>1, <2>2, <2>4 DEF Drain!Take, phaseBar, homeBar
  <2>6. QED  BY <2>5 DEF Drain!Next
<1>4. ASSUME NEW h \in Hosts, Finalize(h)
      PROVE  [Drain!Next]_(Drain!vars)
  <2>1. phaseBar' = [phaseBar EXCEPT ![h] = "gone"] /\ homeBar' = homeBar
    BY <1>4 DEF Finalize, phaseBar, homeBar, DrainPhase
  <2>2. phaseBar[h] = "gone" \/ phaseBar[h] = "open"
    BY <1>4 DEF Finalize, DeletionsNest, phaseBar, DrainPhase
  <2>3. phaseBar[h] = "open" => Drain!Take(h)
    BY <2>1 DEF Drain!Take, phaseBar, homeBar
  <2>4. phaseBar[h] = "gone" => phaseBar' = phaseBar
    BY <2>1 DEF phaseBar
  <2>5. QED
    BY <2>1, <2>2, <2>3, <2>4 DEF Drain!Next, Drain!vars, phaseBar, homeBar
<1>5. QED
  BY <1>0, <1>1, <1>2, <1>3, <1>4 DEF MaasMachineController

\* The workload: a VM settles on a host, comes late to it, or leaves.
LEMMA WorkloadRefines ==
  ASSUME IInv, MapInv, Workload
  PROVE  [Drain!Next]_(Drain!vars)
<1> USE DEF IInv, TypeOK, MapInv
<1>1. ASSUME NEW v \in VMs, NEW h \in Hosts, SelectHost(v, h)
      PROVE  [Drain!Next]_(Drain!vars)
  BY <1>1, Stutters DEF SelectHost
<1>2. ASSUME NEW v \in VMs, AckReady(v)
      PROVE  [Drain!Next]_(Drain!vars)
  BY <1>2, Stutters DEF AckReady
<1>3. ASSUME NEW v \in VMs, RemoveVM(v)
      PROVE  [Drain!Next]_(Drain!vars)
  <2>1. phaseBar' = phaseBar
    BY <1>3 DEF RemoveVM, phaseBar, DrainPhase
  <2>2. homeBar' = [homeBar EXCEPT ![v] = NoHost]
    BY <1>3 DEF RemoveVM, homeBar
  <2>3. Drain!Leave(v)
    BY <2>1, <2>2 DEF Drain!Leave, phaseBar, homeBar
  <2>4. QED  BY <2>3 DEF Drain!Next
<1>4. ASSUME NEW v \in VMs, Compose(v)
      PROVE  [Drain!Next]_(Drain!vars)
  <2>1. PICK h \in Hosts : h = sel[v] /\ loc[v] = NoHost /\ v \notin late
    BY <1>4 DEF Compose, SelectedIsNew, LateOnGated
  <2>2. phaseBar' = phaseBar
    BY <1>4 DEF Compose, phaseBar, DrainPhase
  <2>3. CASE stage[h] = "live" /\ ~gated[h]
    <3>1. phaseBar[h] \in {"serving", "draining"}
      BY <2>1, <2>3 DEF HeldOrGated, phaseBar, DrainPhase
    <3>2. late' = late /\ loc' = [loc EXCEPT ![v] = h]
      BY <1>4, <2>1, <2>3 DEF Compose
    <3>3. homeBar[v] = NoHost
      BY <2>1 DEF homeBar
    <3>4. homeBar' = [homeBar EXCEPT ![v] = h]
      BY <2>1, <3>2 DEF homeBar
    <3>5. Drain!Settle(v, h)
      BY <2>2, <3>1, <3>3, <3>4 DEF Drain!Settle, phaseBar, homeBar
    <3>6. QED  BY <2>1, <3>5 DEF Drain!Next
  <2>4. CASE ~(stage[h] = "live" /\ ~gated[h])
    <3>1. homeBar' = homeBar
      BY <1>4, <2>1, <2>4 DEF Compose, homeBar
    <3>2. QED  BY <2>2, <3>1 DEF Drain!vars, phaseBar, homeBar
  <2>5. QED  BY <2>3, <2>4
<1>5. QED
  BY <1>1, <1>2, <1>3, <1>4 DEF Workload

\* The operators: a deletion starts a drain, or finds an empty host unheld.
LEMMA OperatorRefines ==
  ASSUME IInv, MapInv, Operator
  PROVE  [Drain!Next]_(Drain!vars)
<1> USE DEF IInv, TypeOK, MapInv
<1>1. ASSUME NEW h \in Hosts, DeleteHost(h)
      PROVE  [Drain!Next]_(Drain!vars)
  <2>1. phaseBar[h] = "serving" /\ homeBar' = homeBar
    BY <1>1 DEF DeleteHost, phaseBar, homeBar, DrainPhase
  <2>2. ~gated[h]
    BY <1>1 DEF DeleteHost, GateOK
  <2>3. CASE evacFin[h]
    <3>1. phaseBar' = [phaseBar EXCEPT ![h] = "draining"]
      BY <1>1, <2>2, <2>3 DEF DeleteHost, phaseBar, DrainPhase
    <3>2. Drain!StartDraining(h)
      BY <2>1, <3>1 DEF Drain!StartDraining, phaseBar, homeBar
    <3>3. QED  BY <3>2 DEF Drain!Next
  <2>4. CASE ~evacFin[h]
    <3>1. phaseBar' = [phaseBar EXCEPT ![h] = "open"]
      BY <1>1, <2>4 DEF DeleteHost, phaseBar, DrainPhase
    <3>2. stage[h] = "pending"
      BY <1>1, <2>4 DEF DeleteHost, HeldOrGated
    <3>3. \A v \in VMs : homeBar[v] # h
      BY <3>2 DEF GuestsOnLive, homeBar
    <3>4. Drain!OpenGate(h)
      BY <2>1, <3>1, <3>3 DEF Drain!OpenGate, Drain!SettledOn, phaseBar, homeBar
    <3>5. QED  BY <3>4 DEF Drain!Next
  <2>5. QED  BY <2>3, <2>4
<1>2. ASSUME NEW h \in Hosts, DeleteMaasMachine(h)
      PROVE  [Drain!Next]_(Drain!vars)
  BY <1>2, Stutters DEF DeleteMaasMachine
<1>3. ASSUME NEW h \in Hosts, RecreateHost(h)
      PROVE  [Drain!Next]_(Drain!vars)
  <2>1. phaseBar[h] = "gone" /\ homeBar' = homeBar
    BY <1>3 DEF RecreateHost, phaseBar, homeBar, DrainPhase
  <2>2. phaseBar' = [phaseBar EXCEPT ![h] = "serving"]
    BY <1>3 DEF RecreateHost, DeletionsNest, phaseBar, DrainPhase
  <2>3. Drain!Return(h)
    BY <2>1, <2>2 DEF Drain!Return, phaseBar, homeBar
  <2>4. QED  BY <2>3 DEF Drain!Next
<1>4. ASSUME NEW t \in Triggers \cup {NoTrigger}, SetTrigger(t)
      PROVE  [Drain!Next]_(Drain!vars)
  BY <1>4, Stutters DEF SetTrigger
<1>5. QED
  BY <1>1, <1>2, <1>3, <1>4 DEF Operator

-----------------------------------------------------------------------------

\* What the mapping needs holds in every reachable state.
LEMMA MapInvariance == Spec => []MapInv
<1>1. Init => MapInv
  BY DEF Init, MapInv, LateOnGated, GuestsOnLive, SelectedIsNew,
         DeletionsNest
<1>2. IInv /\ MapInv /\ [Next]_vars => MapInv'
  <2>1. IInv /\ MapInv /\ UNCHANGED vars => MapInv'
    BY DEF MapInv, LateOnGated, GuestsOnLive, SelectedIsNew, DeletionsNest
  <2>2. QED  BY <2>1, NextKeepsMapInv
<1>3. QED  BY <1>1, <1>2, Invariance, PTL DEF Spec

\* The drain of the controllers implements the abstract drain: a host is taken
\* away only through a gate that was opened while no VM was settled on it, in every
\* behaviour in which the lists with which hosts are found empty are complete.
THEOREM Refinement == Spec /\ [][ReadsComplete]_vars => ImplementsDrain
<1>1. Init => Drain!Init
  BY DEF Init, Drain!Init, DrainPhase
<1>2. IInv /\ MapInv /\ LateOK /\ [Next]_vars /\ [ReadsComplete]_vars
        => [Drain!Next]_(Drain!vars)
  <2>1. IInv /\ UNCHANGED vars => UNCHANGED Drain!vars
    BY Stutters
  <2>2. QED
    BY <2>1, HMCRefines, MaasMachineControllerRefines, WorkloadRefines,
       OperatorRefines DEF Next
<1>3. QED
  BY <1>1, <1>2, MapInvariance, Invariance, GuestsAreLate, PTL
     DEF Spec, ImplementsDrain, Drain!Spec

\* In these behaviours no VM is settled on a host whose gate is open, or that MAAS
\* has taken back.
THEOREM TakenHostsAreClear ==
  Spec /\ [][ReadsComplete]_vars => []Drain!NoSettledVMIsTaken
<1>1. IInv /\ MapInv /\ LateOK => Drain!NoSettledVMIsTaken
  BY DEF IInv, TypeOK, MapInv, GuestsOnLive, HeldOrGated, LateOK,
         Drain!NoSettledVMIsTaken, Drain!SettledOn, DrainPhase
<1>2. QED  BY <1>1, MapInvariance, Invariance, GuestsAreLate, PTL
=============================================================================
