----------------------- MODULE HostMaintenanceProofs -----------------------
(***************************************************************************)
(* Proofs about HostMaintenance for every set of hosts and VMs and every   *)
(* bound: type correctness, the safety of the drain, that placement stays  *)
(* frozen while a host drains, and that tags and session agree as long as  *)
(* hosts are evacuated one after the other.                                *)
(***************************************************************************)
EXTENDS HostMaintenance, FiniteSetTheorems, TLAPS

-----------------------------------------------------------------------------
(* The inductive invariant, in named parts.                                *)

\* An active session has an identifier and is counted as the one session.
SessionOK ==
  session.status = "Active" =>
    session.opID \in OpIDs /\ session.activeSessions = 1

BeforeGate == {"assignMaintenance", "assignNoSchedule", "assignOp"}

BehindGate == {"wlcReady", "readTags", "clearMaintenance", "clearNoSchedule",
               "clearOps", "finalizer"}

\* A pass has a host and an operation; a pass for a MaasMachine that has not yet
\* removed the finalizer works on a live host that is being deleted and held.
PassOK ==
  /\ hmc.pc = "idle" => ~hmc.mm
  /\ hmc.pc # "idle" => hmc.host \in Hosts /\ hmc.op \in OpIDs
  /\ hmc.pc \notin BeforeGate \cup {"idle"} => hmc.mm
  /\ hmc.mm /\ hmc.pc \notin {"annotate", "complete"} =>
       stage[hmc.host] = "live" /\ leaving[hmc.host] /\ evacFin[hmc.host]

\* A live host is held, or its finalizer was removed after it was found empty.
HeldOrGated ==
  \A h \in Hosts : stage[h] = "live" => evacFin[h] \/ (leaving[h] /\ gated[h])

\* A host counts as found empty only while it is being deleted; a pass closes the
\* gate of its host when it begins, and has opened it when it is behind it.
GateOK ==
  /\ \A h \in Hosts : gated[h] => leaving[h]
  /\ hmc.mm /\ hmc.pc \in BeforeGate \cup {"hostEmpty"} => ~gated[hmc.host]
  /\ hmc.pc \in BehindGate => gated[hmc.host]

\* How far the tags of the host of the pass are.
TagsOK ==
  hmc.mm =>
    /\ hmc.pc = "assignNoSchedule" => TagMaintenance \in tags[hmc.host]
    /\ hmc.pc \in {"assignOp", "hostEmpty", "wlcReady", "readTags",
                  "clearMaintenance"}
         => BlockingTags \subseteq tags[hmc.host]
    /\ hmc.pc \in {"clearMaintenance", "clearNoSchedule", "clearOps"}
         => tags[hmc.host] \cap OpIDs \subseteq hmc.todo
    /\ hmc.pc = "clearNoSchedule" =>
         /\ TagMaintenance \notin tags[hmc.host]
         /\ TagNoSchedule \in tags[hmc.host]
    /\ hmc.pc = "clearOps" => tags[hmc.host] \cap BlockingTags = {}
    /\ hmc.pc = "finalizer" => tags[hmc.host] = {}

IInv ==
  TypeOK /\ SessionOK /\ PassOK /\ HeldOrGated /\ GateOK /\ TagsOK

-----------------------------------------------------------------------------
(* Facts the steps share.                                                  *)

USE SessionAssumption, HostMaintenanceAssumption
    DEF hostVars, vmVars, cmVars, auxVars, vars, Guests, Tags, BlockingTags,
        BeforeGate, BehindGate

\* The passes the steps of the worker lead to are passes.
LEMMA PassTypes ==
  /\ Idle \in Pass
  /\ \A mm \in BOOLEAN, h \in Hosts, op \in OpIDs :
       [pc |-> "assignMaintenance", mm |-> mm, host |-> h, op |-> op,
        todo |-> {}, fresh |-> mm] \in Pass
  /\ \A p \in Pass, pc \in PassSteps : [p EXCEPT !.pc = pc] \in Pass
  /\ \A p \in Pass, pc \in PassSteps, todo \in SUBSET OpIDs :
       [p EXCEPT !.pc = pc, !.todo = todo] \in Pass
BY DEF Idle, Pass, PassSteps

\* A write of the MaasMachine by another leaves the pass where it is.
LEMMA OutdateType ==
  ASSUME hmc \in Pass, NEW h \in Hosts, Outdate(h)
  PROVE  /\ hmc' \in Pass
         /\ hmc'.pc = hmc.pc /\ hmc'.mm = hmc.mm /\ hmc'.host = hmc.host
         /\ hmc'.op = hmc.op /\ hmc'.todo = hmc.todo
BY DEF Outdate, Pass

\* StartSession leaves an active session with an identifier in the ConfigMap.
LEMMA SessionTypes ==
  ASSUME session \in Session, SessionOK, NEW h \in Hosts \cup {NoHost},
         NEW s \in SessionsFor(h)
  PROVE  /\ s \in Session
         /\ s.status = "Active" /\ s.opID \in OpIDs /\ s.activeSessions = 1
BY DEF SessionsFor, NewOps, StartSession, HasActiveSession, Session, Status, SessionOK

\* CompleteSession leaves no active session.
LEMMA CompletedSessionType ==
  ASSUME NEW s \in Session
  PROVE  CompleteSession(s) \in Session /\ CompleteSession(s).status # "Active"
<1>1. CASE s.status = "Completed"
  BY <1>1 DEF CompleteSession
<1>2. CASE s.status # "Completed"
  <2>1. CompleteSession(s) = [opID |-> s.opID, status |-> "Completed",
                              currentHost |-> NoHost, activeSessions |-> 0]
    BY <1>2 DEF CompleteSession, Session
  <2>2. QED  BY <2>1 DEF Session, Status
<1>3. QED  BY <1>1, <1>2

-----------------------------------------------------------------------------
(* Every step keeps the invariant.  First the steps of the HMC worker.      *)

\* A pass begins: the gate of its host closes.
LEMMA ReconcileMaasMachineKeepsIInv ==
  ASSUME IInv, NEW h \in Hosts, ReconcileMaasMachine(h)
  PROVE  IInv'
<1> USE DEF IInv, TypeOK, ReconcileMaasMachine, CloseGate
<1>1. /\ session' \in Session
      /\ session'.status = "Active" /\ session'.opID \in OpIDs
      /\ session'.activeSessions = 1
  BY SessionTypes DEF SessionOK
<1>2. TypeOK' /\ SessionOK'
  BY <1>1, PassTypes DEF SessionOK
<1>3. PassOK'
  BY <1>1 DEF PassOK
<1>4. HeldOrGated' /\ GateOK'
  BY DEF HeldOrGated, GateOK
<1>5. TagsOK'
  BY DEF TagsOK
<1>6. QED  BY <1>2, <1>3, <1>4, <1>5

\* ReconcileConfigMap keeps the invariant.
LEMMA ReconcileConfigMapKeepsIInv ==
  ASSUME IInv, ReconcileConfigMap
  PROVE  IInv'
<1> USE DEF IInv, TypeOK
<1>1. trigger # NoTrigger => trigger \in Hosts \cup {NoHost}
  OBVIOUS
<1>2. session' \in Session /\ SessionOK'
  BY <1>1, SessionTypes DEF SessionOK, ReconcileConfigMap
<1>3. \/ hmc' = Idle
      \/ /\ session'.currentHost \in Hosts /\ session'.opID \in OpIDs
         /\ hmc' = [pc |-> "assignMaintenance", mm |-> FALSE,
                    host |-> session'.currentHost, op |-> session'.opID,
                    todo |-> {}, fresh |-> FALSE]
  BY <1>2 DEF ReconcileConfigMap, Session
<1>4. TypeOK'
  BY <1>2, <1>3, PassTypes DEF ReconcileConfigMap
<1>5. PassOK'
  BY <1>3 DEF PassOK, Idle
<1>6. HeldOrGated' /\ GateOK'
  BY <1>3, hmc.pc = "idle"
     DEF HeldOrGated, GateOK, Idle, ReconcileConfigMap
<1>7. TagsOK'
  BY <1>3 DEF TagsOK, Idle
<1>8. QED  BY <1>2, <1>4, <1>5, <1>6, <1>7

\* AssignMaintenance keeps the invariant.
LEMMA AssignMaintenanceKeepsIInv ==
  ASSUME IInv, AssignMaintenance
  PROVE  IInv'
<1> USE DEF IInv, TypeOK, AssignMaintenance, AssignTag, Goto
<1>1. TypeOK'
  BY DEF PassOK, PassSteps, Pass, Idle
<1>2. SessionOK' /\ PassOK'
  BY DEF SessionOK, PassOK, Pass, Idle
<1>3. HeldOrGated' /\ GateOK'
  BY DEF PassOK, HeldOrGated, GateOK, Pass, Idle
<1>4. TagsOK'
  BY DEF PassOK, TagsOK, Pass, Idle
<1>5. QED  BY <1>1, <1>2, <1>3, <1>4

\* AssignNoSchedule keeps the invariant.
LEMMA AssignNoScheduleKeepsIInv ==
  ASSUME IInv, AssignNoSchedule
  PROVE  IInv'
<1> USE DEF IInv, TypeOK, AssignNoSchedule, AssignTag, Goto
<1>1. TypeOK'
  BY DEF PassOK, PassSteps, Pass, Idle
<1>2. SessionOK' /\ PassOK'
  BY DEF SessionOK, PassOK, Pass, Idle
<1>3. HeldOrGated' /\ GateOK'
  BY DEF PassOK, HeldOrGated, GateOK, Pass, Idle
<1>4. TagsOK'
  BY DEF PassOK, TagsOK, Pass, Idle
<1>5. QED  BY <1>1, <1>2, <1>3, <1>4

\* AssignOp keeps the invariant.
LEMMA AssignOpKeepsIInv ==
  ASSUME IInv, AssignOp
  PROVE  IInv'
<1> USE DEF IInv, TypeOK, AssignOp, AssignTag
<1>1. TypeOK'
  BY DEF PassOK, PassSteps, Pass, Idle
<1>2. SessionOK' /\ PassOK'
  BY DEF SessionOK, PassOK, Pass, Idle
<1>3. HeldOrGated' /\ GateOK'
  BY DEF PassOK, HeldOrGated, GateOK, Pass, Idle
<1>4. TagsOK'
  BY DEF PassOK, TagsOK, Pass, Idle
<1>5. QED  BY <1>1, <1>2, <1>3, <1>4

\* The gate opens when all the VMs of the host are listed and there is none.
LEMMA CheckHostEmptyKeepsIInv ==
  ASSUME IInv, CheckHostEmpty
  PROVE  IInv'
<1> USE DEF IInv, TypeOK, CheckHostEmpty, ListHostVMs
<1>1. TypeOK'
  <2>1. hmc' = Idle \/ hmc' = [hmc EXCEPT !.pc = "wlcReady"]
    OBVIOUS
  <2>2. hmc' \in Pass
    BY ONLY <2>1, hmc \in Pass, PassTypes DEF PassSteps
  <2>3. gated' \in [Hosts -> BOOLEAN] /\ late' \in SUBSET VMs
    OBVIOUS
  <2>4. QED  BY <2>2, <2>3
<1>2. SessionOK' /\ PassOK'
  BY DEF SessionOK, PassOK, Pass, Idle
<1>3. HeldOrGated' /\ GateOK'
  BY DEF PassOK, HeldOrGated, GateOK, Pass, Idle
<1>4. TagsOK'
  BY DEF PassOK, TagsOK, Pass, Idle
<1>5. QED  BY <1>1, <1>2, <1>3, <1>4

\* CheckWLCReadyTags keeps the invariant.
LEMMA CheckWLCReadyTagsKeepsIInv ==
  ASSUME IInv, CheckWLCReadyTags
  PROVE  IInv'
<1> USE DEF IInv, TypeOK, CheckWLCReadyTags, ListHostVMs, CloseGate
<1>1. TypeOK'
  <2>1. hmc' = Idle \/ hmc' = [hmc EXCEPT !.pc = "readTags"]
    OBVIOUS
  <2>2. hmc' \in Pass
    BY ONLY <2>1, hmc \in Pass, PassTypes DEF PassSteps
  <2>3. gated' \in [Hosts -> BOOLEAN] /\ late' \in SUBSET VMs
    OBVIOUS
  <2>4. QED  BY <2>2, <2>3
<1>2. SessionOK' /\ PassOK'
  BY DEF SessionOK, PassOK, Pass, Idle
<1>3. HeldOrGated' /\ GateOK'
  BY DEF PassOK, HeldOrGated, GateOK, Pass, Idle
<1>4. TagsOK'
  BY DEF PassOK, TagsOK, Pass, Idle
<1>5. QED  BY <1>1, <1>2, <1>3, <1>4

\* ReadHostTags keeps the invariant.
LEMMA ReadHostTagsKeepsIInv ==
  ASSUME IInv, ReadHostTags
  PROVE  IInv'
<1> USE DEF IInv, TypeOK, ReadHostTags
<1>1. TypeOK'
  BY PassTypes DEF PassOK, PassSteps
<1>2. SessionOK' /\ PassOK'
  BY DEF SessionOK, PassOK, Pass, Idle
<1>3. HeldOrGated' /\ GateOK'
  BY DEF PassOK, HeldOrGated, GateOK, Pass, Idle
<1>4. TagsOK'
  BY DEF PassOK, TagsOK, Pass, Idle
<1>5. QED  BY <1>1, <1>2, <1>3, <1>4

\* ClearMaintenance keeps the invariant.
LEMMA ClearMaintenanceKeepsIInv ==
  ASSUME IInv, ClearMaintenance
  PROVE  IInv'
<1> USE DEF IInv, TypeOK, ClearMaintenance, UnassignTag, Goto
<1>1. TypeOK'
  BY DEF PassOK, PassSteps, Pass, Idle
<1>2. SessionOK' /\ PassOK'
  BY DEF SessionOK, PassOK, Pass, Idle
<1>3. HeldOrGated' /\ GateOK'
  BY DEF PassOK, HeldOrGated, GateOK, Pass, Idle
<1>4. TagsOK'
  BY DEF PassOK, TagsOK, Pass, Idle
<1>5. QED  BY <1>1, <1>2, <1>3, <1>4

\* ClearNoSchedule keeps the invariant.
LEMMA ClearNoScheduleKeepsIInv ==
  ASSUME IInv, ClearNoSchedule
  PROVE  IInv'
<1> USE DEF IInv, TypeOK, ClearNoSchedule, UnassignTag, Goto
<1>1. TypeOK'
  BY DEF PassOK, PassSteps, Pass, Idle
<1>2. SessionOK' /\ PassOK'
  BY DEF SessionOK, PassOK, Pass, Idle
<1>3. HeldOrGated' /\ GateOK'
  BY DEF PassOK, HeldOrGated, GateOK, Pass, Idle
<1>4. TagsOK'
  BY DEF PassOK, TagsOK, Pass, Idle
<1>5. QED  BY <1>1, <1>2, <1>3, <1>4

\* ClearOp keeps the invariant.
LEMMA ClearOpKeepsIInv ==
  ASSUME IInv, ClearOp
  PROVE  IInv'
<1> USE DEF IInv, TypeOK, ClearOp, UnassignTag
<1>1. TypeOK'
  BY DEF PassOK, PassSteps, Pass, Idle
<1>2. SessionOK' /\ PassOK'
  BY DEF SessionOK, PassOK, Pass, Idle
<1>3. HeldOrGated' /\ GateOK'
  BY DEF PassOK, HeldOrGated, GateOK, Pass, Idle
<1>4. TagsOK'
  BY DEF PassOK, TagsOK, Pass, Idle
<1>5. QED  BY <1>1, <1>2, <1>3, <1>4

\* OpsCleared keeps the invariant.
LEMMA OpsClearedKeepsIInv ==
  ASSUME IInv, OpsCleared
  PROVE  IInv'
<1> USE DEF IInv, TypeOK, OpsCleared, Goto
<1>1. TypeOK'
  BY DEF PassOK, PassSteps, Pass, Idle
<1>2. SessionOK' /\ PassOK'
  BY DEF SessionOK, PassOK, Pass, Idle
<1>3. HeldOrGated' /\ GateOK'
  BY DEF PassOK, HeldOrGated, GateOK, Pass, Idle
<1>4. TagsOK'
  BY DEF PassOK, TagsOK, Pass, Idle
<1>5. QED  BY <1>1, <1>2, <1>3, <1>4

\* RemoveFinalizer keeps the invariant.
LEMMA RemoveFinalizerKeepsIInv ==
  ASSUME IInv, RemoveFinalizer
  PROVE  IInv'
<1> USE DEF IInv, TypeOK, RemoveFinalizer, Goto
<1>1. TypeOK'
  BY DEF PassOK, PassSteps, Pass, Idle
<1>2. SessionOK' /\ PassOK'
  BY DEF SessionOK, PassOK, Pass, Idle
<1>3. HeldOrGated' /\ GateOK'
  BY DEF PassOK, HeldOrGated, GateOK, Pass, Idle
<1>4. TagsOK'
  BY DEF PassOK, TagsOK, Pass, Idle
<1>5. QED  BY <1>1, <1>2, <1>3, <1>4

\* A pass whose update is refused closes the gate again.
LEMMA ConflictKeepsIInv ==
  ASSUME IInv, Conflict
  PROVE  IInv'
<1> USE DEF IInv, TypeOK, Conflict, CloseGate
<1>1. TypeOK'
  BY PassTypes
<1>2. SessionOK' /\ PassOK'
  BY DEF SessionOK, PassOK, Idle
<1>3. HeldOrGated' /\ GateOK'
  BY DEF PassOK, HeldOrGated, GateOK, Idle
<1>4. TagsOK'
  BY DEF TagsOK, Idle
<1>5. QED  BY <1>1, <1>2, <1>3, <1>4

\* Annotate keeps the invariant.
LEMMA AnnotateKeepsIInv ==
  ASSUME IInv, Annotate
  PROVE  IInv'
<1> USE DEF IInv, TypeOK, Annotate, Goto
<1>1. TypeOK'
  <2>1. hmc' \in Pass
    BY PassTypes DEF PassSteps
  <2>2. done' \in [Hosts -> BOOLEAN]
    OBVIOUS
  <2>3. QED  BY <2>1, <2>2
<1>2. SessionOK' /\ PassOK'
  BY DEF SessionOK, PassOK, Pass, Idle
<1>3. HeldOrGated' /\ GateOK'
  BY DEF PassOK, HeldOrGated, GateOK, Pass, Idle
<1>4. TagsOK'
  BY DEF PassOK, TagsOK, Pass, Idle
<1>5. QED  BY <1>1, <1>2, <1>3, <1>4

\* Complete keeps the invariant.
LEMMA CompleteKeepsIInv ==
  ASSUME IInv, Complete
  PROVE  IInv'
<1> USE DEF IInv, TypeOK, Complete
<1>1. session' \in Session /\ SessionOK'
  BY CompletedSessionType DEF SessionOK
<1>2. TypeOK'
  BY <1>1, PassTypes
<1>3. PassOK' /\ HeldOrGated' /\ GateOK'
  BY DEF PassOK, HeldOrGated, GateOK, Idle
<1>4. TagsOK'
  BY DEF TagsOK, Idle
<1>5. QED  BY <1>1, <1>2, <1>3, <1>4

\* Fail keeps the invariant.
LEMMA FailKeepsIInv ==
  ASSUME IInv, Fail
  PROVE  IInv'
<1> USE DEF IInv, TypeOK, Fail, CloseGate
<1>1. TypeOK'
  <2>1. hmc' \in Pass
    BY PassTypes
  <2>2. faults' \in 0..MaxFaults
    OBVIOUS
  <2>3. gated' \in [Hosts -> BOOLEAN] /\ late' \in SUBSET VMs
    OBVIOUS
  <2>4. QED  BY <2>1, <2>2, <2>3
<1>2. SessionOK' /\ PassOK'
  BY DEF SessionOK, PassOK, Pass, Idle
<1>3. HeldOrGated' /\ GateOK'
  BY DEF PassOK, HeldOrGated, GateOK, Pass, Idle
<1>4. TagsOK'
  BY DEF PassOK, TagsOK, Pass, Idle
<1>5. QED  BY <1>1, <1>2, <1>3, <1>4

\* The steps of the MaasMachine controller.
LEMMA MaasMachineControllerKeepsIInv ==
  ASSUME IInv, MaasMachineController
  PROVE  IInv'
<1> USE DEF IInv, TypeOK
<1>1. ASSUME NEW h \in Hosts, AddEvacuationFinalizer(h) PROVE IInv'
  <2> USE <1>1, OutdateType DEF AddEvacuationFinalizer
  <2>1. TypeOK'
    BY DEF PassOK, BlockingTags
  <2>2. SessionOK' /\ PassOK' /\ HeldOrGated'
    BY DEF SessionOK, PassOK, HeldOrGated, GateOK
  <2>3. GateOK'
    BY DEF PassOK, HeldOrGated, GateOK
  <2>4. TagsOK'
    BY DEF PassOK, TagsOK
  <2>5. QED  BY <2>1, <2>2, <2>3, <2>4
<1>2. ASSUME NEW h \in Hosts, Provision(h) PROVE IInv'
  <2> USE <1>2 DEF Provision
  <2>1. TypeOK'
    BY DEF PassOK, BlockingTags
  <2>2. SessionOK' /\ PassOK' /\ HeldOrGated'
    BY DEF SessionOK, PassOK, HeldOrGated, GateOK
  <2>3. GateOK'
    BY DEF PassOK, HeldOrGated, GateOK
  <2>4. TagsOK'
    BY DEF PassOK, TagsOK
  <2>5. QED  BY <2>1, <2>2, <2>3, <2>4
<1>3. ASSUME NEW h \in Hosts, DropFinalizerWithoutID(h) PROVE IInv'
  <2> USE <1>3 DEF DropFinalizerWithoutID
  <2>1. TypeOK'
    BY DEF PassOK, BlockingTags
  <2>2. SessionOK' /\ PassOK' /\ HeldOrGated'
    BY DEF SessionOK, PassOK, HeldOrGated, GateOK
  <2>3. GateOK'
    BY DEF PassOK, HeldOrGated, GateOK
  <2>4. TagsOK'
    BY DEF PassOK, TagsOK
  <2>5. QED  BY <2>1, <2>2, <2>3, <2>4
<1>4. ASSUME NEW h \in Hosts, Release(h) PROVE IInv'
  <2> USE <1>4 DEF Release
  <2>1. TypeOK'
    BY DEF PassOK, BlockingTags
  <2>2. SessionOK' /\ PassOK' /\ HeldOrGated'
    BY DEF SessionOK, PassOK, HeldOrGated, GateOK
  <2>3. GateOK'
    BY DEF PassOK, HeldOrGated, GateOK
  <2>4. TagsOK'
    BY DEF PassOK, TagsOK
  <2>5. QED  BY <2>1, <2>2, <2>3, <2>4
<1>5. ASSUME NEW h \in Hosts, Finalize(h) PROVE IInv'
  <2> USE <1>5, OutdateType DEF Finalize
  <2>1. TypeOK'
    BY DEF PassOK, BlockingTags
  <2>2. SessionOK' /\ PassOK' /\ HeldOrGated'
    BY DEF SessionOK, PassOK, HeldOrGated, GateOK
  <2>3. GateOK'
    BY DEF PassOK, HeldOrGated, GateOK
  <2>4. TagsOK'
    BY DEF PassOK, TagsOK
  <2>5. QED  BY <2>1, <2>2, <2>3, <2>4
<1>6. QED
  BY <1>1, <1>2, <1>3, <1>4, <1>5 DEF MaasMachineController

\* The steps of the workload.
LEMMA WorkloadKeepsIInv ==
  ASSUME IInv, Workload
  PROVE  IInv'
<1> USE DEF IInv, TypeOK
<1>1. ASSUME NEW v \in VMs, NEW h \in Hosts, SelectHost(v, h) PROVE IInv'
  <2> USE <1>1 DEF SelectHost
  <2>1. TypeOK'
    BY DEF PassOK, BlockingTags
  <2>2. SessionOK' /\ PassOK' /\ HeldOrGated'
    BY DEF SessionOK, PassOK, HeldOrGated, GateOK
  <2>3. GateOK'
    BY DEF PassOK, HeldOrGated, GateOK
  <2>4. TagsOK'
    BY DEF PassOK, TagsOK
  <2>5. QED  BY <2>1, <2>2, <2>3, <2>4
<1>2. ASSUME NEW v \in VMs, Compose(v) PROVE IInv'
  <2> USE <1>2 DEF Compose
  <2>1. TypeOK'
    BY DEF PassOK, BlockingTags
  <2>2. SessionOK' /\ PassOK' /\ HeldOrGated'
    BY DEF SessionOK, PassOK, HeldOrGated, GateOK
  <2>3. GateOK'
    BY DEF PassOK, HeldOrGated, GateOK
  <2>4. TagsOK'
    BY DEF PassOK, TagsOK
  <2>5. QED  BY <2>1, <2>2, <2>3, <2>4
<1>3. ASSUME NEW v \in VMs, AckReady(v) PROVE IInv'
  <2> USE <1>3 DEF AckReady
  <2>1. TypeOK'
    BY DEF PassOK, BlockingTags
  <2>2. SessionOK' /\ PassOK' /\ HeldOrGated'
    BY DEF SessionOK, PassOK, HeldOrGated, GateOK
  <2>3. GateOK'
    BY DEF PassOK, HeldOrGated, GateOK
  <2>4. TagsOK'
    BY DEF PassOK, TagsOK
  <2>5. QED  BY <2>1, <2>2, <2>3, <2>4
<1>4. ASSUME NEW v \in VMs, RemoveVM(v) PROVE IInv'
  <2> USE <1>4 DEF RemoveVM
  <2>1. TypeOK'
    BY DEF PassOK, BlockingTags
  <2>2. SessionOK' /\ PassOK' /\ HeldOrGated'
    BY DEF SessionOK, PassOK, HeldOrGated, GateOK
  <2>3. GateOK'
    BY DEF PassOK, HeldOrGated, GateOK
  <2>4. TagsOK'
    BY DEF PassOK, TagsOK
  <2>5. QED  BY <2>1, <2>2, <2>3, <2>4
<1>5. QED
  BY <1>1, <1>2, <1>3, <1>4 DEF Workload

\* The steps of the operators.
LEMMA OperatorKeepsIInv ==
  ASSUME IInv, Operator
  PROVE  IInv'
<1> USE DEF IInv, TypeOK
<1>1. ASSUME NEW h \in Hosts, DeleteHost(h) PROVE IInv'
  <2> USE <1>1 DEF DeleteHost
  <2>1. TypeOK'
    BY DEF PassOK, BlockingTags
  <2>2. SessionOK' /\ PassOK' /\ HeldOrGated'
    BY DEF SessionOK, PassOK, HeldOrGated, GateOK
  <2>3. GateOK'
    BY DEF PassOK, HeldOrGated, GateOK
  <2>4. TagsOK'
    BY DEF PassOK, TagsOK
  <2>5. QED  BY <2>1, <2>2, <2>3, <2>4
<1>2. ASSUME NEW h \in Hosts, DeleteMaasMachine(h) PROVE IInv'
  <2> USE <1>2, OutdateType DEF DeleteMaasMachine
  <2>1. TypeOK'
    BY DEF PassOK, BlockingTags
  <2>2. SessionOK' /\ PassOK' /\ HeldOrGated'
    BY DEF SessionOK, PassOK, HeldOrGated, GateOK
  <2>3. GateOK'
    BY DEF PassOK, HeldOrGated, GateOK
  <2>4. TagsOK'
    BY DEF PassOK, TagsOK
  <2>5. QED  BY <2>1, <2>2, <2>3, <2>4
<1>3. ASSUME NEW h \in Hosts, RecreateHost(h) PROVE IInv'
  <2> USE <1>3 DEF RecreateHost
  <2>1. TypeOK'
    BY DEF PassOK, BlockingTags
  <2>2. SessionOK' /\ PassOK' /\ HeldOrGated'
    BY DEF SessionOK, PassOK, HeldOrGated, GateOK
  <2>3. GateOK'
    BY DEF PassOK, HeldOrGated, GateOK
  <2>4. TagsOK'
    BY DEF PassOK, TagsOK
  <2>5. QED  BY <2>1, <2>2, <2>3, <2>4
<1>4. ASSUME NEW t \in Triggers \cup {NoTrigger}, SetTrigger(t) PROVE IInv'
  <2> USE <1>4 DEF SetTrigger
  <2>1. TypeOK'
    BY DEF PassOK, BlockingTags
  <2>2. SessionOK' /\ PassOK' /\ HeldOrGated'
    BY DEF SessionOK, PassOK, HeldOrGated, GateOK
  <2>3. GateOK'
    BY DEF PassOK, HeldOrGated, GateOK
  <2>4. TagsOK'
    BY DEF PassOK, TagsOK
  <2>5. QED  BY <2>1, <2>2, <2>3, <2>4
<1>5. QED
  BY <1>1, <1>2, <1>3, <1>4 DEF Operator

\* PassStep keeps the invariant.
LEMMA PassStepKeepsIInv ==
  ASSUME IInv, PassStep
  PROVE  IInv'
BY AssignMaintenanceKeepsIInv, AssignNoScheduleKeepsIInv, AssignOpKeepsIInv,
   CheckHostEmptyKeepsIInv, CheckWLCReadyTagsKeepsIInv, ReadHostTagsKeepsIInv,
   ClearMaintenanceKeepsIInv, ClearNoScheduleKeepsIInv, ClearOpKeepsIInv,
   OpsClearedKeepsIInv, RemoveFinalizerKeepsIInv, ConflictKeepsIInv,
   AnnotateKeepsIInv, CompleteKeepsIInv DEF PassStep

\* The initial states satisfy the invariant, and every step keeps it.
LEMMA InitIInv == Init => IInv
<1> SUFFICES ASSUME Init PROVE IInv
  OBVIOUS
<1> USE DEF Init
<1>1. TypeOK
  <2>1. EmptySession \in Session
    BY DEF EmptySession, Session, Status
  <2>2. 0 \in 0..MaxFaults
    OBVIOUS
  <2>3. QED  BY <2>1, <2>2, PassTypes DEF TypeOK
<1>2. SessionOK /\ PassOK /\ HeldOrGated /\ GateOK /\ TagsOK
  BY DEF EmptySession, Idle, SessionOK, PassOK, HeldOrGated, GateOK,
         TagsOK
<1>3. QED  BY <1>1, <1>2 DEF IInv

\* Next keeps the invariant.
LEMMA NextKeepsIInv == IInv /\ [Next]_vars => IInv'
<1> SUFFICES ASSUME IInv, [Next]_vars PROVE IInv'
  OBVIOUS
<1>1. CASE HMC
  BY <1>1, ReconcileMaasMachineKeepsIInv, ReconcileConfigMapKeepsIInv,
     PassStepKeepsIInv DEF HMC
<1>2. CASE Fail
  BY <1>2, FailKeepsIInv
<1>3. CASE MaasMachineController
  BY <1>3, MaasMachineControllerKeepsIInv
<1>4. CASE Workload
  BY <1>4, WorkloadKeepsIInv
<1>5. CASE Operator
  BY <1>5, OperatorKeepsIInv
<1>6. CASE UNCHANGED vars
  BY <1>6 DEF IInv, TypeOK, SessionOK, PassOK, HeldOrGated, GateOK,
              TagsOK
<1>7. QED  BY <1>1, <1>2, <1>3, <1>4, <1>5, <1>6 DEF Next

-----------------------------------------------------------------------------
(* Host after host.                                                        *)

\* The MaasMachine waits for its evacuation.
Held(h) == stage[h] = "live" /\ leaving[h] /\ evacFin[h]

\* The pass has taken the finalizer off, and has the session left to complete.
HandedBack == hmc.pc \in {"annotate", "complete"}

\* No session, no pass and no tag; or the active session and the running pass are
\* those of one host, which is held until its tags are off.
Serial ==
  \/ /\ session.status # "Active" /\ hmc.pc = "idle"
     /\ \A h \in Hosts : tags[h] = {}
  \/ LET h == session.currentHost IN
     /\ session.status = "Active" /\ h \in Hosts
     /\ \A g \in Hosts \ {h} : tags[g] = {}
     /\ tags[h] \cap OpIDs \subseteq {session.opID}
     /\ hmc.pc # "idle" => hmc.host = h /\ hmc.op = session.opID
     /\ IF HandedBack THEN tags[h] = {} ELSE Held(h)

\* When hosts are deleted one at a time, no other is being deleted.
LEMMA OneDeleted ==
  ASSUME Cardinality({h \in Hosts : leaving[h]}) <= 1,
         NEW g \in Hosts, NEW h \in Hosts, leaving[g], leaving[h]
  PROVE  g = h
<1> DEFINE D == {k \in Hosts : leaving[k]}
<1>1. IsFiniteSet(D) /\ Cardinality(D) \in Nat
  BY FS_Subset, FS_CardinalityType
<1>2. Cardinality(D) = 0 \/ Cardinality(D) = 1
  BY <1>1
<1>3. g \in D /\ h \in D
  OBVIOUS
<1>4. D # {}
  BY <1>3
<1>5. Cardinality(D) # 0
  BY <1>1, <1>4, FS_EmptySet
<1>6. \E x : D = {x}
  BY <1>1, <1>2, <1>5, FS_Singleton
<1>7. QED  BY <1>3, <1>6

\* A pass begins, with the session there is or one it starts for its own host.
LEMMA ReconcileKeepsSerial ==
  ASSUME IInv, Serial, Undisturbed, Undisturbed',
         ReconcileConfigMap \/ \E h \in Hosts : ReconcileMaasMachine(h)
  PROVE  Serial'
<1>1. CASE ReconcileConfigMap
  <2>1. UNCHANGED <<stage, leaving, evacFin, tags, session>> /\ hmc.pc = "idle"
    BY <1>1 DEF ReconcileConfigMap, Undisturbed
  <2>2. \/ hmc'.pc = "idle"
        \/ /\ hmc'.pc = "assignMaintenance" /\ session.status = "Active"
           /\ hmc'.host = session.currentHost /\ hmc'.op = session.opID
    BY <1>1, <2>1 DEF ReconcileConfigMap, Idle
  <2>3. QED  BY <2>1, <2>2 DEF Serial, HandedBack, Held
<1>2. ASSUME NEW h \in Hosts, ReconcileMaasMachine(h)
      PROVE  Serial'
  <2>1. /\ UNCHANGED <<stage, leaving, evacFin, tags>> /\ hmc.pc = "idle"
        /\ Held(h)
        /\ hmc'.pc = "assignMaintenance" /\ hmc'.host = h /\ hmc'.op = session'.opID
    BY <1>2 DEF ReconcileMaasMachine, Held
  <2>2. CASE session.status = "Active"
    <3>1. session' = session
      BY <1>2, <2>2 DEF ReconcileMaasMachine, IInv, SessionOK
    <3>2. session.currentHost = h
      BY <2>1, <2>2, OneDeleted DEF Serial, HandedBack, Held, Undisturbed
    <3>3. QED  BY <2>1, <2>2, <3>1, <3>2 DEF Serial, HandedBack, Held
  <2>3. CASE session.status # "Active"
    <3>1. session'.status = "Active" /\ session'.currentHost = h
      BY <1>2, <2>3 DEF ReconcileMaasMachine, SessionsFor, StartSession, HasActiveSession
    <3>2. \A g \in Hosts : tags[g] = {}
      BY <2>3 DEF Serial
    <3>3. QED  BY <2>1, <3>1, <3>2 DEF Serial, HandedBack, Held
  <2>4. QED  BY <2>2, <2>3
<1>3. QED  BY <1>1, <1>2

\* A pass tags and untags the host of the session, with the tag of the session.
LEMMA PassKeepsSerial ==
  ASSUME IInv, Serial, PassStep
  PROVE  Serial'
<1>1. /\ session.status = "Active" /\ hmc \in Pass /\ tags \in [Hosts -> SUBSET Tags]
      /\ hmc.pc # "idle" /\ hmc.host \in Hosts /\ hmc.host = session.currentHost
      /\ hmc.op = session.opID
  BY DEF Serial, PassStep, AssignMaintenance, AssignNoSchedule, AssignOp, Goto,
         CheckHostEmpty, CheckWLCReadyTags, ReadHostTags, ClearMaintenance,
         ClearNoSchedule, ClearOp, OpsCleared, RemoveFinalizer, Conflict, Annotate, Complete,
         IInv, TypeOK
<1>2. CASE AssignMaintenance \/ AssignNoSchedule \/ AssignOp
  <2>1. /\ UNCHANGED <<stage, leaving, evacFin, session>> /\ ~HandedBack /\ ~HandedBack'
        /\ hmc'.pc # "idle" => hmc'.host = hmc.host /\ hmc'.op = hmc.op
    BY <1>1, <1>2 DEF AssignMaintenance, AssignNoSchedule, AssignOp, Goto, HandedBack,
                      Idle, Pass
  <2>2. \E tag \in BlockingTags \cup {session.opID} :
          tags' = [tags EXCEPT ![hmc.host] = @ \cup {tag}]
    BY <1>1, <1>2 DEF AssignMaintenance, AssignNoSchedule, AssignOp, AssignTag
  <2>3. QED  BY <1>1, <2>1, <2>2 DEF Serial, Held
<1>3. CASE ClearMaintenance \/ ClearNoSchedule \/ ClearOp
  <2>1. /\ UNCHANGED <<stage, leaving, evacFin, session>> /\ ~HandedBack /\ ~HandedBack'
        /\ hmc'.host = hmc.host /\ hmc'.op = hmc.op
    BY <1>1, <1>3 DEF ClearMaintenance, ClearNoSchedule, ClearOp, Goto, HandedBack, Pass
  <2>2. \E tag : tags' = [tags EXCEPT ![hmc.host] = @ \ {tag}]
    BY <1>3 DEF ClearMaintenance, ClearNoSchedule, ClearOp, UnassignTag
  <2>3. QED  BY <1>1, <2>1, <2>2 DEF Serial, Held
<1>4. CASE CheckHostEmpty \/ CheckWLCReadyTags \/ ReadHostTags \/ OpsCleared
  <2>1. /\ UNCHANGED <<stage, leaving, evacFin, session, tags>>
        /\ ~HandedBack /\ ~HandedBack'
        /\ hmc'.pc # "idle" => hmc'.host = hmc.host /\ hmc'.op = hmc.op
    <3>1. /\ UNCHANGED <<stage, leaving, evacFin, session, tags>> /\ ~HandedBack
          /\ \/ hmc' = Idle
             \/ \E pc \in {"wlcReady", "readTags", "finalizer"} :
                  hmc' = [hmc EXCEPT !.pc = pc]
             \/ \E todo : hmc' = [hmc EXCEPT !.pc = "clearMaintenance", !.todo = todo]
      BY <1>4 DEF CheckHostEmpty, CheckWLCReadyTags, ReadHostTags, OpsCleared, Goto,
                  HandedBack
    <3>2. \/ hmc'.pc = "idle"
          \/ /\ hmc'.host = hmc.host /\ hmc'.op = hmc.op
             /\ hmc'.pc \in {"wlcReady", "readTags", "finalizer", "clearMaintenance"}
      <4>1. CASE hmc' = Idle
        BY <4>1 DEF Idle
      <4>2. ASSUME NEW pc \in {"wlcReady", "readTags", "finalizer"},
                   hmc' = [hmc EXCEPT !.pc = pc]
            PROVE  /\ hmc'.host = hmc.host /\ hmc'.op = hmc.op
                   /\ hmc'.pc = pc
        BY <1>1, <4>2 DEF Pass
      <4>3. ASSUME NEW todo, hmc' = [hmc EXCEPT !.pc = "clearMaintenance", !.todo = todo]
            PROVE  /\ hmc'.host = hmc.host /\ hmc'.op = hmc.op
                   /\ hmc'.pc = "clearMaintenance"
        BY <1>1, <4>3 DEF Pass
      <4>4. QED  BY <3>1, <4>1, <4>2, <4>3
    <3>3. QED  BY <3>1, <3>2 DEF HandedBack
  <2>2. QED  BY <1>1, <2>1 DEF Serial, Held
<1>5. CASE RemoveFinalizer
  <2>1. /\ UNCHANGED <<session, tags>> /\ hmc.pc = "finalizer" /\ HandedBack'
        /\ hmc'.host = hmc.host /\ hmc'.op = hmc.op
    BY <1>1, <1>5 DEF RemoveFinalizer, Goto, HandedBack, Pass
  <2>2. tags[hmc.host] = {}
    BY <2>1 DEF IInv, TagsOK, PassOK
  <2>3. QED  BY <1>1, <2>1, <2>2 DEF Serial, HandedBack
<1>6. CASE Annotate
  <2>1. /\ UNCHANGED <<session, tags>> /\ HandedBack /\ HandedBack'
        /\ hmc'.host = hmc.host /\ hmc'.op = hmc.op
    BY <1>1, <1>6 DEF Annotate, Goto, HandedBack, Pass
  <2>2. QED  BY <1>1, <2>1 DEF Serial, HandedBack
<1>7. CASE Conflict
  <2>1. /\ UNCHANGED <<stage, leaving, evacFin, session, tags>> /\ ~HandedBack
        /\ hmc'.pc = "idle"
    BY <1>7 DEF Conflict, HandedBack, Idle
  <2>2. QED  BY <1>1, <2>1 DEF Serial, HandedBack, Held
<1>8. CASE Complete
  <2>1. session'.status # "Active" /\ hmc'.pc = "idle" /\ tags' = tags /\ HandedBack
    BY <1>8, CompletedSessionType DEF Complete, IInv, TypeOK, Idle, HandedBack
  <2>2. QED  BY <1>1, <2>1 DEF Serial
<1>9. QED  BY <1>2, <1>3, <1>4, <1>5, <1>6, <1>7, <1>8 DEF PassStep

\* The others leave a held host, the session and the pass alone, and put no tag on
\* any host.
LEMMA OthersKeepSerial ==
  ASSUME IInv, Serial, MaasMachineController \/ Workload \/ Operator \/ UNCHANGED vars
  PROVE  Serial'
<1>1. TypeOK
  BY DEF IInv
<1>2. /\ session' = session
      /\ hmc'.pc = hmc.pc /\ hmc'.host = hmc.host /\ hmc'.op = hmc.op
  <2>1. /\ session' = session
        /\ hmc' = hmc \/ \E h \in Hosts : Outdate(h)
    BY DEF MaasMachineController, AddEvacuationFinalizer, Provision,
           DropFinalizerWithoutID, Release, Finalize, Workload, SelectHost, Compose,
           AckReady, RemoveVM, Operator, DeleteHost, DeleteMaasMachine, RecreateHost,
           SetTrigger
  <2>2. QED  BY <1>1, <2>1, OutdateType DEF TypeOK
<1>3. \A h \in Hosts : (Held(h) => Held(h)') /\ tags'[h] \subseteq tags[h]
  <2>1. CASE MaasMachineController
    BY <1>1, <2>1 DEF MaasMachineController, AddEvacuationFinalizer, Provision,
       DropFinalizerWithoutID, Release, Finalize, Held, TypeOK
  <2>2. CASE Workload \/ Operator \/ UNCHANGED vars
    <3>1. \/ UNCHANGED <<stage, evacFin, tags, leaving>>
          \/ \E h \in Hosts : DeleteHost(h) \/ RecreateHost(h)
      BY <2>2 DEF Workload, SelectHost, Compose, AckReady, RemoveVM,
         Operator, DeleteMaasMachine, SetTrigger
    <3>2. QED  BY <1>1, <3>1 DEF DeleteHost, RecreateHost, Held, TypeOK
  <2>3. QED  BY <2>1, <2>2
<1>4. QED  BY <1>2, <1>3 DEF Serial, HandedBack

-----------------------------------------------------------------------------
(* Guests.  ListHostVMs leaves out a VM it cannot read, so that a host can *)
(* be found empty with guests (HostMaintenancePartialRead.cfg).  What is   *)
(* said of the guests is said of behaviours in which no list with which a  *)
(* host is found empty leaves a VM out.                                    *)

\* What is on a host that was found empty came later.
LateOK == \A h \in Hosts : gated[h] => Guests(h) \subseteq late

\* Every step keeps it, if the list is complete when the step finds a host empty.
LEMMA NextKeepsLate ==
  ASSUME IInv, LateOK, Next, ReadsComplete
  PROVE  LateOK'
<1> USE DEF IInv, TypeOK, LateOK
<1>1. ASSUME NEW h \in Hosts, CloseGate(h), UNCHANGED vmVars PROVE LateOK'
  BY <1>1 DEF CloseGate
<1>2. UNCHANGED <<vmVars, auxVars>> => LateOK'
  OBVIOUS
<1>3. ASSUME NEW h \in Hosts, ReconcileMaasMachine(h) PROVE LateOK'
  BY <1>1, <1>3 DEF ReconcileMaasMachine
<1>4. CASE CheckHostEmpty
  <2>1. hmc.host \in Hosts
    BY <1>4 DEF CheckHostEmpty, PassOK
  <2>2. CASE Guests(hmc.host) = {}
    BY <1>4, <2>1, <2>2 DEF CheckHostEmpty
  <2>3. CASE hmc' = Idle /\ UNCHANGED auxVars
    BY <1>2, <1>4, <2>3 DEF CheckHostEmpty
  <2>4. QED
    <3>1. hmc'.pc = "wlcReady" \/ (hmc' = Idle /\ UNCHANGED auxVars)
      BY <1>4 DEF CheckHostEmpty, Pass
    <3>2. hmc'.pc = "wlcReady" => Guests(hmc.host) = {}
      BY <1>4 DEF CheckHostEmpty, ReadsComplete
    <3>3. QED  BY <2>2, <2>3, <3>1, <3>2
<1>5. CASE CheckWLCReadyTags \/ Conflict \/ Fail
  <2>1. UNCHANGED vmVars
        /\ (UNCHANGED auxVars \/ (hmc.pc # "idle" /\ CloseGate(hmc.host)))
    BY <1>5 DEF CheckWLCReadyTags, Conflict, Fail
  <2>2. QED  BY <1>1, <1>2, <2>1 DEF PassOK
<1>6. CASE ReconcileConfigMap \/ AssignMaintenance \/ AssignNoSchedule
             \/ AssignOp \/ ReadHostTags \/ ClearMaintenance \/ ClearNoSchedule
             \/ ClearOp \/ OpsCleared \/ RemoveFinalizer \/ Annotate \/ Complete
             \/ Operator
  BY <1>2, <1>6
     DEF ReconcileConfigMap, AssignMaintenance, AssignNoSchedule, AssignOp,
         ReadHostTags, ClearMaintenance, ClearNoSchedule, ClearOp, OpsCleared,
         RemoveFinalizer, Annotate, Complete, Operator, DeleteHost,
         DeleteMaasMachine, RecreateHost, SetTrigger
<1>7. CASE MaasMachineController
  <2>1. ASSUME NEW h \in Hosts, Release(h) PROVE LateOK'
    BY <2>1 DEF Release
  <2>2. ASSUME NEW h \in Hosts, Finalize(h) PROVE LateOK'
    BY <2>2 DEF Finalize
  <2>3. ASSUME NEW h \in Hosts,
               AddEvacuationFinalizer(h) \/ Provision(h) \/ DropFinalizerWithoutID(h)
        PROVE  LateOK'
    BY <1>2, <2>3 DEF AddEvacuationFinalizer, Provision, DropFinalizerWithoutID
  <2>4. QED  BY <1>7, <2>1, <2>2, <2>3 DEF MaasMachineController
<1>8. CASE Workload
  <2>1. ASSUME NEW v \in VMs, Compose(v) PROVE LateOK'
    BY <2>1 DEF Compose
  <2>2. ASSUME NEW v \in VMs, RemoveVM(v) PROVE LateOK'
    BY <2>2 DEF RemoveVM
  <2>3. ASSUME NEW v \in VMs, AckReady(v) \/ \E h \in Hosts : SelectHost(v, h)
        PROVE  LateOK'
    BY <2>3 DEF AckReady, SelectHost
  <2>4. QED  BY <1>8, <2>1, <2>2, <2>3 DEF Workload
<1>9. QED
  BY <1>3, <1>4, <1>5, <1>6, <1>7, <1>8 DEF Next, HMC, PassStep

-----------------------------------------------------------------------------
(* The theorems.                                                           *)

\* The invariant holds in every reachable state: in particular every variable
\* keeps its type.
THEOREM Invariance == Spec => []IInv
<1>1. QED  BY InitIInv, NextKeepsIInv, PTL DEF Spec

THEOREM TypeCorrect == Spec => []TypeOK
<1>1. IInv => TypeOK
  BY DEF IInv
<1>2. QED  BY <1>1, Invariance, PTL

\* When no VM can be left out of a list (ListHostVMs), every list with which a host is
\* found empty is complete.
THEOREM ListsAreComplete ==
  ASSUME PartialReads = FALSE
  PROVE  Spec => [][ReadsComplete]_vars
<1>1. IInv /\ [Next]_vars => [ReadsComplete]_vars
  <2> SUFFICES ASSUME IInv, Next, hmc.pc = "hostEmpty", hmc'.pc = "wlcReady"
               PROVE  Guests(hmc.host) = {}
    BY DEF ReadsComplete
  <2> USE DEF IInv, TypeOK
  <2>1. CASE CheckHostEmpty
    BY <2>1 DEF CheckHostEmpty, ListHostVMs, Idle
  <2>2. CASE MaasMachineController \/ Workload \/ Operator
    <3>1. hmc' = hmc \/ \E h \in Hosts : Outdate(h)
      BY <2>2 DEF MaasMachineController, AddEvacuationFinalizer, Provision,
         DropFinalizerWithoutID, Release, Finalize, Workload, SelectHost, Compose,
         AckReady, RemoveVM, Operator, DeleteHost, DeleteMaasMachine, RecreateHost,
         SetTrigger
    <3>2. QED  BY <3>1, OutdateType
  <2>3. CASE Fail
    BY <2>3 DEF Fail, Idle
  <2>4. ~(ReconcileConfigMap \/ \E h \in Hosts : ReconcileMaasMachine(h))
    BY DEF ReconcileConfigMap, ReconcileMaasMachine
  <2>5. PassStep => CheckHostEmpty
    BY DEF PassStep, AssignMaintenance, AssignNoSchedule, AssignOp, CheckWLCReadyTags,
       ReadHostTags, ClearMaintenance, ClearNoSchedule, ClearOp, OpsCleared,
       RemoveFinalizer, Conflict, Annotate, Complete, Goto
  <2>6. QED  BY <2>1, <2>2, <2>3, <2>4, <2>5 DEF Next, HMC
<1>2. QED  BY <1>1, Invariance, PTL DEF Spec

\* As long as no VM is left out of a list with which a host is found empty, what is
\* on a host that was found empty came later.
LEMMA GuestsAreLate == Spec /\ [][ReadsComplete]_vars => []LateOK
<1>1. Init => LateOK
  BY DEF Init, LateOK
<1>2. IInv /\ LateOK /\ [Next]_vars /\ [ReadsComplete]_vars => LateOK'
  <2>1. LateOK /\ UNCHANGED vars => LateOK'
    BY DEF LateOK
  <2>2. QED  BY <2>1, NextKeepsLate
<1>3. QED  BY <1>1, <1>2, Invariance, PTL DEF Spec

\* Whatever is on a host that MAAS takes back was composed after the host was
\* found empty: a guest that was there before is never destroyed with it, in every
\* behaviour in which the lists with which hosts are found empty are complete.
THEOREM ReleaseSparesSettledGuests ==
  Spec /\ [][ReadsComplete]_vars => []OnlyLateGuestsAtRelease
<1>1. IInv /\ LateOK => OnlyLateGuestsAtRelease
  BY DEF IInv, HeldOrGated, LateOK, OnlyLateGuestsAtRelease
<1>2. QED  BY <1>1, Invariance, GuestsAreLate, PTL

\* The tags of every session, foreign and earlier ones too, are off a host when
\* its evacuation finalizer is removed.
THEOREM HandsBackUntaggedHosts == Spec => []NoTagSurvivesEvacuation
<1>1. IInv => NoTagSurvivesEvacuation
  BY DEF IInv, TagsOK, NoTagSurvivesEvacuation
<1>2. QED  BY <1>1, Invariance, PTL

\* Once its three tags are on and until the last blocking one is removed, a host
\* is not selected for any further VM.
THEOREM PlacementFrozen == Spec => PlacementFrozenWhileDraining
<1> DEFINE Frozen ==
      \A h \in Hosts : Draining(h) => Incoming(h)' \subseteq Incoming(h)
<1>1. IInv /\ [Next]_vars => Frozen \/ UNCHANGED vars
  <2> SUFFICES ASSUME IInv, Next, NEW h \in Hosts, Draining(h)
               PROVE  Incoming(h)' \subseteq Incoming(h)
    OBVIOUS
  <2>1. tags[h] \cap BlockingTags # {}
    BY DEF IInv, TypeOK, TagsOK, Draining
  <2>2. ASSUME NEW v \in VMs, NEW g \in Hosts, SelectHost(v, g)
        PROVE  Incoming(h)' \subseteq Incoming(h)
    BY <2>1, <2>2 DEF SelectHost, Incoming, IInv, TypeOK
  <2>3. ASSUME NEW v \in VMs, Compose(v)
        PROVE  Incoming(h)' \subseteq Incoming(h)
    BY <2>3 DEF Compose, Incoming, IInv, TypeOK
  <2>4. sel' = sel => Incoming(h)' \subseteq Incoming(h)
    BY DEF Incoming
  <2>5. HMC \/ Fail \/ MaasMachineController \/ Operator => sel' = sel
    BY DEF HMC, ReconcileMaasMachine, ReconcileConfigMap, PassStep,
       AssignMaintenance, AssignNoSchedule, AssignOp, CheckHostEmpty,
       CheckWLCReadyTags, ReadHostTags, ClearMaintenance, ClearNoSchedule,
       ClearOp, OpsCleared, RemoveFinalizer, Conflict, Annotate, Complete, Fail,
       MaasMachineController, AddEvacuationFinalizer, Provision,
       DropFinalizerWithoutID, Release, Finalize,
       Operator, DeleteHost, DeleteMaasMachine, RecreateHost, SetTrigger
  <2>6. Workload =>
          \/ sel' = sel
          \/ \E v \in VMs : Compose(v) \/ \E g \in Hosts : SelectHost(v, g)
    BY DEF Workload, AckReady, RemoveVM
  <2>7. QED  BY <2>2, <2>3, <2>4, <2>5, <2>6 DEF Next
<1>2. QED  BY <1>1, Invariance, PTL DEF Spec, PlacementFrozenWhileDraining

\* When hosts are evacuated one after the other and nothing fails, the tags of every
\* host and the session ConfigMap agree at every step of every pass: the one session
\* the code keeps for all hosts is enough, for any number of them.
THEOREM TagsAgree == Spec => SerialTags
<1>1. Init => Serial
  BY DEF Init, Serial, EmptySession, Idle
<1>2. IInv /\ Serial /\ Undisturbed /\ Undisturbed' /\ [Next]_vars => Serial'
  <2> SUFFICES ASSUME IInv, Serial, Undisturbed, Undisturbed', [Next]_vars
               PROVE  Serial'
    OBVIOUS
  <2>1. CASE HMC
    BY <2>1, ReconcileKeepsSerial, PassKeepsSerial DEF HMC
  <2>2. ~Fail
    BY DEF Fail, Undisturbed, IInv, TypeOK
  <2>3. CASE MaasMachineController \/ Workload \/ Operator \/ UNCHANGED vars
    BY <2>3, OthersKeepSerial
  <2>4. QED  BY <2>1, <2>2, <2>3 DEF Next
<1>3. Serial => TagsBelongToSession
  BY DEF Serial, TagsBelongToSession
<1>4. QED  BY <1>1, <1>2, <1>3, Invariance, PTL DEF Spec, SerialTags
=============================================================================
