---------------------------- MODULE VMEvacuation ----------------------------
(***************************************************************************)
(* Evacuation of the control plane VMs of one workload cluster: the VM     *)
(* evacuation controller (VEC), ONE worker, moves control plane Machines   *)
(* off hosts in maintenance.  It shares                                    *)
(*                                                                         *)
(*   - the ConfigMaps "vec-maintenance-<op>", one per operation, with the  *)
(*     MaasMachine controller, which writes into the first active one the  *)
(*     system ID of a VM it composes or deploys;                           *)
(*   - the Machines, and the status of the KubeadmControlPlane (KCP), with *)
(*     Cluster API, which is external and modelled as far as the code      *)
(*     depends on it;                                                      *)
(*   - the tags of the hosts with the host maintenance controller.         *)
(*                                                                         *)
(* A Machine stands for its MaasMachine and its VM too.                    *)
(***************************************************************************)
EXTENDS Naturals, FiniteSets

CONSTANTS
  Machines,   \* identities of control plane Machines
  Hosts,      \* LXD hosts
  OpIDs,      \* operation identifiers of host maintenance
  NoMachine,  \* no Machine, the empty newVMSystemID
  NoHost,     \* the Machine has no VM
  NoOp,       \* no operation
  ReplicaCounts, \* what spec.replicas of the KCP can be
  MaxMarked,  \* bound: hosts in maintenance at the same time; 1: one operation, too
  MaxMarks,   \* bound: times a host is put into maintenance
  MaxOutages, \* bound: nodes that fail
  MaxFaults,  \* bound: API calls of a controller that fail
  QuickPasses \* no VM is composed between two adjacent reads of one pass

ASSUME VMEvacuationAssumption ==
  /\ NoMachine \notin Machines /\ NoHost \notin Hosts /\ NoOp \notin OpIDs
  /\ IsFiniteSet(Machines) /\ IsFiniteSet(Hosts) /\ ReplicaCounts \subseteq Nat \ {0}
  /\ {MaxMarked, MaxMarks, MaxOutages, MaxFaults} \subseteq Nat
  /\ QuickPasses \in BOOLEAN

VARIABLES
  machine,  \* of a Machine: absent, new (no VM), composed, deployed, up, down
  deleting, \* Machines with a deletion timestamp
  outdated, \* Machines of an earlier MaasMachineTemplate
  host,     \* the parent of the VM
  ops,      \* operation tags of a host; it has the two static tags with them
  cm,       \* the session ConfigMaps
  ready,    \* the ready-op tags of a VM
  kcp,      \* spec.replicas of the KCP and its status
  vec,      \* the pass of the VEC worker
  budget    \* marks, outages and faults so far

clusterVars == <<machine, deleting, outdated, host>>
vars == <<clusterVars, ops, cm, ready, kcp, vec, budget>>

Owned   == {m \in Machines : machine[m] # "absent"}
Up      == {m \in Machines : machine[m] = "up"}
Running == Up \ deleting
Active  == {op \in OpIDs : cm[op].status = "Active"}

\* The operations the host of the VM is in maintenance for.
OpsAround(m) == IF host[m] = NoHost THEN {} ELSE ops[host[m]]

SessionCM == [status : {"none", "Active", "Completed"},
              newVM : Machines \cup {NoMachine}]

KCP == [spec : ReplicaCounts, replicas : Nat, ready : Nat, updated : Nat]

replicas == kcp.spec

(***************************************************************************)
(* A pass.  op is the session it works on, m the Machine it looks at or    *)
(* the replacement it has read, todo the Machines it has listed and not    *)
(* looked at, first the first one found on a host in maintenance.          *)
(***************************************************************************)
PassSteps == {"idle", "activeKCP", "readSession", "tagReady", "complete",
              "scan", "save", "newKCP", "others", "evacuate"}

Pass == [pc : PassSteps, op : OpIDs \cup {NoOp}, m : Machines \cup {NoMachine},
         todo : SUBSET Machines, first : Machines \cup {NoMachine}]

Idle == [pc |-> "idle", op |-> NoOp, m |-> NoMachine, todo |-> {},
         first |-> NoMachine]

Budget == [marks : 0..MaxMarks, outages : 0..MaxOutages, faults : 0..MaxFaults]

TypeOK ==
  /\ machine \in
       [Machines -> {"absent", "new", "composed", "deployed", "up", "down"}]
  /\ deleting \in SUBSET Machines /\ outdated \in SUBSET Machines
  /\ host \in [Machines -> Hosts \cup {NoHost}]
  /\ ops \in [Hosts -> SUBSET OpIDs]
  /\ cm \in [OpIDs -> SessionCM]
  /\ ready \in [Machines -> SUBSET OpIDs]
  /\ kcp \in KCP
  /\ vec \in Pass
  /\ budget \in Budget

\* A control plane at full strength, spread in any way over the hosts.
Init ==
  /\ kcp \in {[spec |-> n, replicas |-> n, ready |-> n, updated |-> n] :
              n \in ReplicaCounts}
  /\ \E ms \in SUBSET Machines :
       /\ Cardinality(ms) = replicas
       /\ machine = [m \in Machines |-> IF m \in ms THEN "up" ELSE "absent"]
       /\ \E at \in [ms -> Hosts] :
            host = [m \in Machines |-> IF m \in ms THEN at[m] ELSE NoHost]
  /\ deleting = {} /\ outdated = {}
  /\ ops = [h \in Hosts |-> {}]
  /\ cm = [op \in OpIDs |-> [status |-> "none", newVM |-> NoMachine]]
  /\ ready = [m \in Machines |-> {}]
  /\ vec = Idle
  /\ budget = [marks |-> 0, outages |-> 0, faults |-> 0]

Spend(what) == budget' = [budget EXCEPT ![what] = @ + 1]

CanFault == budget.faults < MaxFaults

-----------------------------------------------------------------------------
(* The VEC worker.                                                         *)

\* isKCPStable; a paused KCP counts as one that is not stable.
IsStable == {kcp.replicas, kcp.ready, kcp.updated} = {replicas}

\* Mutant: the active sessions are not looked at.
ListNoSessions ==
  /\ vec.pc = "idle"
  /\ vec' = [Idle EXCEPT !.pc = "scan", !.todo = Owned \ deleting]
  /\ UNCHANGED <<clusterVars, ops, cm, ready, kcp, budget>>

\* Reconcile, steps 1 and 2: with an active session, whichever the map yields
\* first, the pass can only finish that session; without one, it looks for
\* control plane Machines on hosts in maintenance.
ListSessions ==
  /\ vec.pc = "idle"
  /\ vec' \in
       IF Active # {}
         THEN {[Idle EXCEPT !.pc = "activeKCP", !.op = op] : op \in Active}
         ELSE {[Idle EXCEPT !.pc = "scan", !.todo = Owned \ deleting]}
  /\ UNCHANGED <<clusterVars, ops, cm, ready, kcp, budget>>

\* Mutant: a KCP is stable when it has its replicas, ready or not.
CheckActiveReplicas ==
  /\ vec.pc = "activeKCP"
  /\ vec' = IF kcp.replicas = replicas THEN [vec EXCEPT !.pc = "readSession"]
            ELSE Idle
  /\ UNCHANGED <<clusterVars, ops, cm, ready, kcp, budget>>

CheckActiveKCP ==
  /\ vec.pc = "activeKCP"
  /\ vec' = IF IsStable THEN [vec EXCEPT !.pc = "readSession"] ELSE Idle
  /\ UNCHANGED <<clusterVars, ops, cm, ready, kcp, budget>>

\* tagReplacementVMAndCompleteSession: without a recorded VM it waits.
ReadSession ==
  LET vm == cm[vec.op].newVM IN
  /\ vec.pc = "readSession"
  /\ vec' = IF vm = NoMachine THEN Idle
            ELSE [vec EXCEPT !.pc = "tagReady", !.m = vm]
  /\ UNCHANGED <<clusterVars, ops, cm, ready, kcp, budget>>

\* TagVMReadyOp, refused for a VM that is gone.
TagReady ==
  /\ vec.pc = "tagReady"
  /\ IF host[vec.m] # NoHost
       THEN /\ ready' = [ready EXCEPT ![vec.m] = @ \cup {vec.op}]
            /\ vec' = [vec EXCEPT !.pc = "complete"]
       ELSE vec' = Idle /\ UNCHANGED ready
  /\ UNCHANGED <<clusterVars, ops, cm, kcp, budget>>

\* Mutant: the status is patched, whatever the ConfigMap says by now.
PatchSession ==
  /\ vec.pc = "complete"
  /\ cm' = [cm EXCEPT ![vec.op].status = "Completed"]
  /\ vec' = Idle
  /\ UNCHANGED <<clusterVars, ops, ready, kcp, budget>>

\* The update is refused when the ConfigMap has changed since it was read.
CompleteSession ==
  /\ vec.pc = "complete"
  /\ cm' = IF cm[vec.op].newVM = vec.m
             THEN [cm EXCEPT ![vec.op].status = "Completed"]
             ELSE cm
  /\ vec' = Idle
  /\ UNCHANGED <<clusterVars, ops, ready, kcp, budget>>

\* findCPMachinesOnMaintenanceHosts, the look at one Machine; one whose VM or
\* host cannot be read is skipped.
ScanMachine ==
  /\ vec.pc = "scan"
  /\ \E m \in vec.todo :
       \/ /\ OpsAround(m) = {}
          /\ vec' = [vec EXCEPT !.todo = @ \ {m}]
          /\ UNCHANGED budget
       \/ /\ CanFault /\ Spend("faults")
          /\ vec' = [vec EXCEPT !.todo = @ \ {m}]
       \/ /\ \E op \in OpsAround(m) :
               vec' = [vec EXCEPT !.pc = "save", !.todo = @ \ {m},
                                  !.m = m, !.op = op]
          /\ UNCHANGED budget
  /\ UNCHANGED <<clusterVars, ops, cm, ready, kcp>>

\* saveMaintenanceSession, for every Machine found and before it is known what
\* will be done about it; a failure is ignored.
SaveSession ==
  /\ vec.pc = "save"
  /\ vec' = [vec EXCEPT !.pc = "scan",
                        !.first = IF @ = NoMachine THEN vec.m ELSE @]
  /\ \/ /\ cm' = [cm EXCEPT ![vec.op] = [status |-> "Active",
                                         newVM |-> NoMachine]]
        /\ UNCHANGED budget
     \/ /\ CanFault /\ Spend("faults")
        /\ UNCHANGED cm
  /\ UNCHANGED <<clusterVars, ops, ready, kcp>>

ScanEnds ==
  /\ vec.pc = "scan" /\ vec.todo = {}
  /\ vec' = IF vec.first = NoMachine THEN Idle ELSE [vec EXCEPT !.pc = "newKCP"]
  /\ UNCHANGED <<clusterVars, ops, cm, ready, kcp, budget>>

CheckNewKCP ==
  /\ vec.pc = "newKCP"
  /\ vec' = IF IsStable THEN [vec EXCEPT !.pc = "others"]
            ELSE Idle
  /\ UNCHANGED <<clusterVars, ops, cm, ready, kcp, budget>>

\* hasOtherCPBeingDeleted; an error counts as yes.
CheckOthers ==
  /\ vec.pc = "others"
  /\ vec' = IF deleting \subseteq {vec.first} THEN [vec EXCEPT !.pc = "evacuate"]
            ELSE Idle
  /\ UNCHANGED <<clusterVars, ops, cm, ready, kcp, budget>>

\* Three replicas and more: deleteCPMachine.  Nothing is done for two.
DeleteCPMachine ==
  /\ vec.pc = "evacuate" /\ replicas >= 3
  /\ deleting' = deleting \cup ({vec.first} \cap Owned)
  /\ vec' = Idle
  /\ UNCHANGED <<machine, outdated, host, ops, cm, ready, kcp, budget>>

\* Mutant: the new template is created and the KCP keeps the old one.
CreateTemplate ==
  /\ vec.pc = "evacuate" /\ replicas = 1
  /\ vec' = Idle
  /\ UNCHANGED <<clusterVars, ops, cm, ready, kcp, budget>>

\* One replica: createNewMaasMachineTemplate, swapKCPTemplateWithMaxSurge.  The
\* update is refused when the KCP has changed since it was read as stable.
SwapKCPTemplate ==
  /\ vec.pc = "evacuate" /\ replicas = 1
  /\ outdated' = IF IsStable THEN Owned ELSE outdated
  /\ vec' = Idle
  /\ UNCHANGED <<machine, deleting, host, ops, cm, ready, kcp, budget>>

LeaveTwoReplicas ==
  /\ vec.pc = "evacuate" /\ replicas = 2
  /\ vec' = Idle
  /\ UNCHANGED <<clusterVars, ops, cm, ready, kcp, budget>>

\* A call of the pass returns an error, or the manager restarts.
Fail ==
  /\ vec.pc # "idle" /\ CanFault
  /\ Spend("faults")
  /\ vec' = Idle
  /\ UNCHANGED <<clusterVars, ops, cm, ready, kcp>>

VECStep ==
  \/ ListSessions
  \/ CheckActiveKCP \/ ReadSession \/ TagReady \/ CompleteSession
  \/ ScanMachine \/ SaveSession \/ ScanEnds
  \/ CheckNewKCP \/ CheckOthers
  \/ DeleteCPMachine \/ SwapKCPTemplate \/ LeaveTwoReplicas

-----------------------------------------------------------------------------
(* The MaasMachine controller, for the VM of a Machine.                    *)

\* Mutant: the parent is recorded, not the VM.
RecordParent(m) ==
  /\ cm' = IF Active = {} THEN cm
           ELSE [cm EXCEPT ![CHOOSE op \in Active : TRUE].newVM = host[m]]
  /\ UNCHANGED budget

\* Mutant: the ConfigMap is changed in memory and not updated.
RecordUnsaved(m) == UNCHANGED <<cm, budget>>

\* tagVMIfMaintenanceActive: the VM is recorded in one active session, whichever
\* is listed first; a failure is ignored.
Record(m) ==
  \/ /\ Active = {}
     /\ UNCHANGED <<cm, budget>>
  \/ /\ \E op \in Active : cm' = [cm EXCEPT ![op].newVM = m]
     /\ UNCHANGED budget
  \/ /\ Active # {} /\ CanFault /\ Spend("faults")
     /\ UNCHANGED cm

\* Mutant: the tags of the host are not looked at.
ComposeAnywhere(m) ==
  /\ machine[m] = "new" /\ m \notin deleting
  /\ QuickPasses => vec.pc # "readSession"
  /\ machine' = [machine EXCEPT ![m] = "composed"]
  /\ \E h \in Hosts : host' = [host EXCEPT ![m] = h]
  /\ Record(m)
  /\ UNCHANGED <<deleting, outdated, ops, ready, kcp, vec>>

\* PrepareLXDVM: the VM goes to a host without maintenance tags.  To remove a
\* Machine and compose the next takes minutes; the two reads of a pass that
\* finishes a session follow each other at once.
Compose(m) ==
  /\ machine[m] = "new" /\ m \notin deleting
  /\ QuickPasses => vec.pc # "readSession"
  /\ machine' = [machine EXCEPT ![m] = "composed"]
  /\ \E h \in Hosts : ops[h] = {} /\ host' = [host EXCEPT ![m] = h]
  /\ Record(m)
  /\ UNCHANGED <<deleting, outdated, ops, ready, kcp, vec>>

\* createVMViaMAAS of a composed VM.
Deploy(m) ==
  /\ machine[m] = "composed" /\ m \notin deleting
  /\ machine' = [machine EXCEPT ![m] = "deployed"]
  /\ Record(m)
  /\ UNCHANGED <<deleting, outdated, host, ops, ready, kcp, vec>>

\* reconcileDelete: the VM is released and the Machine disappears.
Gone(m) ==
  /\ m \in deleting
  /\ machine' = [machine EXCEPT ![m] = "absent"]
  /\ deleting' = deleting \ {m}
  /\ outdated' = outdated \ {m}
  /\ host' = [host EXCEPT ![m] = NoHost]
  /\ ready' = [ready EXCEPT ![m] = {}]
  /\ UNCHANGED <<ops, cm, kcp, vec, budget>>

-----------------------------------------------------------------------------
(* Cluster API (external).                                                 *)

\* A system ID is not used twice.
Unused(m) ==
  /\ machine[m] = "absent"
  /\ \A op \in OpIDs : cm[op].newVM # m
  /\ m \notin {vec.m, vec.first} \cup vec.todo

Scale ==
  \/ UNCHANGED <<machine, deleting>>
  \/ \* too few Machines, or a rollout with maxSurge = 1 and all of them up
     /\ \/ Cardinality(Owned) < replicas
        \/ Cardinality(Owned) = replicas /\ outdated # {} /\ Owned = Running
     /\ \E m \in Machines :
          Unused(m) /\ machine' = [machine EXCEPT ![m] = "new"]
     /\ UNCHANGED deleting
  \/ \* the rollout removes an outdated Machine
     /\ Cardinality(Owned) > replicas /\ Owned = Running
     /\ \E m \in outdated : deleting' = {m}
     /\ UNCHANGED machine

\* One reconciliation of the KCP: it scales and writes its status.  A Machine
\* that is being deleted still counts as long as it exists.
KCPReconcile ==
  /\ Scale
  /\ kcp' = [spec |-> replicas, replicas |-> Cardinality(Owned'),
             ready |-> Cardinality(Up'),
             updated |-> Cardinality(Owned' \ outdated)]
  /\ UNCHANGED <<outdated, host, ops, cm, ready, vec, budget>>

\* The node of a deployed VM joins; a node fails, recovers or is remediated.
NodeReady(m) ==
  /\ machine[m] \in {"deployed", "down"}
  /\ machine' = [machine EXCEPT ![m] = "up"]
  /\ UNCHANGED <<deleting, outdated, host, ops, cm, ready, kcp, vec, budget>>

NodeFails(m) ==
  /\ machine[m] = "up" /\ budget.outages < MaxOutages
  /\ machine' = [machine EXCEPT ![m] = "down"]
  /\ Spend("outages")
  /\ UNCHANGED <<deleting, outdated, host, ops, cm, ready, kcp, vec>>

Remediate(m) ==
  /\ machine[m] = "down" /\ deleting = {}
  /\ deleting' = {m}
  /\ UNCHANGED <<machine, outdated, host, ops, cm, ready, kcp, vec, budget>>

ClusterAPI ==
  \/ KCPReconcile
  \/ \E m \in Machines : NodeReady(m) \/ NodeFails(m) \/ Remediate(m)

-----------------------------------------------------------------------------
(* The host maintenance controller, as far as the VEC sees it (module      *)
(* HostMaintenance): a host is tagged, with the identifier of a session    *)
(* that may cover another host too, and untagged once it is empty.         *)

Marked == {h \in Hosts : ops[h] # {}}

\* EnsureHostMaintenanceTags; the host may be in maintenance for another operation.
MarkHost(h, op) ==
  /\ op \notin ops[h]
  /\ IF ops[h] = {} THEN Cardinality(Marked) < MaxMarked ELSE MaxMarked > 1
  /\ cm[op].status = "none" \/ \E g \in Marked : op \in ops[g]
  /\ budget.marks < MaxMarks
  /\ Spend("marks")
  /\ ops' = [ops EXCEPT ![h] = @ \cup {op}]
  /\ UNCHANGED <<clusterVars, cm, ready, kcp, vec>>

UnmarkHost(h) ==
  /\ ops[h] # {} /\ \A m \in Machines : host[m] # h
  /\ ops' = [ops EXCEPT ![h] = {}]
  /\ UNCHANGED <<clusterVars, cm, ready, kcp, vec, budget>>

HostMaintenanceController ==
  \E h \in Hosts : UnmarkHost(h) \/ \E op \in OpIDs : MarkHost(h, op)

-----------------------------------------------------------------------------

Next ==
  \/ VECStep \/ Fail
  \/ \E m \in Machines : Compose(m) \/ Deploy(m) \/ Gone(m)
  \/ ClusterAPI
  \/ HostMaintenanceController

Spec == Init /\ [][Next]_vars

(***************************************************************************)
(* Fairness: a pass runs to its end and every pass is requeued (after 30   *)
(* seconds, or 5 minutes); a Machine is provisioned or removed; Cluster    *)
(* API keeps reconciling; a host that has become empty is untagged.        *)
(***************************************************************************)
Fairness ==
  /\ WF_vars(VECStep)
  /\ WF_<<machine, deleting, kcp>>(KCPReconcile)
  /\ \A m \in Machines :
       /\ WF_vars(Compose(m)) /\ WF_vars(Deploy(m)) /\ WF_vars(Gone(m))
       /\ WF_vars(NodeReady(m))
  /\ \A h \in Hosts : WF_vars(UnmarkHost(h))

FairSpec == Spec /\ Fairness

-----------------------------------------------------------------------------
(* Properties.                                                             *)

\* A pass takes a control plane Machine away only from a control plane that is
\* complete: the replacement of the one before has joined.
EvictsFromFullStrength ==
  [][DeleteCPMachine /\ deleting' # deleting =>
       Cardinality(Running) >= replicas]_vars

\* A VM is acknowledged as a replacement only when its node is up, and the whole
\* control plane with it.
AcknowledgedIsUp ==
  [][\A m \in Machines : ready'[m] \subseteq ready[m] \/
       (machine[m] = "up" /\ Cardinality(Up) >= replicas)]_vars

\* A completed session has its acknowledgement: the VM it names carries the tag,
\* or is gone, through every failing call and restart.
CompletedIsAcknowledged ==
  \A op \in OpIDs : cm[op].status = "Completed" =>
    /\ cm[op].newVM # NoMachine
    /\ host[cm[op].newVM] # NoHost => op \in ready[cm[op].newVM]

\* The VM that is recorded as the replacement for a host does not run on it.
ReplacementIsElsewhere ==
  \A op \in OpIDs, m \in Machines :
    cm[op].status = "Active" /\ cm[op].newVM = m => op \notin OpsAround(m)

\* The control plane VMs leave a host in maintenance ("For 3-CP clusters: delete
\* targeted CP Machine; KCP replaces one", and a template swap for one replica),
\* after which the host is untagged.
MaintenanceEnds == \A h \in Hosts : ops[h] # {} ~> ops[h] = {}

\* A session that is opened is completed.
SessionsComplete ==
  \A op \in OpIDs : cm[op].status = "Active" ~> cm[op].status = "Completed"
=============================================================================
