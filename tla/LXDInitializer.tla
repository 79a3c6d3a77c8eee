---------------------------- MODULE LXDInitializer ----------------------------
(***************************************************************************)
(* The nodes of a cluster whose machines serve as LXD hosts, and the pods  *)
(* of the DaemonSet lxd-initializer on them: a pod sets LXD up on its      *)
(* node, registers the node in MAAS as a VM host and then labels the node. *)
(* Meanwhile machines are asked for and given up: a machine that is        *)
(* deleted is taken out of the VM hosts before MAAS takes it back.         *)
(*                                                                         *)
(* When the DaemonSet exists is decided by the MaasCluster controller, in  *)
(* LXDHosts.  A node stands for its machine, its system ID and the name of *)
(* its VM host.                                                            *)
(***************************************************************************)
EXTENDS APIServerPoller

CONSTANTS
  Nodes,      \* nodes the cluster may ever have
  Layouts,    \* which of them may be control plane nodes, and which come first
  MaxChanges  \* bound: machines replaced, added and given up

ASSUME InitializerAssumption ==
  /\ IsFiniteSet(Nodes)
  /\ Layouts \subseteq [controlPlane : SUBSET Nodes, first : SUBSET Nodes]
  /\ MaxChanges \in Nat

VARIABLES
  controlPlane, \* the control plane nodes; never changes
  wanted,       \* the machines asked for: as many as the replicas of KCP and of the MachineDeployments
  fresh,        \* those of them asked for since the controller last read the replicas
  changes,      \* changes of wanted so far
  node,         \* the node of each machine in the workload cluster
  label,        \* the nodes labelled lxdhost.cluster.com/initialized
  lxd,          \* the nodes whose LXD is set up and listens for MAAS
  vmHosts,      \* the VM hosts in MAAS
  pod,          \* where the pod of the DaemonSet on each node stands
  ds            \* the DaemonSet exists in the workload cluster

machineVars == <<controlPlane, wanted, fresh, changes>>
hostVars    == <<node, label, lxd, vmHosts, pod>>

Role(n) == IF n \in controlPlane THEN controlPlane ELSE Nodes \ controlPlane
Present == {n \in Nodes : node[n] # "absent"}
Ready   == {n \in Nodes : node[n] = "ready"}

InitializerTypeOK ==
  /\ controlPlane \subseteq Nodes /\ wanted \subseteq Nodes /\ fresh \subseteq wanted
  /\ changes \in 0..MaxChanges
  /\ node \in [Nodes -> {"absent", "notReady", "ready"}]
  /\ label \subseteq Present /\ lxd \subseteq Present /\ vmHosts \subseteq Present
  /\ pod \in [Nodes -> {"none", "boot", "init", "register", "label", "asleep"}]
  /\ ds \in BOOLEAN

InitializerInit ==
  /\ \E l \in Layouts : controlPlane = l.controlPlane /\ wanted = l.first
  /\ fresh = {} /\ changes = 0
  /\ node = [n \in Nodes |-> "absent"]
  /\ label = {} /\ lxd = {} /\ vmHosts = {}
  /\ pod = [n \in Nodes |-> "none"]
  /\ ds = FALSE

-----------------------------------------------------------------------------
(* The pod of a node: main of lxd-initializer with its action "both".      *)

PodGoes(n, from, to) == pod[n] = from /\ pod' = [pod EXCEPT ![n] = to]

\* Everything but the pods, LXD, the VM hosts, the labels and the faults.
PodFrame == UNCHANGED <<clusterVars, pollerVars, queued, machineVars, node, ds>>

\* Until the provider ID of the node and its machine in MAAS can be read the
\* container ends and is started again.  A node that is labelled is left
\* alone, unless it is the label that cannot be read.
Boot(n) ==
  /\ api
  /\ \/ n \in label /\ PodGoes(n, "boot", "asleep") /\ UNCHANGED faults
     \/ n \notin label /\ PodGoes(n, "boot", "init") /\ UNCHANGED faults
     \/ n \in label /\ PodGoes(n, "boot", "init") /\ Fault
  /\ PodFrame /\ UNCHANGED <<label, lxd, vmHosts>>

\* initializeLXD returns an error, which ends the container, when LXD does
\* not answer or its storage pool or network cannot be created; that LXD
\* could not be made to listen is a warning.
InitializeLXD(n) ==
  /\ \/ /\ PodGoes(n, "init", "register") /\ UNCHANGED faults
        /\ lxd' = lxd \cup {n}
     \/ PodGoes(n, "init", "register") /\ Fault /\ UNCHANGED lxd
     \/ PodGoes(n, "init", "boot") /\ Fault /\ UNCHANGED lxd
  /\ PodFrame /\ UNCHANGED <<label, vmHosts>>

\* Mutant of Register: a refusal by MAAS does not end the container.
RegisterUnchecked(n) ==
  /\ PodGoes(n, "register", "label")
  /\ vmHosts' = IF n \in lxd THEN vmHosts \cup {n} ELSE vmHosts
  /\ UNCHANGED faults
  /\ PodFrame /\ UNCHANGED <<label, lxd>>

\* registerWithMAAS takes a VM host that exists as it is; MAAS creates one
\* only when it reaches LXD on the node.  A call that fails, or whose answer
\* is lost, and LXD failing its validation afterwards, end the container.
Register(n) ==
  /\ \/ /\ n \in vmHosts \/ n \in lxd
        /\ PodGoes(n, "register", "label")
        /\ vmHosts' = vmHosts \cup {n}
        /\ UNCHANGED faults
     \/ /\ n \notin vmHosts /\ n \notin lxd
        /\ PodGoes(n, "register", "boot")
        /\ UNCHANGED <<vmHosts, faults>>
     \/ /\ PodGoes(n, "register", "boot") /\ Fault
        /\ \/ UNCHANGED vmHosts
           \/ n \in lxd /\ vmHosts' = vmHosts \cup {n}
  /\ PodFrame /\ UNCHANGED <<label, lxd>>

\* Mutant of LabelNode: the label is not sent.
LabelForgotten(n, ok) ==
  /\ PodGoes(n, "label", "asleep")
  /\ Call(ok)
  /\ PodFrame /\ UNCHANGED <<label, lxd, vmHosts>>

\* SafeMarkLXDInitialized swallows the error; main then sleeps for ever.
LabelNode(n, ok) ==
  /\ PodGoes(n, "label", "asleep")
  /\ Call(ok)
  /\ label' = IF ok THEN label \cup {n} ELSE label
  /\ PodFrame /\ UNCHANGED <<lxd, vmHosts>>

\* The container ends: also that of a labelled node, after an hour.
PodDies(n) ==
  /\ pod[n] \notin {"none", "boot"} /\ Fault
  /\ pod' = [pod EXCEPT ![n] = "boot"]
  /\ PodFrame /\ UNCHANGED <<label, lxd, vmHosts>>

PodStep(n) ==
  /\ node[n] = "ready"
  /\ Boot(n) \/ InitializeLXD(n) \/ Register(n) \/ \E ok \in BOOLEAN : LabelNode(n, ok)

\* The DaemonSet controller of the workload cluster.
StartPod(n) ==
  /\ ds /\ api /\ n \in Ready
  /\ PodGoes(n, "none", "boot")
  /\ PodFrame /\ UNCHANGED <<label, lxd, vmHosts, faults>>

StopPod(n) ==
  /\ ~ds /\ api /\ pod[n] # "none"
  /\ pod' = [pod EXCEPT ![n] = "none"]
  /\ PodFrame /\ UNCHANGED <<label, lxd, vmHosts, faults>>

-----------------------------------------------------------------------------
(* Machines and nodes.                                                     *)

NodeFrame == UNCHANGED <<clusterVars, pollerVars, queued, ds>>

\* One control plane node comes first; the others have to wait for it.
Join(n) ==
  /\ api /\ n \in wanted /\ node[n] = "absent"
  /\ initialized \/ (Present = {} /\ n \in controlPlane)
  /\ node' = [node EXCEPT ![n] = "notReady"]
  /\ NodeFrame /\ UNCHANGED <<faults, machineVars, label, lxd, vmHosts, pod>>

NodeReady(n) ==
  /\ api /\ node[n] = "notReady"
  /\ node' = [node EXCEPT ![n] = "ready"]
  /\ NodeFrame /\ UNCHANGED <<faults, machineVars, label, lxd, vmHosts, pod>>

NodeUnready(n) ==
  /\ node[n] = "ready" /\ Fault
  /\ node' = [node EXCEPT ![n] = "notReady"]
  /\ NodeFrame /\ UNCHANGED <<machineVars, label, lxd, vmHosts, pod>>

\* Cluster API changes the machines of a cluster that is initialized.
Change ==
  /\ initialized /\ ~deleting
  /\ changes < MaxChanges /\ changes' = changes + 1

\* A machine is replaced: the number of replicas stays what it is.
Replace(m, n) ==
  /\ Change
  /\ m \in wanted /\ n \in Role(m) \ (wanted \cup Present)
  /\ wanted' = (wanted \ {m}) \cup {n}
  /\ fresh' = (fresh \ {m}) \cup {n}
  /\ NodeFrame /\ UNCHANGED <<faults, controlPlane, hostVars>>

ScaleUp(n) ==
  /\ Change
  /\ n \notin wanted \cup Present
  /\ wanted' = wanted \cup {n}
  /\ fresh' = fresh \cup {n}
  /\ NodeFrame /\ UNCHANGED <<faults, controlPlane, hostVars>>

\* The last control plane node goes only with its cluster.
ScaleDown(n) ==
  /\ Change
  /\ n \in wanted /\ wanted \cap controlPlane # {n}
  /\ wanted' = wanted \ {n}
  /\ fresh' = fresh \ {n}
  /\ NodeFrame /\ UNCHANGED <<faults, controlPlane, hostVars>>

Leaving(n) == n \in Present \ wanted

\* Mutant of UnregisterHost: the VM host is looked for under another name.
UnregisterOther(n) ==
  /\ Leaving(n) /\ n \in vmHosts
  /\ vmHosts' = vmHosts \ (Nodes \ Present)
  /\ NodeFrame /\ UNCHANGED <<faults, machineVars, node, label, lxd, pod>>

\* The pass that deletes a machine takes it out of the VM hosts: for a
\* control plane machine before the release, else when MAAS has refused it.
UnregisterHost(n) ==
  /\ Leaving(n) /\ n \in vmHosts
  /\ vmHosts' = vmHosts \ {n}
  /\ NodeFrame /\ UNCHANGED <<faults, machineVars, node, label, lxd, pod>>

\* Mutant of Release: MAAS is believed to take back a VM host as well.
ReleaseAnyway(n) ==
  /\ Leaving(n)
  /\ node' = [node EXCEPT ![n] = "absent"]
  /\ label' = label \ {n}
  /\ lxd' = lxd \ {n}
  /\ pod' = [pod EXCEPT ![n] = "none"]
  /\ NodeFrame /\ UNCHANGED <<faults, machineVars, vmHosts>>

\* MAAS takes a machine back unless it is a VM host; the node goes with it.
Release(n) ==
  /\ Leaving(n) /\ n \notin vmHosts
  /\ node' = [node EXCEPT ![n] = "absent"]
  /\ label' = label \ {n}
  /\ lxd' = lxd \ {n}
  /\ pod' = [pod EXCEPT ![n] = "none"]
  /\ NodeFrame /\ UNCHANGED <<faults, machineVars, vmHosts>>

MachineStep(n) == Join(n) \/ NodeReady(n) \/ UnregisterHost(n) \/ Release(n)

-----------------------------------------------------------------------------
(* Properties.                                                             *)

\* The label of a node that stays means what the placement of VMs takes it
\* for: MAAS has the node as a VM host and its LXD listens, whatever was
\* retried, lost or restarted on the way there.
LabelledIsRegistered ==
  \A n \in label \cap wanted : n \in vmHosts /\ n \in lxd

\* A pod that has gone to sleep for good has labelled its node, unless the
\* API server was away or a call failed when it tried, its only attempt.
MissedLabelsAreFailures ==
  (\E n \in Nodes : pod[n] = "asleep" /\ n \notin label) => faults > 0
=============================================================================
