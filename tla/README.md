# A TLA+ model of cluster-api-provider-maas

The provider lets Cluster API run Kubernetes clusters on machines that MAAS
manages. What is hard in it is host maintenance: a *host control plane* cluster
(HCP) runs on bare metal, its nodes are LXD hosts, and the control planes of
*workload clusters* (WLC) are LXD VMs on those hosts. When a host is to go, two
controllers that never talk to each other directly, in two management planes,
have to move the VMs away and only then give the host back to MAAS. They
communicate through MAAS tags, ConfigMaps, finalizers and annotations, one API
call at a time, and each of those calls may fail or be the last one before a
restart. This directory models that part, and around it how machines are allocated and
given back, how control plane VMs find a host, how their addresses get into DNS, and how
the hosts of an HCP become LXD hosts.

Paths are relative to the repository.

## Inventory

| Component | State it keeps | Operations | Talks to | What makes it correct |
|---|---|---|---|---|
| Host maintenance controller, HMC (`controllers/host_maintenance_*.go`, `pkg/maas/maintenance`) | session ConfigMap, host tags, evacuation finalizer, completed annotation | reconcile a MaasMachine, reconcile the session ConfigMap | MAAS tags and VM lists; the MaasMachine controller through the finalizer; placement and VEC through tags | a host is let go only when it was found empty, with no tag left on it, and is let go in the end; sessions are closed |
| VM evacuation controller, VEC (`controllers/vmevacuation_controller.go`) | one ConfigMap per operation | reconcile: finish a session, or find Machines on tagged hosts and evict one | KCP and Machines (Cluster API); host tags (HMC); ConfigMaps (MaasMachine controller) | the control plane keeps its strength, only a VM that is up is acknowledged, sessions and maintenance end |
| MaasMachine controller (`controllers/maasmachine_controller.go`) | MaasMachine spec, status, finalizers | provision, power on, label the node, release, delete | machine service, DNS, HMC (finalizer) | a MAAS machine has at most one owner, none is leaked, a deleted object goes |
| Machine service (`pkg/maas/machine/machine.go`) | provider and system ID of a MaasMachine | allocate and deploy, compose and deploy a VM, record a replacement | MAAS, VEC's ConfigMaps | roll-back of a failed deployment, no two VMs for one Machine |
| Host selection (`pkg/maas/lxd/host_maas_client.go`) | none | pick a host for a VM | MAAS inventory and tags | hosts in maintenance are avoided, control plane VMs are spread |
| MaasCluster controller and DNS (`controllers/maascluster_controller.go`, `pkg/maas/dns`) | DNS resource, conditions | reconcile DNS and attachments, readiness label | MAAS DNS, MaasMachine status | the addresses in DNS are those of running control plane machines |
| API server poller (`pkg/maas/scope/cluster.go`) | map of clusters being polled | start a poll, send an event, forget the poll | MaasCluster controller | no wake-up is lost, one poll per cluster |
| LXD initializer (`controllers/lxd_initializer_ds.go`, `lxd-initializer/`) | DaemonSet and node labels on the target cluster | create, delete, label | target cluster, MAAS | every node is initialised, the DaemonSet goes after the last one |
| Scope, API types, webhooks, migration, `main.go` | - | accessors, validation, wiring | - | worker counts and leader election are assumptions here |

Hard behaviours: a host is selected in one call and used in a later one; passes
of one worker for different objects share the one session; every pass can stop
between any two calls; failures are logged and ignored in places; sessions are
saved before it is known what will happen; the status of KCP lags behind; two
readings of the same pass see different states. `PROJECT.json` lists each as a
hazard at its line.

## Modules

| Module | What it is |
|---|---|
| `MaintenanceSession` | the session value and LoadSession, StartSession, CompleteSession |
| `HostMaintenance` | HMC, with the MaasMachine controller, VM placement and operators around it |
| `HostDrain` | abstract specification: what draining a host promises |
| `HostMaintenanceProofs`, `HostDrainRefinement` | theorems about `HostMaintenance`, and that it implements `HostDrain` |
| `VMEvacuation` | VEC, with the MaasMachine controller, Cluster API and HMC around it |
| `VMEvacuationProofs` | theorems about `VMEvacuation` |
| `MachineLifecycle` | allocation, deployment, roll-back and release of MAAS machines for MaasMachines |
| `MachineLifecycleProofs`, `MachineOwnershipProofs` | theorems about `MachineLifecycle`: what failures leak, and what they give twice |
| `ControlPlaneDNS` | the DNS resource of a cluster, between the MaasCluster and the MaasMachine controller |
| `ControlPlaneDNSProofs` | theorems about `ControlPlaneDNS` |
| `HostSelection` | the filters and the order of `SelectLXDHostWithMaasClient` |
| `VMPlacement` | control plane VMs that concurrent workers place with it |
| `VMPlacementProofs` | theorems about `HostSelection` and `VMPlacement` |
| `APIServerPoller` | the goroutine that waits for the API server of a new cluster |
| `LXDInitializer` | nodes, the pods that make LXD hosts of them, and machines that come and go |
| `LXDHosts` | composes the two with the passes of the MaasCluster controller that start the goroutine and the DaemonSet |
| `LXDHostsProofs` | theorems about `APIServerPoller`, `LXDInitializer` and `LXDHosts` |
| `MCHostMaintenance`, `MCVMEvacuation`, `MCMachineLifecycle`, `MCControlPlaneDNS`, `MCVMPlacement`, `MCLXDHosts` | instances for TLC |

### HostMaintenance

One variable per piece of shared state: `stage`, `deleting`, `evacFin`, `done`
are the MaasMachine of a host; `leaving` is the deletion timestamp of its owner Machine; `tags`
are its MAAS tags; `session` and `trigger` the ConfigMap; `loc`, `sel`, `ready` the VMs, where `sel` is a VM whose host is
selected and that is not composed yet; `hmc` the local state of the running pass.
`gated` and `late` are auxiliary: they record when a host was found empty and
what reached it afterwards, and no action reads them in a guard.

A pass of HMC is a sequence of actions, one per API call, in the order of
`reconcileMaasMachine`: `ReconcileMaasMachine` (early returns and session),
`AssignMaintenance`, `AssignNoSchedule`, `AssignOp`, `CheckHostEmpty` (Gate 1),
`CheckWLCReadyTags` (Gate 2), `ReadHostTags`, `ClearMaintenance`,
`ClearNoSchedule`, `ClearOp` once per tag it has read, `OpsCleared`,
`RemoveFinalizer` or `Conflict`, `Annotate`, `Complete`. `ReconcileConfigMap` is the other
entry. There is one worker (`SetupWithManager` and `main.go` set no concurrency),
hence one `hmc`. `Fail` ends a pass anywhere: an error return and a restart leave
the same state. The manager may also run without leader election (its default);
two managers at once are outside the model.

The two deletions of a host come one after the other: HMC goes by that of the Machine
(`DeleteHost` sets `leaving`), the MaasMachine controller by that of the MaasMachine
(`DeleteMaasMachine` sets `deleting`), which Cluster API deletes once it has drained the node. In between
HMC can drain the host, remove the finalizer and write the annotation, and
`AddEvacuationFinalizer` puts the finalizer back; then nobody removes it any more, and the MaasMachine
stays for ever. That is the finding of `HostMaintenanceReadded` and the exception in
`EvacuationCompletes`; without the exception TLC refutes that property too. A
MaasMachine that is deleted without its Machine is outside the model.

The finalizer and the annotation are updates of the object that the pass has read;
`hmc.fresh` says whether anybody has written it since, in which case the API server refuses
them: `Conflict` ends the pass, a refused annotation is only logged. The object may also be
written in ways that are not modelled, so that `Annotate` may fail at any time.

The environment is as hostile as the code allows: a VM is selected for any
untagged live host and composed later whatever happened since; hosts are deleted,
released and come back with the tags they still have; the trigger may name any
host. What Gate 2 makes of the cluster, pool and zone of a candidate (`MayReplace`) is left open.

### VMEvacuation

`machine`, `deleting`, `outdated`, `host` are the control plane Machines with their VMs;
`ops` the operation tags of a host; `cm` the ConfigMaps `vec-maintenance-<op>`;
`kcp` the status that VEC reads, written only by `KCPReconcile`, so that it lags;
`vec` the running pass. A pass with an active session is `ListSessions`,
`CheckActiveKCP`, `ReadSession`, `TagReady`, `CompleteSession`; without one it is
`ListSessions`, `ScanMachine` and `SaveSession` per Machine, `ScanEnds`,
`CheckNewKCP`, `CheckOthers` and `DeleteCPMachine`, `SwapKCPTemplate` or
`LeaveTwoReplicas`. Which active session a pass finishes is the choice of Go's
map iteration. Cluster API is external and modelled as far as VEC depends on it:
it creates missing Machines, surges by one in a rollout, removes outdated
Machines, remediates failed ones, and publishes its status. `isKCPStable` reads
`status.updatedReplicas`; that the installed KCP version publishes this field is
an assumption.

### MachineLifecycle

`node` is what MAAS says of a machine; `object` a MaasMachine (finalizer,
deletion, providerID); `cache` the version the informer has; `pass` the running
pass of each object. A work queue runs one pass per object, two workers run passes
of different objects (`machine-concurrency`). A pass of `reconcileNormal` is
`Reconcile`, `Find`, then `Allocate`, `RejectVMHost` or `PatchID` for an object
without an ID, `Reuse` for one with an ID, then `Deploy`, and `Rollback` and `ClearID`
if it is refused; one of `reconcileDelete` is `FindToRelease` and `ReleaseMachine`.
Every pass ends with the deferred `Close`, after errors too; a patch of an object that is
gone fails. `Age` is the two
minute gate of `shouldGateFinalizerRemoval`; it assumes that within two minutes of
a deletion the cache has caught up and the pass that was running has ended.

A pass may read an object that is out of date. Of a live object that is a failure
(`faults`). Of one that is being deleted it is free as long as the version read shows no
node: that is what the two minutes are for. One that shows a node is counted in
`stale`: a pass that still sees a deleted object as it was before its finalizer went
releases its node again, and MAAS may have given it to another MaasMachine by then. So
`LeaksAreFailures` counts faults only, and `OneOwner` faults and these reads. It takes three
MaasMachines to go wrong by such reads alone, more than the run has; the proof found it.

The patch helper of cluster-api is external and keeps the object as it was
when the pass began; a patch sends the difference to that. So the ID of a machine that was
allocated in the same pass cannot be cleared: after a roll-back the object goes on naming the
machine that was released, although the comment (machine.go:249-250) wants the next
pass to allocate another one, and takes the reuse path. `OneOwner` says what that may cost.
`HelperRebases` makes the model follow the other reading, in which the ID is cleared.
The run uses the helper as it is.

MAAS gives a free machine to one caller, accepts a deployment of a free or
allocated machine and refuses others, and takes the release of a free
machine as done. Left out: machines removed from MAAS (404), the release of
machines named in an error message, bridges, power-on, status; DNS is in `ControlPlaneDNS`.

### ControlPlaneDNS

`addresses` are the DNS resources in MAAS; `maasCluster`, `object` and `endpoint` the
MaasCluster, the MaasMachines of the control plane and the endpoint of the Cluster in the API
server; `clusterCache` and `cache` what the informers have of the first two; `due` the items
in the two work queues; `clusterPass` and `pass` the running passes. A machine
stands for its address.

A pass for the MaasCluster is `ReconcileCluster`, `ReconcileDNS` (name and resource),
`ListMachines` (from the cache), `UpdateDNSAttachments` (replaces all addresses) and
`CloseCluster`. One for a MaasMachine is `Reconcile`, then `PowerOn` or `Deploy` if need be,
`CheckDNS` (wait to be attached, or, when it is deleted, detached), `Release`, `Close`. The two
controllers meet only in objects and events: `Sync`, `SyncCluster` and
`PublishEndpoint` are the watches of both `SetupWithManager`, `Resync` the
sync-period of `main.go`. `addresses` is read and written a call at a time. The patch helper
(external) sends the object and its status in two calls; either may fail alone.

What the controllers rely on to agree is that the status of a machine changes when its
power does, and that its change wakes the MaasCluster controller up. Three things to know:
the two disagree on a machine that is deployed and off (the MaasMachine controller wants it
attached, the other one does not); a deletion that waits to be detached returns
without a requeue and goes on when an event or the sync-period comes; a machine
whose redeployment is refused keeps the status it had, so its address stays until it
runs again or is deleted.

Left out: the condition DNSAttached, whose change is one more event; what a pass does
after DNS (`LXDHosts`), which only repeats it; finalizers of machines and the gate of two minutes
(`MachineLifecycle`); the deletion of the MaasCluster, which waits for all machines to go.

### HostSelection and VMPlacement

`HostSelection` has no state. `Inventory` is what MAAS says of each VM host (zone, pool, tags,
cores, memory, storage pools), `Options` what the machine asks for. `Fits` is the
conjunction of the filters, `Score` is `computeResourceScore` and `Better` the
comparison of `sort.Slice`; `Best` are the hosts that may come first, since the sort is not
stable. The score is a sum of two quotients in floating point; the model multiplies both
by the two minima and compares integers, which orders hosts as exact arithmetic does.

In `VMPlacement` a pass of a worker is `Begin` (which lists the hosts with their free cores),
`CountCPs` (lists all machines and counts them by their tags), `SelectHost` (reads the machine
of each host), `Compose` or `TakeOver`, `PatchID`, `TagVM`, `Close`; a later pass is `Begin`,
`DeployVM`, `TagVM`, `Close`. `on`, `tagged` and `deployed` are what MAAS knows of a VM, `stored` what the
MaasMachine does; `good` are the hosts that are powered on, Deployed and not in maintenance. Only
cores are consumed; memory and disk act through the filters and the score. MAAS
refuses a VM for which a host has no cores left, and one whose hostname exists; a call
to compose may fail with or without effect, and a VM that exists may not be found. A MaasMachine
without an ID may be deleted as well; its VM, if there is one, stays.

Three things to know. A VM is counted from the moment it is tagged, so that each
worker may be one VM behind and a lost pass one more: that is the bound of
`SpreadBounded`. A VM whose ID was lost is found by its hostname, but in the code that
comes after the selection of a host: as long as no host has room for yet another
VM it is not found (`Steady` asks for that room). A VM that was taken over is tagged only when it is
deployed. The order of the hosts is the same whether or not the filters
passed over a host, and a machine that cannot be read is passed over too.

### APIServerPoller, LXDInitializer, LXDHosts

A pass of the MaasCluster controller that finds the API server of the workload
cluster offline does not ask for a requeue. `APIServerPoller` has the goroutine that wakes the
controller: `key` is the entry of the Cluster in `apiServerTriggers`, `poller` where each
goroutine stands, `queued` the item in the work queue. `PollEnds`, `SendEvent`,
`ClearKey` are its steps.

`LXDInitializer` has the nodes: `wanted` are the machines asked for, `node`, `label`, `lxd`,
`vmHosts` what the workload cluster and MAAS say, `pod` how far the pod of the DaemonSet is on
each node: `Boot` (what it reads before it does anything), `InitializeLXD`,
`Register`, `LabelNode`, then it sleeps. A failure ends the container, which starts
from the beginning, except that a label that cannot be set is ignored. Machines are
replaced, added and given up by Cluster API (external); a machine that is given up is taken out
of the VM hosts and then released (`UnregisterHost`, `Release`), while its pod still runs.

A pass in `LXDHosts` is `Begin`, `CheckOnline`, then the namespace kube-system (`GateFails`), `Defer` or
`ReadReplicas`, `Scan`; if a node is not initialised, `Prepare`, `Count` again and `ApplyDaemonSet`, else
`Count`; `DeleteDaemonSet` if every node is labelled and there are as many as
replicas; `ReconcileLXD`. The replicas that are read may be made up: a KCP without the
label of its cluster is not found and counts as one replica, without any failure (`WithoutKCP`).
`pass.seen` (the nodes that were counted), `pass.misread` and `fresh` are
auxiliary: they only say in `NoEarlyRemoval` what the pass could not know.

Four things to know. The count of nodes includes those on their way out, so that the DaemonSet may
go while a replacement has not joined; it comes back with a later pass. No event of a worker
machine or of a node wakes this controller (`controlPlaneMachineToCluster`), so that this
pass may be the one of the sync-period. After an outage, once the control plane is
initialized, the condition APIServerAvailable stays False until something else wakes
the controller, since no goroutine is started any more. `ReconcileLXD` drops the Boolean that
`isNodeLXDInitialized` returns (`pkg/maas/lxd/service.go:84`), so that the condition
LXDReady says that the nodes can be read, not that they are initialised; `LXDHosts`
has that step as it is, and no property is about the condition.

The names of a VM host and of a node are one here: the pod registers
`lxd-host-` with its `normalizeName`, the controller removes `lxd-host-` with the
lower-case hostname (`canonicalLXDHostName`), and these agree for host names as MAAS makes them.

## Runs

| Run | Question | Result |
|---|---|---|
| `HostMaintenanceHostile` | two hosts drained at once, two VMs, a trigger, hosts that come back, one fault: is there one session at most, is a tag left, is placement frozen, is a host taken with settled VMs, is `HostDrain` implemented? | holds |
| `HostMaintenanceLive` | two hosts at once, one fault: every deleted host goes, but for one that got its finalizer back; one host after the other without faults: tags and session agree, sessions close | holds |
| `VMEvacuationHostile` | faults, an outage, two operations, 1 or 2 replicas: completed sessions are acknowledged | holds |
| `VMEvacuationCalm` | one host at a time, 1 or 3 replicas: strength, the right replacement, sessions and maintenance end | holds |
| `MachineLifecycle` | two objects, two machines, one failure, one stale read of a deleted object: how many machines are leaked or given twice? | at most one per failure (or, given twice, per such read), none without |
| `ControlPlaneDNS` | one machine comes, changes and goes, one failure: is DNS right when nothing is left to do, is a machine attached, detached, released in the end? | holds |
| `VMPlacement` | three VMs, two workers, four hosts, one failure: are the VMs spread, known and tagged, and all deployed in the end? | holds |
| `LXDHosts` | two nodes, one change of the machines, one failure or outage: is the API server watched for, are ready nodes initialised, does the DaemonSet stay and go when it should, are leaving machines released? | holds |
| `HostMaintenancePartialRead` | a VM that cannot be read | a host is released with a guest that was there all along |
| `HostMaintenanceReadded` | a host that is drained before its MaasMachine is deleted | its finalizer is added again, and nobody will remove it |
| `VMEvacuationStall` | two hosts tagged in two operations | the second one never becomes empty |
| `ControlPlaneDNSPower` | a BMC that does not answer | the address of a deployed machine is withdrawn |

The last four contradict comments of the code; `findings` in `PROJECT.json`
quotes them. `SerialTags` and `SerialCloses` speak of behaviours in which nothing fails, no
trigger is set and one host is deleted at a time. They need that: after a restart
between `RemoveFinalizer` and `Complete` every later pass returns early, and the session stays active
until another host is drained.

Bounds. Two hosts are the least with which a session is shared, stolen or
completed by the other host; two VMs the least with which one leaves while another
arrives, or with which one is the replacement of the other; two operation
identifiers the least with which a host carries a foreign tag. The trigger starts sessions that name no host; a session that
names a host which is not (any more) being deleted comes from a drain that a failure cut short. A new operation takes an identifier that no
host is tagged with, and any when all are in use: the code never runs out of them.
`MaxFaults`, `MaxMarks`, `MaxOutages` and `Recreatable` cap what would not end;
one fault already stops a pass at each of its steps, and two let a lost save be
followed by a restart. In `VMEvacuation` four or five Machines are three replicas with the
replacements of one or two operations; with `MaxMarked = 2` a host may carry the tags of
both operations. In `MachineLifecycle` two objects and two
machines are the least with which one failure could cost two machines; failing calls, lost
passes and stale reads of objects that are not being deleted count as failures,
since the code does nothing to survive a stale read (`MaxFaults`); stale reads of objects
that are being deleted have a bound of their own (`MaxStale`), and are free when they show no node. In
`ControlPlaneDNS` there is one machine and one failure: a pass for the MaasCluster treats every machine by
itself and copies the whole list, so a second machine adds interleavings of the first one's
kind and no new one; the theorems hold for any number. In `VMPlacement` three VMs and two
workers are the least with which one worker places two VMs while the other one
holds an old count; the four hosts are one with the best score, one with
room for a single VM, a steady one, and one that fails the storage filter only.
In `LXDHosts` two nodes are the least with which one is counted for another; `MaxFaults`
counts failing calls, restarts of the manager or a pod, lost answers and outages of the API
server, one of any kind, and `MaxChanges` machines that are replaced, added or given up. The two
layouts are a control plane with room for a second node, and a control plane node
with a worker. Symmetry is used only in runs without
liveness properties.

`QuickPasses` in `VMEvacuation`: `tagReplacementVMAndCompleteSession` reads the
session right after KCP was read as stable. If a Machine is removed, its
replacement created and its VM composed and recorded between those two reads, that
VM is acknowledged before its node has joined (TLC shows this when
`QuickPasses` is FALSE). Composing takes minutes, the reads follow each other, so the
run that checks `AcknowledgedIsUp` excludes it, and so do the theorems about strength and
replacements; type correctness and `CompletedIsAcknowledged` are proved without it.

Fairness. A pass that has begun is carried on (`WF` of the step relation); a held
host is requeued every 10 seconds in a first-in first-out queue, and one that changes comes
back with its event or the sync-period of `main.go`, hence `SF` of
`ReconcileMaasMachine` per host, which one busy worker would otherwise disable again
and again; the MaasMachine controller is requeued until the object is gone. That Cluster API
deletes the MaasMachine is not assumed (`DeleteMaasMachine` has no fairness), nor that the finalizer is
put back. Placements end; VMs leave a host whose Machine is being deleted, which is what VEC or an
operator is there for. VEC is requeued after 30 seconds or 5 minutes; Cluster API keeps
reconciling and nodes of deployed VMs join. In `ControlPlaneDNS` passes go on, queued items are
taken, informers catch up and the sync-period comes again and again (`WF` of `Resync`): a waiting
deletion may need it. In `LXDHosts` passes, goroutines and pods go on, the queue is served, the
sync-period comes (`WF` of `Enqueue`), wanted machines join and become ready, leaving ones are
released, and a control plane that is up is reported initialized; whether the API server
comes up at all is left open. In `VMPlacement` workers go on, and no MaasMachine is passed over for ever
by a first-in first-out queue (`SF` of `Begin` for each). Nothing forces operators or MAAS to act.

## Proofs

All theorems hold for every value of the constants that the named assumptions
admit, without bounds on hosts, VMs, operations or faults.

`HostMaintenanceProofs`. `OnlyLateGuestsAtRelease` is not inductive: that the
finalizer is off says nothing by itself about why. The invariant `IInv` adds that a
live host is held or was found empty in this drain (`HeldOrGated`), that a host counts as found
empty only while its Machine is being deleted and the pass that found it so is behind its gates or has
removed the finalizer (`GateOK`), which host a pass may work on (`PassOK`), and how far
the tags of its host are at each step (`TagsOK`). Type correctness, `NoTagSurvivesEvacuation` and
`PlacementFrozenWhileDraining` follow without further conditions.

`OnlyLateGuestsAtRelease` and the refinement need one: the list with which a host is
found empty leaves no VM out (`ReadsComplete`, an action predicate). The code does not guarantee it:
`ListHostVMs` skips a VM whose details it cannot read, and
`HostMaintenancePartialRead` shows what happens then. So these theorems are about behaviours, `Spec /\
[][ReadsComplete]_vars => ...`, with every other failure, and for both values of `PartialReads`. That what is on a
host that was found empty is late (`LateOK`, lemma `GuestsAreLate`) is proved for those behaviours;
`ListsAreComplete` says that all are of that kind when `PartialReads` is FALSE, which the passing runs assume.

`TagsAgree` is `SerialTags`: as long as nothing fails, no trigger is set and one host at a
time is being deleted, tags and session agree at every step. The invariant (`Serial`)
follows the one session: either there is none, no pass runs and no host has a tag; or it is of one
host, every other host is untagged, a running pass is of that host and that
operation, and the host is held (live, its Machine being deleted, with its finalizer) until its tags are
off. That two hosts being deleted are the same one (`OneDeleted`) is what keeps a pass from
taking over the session of another host.

`HostDrainRefinement` proves that every step maps to a step of `HostDrain` or to a
stutter, with four more facts (`MapInv`; one is that a MaasMachine is deleted only with its Machine,
`DeletionsNest`), and that no VM is settled on a
host that is taken, both under the condition on lists above. The mapping: a host is *open* once it is found empty, a VM
that comes after that is not settled, and a pass that fails closes the gate, so that
these VMs count again.

`VMEvacuationProofs`. `CompletedIsAcknowledged` needs that a pass about to complete
a session has tagged its VM, and that the VM of a recorded Machine is never given
another parent; the invariant says so and is proved with faults, restarts and
outages, and without `QuickPasses`.

`EvictsOnlyFromFullStrength` and `AcknowledgesOnlyUp` are `EvictsFromFullStrength` and
`AcknowledgedIsUp`, for any number of replicas, Machines, hosts and hosts in maintenance. They are about what VEC
decides from a status that lags. The invariant (`Course`) follows an eviction: the control plane
is complete and nothing is replaced (`Quiet`), or a session is active and one Machine is
going, missing, replaced or to be replaced; a pass that wants to close that session finds no
replacement recorded, or the control plane unstable until it has joined (`JoiningIsUnstable`). A pass looks for Machines only while no
session is active, or while it opened one itself, and hence from a complete control plane. The
theorems assume `QuickPasses` and that nothing fails: a failed node or a lost
save lets a session be active with nothing to replace, or the status show as many as are
wanted while one is missing. `OnCourseUntilTrouble` states the same without a
bound on failures, for every step before the first one. `ReplacementsAreElsewhere` is `ReplacementIsElsewhere`
and assumes one host in one maintenance at a time (`MaxMarked <= 1`): another one may be tagged with
the same operation after a VM was composed on it.

`MachineLifecycleProofs`. `LeaksBounded` is `LeaksAreFailures`: no more nodes are in use that
no object names and no pass has at hand than calls failed, passes were lost and live objects were read
stale. It is not inductive: an object may name a node, or a pass have one at hand, that it is
about to drop, and a pass that began with a stale read loses a node only later. The
invariant is one of debts: the nodes that no object *keeps*, and the objects that are still
going to lose one (that are not `Straight`), are together at most `faults`. A
step that fails adds one to either, a step that does not moves a debt from the second to the first at
most. It is carried by how the four copies of the ID (in memory, in
the patch helper, in the API server, in the cache) fit together at each step (`Form`): a version of an
object that is being deleted is out of date by what the running pass has stored, at most,
and after the two minutes not at all, which is why reading it is harmless. `NothingLeaksByItself` is the
case without failures.

`MachineOwnershipProofs`. `OwnersBounded` is `OneOwner`. What two objects name
says too little: an object may name a node that its pass is giving up, and a pass may be about
to store one that no object names yet. The invariant counts the nodes that are *contested*: held (named, in
memory or at hand) by two objects, or by one that MAAS does not protect, since it is
not in use, or is to be released while the object goes on naming it. They are at most `faults + stale`: a
step in which nothing fails keeps every other node so, one that fails spoils the node it is
about (`Hit`). Both modules hold for both values of `HelperRebases`.

`ControlPlaneDNSProofs`. `DNSConverges` is `QuietIsRight`. It speaks of one moment; the
invariant (`Woken`) says for every other one what is still to come: the MaasCluster is
queued, its finalizer is not in the cache yet (an event is on its way), a pass has
the published name and has not listed the machines, it has listed them as the cache has
them now, or DNS already agrees with the cache. A change of the cache queues the
MaasCluster, so a list that is out of date never stays. `Finalized` and `Existing` relate
the versions of the MaasCluster that are stored, cached and in a pass.
`ResourcesBounded` is `ResourcesAreFailures`: the invariant (`Named`) counts
what the running pass and the next one may still create without a further failure; the two
create the same resource unless the pass began with a stale MaasCluster, which is a
failure of its own.

`VMPlacementProofs`. `Better` is an order and `Best` has the least loaded of the candidates
(`BetterIsAnOrder`, `BestIsLeastLoaded`). `DeployedAreTagged` is `UntaggedAreFailures` and
`ComposedAreKnown` is `KnownVMs`. For both the invariant counts failures: without any, a VM
without a tag or an ID is in the hands of a pass that is going to set it; with one, a VM that is
deployed and not tagged is in the hands of a pass that is going to tag it for the second time.
`AntiAffinityBounded` is `SpreadBounded`. A selection never misses a steady host (`SteadySeen`), so it takes a
host whose count is no higher. A count may be too low by what other passes have composed and not yet
tagged, one VM per worker, and by the VMs that no pass is going to tag (`Lost`): a failing call loses
one, a restart one per worker. The invariant adds to the load of a host the passes that are *heading*
for it, those that have counted it as no higher or have selected it; what was deleted from
the steady host since makes the rest of the bound.

`LXDHostsProofs`. `OneGoroutine` and `Watch` are `OnePoller` and `OfflineIsWatched`: what makes
the second inductive is that a pass between its start and its check has a
goroutine beside it that has not yet sent its event, or the event has queued the next
pass. `LabelsHold` is `LabelledIsRegistered`: a pod that is about to
label has registered its node and set LXD up, and only a machine that leaves is taken out of the VM
hosts. `LabelsNotMissed` is `MissedLabelsAreFailures`. `RemovalIsLate` is `NoEarlyRemoval`: from the
count on, the nodes that were counted are labelled unless they have left, and the
number that was read bounds the machines that were wanted then; the inequality follows by
cardinalities.

Only model-checked: liveness (`EvacuationCompletes`, `SerialCloses`,
`MaintenanceEnds`, `SessionsComplete`, `DeletedMachinesGo`, `RunningMachinesAreAttached`,
`AllPlaced`, `ReadyNodesInitialised`, `DaemonSetGoes`, `LeavingMachinesGo`, `PollersEnd`), which
the prover does not handle under fairness. Every invariant and every action property
of the passing runs is a theorem, under the hypotheses named above. What the four runs
with a violation check is refuted.

## Not modelled

- Two managers without leader election; stale informer caches in HMC, VEC and `LXDHosts`
  (their reads see the current object, except KCP's status).
- The wording of events and conditions, credentials and the MAAS client.
- API types and webhooks: functions of one object, without state, interleaving or failure.
- Storage version migration: a sequential rewrite of stored objects at start-up, before any
  controller runs.
- `main.go`: its worker counts, sync-period and leader election are assumptions of the modules.
- The deletion of a MaasCluster, which waits until no machine is left and drops its
  finalizer.
- What a pod configures inside LXD (storage pool, project, profile, bridge): a sequence
  of idempotent calls on one node, which is one step here. The older registration of VM hosts
  from the manager (`SetupLXDHostWithMaasClient`) has no caller.
- Static addresses and bridges of a machine; the release of machines that MAAS names in an
  error message; node labels that the MaasMachine controller sets.

## Plan

1. `HostMaintenance`, `MaintenanceSession`, `HostDrain`, their proofs. Done.
2. `VMEvacuation` and its proofs. Done.
3. HMC and VEC over the same tags and VMs: each of the two modules has the other controller as
   an environment at least as free as the code (in `VMEvacuation` with `MaxMarked > 1`, a host may get
   the tags of several operations; with `MaxMarked = 1` there is one maintenance at a time). Gate 2 of HMC asks again what Gate 1 has
   required, so that the acknowledgement, for which the two would have to be composed, is never waited for.
4. `MachineLifecycle` and its proofs, with a count of what each failure may have cost. Done.
5. `ControlPlaneDNS` and its proofs. Done. To come: the deletion of the MaasCluster, and the
   endpoint of a Cluster that is set by its user.
6. `APIServerPoller`, `LXDInitializer`, `LXDHosts` and their proofs. Done. To come: the condition LXDReady.
7. `HostSelection`, `VMPlacement` and their proofs. Done.
8. Abstract specifications beside `HostDrain`: what VEC and the machine service promise, with
   the refinements proved step by step.
