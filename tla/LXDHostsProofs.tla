---------------------------- MODULE LXDHostsProofs ----------------------------
(***************************************************************************)
(* Proofs about LXDHosts, for any number of nodes, goroutines, changes and *)
(* failures: one goroutine at most polls, an offline API server is         *)
(* watched, labels mean what they say, and the DaemonSet is not removed    *)
(* early.                                                                  *)
(*                                                                         *)
(* Each of them needs what is under way: what a goroutine that has ended   *)
(* its poll knows (Watched), what a pod has done when it comes to label    *)
(* its node (Registered), and how the replicas and the nodes a pass has    *)
(* read compare with those of now (Counted).                               *)
(***************************************************************************)
EXTENDS LXDHosts, FiniteSetTheorems, TLAPS

\* The steps of Next, by what they work on.
ClusterStep == APIUp \/ APIDown \/ ControlPlaneInitialized \/ DeleteCluster
PodMoves(n) == PodStep(n) \/ PodDies(n) \/ StartPod(n) \/ StopPod(n)
NodeMoves(n) == MachineStep(n) \/ NodeUnready(n)
Changes(n) == ScaleUp(n) \/ ScaleDown(n) \/ \E m \in Nodes : Replace(m, n)

\* Without failures the API server stays up once a poll has ended, and a pass
\* that has found it offline goes with a goroutine that still polls.
Watched ==
  faults = 0 /\ ~deleting =>
    /\ \A p \in Pollers : poller[p] \in {"sending", "clearing"} => api
    /\ ~initialized /\ pass.pc = "check" /\ ~api => \E p \in Pollers : poller[p] = "polling"
    /\ pass.pc \notin {"idle", "check"} => available

\* A pod comes to its label when MAAS has its node as a VM host, and a VM host
\* is one whose LXD listens.
Registered ==
  /\ vmHosts \subseteq lxd
  /\ \A n \in Nodes : pod[n] # "none" => n \in Present
  /\ \A n \in wanted : pod[n] = "label" \/ n \in label => n \in vmHosts

\* Without failures the API server stays up as long as there are pods.
Attended ==
  faults = 0 => \A n \in Nodes : /\ pod[n] # "none" => api
                                 /\ pod[n] = "asleep" => n \in label

\* The machines that the pass has counted, of which some may be gone since.
Counted == wanted \ fresh

CountOK ==
  /\ pass.pc \in {"scan", "prepare", "count", "recount"} /\ ~pass.misread =>
       Cardinality(Counted) <= pass.desired
  /\ pass.pc = "delete" /\ ~pass.misread =>
       /\ Cardinality(Counted) <= Cardinality(pass.seen)
       /\ Counted \cap pass.seen \subseteq label

-----------------------------------------------------------------------------
(* Steps.                                                                  *)

LEMMA StepKinds ==
  ASSUME [Next]_vars
  PROVE  \/ Begin \/ PassStep \/ Enqueue \/ Restart
         \/ OutsideHosts /\ ClusterStep
         \/ \E p \in Pollers : OutsideHosts /\ PollerStep(p)
         \/ \E n \in Nodes : Outside /\ PodMoves(n)
         \/ \E n \in Nodes : Outside /\ NodeMoves(n)
         \/ \E n \in Nodes : Outside /\ Changes(n)
         \/ UNCHANGED vars
BY DEF Next, ClusterStep, PodMoves, NodeMoves, Changes

\* What a pass leaves alone.
LEMMA PassStepFrame ==
  ASSUME PassStep
  PROVE  UNCHANGED <<clusterVars, pollerVars, controlPlane, wanted, changes, hostVars>>
BY DEF PassStep, PassFrame, CheckOnline, Scan, Prepare, Count, DeleteDaemonSet, ApplyDaemonSet,
       ReadReplicas, GateFails, Defer, ReconcileLXD, machineVars

\* What the pods leave alone.
LEMMA PodFrames ==
  ASSUME NEW n \in Nodes, Outside, PodMoves(n)
  PROVE  UNCHANGED <<clusterVars, pollerVars, queued, machineVars, node, ds, available, pass>>
BY DEF PodMoves, PodStep, PodDies, StartPod, StopPod, Boot, InitializeLXD, Register, LabelNode,
       PodFrame, Outside

\* What nodes leave alone.
LEMMA NodeFrames ==
  ASSUME NEW n \in Nodes, Outside, NodeMoves(n)
  PROVE  UNCHANGED <<clusterVars, pollerVars, queued, machineVars, ds, available, pass>>
BY DEF NodeMoves, MachineStep, NodeUnready, Join, NodeReady, UnregisterHost, Release, NodeFrame,
       Outside

\* What changes of the machines leave alone.
LEMMA ChangeFrames ==
  ASSUME NEW n \in Nodes, Outside, Changes(n)
  PROVE  UNCHANGED <<clusterVars, pollerVars, queued, faults, controlPlane, hostVars, ds,
                     available, pass>>
BY DEF Changes, ScaleUp, ScaleDown, Replace, NodeFrame, Outside

-----------------------------------------------------------------------------
(* Failures.                                                               *)

\* No step forgets a failure.
LEMMA FaultsKept ==
  ASSUME faults \in 0..MaxFaults, [Next]_vars
  PROVE  faults' \in 0..MaxFaults /\ (faults' = 0 => faults = 0)
<1> USE PollerAssumption
<1>1. CASE Fault \/ UNCHANGED faults
  BY <1>1 DEF Fault
<1>2. CASE Begin \/ Enqueue \/ Restart \/ UNCHANGED vars
  BY <1>1, <1>2 DEF Begin, Enqueue, Restart, vars
<1>3. CASE PassStep
  BY <1>1, <1>3 DEF PassStep, PassFrame, CheckOnline, Scan, Prepare, Count, DeleteDaemonSet,
     ApplyDaemonSet, ReadReplicas, GateFails, Defer, ReconcileLXD, Call
<1>4. CASE ClusterStep
  BY <1>1, <1>4 DEF ClusterStep, APIUp, APIDown, ControlPlaneInitialized, DeleteCluster
<1>5. ASSUME NEW p \in Pollers, PollerStep(p)
      PROVE  Fault \/ UNCHANGED faults
  BY <1>5 DEF PollerStep, PollEnds, SendEvent, ClearKey
<1>6. ASSUME NEW n \in Nodes, PodMoves(n)
      PROVE  Fault \/ UNCHANGED faults
  BY <1>6 DEF PodMoves, PodStep, PodDies, StartPod, StopPod, Boot, InitializeLXD, Register,
     LabelNode, Call
<1>7. ASSUME NEW n \in Nodes, NodeMoves(n) \/ Changes(n)
      PROVE  Fault \/ UNCHANGED faults
  BY <1>7 DEF NodeMoves, Changes, MachineStep, NodeUnready, Join, NodeReady, UnregisterHost,
     Release, ScaleUp, ScaleDown, Replace
<1>. QED
  BY <1>1, <1>2, <1>3, <1>4, <1>5, <1>6, <1>7, StepKinds

-----------------------------------------------------------------------------
(* Type correctness.                                                       *)

Points == {"idle", "check", "gate", "scan", "prepare", "count", "recount", "apply",
           "delete", "status"}

LEMMA AtTyped ==
  ASSUME NEW pc \in Points
  PROVE  At(pc) \in Pass
BY DEF At, Pass, Points

LEMMA IdleTyped == Idle \in Pass
BY DEF Idle, At, Pass

LEMMA InitTyped == Init => TypeOK
<1> SUFFICES ASSUME Init PROVE TypeOK
  OBVIOUS
<1>1. PollerTypeOK
  <2>1. /\ api = FALSE /\ initialized = FALSE /\ deleting = FALSE /\ key = FALSE /\ queued = TRUE
        /\ poller = [p \in Pollers |-> "none"] /\ faults = 0
    BY DEF Init, PollerInit
  <2>2. faults \in 0..MaxFaults
    BY <2>1, PollerAssumption
  <2>3. poller \in [Pollers -> {"none", "polling", "sending", "clearing"}]
    BY <2>1
  <2>4. /\ api \in BOOLEAN /\ initialized \in BOOLEAN /\ deleting \in BOOLEAN
        /\ key \in BOOLEAN /\ queued \in BOOLEAN
    BY <2>1
  <2>. QED
    BY <2>2, <2>3, <2>4, Zenon DEF PollerTypeOK
<1>2. PICK l \in Layouts : controlPlane = l.controlPlane /\ wanted = l.first
  BY DEF Init, InitializerInit
<1>3. controlPlane \subseteq Nodes /\ wanted \subseteq Nodes
  BY <1>2, InitializerAssumption
<1>4. InitializerTypeOK
  <2>1. /\ fresh = {} /\ changes = 0 /\ label = {} /\ lxd = {} /\ vmHosts = {} /\ ds = FALSE
        /\ node = [n \in Nodes |-> "absent"] /\ pod = [n \in Nodes |-> "none"]
    BY DEF Init, InitializerInit
  <2>2. changes \in 0..MaxChanges
    BY <2>1, InitializerAssumption
  <2>5. ds \in BOOLEAN
    BY <2>1
  <2>3. /\ node \in [Nodes -> {"absent", "notReady", "ready"}]
        /\ pod \in [Nodes -> {"none", "boot", "init", "register", "label", "asleep"}]
    BY <2>1
  <2>4. /\ fresh \subseteq wanted /\ label \subseteq Present /\ lxd \subseteq Present
        /\ vmHosts \subseteq Present
    BY <2>1
  <2>. QED
    BY <1>3, <2>2, <2>3, <2>4, <2>5, Zenon DEF InitializerTypeOK
<1>5. pass \in Pass /\ available \in BOOLEAN
  <2>1. pass = Idle /\ available = FALSE
    BY DEF Init
  <2>. QED
    BY <2>1, IdleTyped
<1>. QED
  BY <1>1, <1>4, <1>5 DEF TypeOK

\* Every set of nodes has a number of members.
LEMMA NodesCounted ==
  ASSUME NEW S \in SUBSET Nodes
  PROVE  IsFiniteSet(S) /\ Cardinality(S) \in Nat
BY FS_Subset, FS_CardinalityType, InitializerAssumption

\* The goroutines and the cluster.
LEMMA PollerTyped ==
  ASSUME TypeOK, [Next]_vars
  PROVE  PollerTypeOK'
<1> USE DEF TypeOK, PollerTypeOK
<1>0. faults' \in 0..MaxFaults
  BY FaultsKept
<1>1. CASE Begin
  BY <1>0, <1>1 DEF Begin, ReconcileWhenOnline, clusterVars
<1>2. CASE PassStep
  <2>1. queued' \in BOOLEAN
    BY <1>2 DEF PassStep, PassFrame, CheckOnline, Scan, Prepare, Count, DeleteDaemonSet,
       ApplyDaemonSet, ReadReplicas, GateFails, Defer, ReconcileLXD, Retry
  <2>. QED
    BY <1>0, <1>2, <2>1, PassStepFrame DEF clusterVars, pollerVars
<1>3. CASE Enqueue \/ Restart \/ UNCHANGED vars
  BY <1>0, <1>3 DEF Enqueue, Restart, vars, clusterVars, pollerVars
<1>4. CASE ClusterStep
  BY <1>0, <1>4 DEF ClusterStep, APIUp, APIDown, ControlPlaneInitialized, DeleteCluster, pollerVars
<1>5. ASSUME NEW p \in Pollers, PollerStep(p)
      PROVE  PollerTypeOK'
  BY <1>0, <1>5 DEF PollerStep, PollEnds, SendEvent, ClearKey, Goes, clusterVars
<1>6. ASSUME NEW n \in Nodes, Outside, PodMoves(n) \/ NodeMoves(n) \/ Changes(n)
      PROVE  PollerTypeOK'
  BY <1>0, <1>6, PodFrames, NodeFrames, ChangeFrames DEF clusterVars, pollerVars
<1>. QED
  BY <1>1, <1>2, <1>3, <1>4, <1>5, <1>6, StepKinds

\* The pods and the nodes, the machines and the DaemonSet.
LEMMA InitializerTyped ==
  ASSUME TypeOK, [Next]_vars
  PROVE  InitializerTypeOK'
<1> USE DEF TypeOK, InitializerTypeOK, Present
<1>1. CASE Begin \/ Enqueue \/ Restart \/ UNCHANGED vars
  BY <1>1 DEF Begin, Enqueue, Restart, vars, machineVars, hostVars
<1>2. CASE PassStep
  <2>1. ds' \in BOOLEAN /\ (UNCHANGED fresh \/ fresh' = {})
    BY <1>2 DEF PassStep, PassFrame, CheckOnline, Scan, Prepare, Count, DeleteDaemonSet,
       ApplyDaemonSet, ReadReplicas, GateFails, Defer, ReconcileLXD, machineVars
  <2>. QED
    BY <1>2, <2>1, PassStepFrame DEF hostVars
<1>3. CASE OutsideHosts
  BY <1>3 DEF OutsideHosts, machineVars, hostVars
<1>4. ASSUME NEW n \in Nodes, Outside, PodMoves(n)
      PROVE  InitializerTypeOK'
  <2>1. UNCHANGED <<machineVars, node, ds>>
    BY <1>4, PodFrames
  <2>2. pod' \in [Nodes -> {"none", "boot", "init", "register", "label", "asleep"}]
    BY <1>4 DEF PodMoves, PodStep, PodDies, StartPod, StopPod, Boot, InitializeLXD, Register,
       LabelNode, PodGoes
  <2>3. label' \subseteq Present /\ lxd' \subseteq Present /\ vmHosts' \subseteq Present
    BY <1>4 DEF PodMoves, PodStep, PodDies, StartPod, StopPod, Boot, InitializeLXD, Register,
       LabelNode, PodGoes
  <2>. QED
    BY <2>1, <2>2, <2>3 DEF machineVars
<1>5. ASSUME NEW n \in Nodes, Outside, NodeMoves(n)
      PROVE  InitializerTypeOK'
  <2>1. UNCHANGED <<machineVars, ds>>
    BY <1>5, NodeFrames
  <2>2. /\ node' \in [Nodes -> {"absent", "notReady", "ready"}]
        /\ pod' \in [Nodes -> {"none", "boot", "init", "register", "label", "asleep"}]
    BY <1>5 DEF NodeMoves, MachineStep, NodeUnready, Join, NodeReady, UnregisterHost, Release
  <2>3. /\ label' \subseteq Present' /\ lxd' \subseteq Present' /\ vmHosts' \subseteq Present'
    BY <1>5 DEF NodeMoves, MachineStep, NodeUnready, Join, NodeReady, UnregisterHost, Release,
       Leaving
  <2>. QED
    BY <2>1, <2>2, <2>3 DEF machineVars
<1>6. ASSUME NEW n \in Nodes, Outside, Changes(n)
      PROVE  InitializerTypeOK'
  <2>1. UNCHANGED <<controlPlane, hostVars, ds>>
    BY <1>6, ChangeFrames
  <2>2. wanted' \subseteq Nodes /\ fresh' \subseteq wanted' /\ changes' \in 0..MaxChanges
    BY <1>6, InitializerAssumption DEF Changes, ScaleUp, ScaleDown, Replace, Change
  <2>. QED
    BY <2>1, <2>2 DEF hostVars
<1>. QED
  BY <1>1, <1>2, <1>3, <1>4, <1>5, <1>6, StepKinds

\* Whatever the pass takes for the number of replicas is a number.
LEMMA ReplicasTyped ==
  ASSUME InitializerTypeOK, NEW misread \in BOOLEAN
  PROVE  ReplicasRead(misread) \subseteq Nat
<1>1. /\ Cardinality(wanted \cap controlPlane) \in Nat
      /\ Cardinality(wanted \ controlPlane) \in Nat
      /\ Cardinality(wanted) \in Nat
  BY NodesCounted DEF InitializerTypeOK
<1>. QED
  BY <1>1 DEF ReplicasRead, WithoutKCP

\* The pass goes on with what it has read.
LEMMA PassTyped ==
  ASSUME TypeOK, [Next]_vars
  PROVE  pass' \in Pass
<1> USE DEF TypeOK
<1>1. CASE Begin \/ Enqueue \/ Restart \/ UNCHANGED vars
  BY <1>1, AtTyped, IdleTyped DEF Begin, Enqueue, Restart, vars, Points
<1>2. ASSUME NEW ok \in BOOLEAN, CheckOnline(ok) \/ DeleteDaemonSet(ok) \/ ApplyDaemonSet(ok)
      PROVE  pass' \in Pass
  BY <1>2, AtTyped, IdleTyped DEF CheckOnline, DeleteDaemonSet, ApplyDaemonSet, GoesTo, Retry, Points
<1>3. ASSUME NEW ok \in BOOLEAN, Scan(ok) \/ Prepare(ok)
      PROVE  pass' \in Pass
  <2>1. \/ pass' = Idle
        \/ \E pc \in Points : pass' = [pass EXCEPT !.pc = pc]
    BY <1>3 DEF Scan, Prepare, Retry, Points
  <2>. QED
    BY <2>1, IdleTyped DEF Pass, Points
<1>4. ASSUME NEW ok \in BOOLEAN, Count(ok)
      PROVE  pass' \in Pass
  <2>1. pass.misread \in BOOLEAN /\ Present \in SUBSET Nodes
    BY DEF Pass, Present
  <2>2. \/ pass' = [pc |-> "delete", desired |-> 0, misread |-> pass.misread, seen |-> Present]
        \/ \E pc \in Points : pass' = At(pc)
    BY <1>4 DEF Count, Points
  <2>. QED
    BY <2>1, <2>2, AtTyped DEF Pass
<1>5. ASSUME NEW misread \in BOOLEAN, ReadReplicas(misread)
      PROVE  pass' \in Pass
  BY <1>5, ReplicasTyped DEF ReadReplicas, Pass
<1>6. CASE GateFails \/ Defer \/ ReconcileLXD
  BY <1>6, AtTyped, IdleTyped DEF GateFails, Defer, ReconcileLXD, GoesTo, Retry, Points
<1>7. CASE OutsideHosts \/ Outside
  BY <1>7 DEF OutsideHosts, Outside
<1>. QED
  BY <1>1, <1>2, <1>3, <1>4, <1>5, <1>6, <1>7, StepKinds DEF PassStep

LEMMA NextTyped == TypeOK /\ [Next]_vars => TypeOK'
<1> SUFFICES ASSUME TypeOK, [Next]_vars PROVE TypeOK'
  OBVIOUS
<1>1. available' \in BOOLEAN
  <2>1. CASE PassStep
    BY <2>1 DEF PassStep, PassFrame, CheckOnline, Scan, Prepare, Count, DeleteDaemonSet,
       ApplyDaemonSet, ReadReplicas, GateFails, Defer, ReconcileLXD, TypeOK
  <2>2. CASE UNCHANGED available
    BY <2>2 DEF TypeOK
  <2>. QED
    BY <2>1, <2>2, StepKinds DEF Begin, Enqueue, Restart, OutsideHosts, Outside, vars
<1>. QED
  BY <1>1, PollerTyped, InitializerTyped, PassTyped DEF TypeOK

\* Every state is well typed, and labels, LXD and VM hosts belong to nodes
\* that are there.
THEOREM TypeCorrect == Spec => []TypeOK
BY InitTyped, NextTyped, PTL DEF Spec

-----------------------------------------------------------------------------
(* The goroutines.                                                         *)

LEMMA OnePollerNext ==
  ASSUME TypeOK, OnePoller, [Next]_vars
  PROVE  OnePoller'
<1> USE DEF OnePoller
<1>0. poller \in [Pollers -> {"none", "polling", "sending", "clearing"}] /\ key \in BOOLEAN
  BY DEF TypeOK, PollerTypeOK
<1>1. CASE Begin
  <2>1. CASE initialized \/ deleting \/ key
    BY <1>1, <2>1 DEF Begin, ReconcileWhenOnline
  <2>2. CASE ~(initialized \/ deleting \/ key)
    <3>1. /\ \A p \in Pollers : poller[p] = "none"
          /\ key' = TRUE /\ poller' = [poller EXCEPT ![NewPoller] = "polling"]
      BY <1>1, <2>2 DEF Begin, ReconcileWhenOnline
    <3>2. NewPoller \in Pollers
      BY <3>1, PollerAssumption DEF NewPoller
    <3>. QED
      BY <1>0, <3>1, <3>2
  <2>. QED
    BY <2>1, <2>2
<1>2. ASSUME NEW p \in Pollers, PollerStep(p)
      PROVE  OnePoller'
  BY <1>0, <1>2 DEF PollerStep, PollEnds, SendEvent, ClearKey, Goes
<1>3. CASE Restart
  BY <1>3 DEF Restart
<1>4. CASE UNCHANGED pollerVars
  BY <1>4 DEF pollerVars
<1>5. \/ Begin \/ Restart \/ UNCHANGED pollerVars
      \/ \E p \in Pollers : PollerStep(p)
  BY StepKinds, PassStepFrame, PodFrames, NodeFrames, ChangeFrames
     DEF Enqueue, vars, ClusterStep, APIUp, APIDown, ControlPlaneInitialized, DeleteCluster
<1>. QED
  BY <1>1, <1>2, <1>3, <1>4, <1>5

\* However passes, goroutines, failures and restarts interleave, one goroutine
\* at most polls for the Cluster, and the key in the map stands for it.
THEOREM OneGoroutine == Spec => []OnePoller
<1>1. Init => OnePoller
  BY DEF Init, PollerInit, OnePoller
<1>2. TypeOK /\ OnePoller /\ [Next]_vars => OnePoller'
  BY OnePollerNext
<1>. QED
  BY <1>1, <1>2, TypeCorrect, PTL DEF Spec

-----------------------------------------------------------------------------
(* The watch for an API server that is offline.                            *)

\* A state without failures has not been reached by one.
LEMMA NoFailure ==
  ASSUME TypeOK, [Next]_vars, faults' = 0
  PROVE  faults = 0 /\ ~Fault /\ (api => api') /\ (deleting => deleting')
         /\ (initialized => initialized')
<1>1. faults = 0 /\ ~Fault
  BY FaultsKept DEF TypeOK, PollerTypeOK, Fault
<1>2. CASE ClusterStep
  BY <1>1, <1>2 DEF ClusterStep, APIUp, APIDown, ControlPlaneInitialized, DeleteCluster
<1>3. ASSUME NEW p \in Pollers, PollerStep(p)
      PROVE  UNCHANGED clusterVars
  BY <1>3 DEF PollerStep, PollEnds, SendEvent, ClearKey
<1>4. ClusterStep \/ UNCHANGED clusterVars
  BY <1>3, StepKinds, PassStepFrame, PodFrames, NodeFrames, ChangeFrames
     DEF Begin, Enqueue, Restart, vars
<1>. QED
  BY <1>1, <1>2, <1>4 DEF clusterVars

\* Where a step of the pass goes, and what it tells of the API server.
LEMMA PassStepWatch ==
  ASSUME TypeOK, PassStep, ~Fault
  PROVE  \/ /\ pass.pc \notin {"idle", "check"} /\ pass'.pc # "check"
            /\ UNCHANGED available
         \/ pass.pc = "check" /\ available' /\ pass'.pc = "gate"
         \/ /\ pass.pc = "check" /\ ~available' /\ pass'.pc = "idle"
            /\ deleting \/ ~api
<1>1. ASSUME NEW ok \in BOOLEAN, CheckOnline(ok)
      PROVE  \/ pass.pc = "check" /\ available' /\ pass'.pc = "gate"
             \/ /\ pass.pc = "check" /\ ~available' /\ pass'.pc = "idle"
                /\ deleting \/ ~api
  BY <1>1 DEF CheckOnline, At, Idle, Call
<1>2. ASSUME NEW ok \in BOOLEAN, Scan(ok) \/ Prepare(ok)
      PROVE  pass.pc \notin {"idle", "check"} /\ pass'.pc # "check" /\ UNCHANGED available
  BY <1>2 DEF Scan, Prepare, Retry, At, Idle, TypeOK, Pass
<1>3. ASSUME NEW ok \in BOOLEAN, Count(ok) \/ DeleteDaemonSet(ok) \/ ApplyDaemonSet(ok)
      PROVE  pass.pc \notin {"idle", "check"} /\ pass'.pc # "check" /\ UNCHANGED available
  BY <1>3 DEF Count, DeleteDaemonSet, ApplyDaemonSet, GoesTo, Retry, At, Idle
<1>4. ASSUME NEW misread \in BOOLEAN, ReadReplicas(misread)
      PROVE  pass.pc \notin {"idle", "check"} /\ pass'.pc # "check" /\ UNCHANGED available
  BY <1>4 DEF ReadReplicas
<1>5. ASSUME GateFails \/ Defer \/ ReconcileLXD
      PROVE  pass.pc \notin {"idle", "check"} /\ pass'.pc # "check" /\ UNCHANGED available
  <2>1. CASE GateFails
    BY <2>1 DEF GateFails, Retry, At, Idle
  <2>2. CASE Defer
    BY <2>2 DEF Defer, GoesTo, At
  <2>3. CASE ReconcileLXD
    <3>1. pass.pc = "status" /\ pass' = Idle /\ UNCHANGED available
      BY <2>3 DEF ReconcileLXD, Retry
    <3>. QED
      BY <3>1 DEF At, Idle
  <2>. QED
    BY <1>5, <2>1, <2>2, <2>3
<1>. QED
  BY <1>1, <1>2, <1>3, <1>4, <1>5, Zenon DEF PassStep

LEMMA WatchedNext ==
  ASSUME TypeOK, OnePoller, Watched, [Next]_vars
  PROVE  Watched'
<1> SUFFICES ASSUME faults' = 0, ~deleting'
             PROVE  /\ \A p \in Pollers : poller'[p] \in {"sending", "clearing"} => api'
                    /\ ~initialized' /\ pass'.pc = "check" /\ ~api'
                         => \E p \in Pollers : poller'[p] = "polling"
                    /\ pass'.pc \notin {"idle", "check"} => available'
  BY DEF Watched
<1>0. /\ faults = 0 /\ ~Fault /\ ~deleting /\ (api => api') /\ (initialized => initialized')
      /\ poller \in [Pollers -> {"none", "polling", "sending", "clearing"}]
  BY NoFailure DEF TypeOK, PollerTypeOK
<1>1. CASE Begin
  <2>1. pass'.pc = "check" /\ UNCHANGED <<api, initialized, deleting>>
    BY <1>1 DEF Begin, At, clusterVars
  <2>2. CASE key
    <3>1. UNCHANGED poller /\ \E p \in Pollers : poller[p] # "none"
      BY <1>1, <2>2 DEF Begin, ReconcileWhenOnline, OnePoller
    <3>. QED
      BY <1>0, <2>1, <3>1 DEF Watched
  <2>3. CASE ~key /\ (initialized \/ deleting)
    <3>1. UNCHANGED poller
      BY <1>1, <2>3 DEF Begin, ReconcileWhenOnline
    <3>. QED
      BY <1>0, <2>1, <2>3, <3>1 DEF Watched
  <2>4. CASE ~key /\ ~initialized /\ ~deleting
    <3>1. /\ \A p \in Pollers : poller[p] = "none"
          /\ poller' = [poller EXCEPT ![NewPoller] = "polling"]
      BY <1>1, <2>4 DEF Begin, ReconcileWhenOnline, OnePoller
    <3>2. NewPoller \in Pollers
      BY <3>1, PollerAssumption DEF NewPoller
    <3>. QED
      BY <1>0, <2>1, <3>1, <3>2
  <2>. QED
    BY <2>2, <2>3, <2>4
<1>2. CASE PassStep
  <2>1. UNCHANGED <<api, poller>>
    BY <1>2, PassStepFrame DEF clusterVars, pollerVars
  <2>. QED
    BY <1>0, <1>2, <2>1, PassStepWatch DEF Watched
<1>3. ASSUME NEW p \in Pollers, OutsideHosts, PollerStep(p)
      PROVE  Watched'
  <2>1. UNCHANGED <<api, initialized, deleting, available, pass>>
    BY <1>3 DEF PollerStep, PollEnds, SendEvent, ClearKey, OutsideHosts, Outside, clusterVars
  <2>2. CASE PollEnds(p)
    BY <1>0, <2>1, <2>2 DEF PollEnds, Goes, Watched
  <2>3. CASE SendEvent(p) \/ ClearKey(p)
    BY <1>0, <2>1, <2>3 DEF SendEvent, ClearKey, Goes, Watched
  <2>. QED
    BY <1>3, <2>2, <2>3 DEF PollerStep
<1>4. CASE UNCHANGED <<poller, available, pass>>
  BY <1>0, <1>4 DEF Watched
<1>5. \/ Begin \/ PassStep
      \/ \E p \in Pollers : OutsideHosts /\ PollerStep(p)
      \/ UNCHANGED <<poller, available, pass>>
  BY <1>0, StepKinds, PodFrames, NodeFrames, ChangeFrames
     DEF Enqueue, Restart, vars, ClusterStep, APIUp, APIDown, ControlPlaneInitialized,
         DeleteCluster, OutsideHosts, Outside, pollerVars
<1>. QED
  BY <1>1, <1>2, <1>3, <1>4, <1>5 DEF Watched

LEMMA OfflineNext ==
  ASSUME TypeOK, Watched, OfflineIsWatched, [Next]_vars
  PROVE  OfflineIsWatched'
<1> SUFFICES ASSUME pass'.pc = "idle", ~queued', ~available', ~initialized', ~deleting', faults' = 0
             PROVE  \E p \in Pollers : poller'[p] \in {"polling", "sending"}
  BY FaultsKept DEF OfflineIsWatched, TypeOK, PollerTypeOK
<1>0. /\ faults = 0 /\ ~Fault /\ ~deleting /\ ~initialized
      /\ poller \in [Pollers -> {"none", "polling", "sending", "clearing"}]
  BY NoFailure DEF TypeOK, PollerTypeOK
<1>1. CASE Begin
  BY <1>1 DEF Begin, At
<1>2. CASE PassStep
  <2>1. UNCHANGED poller
    BY <1>2, PassStepFrame DEF pollerVars
  <2>. QED
    BY <1>0, <1>2, <2>1, PassStepWatch DEF Watched
<1>3. ASSUME NEW p \in Pollers, OutsideHosts, PollerStep(p)
      PROVE  \E q \in Pollers : poller'[q] \in {"polling", "sending"}
  <2>1. UNCHANGED <<available, pass>>
    BY <1>3 DEF OutsideHosts, Outside
  <2>2. CASE PollEnds(p)
    BY <1>0, <2>2 DEF PollEnds, Goes
  <2>3. CASE SendEvent(p)
    BY <2>3 DEF SendEvent
  <2>4. CASE ClearKey(p)
    BY <1>0, <2>1, <2>4 DEF ClearKey, Goes, OfflineIsWatched
  <2>. QED
    BY <1>3, <2>2, <2>3, <2>4 DEF PollerStep
<1>4. CASE UNCHANGED <<poller, queued, available, pass>>
  BY <1>0, <1>4 DEF OfflineIsWatched
<1>5. \/ Begin \/ PassStep
      \/ \E p \in Pollers : OutsideHosts /\ PollerStep(p)
      \/ UNCHANGED <<poller, queued, available, pass>>
  BY <1>0, StepKinds, PodFrames, NodeFrames, ChangeFrames
     DEF Enqueue, Restart, vars, ClusterStep, APIUp, APIDown, ControlPlaneInitialized,
         DeleteCluster, OutsideHosts, Outside, pollerVars
<1>. QED
  BY <1>1, <1>2, <1>3, <1>4, <1>5

\* Without failures an API server that was found offline is watched until
\* somebody has been told, whenever the event of the goroutine comes.
THEOREM Watch == Spec => []OfflineIsWatched
<1>1. Init => Watched /\ OfflineIsWatched
  BY DEF Init, PollerInit, Watched, OfflineIsWatched, Idle, At
<1>2. TypeOK /\ OnePoller /\ Watched /\ OfflineIsWatched /\ [Next]_vars
        => (Watched /\ OfflineIsWatched)'
  BY WatchedNext, OfflineNext
<1>. QED
  BY <1>1, <1>2, TypeCorrect, OneGoroutine, PTL DEF Spec

-----------------------------------------------------------------------------
(* The labels.                                                             *)

LEMMA RegisteredNext ==
  ASSUME TypeOK, Registered, [Next]_vars
  PROVE  Registered'
<1>0. /\ node \in [Nodes -> {"absent", "notReady", "ready"}]
      /\ pod \in [Nodes -> {"none", "boot", "init", "register", "label", "asleep"}]
      /\ wanted \subseteq Nodes /\ label \subseteq Present
  BY DEF TypeOK, InitializerTypeOK
<1>1. CASE UNCHANGED <<wanted, hostVars>>
  BY <1>1 DEF Registered, hostVars, Present
<1>2. ASSUME NEW n \in Nodes, Outside, PodMoves(n)
      PROVE  Registered'
  <2>1. UNCHANGED <<wanted, node>>
    BY <1>2, PodFrames DEF machineVars
  <2>2. CASE PodStep(n) \/ PodDies(n) \/ StartPod(n)
    <3>1. n \in Present
      BY <1>2, <2>2 DEF PodStep, PodDies, StartPod, Present, Ready, Registered
    <3>. QED
      BY <1>0, <2>1, <2>2, <3>1
         DEF PodStep, PodDies, StartPod, Boot, InitializeLXD, Register, LabelNode, PodGoes,
             Registered, Present
  <2>3. CASE StopPod(n)
    BY <1>0, <2>1, <2>3 DEF StopPod, PodGoes, Registered, Present
  <2>. QED
    BY <1>2, <2>2, <2>3 DEF PodMoves
<1>3. ASSUME NEW n \in Nodes, Outside, NodeMoves(n)
      PROVE  Registered'
  <2>1. UNCHANGED wanted
    BY <1>3, NodeFrames DEF machineVars
  <2>2. CASE Join(n) \/ NodeReady(n) \/ NodeUnready(n)
    BY <1>0, <2>1, <2>2 DEF Join, NodeReady, NodeUnready, Registered, Present
  <2>3. CASE UnregisterHost(n) \/ Release(n)
    BY <1>0, <2>1, <2>3 DEF UnregisterHost, Release, Leaving, Registered, Present
  <2>. QED
    BY <1>3, <2>2, <2>3 DEF NodeMoves, MachineStep
<1>4. ASSUME NEW n \in Nodes, Outside, Changes(n)
      PROVE  Registered'
  <2>1. UNCHANGED hostVars
    BY <1>4, ChangeFrames
  <2>2. \A m \in wanted' : m \in wanted \/ m \in Nodes \ Present
    BY <1>4 DEF Changes, ScaleUp, ScaleDown, Replace, Role
  <2>. QED
    BY <1>0, <2>1, <2>2 DEF Registered, hostVars, Present
<1>5. \/ UNCHANGED <<wanted, hostVars>>
      \/ \E n \in Nodes : Outside /\ (PodMoves(n) \/ NodeMoves(n) \/ Changes(n))
  BY StepKinds, PassStepFrame
     DEF Begin, Enqueue, Restart, vars, OutsideHosts, machineVars
<1>. QED
  BY <1>1, <1>2, <1>3, <1>4, <1>5

\* A node that stays and is labelled is a VM host of MAAS whose LXD listens,
\* whatever was retried, lost or restarted before it was labelled.
THEOREM LabelsHold == Spec => []LabelledIsRegistered
<1>1. Init => Registered
  <2> SUFFICES ASSUME Init PROVE Registered
    OBVIOUS
  <2>1. wanted \subseteq Nodes
    BY InitTyped DEF TypeOK, InitializerTypeOK
  <2>2. pod = [n \in Nodes |-> "none"] /\ label = {} /\ vmHosts = {}
    BY DEF Init, InitializerInit
  <2>. QED
    BY <2>1, <2>2 DEF Registered
<1>2. TypeOK /\ Registered /\ [Next]_vars => Registered'
  BY RegisteredNext
<1>3. Registered => LabelledIsRegistered
  BY DEF Registered, LabelledIsRegistered
<1>. QED
  BY <1>1, <1>2, <1>3, TypeCorrect, PTL DEF Spec

LEMMA AttendedNext ==
  ASSUME TypeOK, Attended, [Next]_vars
  PROVE  Attended'
<1> SUFFICES ASSUME faults' = 0
             PROVE  \A n \in Nodes : /\ pod'[n] # "none" => api'
                                     /\ pod'[n] = "asleep" => n \in label'
  BY DEF Attended
<1>0. /\ faults = 0 /\ ~Fault /\ (api => api')
      /\ pod \in [Nodes -> {"none", "boot", "init", "register", "label", "asleep"}]
  BY NoFailure DEF TypeOK, InitializerTypeOK
<1>1. CASE UNCHANGED <<pod, label>>
  BY <1>0, <1>1 DEF Attended
<1>2. ASSUME NEW n \in Nodes, PodMoves(n)
      PROVE  Attended'
  BY <1>0, <1>2 DEF PodMoves, PodStep, PodDies, StartPod, StopPod, Boot, InitializeLXD, Register,
     LabelNode, Call, PodGoes, Attended
<1>3. ASSUME NEW n \in Nodes, NodeMoves(n)
      PROVE  Attended'
  BY <1>0, <1>3 DEF NodeMoves, MachineStep, NodeUnready, Join, NodeReady, UnregisterHost, Release,
     Attended
<1>4. \/ UNCHANGED <<pod, label>>
      \/ \E n \in Nodes : PodMoves(n) \/ NodeMoves(n)
  BY StepKinds, PassStepFrame, ChangeFrames
     DEF Begin, Enqueue, Restart, vars, OutsideHosts, hostVars
<1>. QED
  BY <1>0, <1>1, <1>2, <1>3, <1>4 DEF Attended

\* Without failures and outages the one attempt of every pod succeeds.
THEOREM LabelsNotMissed == Spec => []MissedLabelsAreFailures
<1>1. Init => Attended
  BY DEF Init, InitializerInit, Attended
<1>2. TypeOK /\ Attended /\ [Next]_vars => Attended'
  BY AttendedNext
<1>3. TypeOK /\ Attended => MissedLabelsAreFailures
  BY DEF Attended, MissedLabelsAreFailures, TypeOK, PollerTypeOK
<1>. QED
  BY <1>1, <1>2, <1>3, TypeCorrect, PTL DEF Spec

-----------------------------------------------------------------------------
(* The removal of the DaemonSet.                                           *)

\* What is counted now was counted before, unless the pass counts again.
LEMMA Recounted ==
  ASSUME TypeOK, CountOK, UNCHANGED pass, Counted' \subseteq Counted,
         Counted' \cap label \subseteq label'
  PROVE  CountOK'
<1>1. Cardinality(Counted') <= Cardinality(Counted)
  <2>1. IsFiniteSet(Counted)
    BY NodesCounted DEF TypeOK, InitializerTypeOK, Counted
  <2>. QED
    BY <2>1, FS_Subset
<1>2. Cardinality(Counted') \in Nat /\ Cardinality(Counted) \in Nat
  BY NodesCounted DEF TypeOK, InitializerTypeOK, Counted
<1>3. pass.desired \in Nat /\ Cardinality(pass.seen) \in Nat
  BY NodesCounted DEF TypeOK, Pass
<1>. QED
  BY <1>1, <1>2, <1>3 DEF CountOK

\* Passes that have counted nothing, or no longer know what.
Forgetful == {At("idle"), At("check"), At("gate"), At("status"), At("apply")}

LEMMA CountNext ==
  ASSUME TypeOK, CountOK, [Next]_vars
  PROVE  CountOK'
<1> USE DEF TypeOK
<1>1. ASSUME NEW misread \in BOOLEAN, ReadReplicas(misread)
      PROVE  CountOK'
  <2>1. Counted' = wanted
    BY <1>1 DEF ReadReplicas, Counted
  <2>2. CASE misread
    BY <1>1, <2>2 DEF ReadReplicas, CountOK
  <2>3. CASE ~misread
    <3>1. pass'.pc = "scan" /\ pass'.desired = Cardinality(wanted)
      BY <1>1, <2>3 DEF ReadReplicas, ReplicasRead
    <3>2. Cardinality(wanted) \in Nat
      BY NodesCounted DEF InitializerTypeOK
    <3>. QED
      BY <2>1, <3>1, <3>2 DEF CountOK
  <2>. QED
    BY <2>2, <2>3
<1>2. ASSUME NEW ok \in BOOLEAN, Scan(ok) \/ Prepare(ok)
      PROVE  CountOK'
  <2>1. UNCHANGED <<wanted, fresh, label>>
    BY <1>2 DEF Scan, Prepare, PassFrame, machineVars, hostVars
  <2>2. CASE pass' = Idle
    BY <2>2 DEF CountOK, Idle, At
  <2>3. ASSUME NEW pc \in {"prepare", "count", "recount"}, pass' = [pass EXCEPT !.pc = pc],
               pass.pc \in {"scan", "prepare"}
        PROVE  CountOK'
    BY <2>1, <2>3 DEF CountOK, Counted, Pass
  <2>4. \/ pass' = Idle
        \/ /\ pass.pc \in {"scan", "prepare"}
           /\ \E pc \in {"prepare", "count", "recount"} : pass' = [pass EXCEPT !.pc = pc]
    BY <1>2 DEF Scan, Prepare, Retry
  <2>. QED
    BY <2>2, <2>3, <2>4
<1>3. ASSUME NEW ok \in BOOLEAN, Count(ok)
      PROVE  CountOK'
  <2>1. UNCHANGED <<wanted, fresh, label>>
    BY <1>3 DEF Count, PassFrame, machineVars, hostVars
  <2>2. CASE pass' \in {At("status"), At("apply")}
    BY <2>2 DEF CountOK, At
  <2>3. CASE /\ Present \subseteq label /\ Cardinality(Present) >= pass.desired
             /\ pass' = [pc |-> "delete", desired |-> 0, misread |-> pass.misread, seen |-> Present]
    <3>1. /\ Cardinality(Counted) \in Nat /\ Cardinality(Present) \in Nat
          /\ pass.desired \in Nat
      BY NodesCounted DEF InitializerTypeOK, Counted, Present, Pass
    <3>2. ~pass.misread => Cardinality(Counted) <= pass.desired
      BY <1>3 DEF Count, CountOK
    <3>. QED
      BY <2>1, <2>3, <3>1, <3>2 DEF CountOK, Counted
  <2>. QED
    BY <1>3, <2>2, <2>3 DEF Count
<1>4. CASE pass' \in Forgetful
  <2>1. pass'.pc \in {"idle", "check", "gate", "status", "apply"}
    BY <1>4 DEF Forgetful, At
  <2>. QED
    BY <2>1 DEF CountOK
<1>5. ASSUME NEW n \in Nodes, Outside, PodMoves(n)
      PROVE  CountOK'
  <2>1. UNCHANGED <<wanted, fresh, pass>>
    BY <1>5, PodFrames DEF machineVars
  <2>2. label \subseteq label'
    BY <1>5 DEF PodMoves, PodStep, PodDies, StartPod, StopPod, Boot, InitializeLXD, Register,
       LabelNode
  <2>. QED
    BY <2>1, <2>2, Recounted DEF Counted
<1>6. ASSUME NEW n \in Nodes, Outside, NodeMoves(n)
      PROVE  CountOK'
  <2>1. UNCHANGED <<wanted, fresh, pass>>
    BY <1>6, NodeFrames DEF machineVars
  <2>2. wanted \cap label \subseteq label'
    BY <1>6 DEF NodeMoves, MachineStep, NodeUnready, Join, NodeReady, UnregisterHost, Release,
       Leaving
  <2>. QED
    BY <2>1, <2>2, Recounted DEF Counted
<1>7. ASSUME NEW n \in Nodes, Outside, Changes(n)
      PROVE  CountOK'
  <2>1. UNCHANGED <<label, pass>>
    BY <1>7, ChangeFrames DEF hostVars
  <2>2. Counted' \subseteq Counted
    BY <1>7 DEF Changes, ScaleUp, ScaleDown, Replace, Counted
  <2>. QED
    BY <2>1, <2>2, Recounted
<1>8. CASE UNCHANGED <<wanted, fresh, label, pass>>
  BY <1>8, Recounted DEF Counted
<1>9. ASSUME PassStep
      PROVE  \/ \E ok \in BOOLEAN : ReadReplicas(ok) \/ Scan(ok) \/ Prepare(ok) \/ Count(ok)
             \/ pass' \in Forgetful
  <2>1. ASSUME NEW ok \in BOOLEAN, CheckOnline(ok) \/ DeleteDaemonSet(ok) \/ ApplyDaemonSet(ok)
        PROVE  pass' \in Forgetful
    BY <2>1 DEF CheckOnline, DeleteDaemonSet, ApplyDaemonSet, GoesTo, Retry, Idle, Forgetful
  <2>2. CASE GateFails \/ Defer \/ ReconcileLXD
    BY <2>2 DEF GateFails, Defer, ReconcileLXD, GoesTo, Retry, Idle, Forgetful
  <2>. QED
    BY <1>9, <2>1, <2>2 DEF PassStep
<1>10. \/ PassStep \/ pass' \in Forgetful
       \/ UNCHANGED <<wanted, fresh, label, pass>>
       \/ \E n \in Nodes : Outside /\ (PodMoves(n) \/ NodeMoves(n) \/ Changes(n))
  BY StepKinds DEF Begin, Enqueue, Restart, vars, OutsideHosts, Outside, machineVars, hostVars,
     Idle, Forgetful
<1>. QED
  BY <1>1, <1>2, <1>3, <1>4, <1>5, <1>6, <1>7, <1>8, <1>9, <1>10

\* Of what is counted, as much is not labelled as was seen beside it.
LEMMA RemovalStep ==
  ASSUME TypeOK, CountOK, [Next]_vars, ds, ~ds', ~pass.misread
  PROVE  Cardinality((wanted \ fresh) \ label) <= Cardinality(pass.seen \ (wanted \ fresh))
<1>1. pass.pc = "delete"
  <2>1. CASE PassStep
    BY <2>1 DEF PassStep, PassFrame, CheckOnline, Scan, Prepare, Count, DeleteDaemonSet,
       ApplyDaemonSet, ReadReplicas, GateFails, Defer, ReconcileLXD, GoesTo
  <2>2. PassStep \/ UNCHANGED ds
    BY StepKinds, PodFrames, NodeFrames, ChangeFrames
       DEF Begin, Enqueue, Restart, vars, OutsideHosts
  <2>. QED
    BY <2>1, <2>2
<1>2. /\ Cardinality(Counted) <= Cardinality(pass.seen)
      /\ Counted \cap pass.seen \subseteq label
  BY <1>1 DEF CountOK
<1>3. Counted \in SUBSET Nodes /\ pass.seen \in SUBSET Nodes
  BY DEF TypeOK, InitializerTypeOK, Counted, Pass
<1>4. /\ IsFiniteSet(Counted) /\ IsFiniteSet(pass.seen)
      /\ Cardinality(Counted) \in Nat /\ Cardinality(pass.seen) \in Nat
      /\ Cardinality(Counted \cap pass.seen) \in Nat
      /\ IsFiniteSet(Counted \ pass.seen) /\ Cardinality(Counted \ pass.seen) \in Nat
      /\ Cardinality(Counted \ label) \in Nat
  <2>1. /\ Counted \cap pass.seen \in SUBSET Nodes /\ Counted \ pass.seen \in SUBSET Nodes
        /\ Counted \ label \in SUBSET Nodes
    BY <1>3
  <2>. QED
    BY <1>3, <2>1, NodesCounted
<1>5. /\ Cardinality(Counted \ pass.seen)
           = Cardinality(Counted) - Cardinality(Counted \cap pass.seen)
      /\ Cardinality(pass.seen \ Counted)
           = Cardinality(pass.seen) - Cardinality(Counted \cap pass.seen)
  <2>1. pass.seen \cap Counted = Counted \cap pass.seen
    OBVIOUS
  <2>. QED
    BY <1>4, <2>1, FS_Difference
<1>6. Cardinality(Counted \ label) <= Cardinality(Counted \ pass.seen)
  <2>1. (Counted \ label) \in SUBSET (Counted \ pass.seen)
    BY <1>2
  <2>. QED
    BY <1>4, <2>1, FS_Subset
<1>. QED
  BY <1>2, <1>4, <1>5, <1>6 DEF Counted

\* The DaemonSet is never removed while a machine that the pass knew of is
\* unlabelled, but for one that a node on its way out was counted for.
THEOREM RemovalIsLate == Spec => NoEarlyRemoval
<1>1. Init => CountOK
  BY DEF Init, CountOK, Idle, At
<1>2. TypeOK /\ CountOK /\ [Next]_vars => CountOK'
  BY CountNext
<1>3. TypeOK /\ CountOK /\ [Next]_vars
        => [ds /\ ~ds' /\ ~pass.misread
              => Cardinality((wanted \ fresh) \ label)
                   <= Cardinality(pass.seen \ (wanted \ fresh))]_vars
  BY RemovalStep
<1>. QED
  BY <1>1, <1>2, <1>3, TypeCorrect, PTL DEF Spec, NoEarlyRemoval
=============================================================================
