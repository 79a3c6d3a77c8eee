------------------------------- MODULE LXDHosts -------------------------------
(***************************************************************************)
(* The passes of the MaasCluster controller once the DNS of the cluster is *)
(* settled: is the API server online, is the workload cluster labelled as  *)
(* ready, and should the DaemonSet lxd-initializer exist?  They run        *)
(* against the goroutine of APIServerPoller and the pods and machines of   *)
(* LXDInitializer.  Every call to an API server is an action.              *)
(*                                                                         *)
(* A pass that ends before that, with DNS attachments pending, is followed *)
(* by the event of the machine that waited for them (ControlPlaneDNS); the *)
(* two together change nothing here.                                       *)
(***************************************************************************)
EXTENDS LXDInitializer

VARIABLES
  available,  \* the condition APIServerAvailable of the MaasCluster
  pass        \* the running pass

vars == <<clusterVars, pollerVars, faults, machineVars, hostVars, ds,
          queued, available, pass>>

\* desired is the number of replicas that was read, misread says that it was
\* made up because they could not be; seen are the nodes that were listed.
Pass == [pc : {"idle", "check", "gate", "scan", "prepare", "count", "recount",
               "apply", "delete", "status"},
         desired : Nat, misread : BOOLEAN, seen : SUBSET Nodes]

At(pc) == [pc |-> pc, desired |-> 0, misread |-> FALSE, seen |-> {}]
Idle   == At("idle")

TypeOK ==
  /\ PollerTypeOK /\ InitializerTypeOK
  /\ available \in BOOLEAN
  /\ pass \in Pass

Init ==
  /\ PollerInit /\ InitializerInit
  /\ available = FALSE
  /\ pass = Idle

-----------------------------------------------------------------------------
(* The pass.                                                               *)

GoesTo(from, to) == pass.pc = from /\ pass' = At(to)

\* Ends the pass and asks for another one; errors and RequeueAfter alike.
Retry(from) == pass.pc = from /\ pass' = Idle /\ queued' = TRUE

\* Everything but the pass, the queue, the faults and the condition.
PassFrame ==
  UNCHANGED <<clusterVars, pollerVars, machineVars, hostVars, ds>>

Begin ==
  /\ queued /\ pass.pc = "idle"
  /\ queued' = FALSE
  /\ pass' = At("check")
  /\ ReconcileWhenOnline
  /\ UNCHANGED <<clusterVars, faults, machineVars, hostVars, ds, available>>

\* IsAPIServerOnline, which calls a Cluster that is being deleted, or that
\* cannot be read, offline.  Nothing is requeued then.
CheckOnline(ok) ==
  /\ pass.pc = "check"
  /\ IF deleting THEN ~ok /\ UNCHANGED faults ELSE Call(ok)
  /\ available' = ok
  /\ pass' = IF ok THEN At("gate") ELSE Idle
  /\ PassFrame /\ UNCHANGED queued

\* KCP has all its replicas, and all of them are ready.
ControlPlaneReady ==
  LET replicas == Cardinality(wanted \cap controlPlane)
  IN  replicas > 0 /\ Cardinality(Ready \cap controlPlane) >= replicas

\* What the pass takes for the number of machines: one control plane machine
\* when no KCP is found, which one without the label of the cluster never is; no
\* workers when the MachineDeployments cannot be listed.
WithoutKCP == 1 + Cardinality(wanted \ controlPlane)

ReplicasRead(misread) ==
  LET cp == Cardinality(wanted \cap controlPlane)
  IN  IF misread THEN {WithoutKCP, cp, 1} ELSE {Cardinality(wanted)}

\* The namespace kube-system is labelled, then read back: a failure is
\* retried after 30 seconds.
GateFails ==
  /\ Retry("gate") /\ Call(FALSE)
  /\ PassFrame /\ UNCHANGED available

\* With a control plane that is not ready, or unknown, the DaemonSet is left
\* as it is.
Defer ==
  /\ GoesTo("gate", "status") /\ api
  /\ IF ControlPlaneReady THEN Fault ELSE UNCHANGED faults
  /\ PassFrame /\ UNCHANGED <<queued, available>>

ReadReplicas(misread) ==
  /\ pass.pc = "gate" /\ api /\ ControlPlaneReady
  /\ \E d \in ReplicasRead(misread) :
       /\ pass' = [pc |-> "scan", desired |-> d, misread |-> misread, seen |-> {}]
       /\ IF misread /\ d # WithoutKCP THEN Fault ELSE UNCHANGED faults
  /\ fresh' = {}
  /\ UNCHANGED <<clusterVars, pollerVars, controlPlane, wanted, changes, hostVars, ds,
                 queued, available>>

\* anyNodeNeedsInitialization: yes when the nodes cannot be listed.
Scan(ok) ==
  /\ pass.pc = "scan"
  /\ Call(ok)
  /\ LET need == ~ok \/ Present = {} \/ ~(Ready \subseteq label)
     IN  pass' = IF need THEN [pass EXCEPT !.pc = "prepare"] ELSE [pass EXCEPT !.pc = "count"]
  /\ PassFrame /\ UNCHANGED <<queued, available>>

\* DaemonSets with the label of old, the namespace, the credentials, RBAC.
Prepare(ok) ==
  /\ pass.pc = "prepare"
  /\ Call(ok)
  /\ IF ok THEN pass' = [pass EXCEPT !.pc = "recount"] /\ UNCHANGED queued
           ELSE Retry("prepare")
  /\ PassFrame /\ UNCHANGED available

\* Mutant of Count: a node that is labelled is enough.
CountSome(ok) ==
  /\ pass.pc \in {"count", "recount"}
  /\ Call(ok)
  /\ LET done == ok /\ Present \cap label # {} /\ Cardinality(Present) >= pass.desired
     IN  pass' = IF done
                   THEN [pc |-> "delete", desired |-> 0, misread |-> pass.misread, seen |-> Present]
                   ELSE At(IF pass.pc = "count" THEN "status" ELSE "apply")
  /\ PassFrame /\ UNCHANGED <<queued, available>>

\* Mutant of Count: the number of replicas is not asked for.
CountNoReplicas(ok) ==
  /\ pass.pc \in {"count", "recount"}
  /\ Call(ok)
  /\ LET done == ok /\ Present # {} /\ Present \subseteq label
     IN  pass' = IF done
                   THEN [pc |-> "delete", desired |-> 0, misread |-> pass.misread, seen |-> Present]
                   ELSE At(IF pass.pc = "count" THEN "status" ELSE "apply")
  /\ PassFrame /\ UNCHANGED <<queued, available>>

\* maybeShortCircuitDelete: every node that is listed is labelled, and there
\* are as many as replicas.
Count(ok) ==
  /\ pass.pc \in {"count", "recount"}
  /\ Call(ok)
  /\ LET done == /\ ok /\ Present # {} /\ Present \subseteq label
                 /\ Cardinality(Present) >= pass.desired
     IN  pass' = IF done
                   THEN [pc |-> "delete", desired |-> 0, misread |-> pass.misread, seen |-> Present]
                   ELSE At(IF pass.pc = "count" THEN "status" ELSE "apply")
  /\ PassFrame /\ UNCHANGED <<queued, available>>

\* Mutant of DeleteDaemonSet: it is looked for under another label.
DeleteNothing(ok) ==
  /\ GoesTo("delete", "status")
  /\ Call(ok)
  /\ PassFrame /\ UNCHANGED <<queued, available>>

\* Errors are ignored.
DeleteDaemonSet(ok) ==
  /\ GoesTo("delete", "status")
  /\ Call(ok)
  /\ ds' = (ds /\ ~ok)
  /\ UNCHANGED <<clusterVars, pollerVars, machineVars, hostVars, queued, available>>

ApplyDaemonSet(ok) ==
  /\ Call(ok)
  /\ IF ok THEN GoesTo("apply", "status") /\ UNCHANGED queued ELSE Retry("apply")
  /\ ds' = (ds \/ ok)
  /\ UNCHANGED <<clusterVars, pollerVars, machineVars, hostVars, available>>

\* ReconcileLXD reads the node of every machine, once all machines are
\* ready; a node that is not there yet is an error.
ReconcileLXD ==
  /\ \/ pass.pc = "status" /\ pass' = Idle /\ UNCHANGED <<queued, faults>>
     \/ Retry("status") /\ ~(wanted \subseteq Present) /\ UNCHANGED faults
     \/ Retry("status") /\ Call(FALSE)
  /\ PassFrame /\ UNCHANGED available

PassStep ==
  \/ \E ok \in BOOLEAN :
       \/ CheckOnline(ok) \/ Scan(ok) \/ Prepare(ok) \/ Count(ok)
       \/ DeleteDaemonSet(ok) \/ ApplyDaemonSet(ok) \/ ReadReplicas(ok)
  \/ GateFails \/ Defer \/ ReconcileLXD

-----------------------------------------------------------------------------
(* The work queue and the manager.                                         *)

\* An event of the MaasCluster, of its Cluster or of a control plane
\* MaasMachine, or the resync of the informers.
Enqueue ==
  /\ ~queued /\ queued' = TRUE
  /\ UNCHANGED <<clusterVars, pollerVars, faults, machineVars, hostVars, ds,
                 available, pass>>

\* The manager restarts: goroutines, map and channel are those of the process.
Restart ==
  /\ Fault
  /\ poller' = [p \in Pollers |-> "none"]
  /\ key' = FALSE
  /\ pass' = Idle /\ queued' = TRUE
  /\ UNCHANGED <<clusterVars, machineVars, hostVars, ds, available>>

\* The steps of LXDInitializer and APIServerPoller, which leave these alone.
Outside == UNCHANGED <<available, pass>>
OutsideHosts == Outside /\ UNCHANGED <<machineVars, hostVars, ds>>

Next ==
  \/ Begin \/ PassStep \/ Enqueue \/ Restart
  \/ /\ OutsideHosts
     /\ \/ APIUp \/ APIDown \/ ControlPlaneInitialized \/ DeleteCluster
        \/ \E p \in Pollers : PollerStep(p)
  \/ /\ Outside
     /\ \E n \in Nodes :
          \/ PodStep(n) \/ PodDies(n) \/ StartPod(n) \/ StopPod(n)
          \/ MachineStep(n) \/ NodeUnready(n)
          \/ ScaleUp(n) \/ ScaleDown(n)
          \/ \E m \in Nodes : Replace(m, n)

Spec == Init /\ [][Next]_vars

\* Passes, goroutines and pods go on; the queue is served; informers resync
\* (main.go, sync-period); machines join, become ready and are released, and a
\* control plane that is up is reported initialized.  The API server need not
\* come up; failures, replacements and deletion need not happen.
FairSpec ==
  /\ Spec
  /\ WF_vars(Begin \/ PassStep) /\ WF_vars(Enqueue)
  /\ WF_vars(OutsideHosts /\ ControlPlaneInitialized)
  /\ WF_vars(OutsideHosts /\ \E p \in Pollers : PollerStep(p))
  /\ \A n \in Nodes : /\ WF_vars(Outside /\ (PodStep(n) \/ StartPod(n) \/ StopPod(n)))
                      /\ WF_vars(Outside /\ MachineStep(n))

-----------------------------------------------------------------------------
(* Properties.                                                             *)

\* A pass that found the API server offline is not repeated by itself: as
\* long as nobody else will wake the controller, a goroutine is watching,
\* but after an outage or a failure, which can end the watch too early.
OfflineIsWatched ==
  (/\ pass.pc = "idle" /\ ~queued
   /\ ~available /\ ~initialized /\ ~deleting)
    => \/ \E p \in Pollers : poller[p] \in {"polling", "sending"}
       \/ faults > 0

\* The DaemonSet goes only when every machine that was asked for when the
\* pass read the replicas is labelled, except that a node on its way out is
\* counted for one that has not joined.
NoEarlyRemoval ==
  [][ds /\ ~ds' /\ ~pass.misread
       => Cardinality((wanted \ fresh) \ label)
            <= Cardinality(pass.seen \ (wanted \ fresh))]_vars

\* Time and again every node that is ready is labelled, whether it was there
\* when the DaemonSet was created, joined later, or lost its pod to a removal,
\* unless the one attempt to label it failed.
ReadyNodesInitialised ==
  []<>(~api \/ deleting \/ \A n \in Ready : n \in label \/ pod[n] = "asleep")

\* The DaemonSet does not stay when every machine is there and labelled, and
\* no other.
DaemonSetGoes ==
  []<>(ds /\ Present = wanted /\ wanted \subseteq label => ~api \/ deleting \/ ~ControlPlaneReady)

\* Machines that are given up are released, although a pod may register one
\* again as a VM host after it has been taken out.
LeavingMachinesGo == []<>(\A n \in Nodes : ~Leaving(n))

\* No goroutine outlives its Cluster.
PollersEnd == []<>(deleting => \A p \in Pollers : poller[p] = "none")
=============================================================================
