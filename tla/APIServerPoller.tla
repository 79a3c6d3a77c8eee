--------------------------- MODULE APIServerPoller ---------------------------
(***************************************************************************)
(* How the MaasCluster controller learns that the API server of a new      *)
(* workload cluster has come up.  A pass that finds it offline does not    *)
(* ask for a requeue: a goroutine polls once a second and wakes the        *)
(* controller with a GenericEvent.  A map under a mutex, keyed by the UID  *)
(* of the Cluster, keeps a second goroutine from being started.            *)
(*                                                                         *)
(* This module has the goroutine and what it looks at; the controller's    *)
(* pass, which starts it, is in LXDHosts.                                  *)
(***************************************************************************)
EXTENDS Naturals, FiniteSets

CONSTANTS
  Pollers,   \* identities a polling goroutine can have
  MaxFaults  \* bound: calls that fail, restarts of the manager or of a pod, outages

ASSUME PollerAssumption == Pollers # {} /\ MaxFaults \in Nat

VARIABLES
  api,          \* the workload API server answers
  initialized,  \* Cluster.status.initialization.controlPlaneInitialized
  deleting,     \* the Cluster has a deletion timestamp
  key,          \* the UID of the Cluster is in apiServerTriggers
  poller,       \* where each goroutine stands
  queued,       \* the MaasCluster is in the work queue of its controller
  faults        \* faults so far

pollerVars == <<key, poller>>
clusterVars == <<api, initialized, deleting>>

PollerTypeOK ==
  /\ api \in BOOLEAN /\ initialized \in BOOLEAN /\ deleting \in BOOLEAN
  /\ key \in BOOLEAN /\ queued \in BOOLEAN
  /\ poller \in [Pollers -> {"none", "polling", "sending", "clearing"}]
  /\ faults \in 0..MaxFaults

PollerInit ==
  /\ api = FALSE
  /\ initialized = FALSE
  /\ deleting = FALSE
  /\ key = FALSE
  /\ poller = [p \in Pollers |-> "none"]
  /\ queued = TRUE
  /\ faults = 0

Fault == faults < MaxFaults /\ faults' = faults + 1

\* A remote call that succeeds needs the API server; one that fails does so
\* because the API server is away, or is a fault.
Call(ok) ==
  IF ok
    THEN api /\ UNCHANGED faults
    ELSE IF api THEN Fault ELSE UNCHANGED faults

-----------------------------------------------------------------------------
(* Called by a pass.                                                       *)

NewPoller == CHOOSE p \in Pollers : poller[p] = "none"

\* Mutant of ReconcileWhenOnline: the map is not looked at.
ReconcileWhenOnlineUnlocked ==
  IF initialized \/ deleting \/ (\A q \in Pollers : poller[q] # "none")
    THEN UNCHANGED <<key, poller>>
    ELSE /\ key' = TRUE
         /\ poller' = [poller EXCEPT ![NewPoller] = "polling"]

\* ReconcileMaasClusterWhenAPIServerIsOnline.
ReconcileWhenOnline ==
  IF initialized \/ deleting \/ key
    THEN UNCHANGED <<key, poller>>
    ELSE /\ key' = TRUE
         /\ poller' = [poller EXCEPT ![NewPoller] = "polling"]

-----------------------------------------------------------------------------
(* The goroutine.                                                          *)

Goes(p, from, to) ==
  poller[p] = from /\ poller' = [poller EXCEPT ![p] = to]

\* Mutant of PollEnds: a Cluster that is being deleted is polled for as well.
PollIgnoresDeletion(p) ==
  /\ Goes(p, "polling", "sending")
  /\ IF api THEN UNCHANGED faults ELSE Fault
  /\ UNCHANGED <<clusterVars, key, queued>>

\* The poll ends when the API server answers, and also when the Cluster is
\* being deleted or cannot be read: IsAPIServerOnline returns an error then.
PollEnds(p) ==
  /\ Goes(p, "polling", "sending")
  /\ IF api \/ deleting THEN UNCHANGED faults ELSE Fault
  /\ UNCHANGED <<clusterVars, key, queued>>

\* Mutant of SendEvent: nobody is told.
SendNothing(p) ==
  /\ Goes(p, "sending", "clearing")
  /\ UNCHANGED <<clusterVars, key, queued, faults>>

\* The reader of the channel passes the event on to the work queue.
SendEvent(p) ==
  /\ Goes(p, "sending", "clearing")
  /\ queued' = TRUE
  /\ UNCHANGED <<clusterVars, key, faults>>

\* Only after the event has been sent is the key given back.
ClearKey(p) ==
  /\ Goes(p, "clearing", "none")
  /\ key' = FALSE
  /\ UNCHANGED <<clusterVars, queued, faults>>

PollerStep(p) == PollEnds(p) \/ SendEvent(p) \/ ClearKey(p)

-----------------------------------------------------------------------------
(* The workload cluster and its Cluster object.                            *)

APIUp ==
  /\ ~api /\ api' = TRUE
  /\ UNCHANGED <<initialized, deleting, pollerVars, queued, faults>>

APIDown ==
  /\ api /\ api' = FALSE
  /\ Fault
  /\ UNCHANGED <<initialized, deleting, pollerVars, queued>>

\* The control plane provider reports the control plane initialized.
ControlPlaneInitialized ==
  /\ api /\ ~initialized /\ initialized' = TRUE
  /\ UNCHANGED <<api, deleting, pollerVars, queued, faults>>

\* Once the control plane is initialized nobody starts to poll, and a deletion
\* changes nothing here but that every pass ends at its check: left out.
DeleteCluster ==
  /\ ~initialized /\ ~deleting /\ deleting' = TRUE
  /\ UNCHANGED <<api, initialized, pollerVars, queued, faults>>

-----------------------------------------------------------------------------
(* Properties.                                                             *)

\* However passes, goroutines and restarts interleave, one goroutine at most
\* polls for the Cluster, and it is the one the key in the map stands for.
OnePoller ==
  /\ \A p, q \in Pollers : poller[p] # "none" /\ poller[q] # "none" => p = q
  /\ key <=> \E p \in Pollers : poller[p] # "none"
=============================================================================
