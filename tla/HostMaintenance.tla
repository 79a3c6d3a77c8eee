--------------------------- MODULE HostMaintenance --------------------------
(***************************************************************************)
(* Host maintenance: how an LXD host of an HCP cluster is drained before   *)
(* MAAS takes it back.  Four actors share the state:                       *)
(*                                                                         *)
(*   - the host maintenance controller (HMC), ONE worker that runs one     *)
(*     reconcile pass at a time and makes one API call per step;           *)
(*   - the MaasMachine controller, which adds the evacuation finalizer to  *)
(*     a host, deploys it, and releases it once the finalizer is gone;     *)
(*   - the placement of workload VMs, which selects a host in one call and *)
(*     composes the VM on it in a later one;                               *)
(*   - Cluster API and operators: the deletion of a Machine, that of its   *)
(*     MaasMachine some time later, VM removal, the ConfigMap trigger.     *)
(*                                                                         *)
(* Every call of a pass can fail, and the manager can restart between any  *)
(* two calls: both end the pass where it stands (action Fail).             *)
(***************************************************************************)
EXTENDS MaintenanceSession, Naturals, FiniteSets

CONSTANTS
  VMs,             \* identities a workload VM can have
  CPVMs,           \* those of them tagged as control plane VMs of a cluster
  TagMaintenance,  \* "maas-lxd-host-maintenance"
  TagNoSchedule,   \* "maas-lxd-host-noschedule"
  NoTrigger,       \* the session ConfigMap has no start = "true"
  Triggers,        \* hosts (or NoHost) an operator may put in the trigger
  Recreatable,     \* bound: hosts that may get a new MaasMachine later
  MaxDraining,     \* bound: hosts that are being deleted at the same time
  MaxFaults,       \* bound: passes that end early
  PartialReads     \* may ListHostVMs drop a VM whose Get failed?

ASSUME HostMaintenanceAssumption ==
  /\ IsFiniteSet(Hosts) /\ CPVMs \subseteq VMs
  /\ TagMaintenance # TagNoSchedule
  /\ {TagMaintenance, TagNoSchedule} \cap OpIDs = {}
  /\ NoTrigger \notin Hosts \cup {NoHost}
  /\ Triggers \subseteq Hosts \cup {NoHost}
  /\ Recreatable \subseteq Hosts
  /\ MaxDraining \in Nat
  /\ MaxFaults \in Nat
  /\ PartialReads \in BOOLEAN

VARIABLES
  stage,    \* MaasMachine of a host: pending (no system ID), live, released,
            \* gone
  leaving,  \* the owner Machine has a deletion timestamp
  deleting, \* the MaasMachine has one, too
  evacFin,  \* the evacuation finalizer is on the MaasMachine
  done,     \* the evacuation-completed annotation is on the MaasMachine
  tags,     \* MAAS tags of a host; the tag of a session is its operation ID
  session,  \* the session ConfigMap
  trigger,  \* its start/hostSystemID keys
  loc,      \* where a VM runs
  sel,      \* host selected for a VM that is not composed yet
  ready,    \* VMs with a ready-op tag
  hmc,      \* the pass of the HMC worker
  faults,   \* passes that ended early so far
  gated,    \* auxiliary: host found empty by the running or the last pass
  late      \* auxiliary: VMs composed on a host after it was found empty

hostVars == <<stage, leaving, deleting, evacFin, done>>
vmVars   == <<loc, sel, ready>>
cmVars   == <<session, trigger>>
auxVars  == <<gated, late>>
vars     == <<hostVars, tags, cmVars, vmVars, hmc, faults, auxVars>>

BlockingTags == {TagMaintenance, TagNoSchedule}
Tags         == BlockingTags \cup OpIDs
Guests(h)    == {v \in VMs : loc[v] = h}
Incoming(h)  == {v \in VMs : sel[v] = h}

(***************************************************************************)
(* A pass of the worker.  mm tells a pass for a MaasMachine from one for   *)
(* the ConfigMap; host and op are what the pass works on; todo holds the   *)
(* operation tags it has read and must still remove; fresh says whether    *)
(* the MaasMachine is still as the pass has read or written it, without    *)
(* which the API server refuses an update.                                 *)
(***************************************************************************)
PassSteps ==
  {"idle", "assignMaintenance", "assignNoSchedule", "assignOp", "hostEmpty",
   "wlcReady", "readTags", "clearMaintenance", "clearNoSchedule", "clearOps",
   "finalizer", "annotate", "complete"}

Pass == [pc : PassSteps, mm : BOOLEAN, host : Hosts \cup {NoHost},
         op : OpIDs \cup {NoOp}, todo : SUBSET OpIDs, fresh : BOOLEAN]

Idle == [pc |-> "idle", mm |-> FALSE, host |-> NoHost, op |-> NoOp,
         todo |-> {}, fresh |-> FALSE]

Goto(from, to) == hmc.pc = from /\ hmc' = [hmc EXCEPT !.pc = to]

\* Somebody else writes the MaasMachine of h.
Outdate(h) ==
  hmc' = IF hmc.host = h THEN [hmc EXCEPT !.fresh = FALSE] ELSE hmc

TypeOK ==
  /\ stage \in [Hosts -> {"pending", "live", "released", "gone"}]
  /\ leaving \in [Hosts -> BOOLEAN]
  /\ deleting \in [Hosts -> BOOLEAN]
  /\ evacFin \in [Hosts -> BOOLEAN]
  /\ done \in [Hosts -> BOOLEAN]
  /\ tags \in [Hosts -> SUBSET Tags]
  /\ session \in Session
  /\ trigger \in Hosts \cup {NoHost, NoTrigger}
  /\ loc \in [VMs -> Hosts \cup {NoHost}]
  /\ sel \in [VMs -> Hosts \cup {NoHost}]
  /\ ready \in SUBSET VMs
  /\ hmc \in Pass
  /\ faults \in 0..MaxFaults
  /\ gated \in [Hosts -> BOOLEAN]
  /\ late \in SUBSET VMs

Init ==
  /\ stage = [h \in Hosts |-> "live"]
  /\ leaving = [h \in Hosts |-> FALSE]
  /\ deleting = [h \in Hosts |-> FALSE]
  /\ evacFin = [h \in Hosts |-> TRUE]
  /\ done = [h \in Hosts |-> FALSE]
  /\ tags = [h \in Hosts |-> {}]
  /\ session = EmptySession
  /\ trigger = NoTrigger
  /\ loc = [v \in VMs |-> NoHost]
  /\ sel = [v \in VMs |-> NoHost]
  /\ ready = {}
  /\ hmc = Idle
  /\ faults = 0
  /\ gated = [h \in Hosts |-> FALSE]
  /\ late = {}

-----------------------------------------------------------------------------
(* The pass of the HMC worker.                                             *)

\* The host is back behind its gates: what is on it counts again.
CloseGate(h) ==
  /\ gated' = [gated EXCEPT ![h] = FALSE]
  /\ late' = late \ Guests(h)

\* A new identifier: none that a host is still tagged with, as long as there is one.
NewOps ==
  LET fresh == {op \in OpIDs : \A h \in Hosts : op \notin tags[h]}
  IN  IF fresh = {} THEN OpIDs ELSE fresh

\* What StartSession for a host can leave in the ConfigMap.
SessionsFor(host) ==
  {StartSession(session, host, op) :
     op \in IF HasActiveSession(session) THEN OpIDs ELSE NewOps}

\* reconcileMaasMachine, up to the session: a host whose Machine is being
\* deleted, held by the finalizer, not marked as evacuated, and with a system ID.
\* An active session is used whatever its host.
ReconcileMaasMachine(h) ==
  /\ hmc.pc = "idle"
  /\ stage[h] = "live" /\ leaving[h] /\ evacFin[h] /\ ~done[h]
  /\ \/ /\ session.opID # NoOp /\ session.status = "Active"
        /\ UNCHANGED session
     \/ /\ session.opID = NoOp \/ session.status # "Active"
        /\ session' \in SessionsFor(h)
  /\ hmc' = [pc |-> "assignMaintenance", mm |-> TRUE, host |-> h,
             op |-> session'.opID, todo |-> {}, fresh |-> TRUE]
  /\ CloseGate(h)
  /\ UNCHANGED <<hostVars, tags, trigger, vmVars, faults>>

\* reconcileConfigMap: honour the trigger, then tag the host of the session.
ReconcileConfigMap ==
  /\ hmc.pc = "idle"
  /\ \/ trigger = NoTrigger /\ UNCHANGED session
     \/ trigger # NoTrigger /\ session' \in SessionsFor(trigger)
  /\ hmc' = IF /\ session'.status = "Active" /\ session'.currentHost # NoHost
               /\ session'.opID # NoOp
              THEN [pc |-> "assignMaintenance", mm |-> FALSE,
                    host |-> session'.currentHost, op |-> session'.opID,
                    todo |-> {}, fresh |-> FALSE]
              ELSE Idle
  /\ UNCHANGED <<hostVars, tags, trigger, vmVars, faults, auxVars>>

\* EnsureHostMaintenanceTags: three assignments, in this order.
AssignTag(tag) == tags' = [tags EXCEPT ![hmc.host] = @ \cup {tag}]

AssignMaintenance ==
  /\ Goto("assignMaintenance", "assignNoSchedule")
  /\ AssignTag(TagMaintenance)
  /\ UNCHANGED <<hostVars, cmVars, vmVars, faults, auxVars>>

AssignNoSchedule ==
  /\ Goto("assignNoSchedule", "assignOp")
  /\ AssignTag(TagNoSchedule)
  /\ UNCHANGED <<hostVars, cmVars, vmVars, faults, auxVars>>

AssignOp ==
  /\ hmc.pc = "assignOp"
  /\ hmc' = IF hmc.mm THEN [hmc EXCEPT !.pc = "hostEmpty"] ELSE Idle
  /\ AssignTag(hmc.op)
  /\ UNCHANGED <<hostVars, cmVars, vmVars, faults, auxVars>>

\* ListHostVMs: a VM whose details cannot be read is left out of the list.
ListHostVMs(h) == IF PartialReads THEN SUBSET Guests(h) ELSE {Guests(h)}

\* Mutant of CheckHostEmpty: guests do not stop the pass.
CheckHostEmptyIgnored ==
  LET h == hmc.host IN
  /\ Goto("hostEmpty", "wlcReady")
  /\ gated' = [gated EXCEPT ![h] = Guests(h) = {}]
  /\ late' = late \ Guests(h)
  /\ UNCHANGED <<hostVars, tags, cmVars, vmVars, faults>>

\* Gate 1 of CheckEvacuationGates: the host is empty.
CheckHostEmpty ==
  LET h == hmc.host IN
  /\ hmc.pc = "hostEmpty"
  /\ \E listed \in ListHostVMs(h) :
       IF listed = {}
         THEN /\ hmc' = [hmc EXCEPT !.pc = "wlcReady"]
              /\ gated' = [gated EXCEPT ![h] = TRUE]
              /\ late' = late \ Guests(h)
         ELSE hmc' = Idle /\ UNCHANGED auxVars
  /\ UNCHANGED <<hostVars, tags, cmVars, vmVars, faults>>

\* A control plane VM that is acknowledged ready.  Whether its cluster tag is that
\* of v, and its resource pool and zone those of the host, is left open.
MayReplace(u, v) == u \in (CPVMs \cap ready) \ {v} /\ loc[u] # NoHost

\* Gate 2, checkWLCReadyTags: it lists the VMs of the host again and passes
\* at once when there is none, or none that is a control plane VM.
CheckWLCReadyTags ==
  LET h == hmc.host IN
  /\ hmc.pc = "wlcReady"
  /\ \E listed \in ListHostVMs(h) :
       \/ /\ \A v \in listed \cap CPVMs : \E u \in VMs : MayReplace(u, v)
          /\ hmc' = [hmc EXCEPT !.pc = "readTags"]
          /\ UNCHANGED auxVars
       \/ /\ listed \cap CPVMs # {}
          /\ hmc' = Idle
          /\ CloseGate(h)
  /\ UNCHANGED <<hostVars, tags, cmVars, vmVars, faults>>

\* Mutant of ReadHostTags: only the tag of the session is to be removed.
ReadOwnTag ==
  /\ hmc.pc = "readTags"
  /\ hmc' = [hmc EXCEPT !.pc = "clearMaintenance",
                        !.todo = tags[hmc.host] \cap {hmc.op}]
  /\ UNCHANGED <<hostVars, tags, cmVars, vmVars, faults, auxVars>>

\* clearMaintenanceTags reads the tags of the host once, then removes the two
\* static ones and every operation tag it has read.
ReadHostTags ==
  /\ hmc.pc = "readTags"
  /\ hmc' = [hmc EXCEPT !.pc = "clearMaintenance",
                        !.todo = tags[hmc.host] \cap OpIDs]
  /\ UNCHANGED <<hostVars, tags, cmVars, vmVars, faults, auxVars>>

UnassignTag(tag) == tags' = [tags EXCEPT ![hmc.host] = @ \ {tag}]

ClearMaintenance ==
  /\ Goto("clearMaintenance", "clearNoSchedule")
  /\ UnassignTag(TagMaintenance)
  /\ UNCHANGED <<hostVars, cmVars, vmVars, faults, auxVars>>

ClearNoSchedule ==
  /\ Goto("clearNoSchedule", "clearOps")
  /\ UnassignTag(TagNoSchedule)
  /\ UNCHANGED <<hostVars, cmVars, vmVars, faults, auxVars>>

ClearOp ==
  /\ hmc.pc = "clearOps"
  /\ \E op \in hmc.todo :
       hmc' = [hmc EXCEPT !.todo = @ \ {op}] /\ UnassignTag(op)
  /\ UNCHANGED <<hostVars, cmVars, vmVars, faults, auxVars>>

\* Mutant of OpsCleared: the loop over the operation tags may be left early.
OpsPartlyCleared ==
  /\ Goto("clearOps", "finalizer")
  /\ UNCHANGED <<hostVars, tags, cmVars, vmVars, faults, auxVars>>

OpsCleared ==
  /\ hmc.todo = {}
  /\ Goto("clearOps", "finalizer")
  /\ UNCHANGED <<hostVars, tags, cmVars, vmVars, faults, auxVars>>

\* The finalizer is removed from the object the pass has read at its beginning.
RemoveFinalizer ==
  /\ hmc.fresh
  /\ Goto("finalizer", "annotate")
  /\ evacFin' = [evacFin EXCEPT ![hmc.host] = FALSE]
  /\ UNCHANGED <<stage, leaving, deleting, done, tags, cmVars, vmVars, faults,
                 auxVars>>

\* The object has changed since: the update is refused and the pass ends.
Conflict ==
  /\ hmc.pc = "finalizer" /\ ~hmc.fresh
  /\ hmc' = Idle
  /\ CloseGate(hmc.host)
  /\ UNCHANGED <<hostVars, tags, cmVars, vmVars, faults>>

\* The annotation is one more update of that object.  It is refused when another
\* has changed the object, by a write that is not modelled as well; the
\* error is logged and the pass goes on.
Annotate ==
  /\ Goto("annotate", "complete")
  /\ \/ hmc.fresh /\ done' = [done EXCEPT ![hmc.host] = TRUE]
     \/ UNCHANGED done
  /\ UNCHANGED <<stage, leaving, deleting, evacFin, tags, cmVars, vmVars, faults,
                 auxVars>>

\* Mutant of Complete: the completed session is not saved.
CompleteUnsaved ==
  /\ hmc.pc = "complete"
  /\ hmc' = Idle
  /\ UNCHANGED <<hostVars, tags, cmVars, vmVars, faults, auxVars>>

\* CompleteSession completes THE session, whatever host it was started for.
Complete ==
  /\ hmc.pc = "complete"
  /\ hmc' = Idle
  /\ session' = CompleteSession(session)
  /\ UNCHANGED <<hostVars, tags, trigger, vmVars, faults, auxVars>>

\* A call of the pass returns an error, or the manager restarts.  Unless the
\* finalizer is already off, the host is back behind its gates.
Fail ==
  LET h == hmc.host IN
  /\ hmc.pc # "idle" /\ faults < MaxFaults
  /\ faults' = faults + 1
  /\ hmc' = Idle
  /\ IF hmc.mm /\ hmc.pc \notin {"annotate", "complete"}
       THEN CloseGate(h)
       ELSE UNCHANGED auxVars
  /\ UNCHANGED <<hostVars, tags, cmVars, vmVars>>

PassStep ==
  \/ AssignMaintenance \/ AssignNoSchedule \/ AssignOp
  \/ CheckHostEmpty \/ CheckWLCReadyTags
  \/ ReadHostTags \/ ClearMaintenance \/ ClearNoSchedule
  \/ ClearOp \/ OpsCleared
  \/ RemoveFinalizer \/ Conflict \/ Annotate \/ Complete

HMC ==
  \/ \E h \in Hosts : ReconcileMaasMachine(h)
  \/ ReconcileConfigMap
  \/ PassStep

-----------------------------------------------------------------------------
(* The MaasMachine controller, for a host.                                 *)

\* reconcileNormal adds the evacuation finalizer before anything else, and looks
\* neither at the owner Machine nor at the evacuation-completed annotation.
AddEvacuationFinalizer(h) ==
  /\ stage[h] \in {"pending", "live"} /\ ~deleting[h] /\ ~evacFin[h]
  /\ evacFin' = [evacFin EXCEPT ![h] = TRUE]
  /\ Outdate(h)
  /\ UNCHANGED <<stage, leaving, deleting, done, tags, cmVars, vmVars, faults,
                 auxVars>>

\* deployMachine, then cleanupStaleTagsAfterDeployment: every removal is
\* attempted and its failure ignored, so any of the old tags may stay.
Provision(h) ==
  /\ stage[h] = "pending" /\ ~deleting[h] /\ evacFin[h]
  /\ stage' = [stage EXCEPT ![h] = "live"]
  /\ \E kept \in SUBSET tags[h] : tags' = [tags EXCEPT ![h] = kept]
  /\ UNCHANGED <<leaving, deleting, evacFin, done, cmVars, vmVars, hmc, faults, auxVars>>

\* reconcileDelete of a host without system ID: nothing to evacuate.
DropFinalizerWithoutID(h) ==
  /\ stage[h] = "pending" /\ deleting[h] /\ evacFin[h]
  /\ evacFin' = [evacFin EXCEPT ![h] = FALSE]
  /\ UNCHANGED <<stage, leaving, deleting, done, tags, cmVars, vmVars, hmc, faults,
                 auxVars>>

\* Mutant of Release: the evacuation finalizer is not waited for.
ReleaseHeld(h) ==
  /\ stage[h] = "live" /\ deleting[h]
  /\ stage' = [stage EXCEPT ![h] = "released"]
  /\ loc' = [v \in VMs |-> IF v \in Guests(h) THEN NoHost ELSE loc[v]]
  /\ ready' = ready \ Guests(h)
  /\ late' = late \ Guests(h)
  /\ UNCHANGED <<leaving, deleting, evacFin, done, tags, cmVars, sel, hmc, faults, gated>>

\* reconcileDelete once the evacuation finalizer is off: the VM host is
\* unregistered (its guests are deleted if that is needed) and the machine is
\* released.
Release(h) ==
  /\ stage[h] = "live" /\ deleting[h] /\ ~evacFin[h]
  /\ stage' = [stage EXCEPT ![h] = "released"]
  /\ loc' = [v \in VMs |-> IF v \in Guests(h) THEN NoHost ELSE loc[v]]
  /\ ready' = ready \ Guests(h)
  /\ late' = late \ Guests(h)
  /\ UNCHANGED <<leaving, deleting, evacFin, done, tags, cmVars, sel, hmc, faults, gated>>

\* The machine finalizer is removed and the object disappears.
Finalize(h) ==
  /\ \/ stage[h] = "released"
     \/ stage[h] = "pending" /\ ~evacFin[h]
  /\ deleting[h]
  /\ stage' = [stage EXCEPT ![h] = "gone"]
  /\ leaving' = [leaving EXCEPT ![h] = FALSE]
  /\ deleting' = [deleting EXCEPT ![h] = FALSE]
  /\ done' = [done EXCEPT ![h] = FALSE]
  /\ gated' = [gated EXCEPT ![h] = FALSE]
  /\ Outdate(h)
  /\ UNCHANGED <<evacFin, tags, cmVars, vmVars, faults, late>>

MaasMachineController ==
  \E h \in Hosts :
    \/ AddEvacuationFinalizer(h) \/ Provision(h)
    \/ DropFinalizerWithoutID(h) \/ Release(h) \/ Finalize(h)

-----------------------------------------------------------------------------
(* Placement of workload VMs: SelectLXDHostWithMaasClient, then Compose.   *)

\* Mutants of SelectHost: one of the tags, or both, are not looked for.
SelectHostNoSchedule(v, h) ==
  /\ loc[v] = NoHost /\ sel[v] = NoHost
  /\ stage[h] = "live"
  /\ TagMaintenance \notin tags[h]
  /\ sel' = [sel EXCEPT ![v] = h]
  /\ UNCHANGED <<hostVars, tags, cmVars, loc, ready, hmc, faults, auxVars>>

SelectAnyHost(v, h) ==
  /\ loc[v] = NoHost /\ sel[v] = NoHost
  /\ stage[h] = "live"
  /\ sel' = [sel EXCEPT ![v] = h]
  /\ UNCHANGED <<hostVars, tags, cmVars, loc, ready, hmc, faults, auxVars>>

\* Both tags keep new VMs away: hasMaintenanceTag looks for either.
SelectHost(v, h) ==
  /\ loc[v] = NoHost /\ sel[v] = NoHost
  /\ stage[h] = "live"
  /\ tags[h] \cap BlockingTags = {}
  /\ sel' = [sel EXCEPT ![v] = h]
  /\ UNCHANGED <<hostVars, tags, cmVars, loc, ready, hmc, faults, auxVars>>

\* The VM is composed on the host that was selected, whatever became of it;
\* MAAS refuses when the host is no longer a VM host.
Compose(v) ==
  /\ sel[v] # NoHost
  /\ sel' = [sel EXCEPT ![v] = NoHost]
  /\ IF stage[sel[v]] = "live"
       THEN /\ loc' = [loc EXCEPT ![v] = sel[v]]
            /\ late' = IF gated[sel[v]] THEN late \cup {v} ELSE late
       ELSE UNCHANGED <<loc, late>>
  /\ UNCHANGED <<hostVars, tags, cmVars, ready, hmc, faults, gated>>

\* VMEvacuationReconciler tags a replacement ready.
AckReady(v) ==
  /\ v \in CPVMs \ ready /\ loc[v] # NoHost
  /\ ready' = ready \cup {v}
  /\ UNCHANGED <<hostVars, tags, cmVars, loc, sel, hmc, faults, auxVars>>

\* The Machine of the VM is deleted and its MaasMachine releases the VM.
RemoveVM(v) ==
  /\ loc[v] # NoHost
  /\ loc' = [loc EXCEPT ![v] = NoHost]
  /\ ready' = ready \ {v}
  /\ late' = late \ {v}
  /\ UNCHANGED <<hostVars, tags, cmVars, sel, hmc, faults, gated>>

Workload ==
  \E v \in VMs :
    \/ \E h \in Hosts : SelectHost(v, h)
    \/ Compose(v) \/ AckReady(v) \/ RemoveVM(v)

-----------------------------------------------------------------------------
(* Cluster API and operators.                                              *)

\* The Machine of a host is deleted, by an operator or a rollout.
DeleteHost(h) ==
  /\ stage[h] \in {"pending", "live"} /\ ~leaving[h]
  /\ Cardinality({g \in Hosts : leaving[g]}) < MaxDraining
  /\ leaving' = [leaving EXCEPT ![h] = TRUE]
  /\ UNCHANGED <<stage, deleting, evacFin, done, tags, cmVars, vmVars, hmc, faults,
                 auxVars>>

\* Cluster API deletes the MaasMachine once it has drained the node.
DeleteMaasMachine(h) ==
  /\ stage[h] \in {"pending", "live"} /\ leaving[h] /\ ~deleting[h]
  /\ deleting' = [deleting EXCEPT ![h] = TRUE]
  /\ Outdate(h)
  /\ UNCHANGED <<stage, leaving, evacFin, done, tags, cmVars, vmVars, faults, auxVars>>

\* A new MaasMachine gets the same MAAS machine, with the tags it still has.
RecreateHost(h) ==
  /\ stage[h] = "gone" /\ h \in Recreatable
  /\ stage' = [stage EXCEPT ![h] = "pending"]
  /\ UNCHANGED <<leaving, deleting, evacFin, done, tags, cmVars, vmVars, hmc, faults,
                 auxVars>>

\* The trigger keys are only ever written from outside.
SetTrigger(t) ==
  /\ trigger # t
  /\ trigger' = t
  /\ UNCHANGED <<hostVars, tags, session, vmVars, hmc, faults, auxVars>>

Operator ==
  \/ \E h \in Hosts : DeleteHost(h) \/ DeleteMaasMachine(h) \/ RecreateHost(h)
  \/ \E t \in Triggers \cup {NoTrigger} : SetTrigger(t)

-----------------------------------------------------------------------------

Next == HMC \/ Fail \/ MaasMachineController \/ Workload \/ Operator

Spec == Init /\ [][Next]_vars

(***************************************************************************)
(* Fairness.  The worker finishes the pass it has begun; the work queue is *)
(* first in first out and a held host is requeued every 10 seconds, so no  *)
(* host is passed over for ever; the MaasMachine controller is requeued    *)
(* until the object is gone; a placement ends.  VMs leave a host whose     *)
(* Machine is being deleted: VMEvacuationReconciler replaces the control plane VMs,   *)
(* operators or a Machine deletion remove the others.                      *)
(***************************************************************************)
Evict(v) == loc[v] # NoHost /\ leaving[loc[v]] /\ RemoveVM(v)

Fairness ==
  /\ WF_vars(PassStep)
  /\ \A h \in Hosts :
       /\ SF_vars(ReconcileMaasMachine(h))
       /\ WF_vars(DropFinalizerWithoutID(h))
       /\ WF_vars(Release(h))
       /\ WF_vars(Finalize(h))
  /\ \A v \in VMs : WF_vars(Compose(v)) /\ WF_vars(Evict(v))

FairSpec == Spec /\ Fairness

-----------------------------------------------------------------------------
(* Properties.                                                             *)

\* From the moment the last tag is assigned until the last blocking tag is
\* removed, no further VM is placed on the host of the pass: what reaches it was
\* on its way before.
Draining(h) ==
  /\ hmc.mm /\ hmc.host = h
  /\ hmc.pc \in {"hostEmpty", "wlcReady", "readTags", "clearMaintenance",
                 "clearNoSchedule"}

PlacementFrozenWhileDraining ==
  [][\A h \in Hosts : Draining(h) => Incoming(h)' \subseteq Incoming(h)]_vars

\* The evacuation finalizer holds a host until it was found empty: whatever
\* Release can still find on it was composed after that.
OnlyLateGuestsAtRelease ==
  \A h \in Hosts :
    stage[h] = "live" /\ deleting[h] /\ ~evacFin[h] => Guests(h) \subseteq late

\* When the finalizer comes off, no tag of any session is left on the host,
\* those of earlier or foreign sessions included.
NoTagSurvivesEvacuation ==
  hmc.mm /\ hmc.pc = "finalizer" => tags[hmc.host] = {}

\* The tags of a host and the session ConfigMap tell the same story: only the
\* host of the active session is tagged, and with the tag of that session.
TagsBelongToSession ==
  \A h \in Hosts : tags[h] # {} =>
    /\ session.status = "Active" /\ session.currentHost = h
    /\ tags[h] \cap OpIDs \subseteq {session.opID}

\* No call fails, no trigger is set and one host is deleted at a time, which
\* is what a single session is made for.
Undisturbed ==
  faults = 0 /\ trigger = NoTrigger /\ Cardinality({h \in Hosts : leaving[h]}) <= 1

\* Host after host, tags and session agree at every step of every pass.
SerialTags == []Undisturbed => []TagsBelongToSession

\* Host after host, an active session does not stay active for ever.
SerialCloses ==
  []Undisturbed => ((session.status = "Active") ~> (session.status # "Active"))

\* A host whose MaasMachine is deleted goes in the end: the tags stop new
\* placements, so that the VMs that leave are not replaced by others.  The exception
\* is a host that got its finalizer back after its evacuation was marked complete.
EvacuationCompletes ==
  \A h \in Hosts : deleting[h] ~> ~deleting[h] \/ (done[h] /\ evacFin[h])

\* "When present, the controller will not re-add the evacuation finalizer": a host
\* that is marked as evacuated and let go is not held again.
CompletedStaysLetGo ==
  [][\A h \in Hosts : done[h] /\ ~evacFin[h] => ~evacFin'[h]]_vars

\* No VM of the host is left out of the list with which it is found empty.
ReadsComplete ==
  hmc.pc = "hostEmpty" /\ hmc'.pc = "wlcReady" => Guests(hmc.host) = {}

(***************************************************************************)
(* The drain implements HostDrain.  A VM is settled on the host it runs on *)
(* unless it came after the host was found empty.                          *)
(***************************************************************************)
DrainPhase(h) ==
  CASE stage[h] \in {"released", "gone"} -> "gone"
    [] stage[h] \in {"pending", "live"} /\ ~leaving[h] -> "serving"
    [] stage[h] \in {"pending", "live"} /\ leaving[h]
         /\ (gated[h] \/ ~evacFin[h]) -> "open"
    [] OTHER -> "draining"

Drain == INSTANCE HostDrain WITH
  phase <- [h \in Hosts |-> DrainPhase(h)],
  home  <- [v \in VMs |-> IF v \in late THEN NoHost ELSE loc[v]]

\* A host is taken away only after it was found empty in the same drain, through
\* restarts, repeated passes and foreign sessions, as long as every list with
\* which it is found empty is complete.
ImplementsDrain == Drain!Spec
=============================================================================
