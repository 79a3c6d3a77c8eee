-------------------------- MODULE MachineLifecycle --------------------------
(***************************************************************************)
(* From a MaasMachine to a MAAS machine and back: the MaasMachine          *)
(* controller allocates a machine, writes its ID into the object, deploys  *)
(* it, rolls back what fails, and releases it before the object goes.      *)
(* Several objects are reconciled at the same time over one pool; each     *)
(* pass is a sequence of calls to MAAS and to the API server, and each     *)
(* call may fail or be the last one before a restart.                      *)
(*                                                                         *)
(* A "node" is a machine in MAAS, an "object" a MaasMachine.  Deletion     *)
(* starts here where the evacuation finalizer of a host is off: the wait   *)
(* for it is part of HostMaintenance.                                      *)
(***************************************************************************)
EXTENDS Naturals, FiniteSets

CONSTANTS
  Objects,       \* MaasMachines
  Nodes,         \* machines in MAAS
  VMNodes,       \* nodes whose power type is that of a VM
  NoNode,        \* no providerID
  MaxFaults,     \* bound: calls that fail, passes lost in a restart, stale reads
  MaxStale,      \* bound: stale reads of deleted objects that show a node
  HelperRebases  \* the patch helper compares with what it sent last

\* cluster-api's patch.Helper compares with the object as it was when the pass
\* began, so HelperRebases is FALSE for the version in go.mod.  The code reads
\* as if it were TRUE.
ASSUME MachineLifecycleAssumption ==
  /\ VMNodes \subseteq Nodes /\ NoNode \notin Nodes
  /\ IsFiniteSet(Objects) /\ IsFiniteSet(Nodes)
  /\ MaxFaults \in Nat /\ MaxStale \in Nat /\ HelperRebases \in BOOLEAN

VARIABLES
  node,    \* what MAAS says of a node
  object,  \* the objects in the API server
  cache,   \* the version of an object that the controller reads
  aged,    \* objects whose deletion is two minutes old
  pass,    \* the running pass for an object, at most one (work queue)
  lxd,     \* the cluster makes its nodes LXD hosts
  faults,  \* calls that failed, passes lost and stale reads of live objects so far
  stale    \* stale reads of deleted objects that showed a node

counts == <<faults, stale>>
vars   == <<node, object, cache, aged, pass, lxd, counts>>

NodeStates == {"Ready", "Allocated", "Deploying", "Deployed", "Failed", "Releasing"}

\* bare: no finalizer yet; kept: with the finalizer; gone: deleted.
MaasMachine == [stage : {"absent", "bare", "kept", "gone"}, deleting : BOOLEAN,
                id : Nodes \cup {NoNode}]

PassSteps == {"idle", "find", "allocate", "reject", "patchID", "reuse", "deploy",
              "rollback", "clear", "findToRelease", "release", "close"}

\* The steps that have a node at hand.
NodeSteps == {"reject", "patchID", "deploy", "rollback", "release"}

\* id is the providerID in memory, base the one the patch helper compares it
\* with, m the node at hand, finalizer what the pass does with it.
Pass == [pc : PassSteps, finalizer : {"leave", "add", "remove"},
         id : Nodes \cup {NoNode}, base : Nodes \cup {NoNode},
         m : Nodes \cup {NoNode}]

Idle == [pc |-> "idle", finalizer |-> "leave", id |-> NoNode, base |-> NoNode,
         m |-> NoNode]

TypeOK ==
  /\ node \in [Nodes -> NodeStates]
  /\ object \in [Objects -> MaasMachine] /\ cache \in [Objects -> MaasMachine]
  /\ aged \subseteq Objects
  /\ pass \in [Objects -> Pass]
  /\ \A o \in Objects : pass[o].pc \in NodeSteps => pass[o].m # NoNode
  /\ lxd \in BOOLEAN /\ faults \in 0..MaxFaults /\ stale \in 0..MaxStale

Absent == [stage |-> "absent", deleting |-> FALSE, id |-> NoNode]

Init ==
  /\ node = [n \in Nodes |-> "Ready"]
  /\ object = [o \in Objects |-> Absent] /\ cache = object
  /\ aged = {}
  /\ pass = [o \in Objects |-> Idle]
  /\ lxd \in BOOLEAN /\ faults = 0 /\ stale = 0

Exists(v) == v.stage \in {"bare", "kept"}
InUse(n)  == node[n] \in {"Allocated", "Deploying", "Deployed", "Failed"}
At(o, pc) == pass[o].pc = pc
Goto(o, pc) == pass' = [pass EXCEPT ![o].pc = pc]

Works == UNCHANGED counts
Fails == faults < MaxFaults /\ faults' = faults + 1 /\ UNCHANGED stale
ReadsStale == stale < MaxStale /\ stale' = stale + 1 /\ UNCHANGED faults

\* MAAS: releasing a node that is free, or is being released, does nothing.
Release(n) == node' = [node EXCEPT ![n] = IF InUse(n) THEN "Releasing" ELSE @]

\* PatchObject: sends what differs from the base.
Patched(o) == [object[o] EXCEPT
                 !.id = IF pass[o].id = pass[o].base THEN @ ELSE pass[o].id]
BaseAfterPatch(o) == IF HelperRebases THEN pass[o].id ELSE pass[o].base

\* A patch may fail; that of an object that is gone always does.
PatchFails(o) == (IF Exists(object[o]) THEN Fails ELSE Works) /\ UNCHANGED object

(***************************************************************************)
(* A pass.                                                                 *)
(***************************************************************************)
\* The pass reads the object from the cache.  A stale read of an object that is
\* not being deleted costs a fault: nothing in the code is there to survive it.
\* One of an object that is being deleted may show no node yet, which is what the
\* two minutes are for; or a node that the object is rid of, which is counted too.
Reconcile(o) ==
  /\ At(o, "idle") /\ Exists(cache[o])
  /\ IF cache[o] = object[o] \/ (cache[o].deleting /\ cache[o].id = NoNode) THEN Works
     ELSE IF cache[o].deleting THEN ReadsStale ELSE Fails
  /\ pass' = [pass EXCEPT ![o] =
       [Idle EXCEPT !.id = cache[o].id, !.base = cache[o].id,
                    !.pc = IF cache[o].deleting THEN "findToRelease"
                           ELSE IF cache[o].stage = "bare" THEN "close" ELSE "find",
                    !.finalizer = IF cache[o].stage = "bare" THEN "add" ELSE "leave"]]
  /\ UNCHANGED <<node, object, cache, aged, lxd>>

\* A node that is neither deployed nor deploying is deployed again.
Find(o) ==
  /\ At(o, "find")
  /\ LET n == pass[o].id IN
       \/ n = NoNode /\ Goto(o, "allocate") /\ Works
       \/ n # NoNode /\ Works
          /\ Goto(o, IF node[n] \in {"Deployed", "Deploying"} THEN "close" ELSE "reuse")
       \/ n # NoNode /\ Fails /\ Goto(o, "close")
  /\ UNCHANGED <<node, object, cache, aged, lxd>>

\* MAAS gives any free node, or none that fits, or gives one and the answer is lost.
Allocate(o) ==
  /\ At(o, "allocate")
  /\ \/ \E n \in Nodes :
          /\ node[n] = "Ready"
          /\ node' = [node EXCEPT ![n] = "Allocated"]
          /\ \/ Works
                /\ pass' = [pass EXCEPT ![o].m = n,
                              ![o].pc = IF lxd /\ n \in VMNodes THEN "reject" ELSE "patchID"]
             \/ Fails /\ Goto(o, "close")
     \/ Works /\ Goto(o, "close") /\ UNCHANGED node
  /\ UNCHANGED <<object, cache, aged, lxd>>

\* A VM is no LXD host.  The result of the release is not looked at; a node the
\* object names already is forgotten.
RejectVMHost(o) ==
  /\ At(o, "reject")
  /\ \/ Works /\ Release(pass[o].m)
     \/ Fails /\ UNCHANGED node
  /\ pass' = [pass EXCEPT ![o].id = NoNode,
                          ![o].pc = IF pass[o].id = NoNode THEN "close" ELSE "clear"]
  /\ UNCHANGED <<object, cache, aged, lxd>>

\* The ID is stored before the node is deployed.  A failure returns before the
\* roll-back is registered; the deferred Close tries to store the ID again.
PatchID(o) ==
  /\ At(o, "patchID")
  /\ \/ /\ Exists(object[o]) /\ Works
        /\ object' = [object EXCEPT ![o].id = pass[o].m]
        /\ pass' = [pass EXCEPT ![o].id = pass[o].m, ![o].pc = "deploy",
                      ![o].base = IF HelperRebases THEN pass[o].m ELSE @]
     \/ /\ PatchFails(o)
        /\ pass' = [pass EXCEPT ![o].id = pass[o].m, ![o].pc = "close"]
  /\ UNCHANGED <<node, cache, aged, lxd>>

Reuse(o) ==
  /\ At(o, "reuse")
  /\ LET n == pass[o].id IN
       \/ /\ Works
          /\ pass' = [pass EXCEPT ![o].m = n,
                        ![o].pc = IF lxd /\ n \in VMNodes THEN "reject" ELSE "deploy"]
       \/ Fails /\ Goto(o, "close")
  /\ UNCHANGED <<node, object, cache, aged, lxd>>

\* MAAS deploys a node that is free or allocated and refuses any other; it may
\* fail, or deploy and the answer is lost.
Deploy(o) ==
  /\ At(o, "deploy")
  /\ LET n == pass[o].m
         accepted == node[n] \in {"Ready", "Allocated"} IN
       \/ /\ accepted /\ node' = [node EXCEPT ![n] = "Deploying"]
          /\ (Works /\ Goto(o, "close")) \/ (Fails /\ Goto(o, "rollback"))
       \/ /\ IF accepted THEN Fails ELSE Works
          /\ Goto(o, "rollback") /\ UNCHANGED node
  /\ UNCHANGED <<object, cache, aged, lxd>>

\* Mutant: the roll-back releases the node and the object goes on naming it.
ReleaseOnly(o) ==
  /\ At(o, "rollback")
  /\ \/ Works /\ Release(pass[o].m)
     \/ Fails /\ UNCHANGED node
  /\ Goto(o, "close")
  /\ UNCHANGED <<object, cache, aged, lxd>>

\* The roll-back of a refused deployment; a failing release is logged.
Rollback(o) ==
  /\ At(o, "rollback")
  /\ \/ Works /\ Release(pass[o].m)
     \/ Fails /\ UNCHANGED node
  /\ pass' = [pass EXCEPT ![o].id = NoNode, ![o].pc = "clear"]
  /\ UNCHANGED <<object, cache, aged, lxd>>

\* The cleared ID is stored; a failure is ignored.
ClearID(o) ==
  /\ At(o, "clear")
  /\ \/ /\ Exists(object[o]) /\ Works
        /\ object' = [object EXCEPT ![o] = Patched(o)]
        /\ pass' = [pass EXCEPT ![o].pc = "close", ![o].base = BaseAfterPatch(o)]
     \/ PatchFails(o) /\ Goto(o, "close")
  /\ UNCHANGED <<node, cache, aged, lxd>>

\* Mutant: an object that names no node is released all the same.
ReleaseNothing(o) ==
  /\ At(o, "findToRelease")
  /\ pass' = [pass EXCEPT ![o].pc = "release", ![o].m = pass[o].id]
  /\ UNCHANGED <<node, object, cache, aged, lxd, counts>>

\* Mutant: an object that names no node goes at once.
FinalizeAtOnce(o) ==
  /\ At(o, "findToRelease")
  /\ LET n == pass[o].id IN
       pass' = [pass EXCEPT ![o].pc = IF n = NoNode THEN "close" ELSE "release",
                            ![o].m = n,
                            ![o].finalizer = IF n = NoNode THEN "remove" ELSE "leave"]
  /\ UNCHANGED <<node, object, cache, aged, lxd, counts>>

\* An object that names no node goes, once its deletion is two minutes old.
FindToRelease(o) ==
  /\ At(o, "findToRelease")
  /\ LET n == pass[o].id IN
       \/ /\ n = NoNode /\ Works
          /\ pass' = [pass EXCEPT ![o].pc = "close",
                        ![o].finalizer = IF o \in aged THEN "remove" ELSE "leave"]
       \/ /\ n # NoNode /\ Works
          /\ pass' = [pass EXCEPT ![o].pc = "release", ![o].m = n]
       \/ n # NoNode /\ Fails /\ Goto(o, "close")
  /\ UNCHANGED <<node, object, cache, aged, lxd>>

\* A release that fails is retried in another pass.
ReleaseMachine(o) ==
  /\ At(o, "release")
  /\ \/ /\ Works /\ Release(pass[o].m)
        /\ pass' = [pass EXCEPT ![o].pc = "close", ![o].finalizer = "remove"]
     \/ Fails /\ Goto(o, "close") /\ UNCHANGED node
  /\ UNCHANGED <<object, cache, aged, lxd>>

\* The deferred Close stores the ID and the finalizer.  Without its only
\* finalizer an object that is being deleted is gone.
Close(o) ==
  /\ At(o, "close")
  /\ \/ /\ Exists(object[o]) /\ Works
        /\ object' = [object EXCEPT ![o] =
             [Patched(o) EXCEPT !.stage = CASE pass[o].finalizer = "leave"  -> @
                                            [] pass[o].finalizer = "add"    -> "kept"
                                            [] pass[o].finalizer = "remove" -> "gone"]]
     \/ PatchFails(o)
  /\ pass' = [pass EXCEPT ![o] = Idle]
  /\ UNCHANGED <<node, cache, aged, lxd>>

\* A restart: every running pass is lost, and counts as a fault of its own.
Crash ==
  LET running == {o \in Objects : ~At(o, "idle")} IN
  /\ running # {}
  /\ faults' = faults + Cardinality(running) /\ faults' <= MaxFaults
  /\ pass' = [o \in Objects |-> Idle]
  /\ UNCHANGED <<node, object, cache, aged, lxd, stale>>

(***************************************************************************)
(* Around the controller.                                                  *)
(***************************************************************************)
\* Cluster API creates a MaasMachine.
Create(o) ==
  /\ object[o].stage = "absent"
  /\ object' = [object EXCEPT ![o].stage = "bare"]
  /\ UNCHANGED <<node, cache, aged, pass, lxd, counts>>

Delete(o) ==
  /\ Exists(object[o]) /\ ~object[o].deleting
  /\ object' = [object EXCEPT ![o].deleting = TRUE,
                              ![o].stage = IF @ = "bare" THEN "gone" ELSE @]
  /\ UNCHANGED <<node, cache, aged, pass, lxd, counts>>

\* The informer catches up.
Sync(o) ==
  /\ cache[o] # object[o]
  /\ cache' = [cache EXCEPT ![o] = object[o]]
  /\ UNCHANGED <<node, object, aged, pass, lxd, counts>>

\* Two minutes after its deletion the cache has caught up with an object, and
\* the pass that was running when it was deleted has ended.
Age(o) ==
  /\ object[o].deleting /\ Exists(object[o]) /\ o \notin aged
  /\ cache[o] = object[o] /\ At(o, "idle")
  /\ aged' = aged \cup {o}
  /\ UNCHANGED <<node, object, cache, pass, lxd, counts>>

NodeDeployed(n) ==
  /\ node[n] = "Deploying" /\ node' = [node EXCEPT ![n] = "Deployed"]
  /\ UNCHANGED <<object, cache, aged, pass, lxd, counts>>

\* A deployment fails, or an operator puts a deployed node into another state.
NodeFails(n) ==
  /\ node[n] \in {"Deploying", "Deployed"} /\ node' = [node EXCEPT ![n] = "Failed"]
  /\ UNCHANGED <<object, cache, aged, pass, lxd, counts>>

NodeReleased(n) ==
  /\ node[n] = "Releasing" /\ node' = [node EXCEPT ![n] = "Ready"]
  /\ UNCHANGED <<object, cache, aged, pass, lxd, counts>>

\* LXDConfig.Enabled is set on a MaasCluster that has machines already.
EnableLXD ==
  /\ ~lxd /\ lxd' = TRUE
  /\ UNCHANGED <<node, object, cache, aged, pass, counts>>

Step(o) ==
  \/ Find(o) \/ Allocate(o) \/ RejectVMHost(o) \/ PatchID(o) \/ Reuse(o)
  \/ Deploy(o) \/ Rollback(o) \/ ClearID(o)
  \/ FindToRelease(o) \/ ReleaseMachine(o) \/ Close(o)

Next ==
  \/ \E o \in Objects :
       Reconcile(o) \/ Step(o) \/ Create(o) \/ Delete(o) \/ Sync(o) \/ Age(o)
  \/ \E n \in Nodes : NodeDeployed(n) \/ NodeFails(n) \/ NodeReleased(n)
  \/ EnableLXD \/ Crash

Spec == Init /\ [][Next]_vars

(***************************************************************************)
(* Properties.                                                             *)
(***************************************************************************)
\* Nodes that MAAS keeps in use although no object names them and no pass has
\* them at hand: nobody will ever release them.
Leaked == {n \in Nodes : /\ InUse(n)
                         /\ \A o \in Objects : /\ Exists(object[o]) => object[o].id # n
                                               /\ ~At(o, "idle") => pass[o].m # n}

\* A failing call, a stale read or a pass lost in a restart loses at most one
\* node, whatever follows it: no roll-back, rejection or deletion adds to it.
\* (DeployMachine stores the ID before it deploys; reconcileDelete releases first.)
LeaksAreFailures == Cardinality(Leaked) <= faults

\* The node an object goes on naming, whatever its running pass ends with.
Claim(o) ==
  IF \/ ~Exists(object[o]) \/ pass[o].finalizer = "remove"
     \/ ~At(o, "idle") /\ pass[o].id # object[o].id
  THEN NoNode ELSE object[o].id

\* A failing call, a stale read or a restart gives at most one node to two
\* objects: nodes that fail, are rejected, rolled back and given to another
\* object meanwhile do not.  (A pass that reads a deleted object as it was before
\* its finalizer went releases its node again, whoever has it by then.)
OneOwner ==
  Cardinality({n \in Nodes : \E o, p \in Objects : o # p /\ Claim(o) = n /\ Claim(p) = n})
    <= faults + stale
=============================================================================
