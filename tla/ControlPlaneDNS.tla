--------------------------- MODULE ControlPlaneDNS ---------------------------
(***************************************************************************)
(* The DNS resource of a cluster in MAAS: the MaasCluster controller names *)
(* it, creates it and writes the addresses of the control plane machines   *)
(* that run; the MaasMachine controller reads it and waits, with a new     *)
(* machine until it is attached, and with one that is being deleted until  *)
(* it is detached, before it releases it.  The two never call each other:  *)
(* each is woken up by events of the objects that the other one writes,    *)
(* and reads them from a cache.                                            *)
(*                                                                         *)
(* A machine is a control plane machine and stands for its address.  How   *)
(* machines are allocated and deployed is in MachineLifecycle.  The        *)
(* condition DNSAttached is left out: that it changes is one more event.   *)
(***************************************************************************)
EXTENDS Naturals, FiniteSets

CONSTANTS
  Machines,   \* control plane MaasMachines of the cluster
  Cluster,    \* the MaasCluster, as an item of a work queue
  Powers,     \* what MAAS may say of the power of a machine: on, off, error
  MaxFaults   \* bound: calls that fail, restarts, stale reads of the MaasCluster

ASSUME ControlPlaneDNSAssumption ==
  /\ Cluster \notin Machines /\ "on" \in Powers
  /\ MaxFaults \in Nat

NoName == 0
Names  == 1..(MaxFaults + 1)      \* names that GetDNSName may make up

VARIABLES
  maas,         \* what MAAS says of the state of a machine
  power,        \* and of its power
  addresses,    \* the addresses of every DNS resource, by its name
  object,       \* the MaasMachines in the API server
  cache,        \* the version of each that the controllers read
  maasCluster,  \* the MaasCluster in the API server
  clusterCache, \* the version that is read
  endpoint,     \* Cluster.spec.controlPlaneEndpoint, once Cluster API has set it
  due,          \* the items in the two work queues
  pass,         \* the running pass for a MaasMachine, at most one each
  clusterPass,  \* the running pass for the MaasCluster
  faults        \* calls that failed, restarts and stale reads so far

maasVars == <<maas, power, addresses>>
apiVars  == <<object, cache, maasCluster, clusterCache, endpoint>>
vars     == <<maasVars, apiVars, due, pass, clusterPass, faults>>

\* power is what status.machinePowered is computed from, once status.machineState
\* says that the machine runs (is deploying or deployed), which it then goes on saying:
\* a pass that finds anything else deploys again, or leaves the status alone.
MaasMachine == [stage : {"absent", "present", "gone"}, deleting : BOOLEAN,
                power : Powers \cup {"unread"}]

MaasCluster == [finalizer : BOOLEAN, name : Names \cup {NoName},
                endpoint : Names \cup {NoName}]

\* v is the object in memory, base the one that the patch helper compares with.
Pass == [pc : {"idle", "powerOn", "deploy", "dns", "release", "close"},
         v : MaasMachine, base : MaasMachine]

ClusterPass == [pc : {"idle", "resource", "list", "update", "close"},
                host : Names \cup {NoName},     \* the endpoint of the Cluster it has read
                v : MaasCluster, base : MaasCluster, list : SUBSET Machines]

Absent      == [stage |-> "absent", deleting |-> FALSE,
                power |-> "unread"]
NewCluster  == [finalizer |-> FALSE, name |-> NoName, endpoint |-> NoName]
Idle        == [pc |-> "idle", v |-> Absent, base |-> Absent]
IdleCluster == [pc |-> "idle", host |-> NoName, v |-> NewCluster, base |-> NewCluster,
                list |-> {}]

TypeOK ==
  /\ maas \in [Machines -> {"none", "Deploying", "Deployed", "Other"}]
  /\ power \in [Machines -> Powers]
  /\ DOMAIN addresses \subseteq Names
  /\ addresses \in [DOMAIN addresses -> SUBSET Machines]
  /\ object \in [Machines -> MaasMachine] /\ cache \in [Machines -> MaasMachine]
  /\ maasCluster \in MaasCluster /\ clusterCache \in MaasCluster
  /\ endpoint \in DOMAIN addresses \cup {NoName}
  /\ due \subseteq Machines \cup {Cluster}
  /\ pass \in [Machines -> Pass] /\ clusterPass \in ClusterPass
  /\ faults \in 0..MaxFaults

Init ==
  /\ maas = [m \in Machines |-> "none"] /\ power = [m \in Machines |-> "on"]
  /\ addresses = [n \in {} |-> {}]
  /\ object = [m \in Machines |-> Absent] /\ cache = object
  /\ maasCluster = NewCluster /\ clusterCache = NewCluster /\ endpoint = NoName
  /\ due = {Cluster}
  /\ pass = [m \in Machines |-> Idle] /\ clusterPass = IdleCluster
  /\ faults = 0

Works == UNCHANGED faults
Fails == faults < MaxFaults /\ faults' = faults + 1

Add(items) == due' = due \cup items
At(m, pc)  == pass[m].pc = pc

\* A patch stores the fields that differ from the base.
Patched(stored, base, v) == IF v = base THEN stored ELSE v

\* Mutant: a machine that is being deleted is wanted all the same.
WantedToTheEnd(v) == v.stage = "present" /\ v.power = "on"

IsRunning(v) == v.power = "on"
Wanted(v)    == v.stage = "present" /\ ~v.deleting /\ IsRunning(v)

AllItems == {Cluster} \cup {m \in Machines : object[m].stage = "present"}

(***************************************************************************)
(* A pass for a MaasMachine.                                               *)
(***************************************************************************)
Goto(m, pc) == pass' = [pass EXCEPT ![m].pc = pc]

\* The pass ends with an error, or with a wait, and is repeated.
Again(m) == Goto(m, "close") /\ Add({m})

\* Mutant: the power of a machine is read once.
ReconcilePowerOnce(m) ==
  LET v == cache[m]  start == [pc |-> "idle", v |-> v, base |-> v]  IN
  /\ m \in due /\ At(m, "idle") /\ due' = due \ {m} /\ Works
  /\ pass' = [pass EXCEPT ![m] =
       CASE v.stage # "present" -> Idle
         [] v.stage = "present" /\ v.deleting /\ maas[m] = "none" ->
              [start EXCEPT !.pc = "close", !.v.stage = "gone"]
         [] v.stage = "present" /\ v.deleting /\ maas[m] # "none" ->
              [start EXCEPT !.pc = "dns"]
         [] v.stage = "present" /\ ~v.deleting ->
              [start EXCEPT !.pc = IF maas[m] \in {"Deploying", "Deployed"} THEN "dns" ELSE "deploy",
                            !.v.power = IF @ = "unread" THEN power[m] ELSE @]]
  /\ UNCHANGED <<maasVars, apiVars, clusterPass>>

\* The pass reads the object and finds its machine in MAAS.  An object that names
\* no machine goes without further ado.
Reconcile(m) ==
  LET v == cache[m]  start == [pc |-> "idle", v |-> v, base |-> v]  IN
  /\ m \in due /\ At(m, "idle")
  /\ IF v.stage # "present" THEN
       Works /\ due' = due \ {m} /\ UNCHANGED pass
     ELSE
       \/ /\ Fails /\ UNCHANGED due
          /\ pass' = [pass EXCEPT ![m] = [start EXCEPT !.pc = "close"]]
       \/ /\ Works /\ due' = due \ {m}
          /\ pass' = [pass EXCEPT ![m] =
               CASE v.deleting /\ maas[m] = "none" ->
                      [start EXCEPT !.pc = "close", !.v.stage = "gone"]
                 [] v.deleting /\ maas[m] # "none" ->
                      [start EXCEPT !.pc = "dns"]
                 [] ~v.deleting /\ maas[m] \notin {"Deploying", "Deployed"} ->
                      [start EXCEPT !.pc = "deploy"]
                 [] ~v.deleting /\ maas[m] \in {"Deploying", "Deployed"} ->
                      [start EXCEPT
                         !.pc = IF maas[m] = "Deployed" /\ power[m] = "off"
                                THEN "powerOn" ELSE "dns", !.v.power = power[m]]]
  /\ UNCHANGED <<maasVars, apiVars, clusterPass>>

\* A deployed machine that is off for certain; the DNS is left for the next pass.
PowerOn(m) ==
  /\ At(m, "powerOn") /\ Again(m)
  /\ \/ Works /\ power' = [power EXCEPT ![m] = "on"]
     \/ Fails /\ UNCHANGED power
  /\ UNCHANGED <<maas, addresses, apiVars, clusterPass>>

\* MAAS may refuse; the object may then name no machine any more (the roll-back of
\* DeployMachine), and its status keeps what it said of the machine before.
Deploy(m) ==
  /\ At(m, "deploy") /\ Works
  /\ \/ /\ maas' = [maas EXCEPT ![m] = "Deploying"]
        /\ pass' = [pass EXCEPT ![m].pc = "dns", ![m].v.power = power[m]]
        /\ UNCHANGED due
     \/ Again(m) /\ maas' \in {maas, [maas EXCEPT ![m] = "none"]}
  /\ UNCHANGED <<power, addresses, apiVars, clusterPass>>

\* A machine that waits to be attached asks for another pass, one that waits to
\* be detached does not.  What follows for an attached machine (is the API server
\* online, has the node joined) may ask for another pass.
CheckDNS(m) ==
  LET registered == m \in addresses[endpoint]  IN
  /\ At(m, "dns")
  /\ \/ Fails /\ Again(m)
     \/ Works /\ IF pass[m].v.deleting
                 THEN Goto(m, IF registered THEN "close" ELSE "release") /\ UNCHANGED due
                 ELSE /\ Goto(m, "close")
                      /\ \E again \in {{}, {m}} : (registered \/ again = {m}) /\ Add(again)
  /\ UNCHANGED <<maasVars, apiVars, clusterPass>>

Release(m) ==
  /\ At(m, "release")
  /\ \/ /\ Works /\ maas' = [maas EXCEPT ![m] = "Other"]
        /\ pass' = [pass EXCEPT ![m].pc = "close", ![m].v.stage = "gone"]
        /\ UNCHANGED due
     \/ Fails /\ Again(m) /\ UNCHANGED maas
  /\ UNCHANGED <<power, addresses, apiVars, clusterPass>>

\* The object and its status are patched one after the other, whatever becomes of
\* the first.  An object that has gone meanwhile is left alone.
Close(m) ==
  LET patched(f) == Patched(object[m][f], pass[m].base[f], pass[m].v[f])
      closed(stage, pow) == [object EXCEPT ![m] = [@ EXCEPT !.stage = stage, !.power = pow]]
  IN
  /\ At(m, "close")
  /\ IF object[m].stage = "present" THEN
       \/ Works /\ object' = closed(patched("stage"), patched("power")) /\ UNCHANGED due
       \/ /\ Fails /\ Add({m})
          /\ object' \in {object, closed(patched("stage"), object[m].power),
                          closed(object[m].stage, patched("power"))}
     ELSE Works /\ Add({m}) /\ UNCHANGED object
  /\ pass' = [pass EXCEPT ![m] = Idle]
  /\ UNCHANGED <<maasVars, cache, maasCluster, clusterCache, endpoint, clusterPass>>

Step(m) == PowerOn(m) \/ Deploy(m) \/ CheckDNS(m) \/ Release(m) \/ Close(m)

(***************************************************************************)
(* A pass for the MaasCluster.                                             *)
(***************************************************************************)
ClusterAt(pc)   == clusterPass.pc = pc
ClusterGoto(pc) == clusterPass' = [clusterPass EXCEPT !.pc = pc]
ClusterAgain    == ClusterGoto("close") /\ Add({Cluster})

\* Nothing in the code is there to survive a stale read of the MaasCluster.
ReconcileCluster ==
  /\ Cluster \in due /\ ClusterAt("idle")
  /\ due' = due \ {Cluster}
  /\ IF clusterCache = maasCluster THEN Works ELSE Fails
  /\ clusterPass' = [IdleCluster EXCEPT
       !.pc = IF clusterCache.finalizer THEN "resource" ELSE "close",
       !.host = endpoint, !.base = clusterCache,
       !.v = [clusterCache EXCEPT !.finalizer = TRUE]]
  /\ UNCHANGED <<maasVars, apiVars, pass>>

\* Mutant: a name is made up until the Cluster has one.
NewDNSName(p) ==
  IF p.host # NoName THEN {p.host}
  ELSE LET free == Names \ (DOMAIN addresses \cup {maasCluster.name, clusterCache.name})
       IN  {n \in free : \A k \in free : n <= k}

\* The name of the Cluster, that of the MaasCluster, or a new one.
GetDNSName(p) ==
  IF p.host # NoName THEN {p.host}
  ELSE IF p.v.name # NoName THEN {p.v.name}
  ELSE LET free == Names \ (DOMAIN addresses \cup {maasCluster.name, clusterCache.name})
       IN  {n \in free : \A k \in free : n <= k}

Created(n) == [k \in DOMAIN addresses \cup {n} |->
                 IF k \in DOMAIN addresses THEN addresses[k] ELSE {}]

\* Mutant: the resource is not created.
NameOnly ==
  /\ ClusterAt("resource") /\ Works
  /\ \E n \in GetDNSName(clusterPass) :
       clusterPass' = [clusterPass EXCEPT !.pc = "close", !.v.name = n, !.v.endpoint = n]
  /\ UNCHANGED <<maasVars, apiVars, due, pass>>

\* The resource is looked up by name and created without addresses.  A name that
\* was made up stays in memory, and is stored, even if that fails.
ReconcileDNS ==
  /\ ClusterAt("resource")
  /\ \E n \in GetDNSName(clusterPass) :
       \/ /\ Works /\ addresses' = Created(n) /\ UNCHANGED due
          /\ clusterPass' = [clusterPass EXCEPT !.pc = "list",
                               !.v.name = n, !.v.endpoint = n]
       \/ /\ Fails /\ addresses' \in {addresses, Created(n)} /\ Add({Cluster})
          /\ clusterPass' = [clusterPass EXCEPT !.pc = "close",
               !.v.name = IF clusterPass.host = NoName THEN n ELSE @]
  /\ UNCHANGED <<maas, power, apiVars, pass>>

\* The machines that run, by what the cache says of them.
ListMachines ==
  /\ ClusterAt("list")
  /\ \/ /\ Works /\ UNCHANGED due
        /\ clusterPass' = [clusterPass EXCEPT !.pc = "update",
                             !.list = {m \in Machines : Wanted(cache[m])}]
     \/ Fails /\ ClusterAgain
  /\ UNCHANGED <<maasVars, apiVars, pass>>

\* Mutant: an update that fails is not repeated.
UpdateOnce ==
  /\ ClusterAt("update") /\ ClusterGoto("close")
  /\ \/ Works /\ addresses' = [addresses EXCEPT ![clusterPass.v.name] = clusterPass.list]
     \/ Fails /\ UNCHANGED addresses
  /\ UNCHANGED <<maas, power, apiVars, due, pass>>

\* All addresses are replaced.  What follows (is the API server online, labels,
\* LXD hosts) may ask for another pass.
UpdateDNSAttachments ==
  LET updated == [addresses EXCEPT ![clusterPass.v.name] = clusterPass.list]  IN
  /\ ClusterAt("update")
  /\ \/ /\ Works /\ addresses' = updated
        /\ ClusterGoto("close") /\ \E again \in {{}, {Cluster}} : Add(again)
     \/ Fails /\ ClusterAgain /\ addresses' \in {addresses, updated}
  /\ UNCHANGED <<maas, power, apiVars, pass>>

\* The object and its status are patched one after the other, whatever becomes of
\* the first.
CloseCluster ==
  LET patched(f) == Patched(maasCluster[f], clusterPass.base[f], clusterPass.v[f])
      closed(finalizer, name, url) ==
        [finalizer |-> finalizer, name |-> name, endpoint |-> url]  IN
  /\ ClusterAt("close")
  /\ \/ /\ Works /\ UNCHANGED due
        /\ maasCluster' = closed(patched("finalizer"), patched("name"), patched("endpoint"))
     \/ /\ Fails /\ Add({Cluster})
        /\ maasCluster' \in {maasCluster,
             closed(patched("finalizer"), maasCluster.name, patched("endpoint")),
             closed(maasCluster.finalizer, patched("name"), maasCluster.endpoint)}
  /\ clusterPass' = IdleCluster
  /\ UNCHANGED <<maasVars, object, cache, clusterCache, endpoint, pass>>

ClusterStep == ReconcileDNS \/ ListMachines \/ UpdateDNSAttachments \/ CloseCluster

(***************************************************************************)
(* Events, and the world around the two controllers.                       *)
(***************************************************************************)
\* A MaasMachine has changed: both controllers watch it.
Sync(m) ==
  /\ cache[m] # object[m]
  /\ cache' = [cache EXCEPT ![m] = object[m]]
  /\ Add({m, Cluster})
  /\ UNCHANGED <<maasVars, object, maasCluster, clusterCache, endpoint, pass,
                 clusterPass, faults>>

\* The MaasCluster has changed: both controllers watch it.
SyncCluster ==
  /\ clusterCache # maasCluster
  /\ clusterCache' = maasCluster
  /\ Add(AllItems)
  /\ UNCHANGED <<maasVars, object, cache, maasCluster, endpoint, pass, clusterPass, faults>>

\* Every sync-period the informers deliver every object again.
Resync ==
  /\ ~(AllItems \subseteq due) /\ Add(AllItems)
  /\ UNCHANGED <<maasVars, apiVars, pass, clusterPass, faults>>

\* Passes are lost, informers and queues start from what is stored.
Restart ==
  /\ Fails
  /\ cache' = object /\ clusterCache' = maasCluster /\ due' = AllItems
  /\ pass' = [m \in Machines |-> Idle] /\ clusterPass' = IdleCluster
  /\ UNCHANGED <<maasVars, object, maasCluster, endpoint>>

\* Cluster API takes over the endpoint of a MaasCluster once; both controllers
\* watch the Cluster.
PublishEndpoint ==
  /\ endpoint = NoName /\ maasCluster.endpoint # NoName
  /\ endpoint' = maasCluster.endpoint
  /\ Add(AllItems)
  /\ UNCHANGED <<maasVars, object, cache, maasCluster, clusterCache, pass, clusterPass, faults>>

\* Machines are created once the endpoint is known.
Create(m) ==
  /\ endpoint # NoName /\ object[m].stage = "absent"
  /\ object' = [object EXCEPT ![m].stage = "present"]
  /\ UNCHANGED <<maasVars, cache, maasCluster, clusterCache, endpoint, due, pass,
                 clusterPass, faults>>

Delete(m) ==
  /\ object[m].stage = "present" /\ ~object[m].deleting
  /\ object' = [object EXCEPT ![m].deleting = TRUE]
  /\ UNCHANGED <<maasVars, cache, maasCluster, clusterCache, endpoint, due, pass,
                 clusterPass, faults>>

\* A machine is deployed, or fails or is taken out of service in MAAS.
MAASChanges(m) ==
  /\ maas' \in { [maas EXCEPT ![m] = s] : s \in {"Deployed", "Other"} }
  /\ maas[m] \in {"Deploying", "Deployed"} /\ maas' # maas
  /\ UNCHANGED <<power, addresses, apiVars, due, pass, clusterPass, faults>>

PowerChanges(m) ==
  /\ power' \in { [power EXCEPT ![m] = s] : s \in Powers } /\ power' # power
  /\ UNCHANGED <<maas, addresses, apiVars, due, pass, clusterPass, faults>>

Next ==
  \/ \E m \in Machines : Reconcile(m) \/ Step(m) \/ Sync(m) \/ Create(m) \/ Delete(m)
                         \/ MAASChanges(m) \/ PowerChanges(m)
  \/ ReconcileCluster \/ ClusterStep \/ SyncCluster \/ PublishEndpoint
  \/ Resync \/ Restart

Spec == Init /\ [][Next]_vars

\* Work queues and informers go on; the sync period is 120 minutes by default.
Fairness ==
  /\ \A m \in Machines : WF_vars(Reconcile(m)) /\ WF_vars(Step(m)) /\ WF_vars(Sync(m))
  /\ WF_vars(ReconcileCluster) /\ WF_vars(ClusterStep) /\ WF_vars(SyncCluster)
  /\ WF_vars(Resync)

FairSpec == Spec /\ Fairness

(***************************************************************************)
(* Properties.                                                             *)
(***************************************************************************)
\* Nothing is under way and no event is on its way.
Quiet == /\ endpoint # NoName /\ Cluster \notin due /\ ClusterAt("idle")
         /\ cache = object /\ clusterCache = maasCluster

\* When everything is quiet the resource that the Cluster publishes holds the
\* addresses of the machines that run and stay, and of no other one: no wake-up
\* is lost, whatever fails, and a list that was out of date is replaced.
QuietIsRight == Quiet => addresses[endpoint] = {m \in Machines : Wanted(object[m])}

\* A failing call, a restart or a stale read leaves at most one DNS resource
\* without a cluster (GetDNSName stores the name that it makes up).
ResourcesAreFailures == Cardinality(DOMAIN addresses) <= faults + 1

\* A machine that is deleted is detached, released and goes.
DeletedMachinesGo == \A m \in Machines : object[m].deleting ~> object[m].stage = "gone"

\* A machine that stays deployed and powered is attached and stays so.
RunningMachinesAreAttached ==
  \A m \in Machines :
    <>[](object[m].stage = "present" /\ ~object[m].deleting
           /\ maas[m] = "Deployed" /\ power[m] = "on")
    => <>[](endpoint # NoName /\ m \in addresses[endpoint])

\* An address is not withdrawn because the power of a machine that is deployed and
\* stays is not known ("Never treat those as a confirmed off").
UnknownPowerKeepsAddress ==
  [][\A m \in Machines :
       /\ endpoint # NoName /\ m \in addresses[endpoint] /\ m \notin addresses'[endpoint]
       /\ ~object[m].deleting /\ maas[m] = "Deployed"
       => object[m].power # "error"]_vars
=============================================================================
