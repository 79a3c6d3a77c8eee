------------------------ MODULE ControlPlaneDNSProofs ------------------------
(***************************************************************************)
(* Proofs about ControlPlaneDNS, for any number of machines and failures:  *)
(* the state is well typed; when everything is quiet DNS holds the         *)
(* addresses of the machines that run; and the DNS resources in MAAS are   *)
(* at most one more than the failures.                                     *)
(*                                                                         *)
(* QuietIsRight speaks of the moment when nothing is left to do.  The      *)
(* invariant says what stands, at any other moment, between the state and  *)
(* that one (Woken): an item in the queue, an event to come, or a pass     *)
(* that has not yet listed the machines, or has listed them as they are.   *)
(***************************************************************************)
EXTENDS ControlPlaneDNS, FiniteSetTheorems, TLAPS

\* Every endpoint that any version of the MaasCluster has is that of a resource.
Existing ==
  LET known == DOMAIN addresses \cup {NoName}  IN
  /\ maasCluster.endpoint \in known /\ clusterCache.endpoint \in known
  /\ clusterPass.v.endpoint \in known /\ clusterPass.base.endpoint \in known

\* The finalizer is stored before anything else is, and stays.
Finalized ==
  /\ clusterCache.finalizer \/ maasCluster.endpoint # NoName \/ endpoint # NoName
       => maasCluster.finalizer
  /\ ~ClusterAt("idle") => /\ clusterPass.v.finalizer
                           /\ clusterPass.base.finalizer => maasCluster.finalizer

Listed == {m \in Machines : Wanted(cache[m])}

\* What keeps a published resource from staying wrong.
Woken ==
  endpoint # NoName =>
    \/ Cluster \in due \/ ~clusterCache.finalizer
    \/ ClusterAt("resource") /\ clusterPass.host = endpoint
    \/ ClusterAt("list") /\ clusterPass.v.name = endpoint
    \/ ClusterAt("update") /\ clusterPass.v.name = endpoint /\ clusterPass.list = Listed
    \/ (ClusterAt("idle") \/ ClusterAt("close")) /\ addresses[endpoint] = Listed

DInv == TypeOK /\ Existing /\ Finalized /\ Woken

-----------------------------------------------------------------------------
(* Type correctness. *)

\* A call that works or fails keeps the count within its bound.
LEMMA FaultsTyped ==
  ASSUME faults \in 0..MaxFaults, Works \/ Fails
  PROVE  faults' \in 0..MaxFaults
BY ControlPlaneDNSAssumption DEF Works, Fails

\* Giving one pass a new typed value keeps all of them typed.
LEMMA PassTyped ==
  ASSUME pass \in [Machines -> Pass], NEW m \in Machines, NEW p \in Pass,
         pass' = [pass EXCEPT ![m] = p]
  PROVE  pass' \in [Machines -> Pass]
OBVIOUS

\* A pass that moves on is typed.
LEMMA GotoTyped ==
  ASSUME pass \in [Machines -> Pass], NEW m \in Machines,
         NEW pc \in {"idle", "powerOn", "deploy", "dns", "release", "close"}, Goto(m, pc)
  PROVE  pass' \in [Machines -> Pass]
BY DEF Goto, Pass

\* The first call of a pass for a MaasMachine.
LEMMA ReconcileTyped ==
  ASSUME TypeOK, NEW m \in Machines, Reconcile(m)
  PROVE  TypeOK'
<1> DEFINE v == cache[m]
           start == [pc |-> "idle", v |-> v, base |-> v]
           dns(r) == [start EXCEPT !.pc = r, !.v.power = power[m]]
<1>v. v \in MaasMachine
  BY DEF TypeOK
<1>s. \A pc \in {"close", "dns", "deploy"} : [start EXCEPT !.pc = pc] \in Pass
  BY <1>v DEF Pass
<1>g. [start EXCEPT !.pc = "close", !.v.stage = "gone"] \in Pass
  BY <1>v DEF Pass, MaasMachine
<1>d. \A pc \in {"powerOn", "dns"} : dns(pc) \in Pass
  BY <1>v DEF Pass, MaasMachine, TypeOK
<1>1. pass' \in [Machines -> Pass]
  <2>1. CASE v.stage # "present"
    BY <2>1 DEF TypeOK, Reconcile
  <2>2. CASE v.stage = "present" /\ Fails
               /\ pass' = [pass EXCEPT ![m] = [start EXCEPT !.pc = "close"]]
    BY <2>2, <1>s, PassTyped DEF TypeOK
  <2>3. CASE v.stage = "present" /\ v.deleting /\ maas[m] = "none"
               /\ pass' = [pass EXCEPT ![m] = [start EXCEPT !.pc = "close", !.v.stage = "gone"]]
    BY <2>3, <1>g, PassTyped DEF TypeOK
  <2>4. CASE v.stage = "present" /\ v.deleting /\ maas[m] # "none"
               /\ pass' = [pass EXCEPT ![m] = [start EXCEPT !.pc = "dns"]]
    BY <2>4, <1>s, PassTyped DEF TypeOK
  <2>5. CASE v.stage = "present" /\ ~v.deleting /\ maas[m] \notin {"Deploying", "Deployed"}
               /\ pass' = [pass EXCEPT ![m] = [start EXCEPT !.pc = "deploy"]]
    BY <2>5, <1>s, PassTyped DEF TypeOK
  <2>6. CASE v.stage = "present" /\ ~v.deleting /\ maas[m] \in {"Deploying", "Deployed"}
               /\ pass' = [pass EXCEPT ![m] =
                    dns(IF maas[m] = "Deployed" /\ power[m] = "off" THEN "powerOn" ELSE "dns")]
    BY <2>6, <1>d, PassTyped DEF TypeOK
  <2> QED
    BY <1>v, <2>1, <2>2, <2>3, <2>4, <2>5, <2>6 DEF Reconcile, MaasMachine
<1>2. faults' \in 0..MaxFaults
  BY FaultsTyped DEF TypeOK, Reconcile
<1>3. due' \subseteq Machines \cup {Cluster}
  BY DEF TypeOK, Reconcile
<1> QED
  BY <1>1, <1>2, <1>3 DEF TypeOK, Reconcile, maasVars, apiVars

\* The other calls of a pass for a MaasMachine.
LEMMA StepTyped ==
  ASSUME TypeOK, NEW m \in Machines, Step(m)
  PROVE  TypeOK'
<1>f. Works \/ Fails => faults' \in 0..MaxFaults
  BY FaultsTyped DEF TypeOK
<1>g. \A pc \in {"idle", "powerOn", "deploy", "dns", "release", "close"} :
        Goto(m, pc) => pass' \in [Machines -> Pass]
  BY GotoTyped DEF TypeOK
<1>1. CASE PowerOn(m)
  BY <1>1, <1>f, <1>g, ControlPlaneDNSAssumption
     DEF PowerOn, Again, Add, TypeOK, apiVars, vars
<1>2. CASE Deploy(m)
  <2>1. ASSUME pass' = [pass EXCEPT ![m].pc = "dns", ![m].v.power = power[m]]
        PROVE  pass' \in [Machines -> Pass]
    <3> DEFINE q == [pass[m] EXCEPT !.pc = "dns"]
    <3>0. q \in Pass
      BY DEF TypeOK, Pass
    <3>v. [q.v EXCEPT !.power = power[m]] \in MaasMachine
      BY <3>0 DEF TypeOK, Pass, MaasMachine
    <3>1. [q EXCEPT !.v = [q.v EXCEPT !.power = power[m]]] \in Pass
      BY <3>0, <3>v DEF Pass
    <3> QED
      BY <2>1, <3>1, PassTyped DEF TypeOK
  <2> QED
    BY <1>2, <1>f, <1>g, <2>1 DEF Deploy, Again, Add, TypeOK, apiVars
<1>3. CASE CheckDNS(m)
  BY <1>3, <1>f, <1>g DEF CheckDNS, Again, Add, TypeOK, apiVars, maasVars
<1>4. CASE Release(m)
  <2>1. ASSUME pass' = [pass EXCEPT ![m].pc = "close", ![m].v.stage = "gone"]
        PROVE  pass' \in [Machines -> Pass]
    <3> DEFINE q == [pass[m] EXCEPT !.pc = "close"]
    <3>0. q \in Pass
      BY DEF TypeOK, Pass
    <3>v. [q.v EXCEPT !.stage = "gone"] \in MaasMachine
      BY <3>0 DEF TypeOK, Pass, MaasMachine
    <3>1. [q EXCEPT !.v = [q.v EXCEPT !.stage = "gone"]] \in Pass
      BY <3>0, <3>v DEF Pass
    <3> QED
      BY <2>1, <3>1, PassTyped DEF TypeOK
  <2> QED
    BY <1>4, <1>f, <1>g, <2>1 DEF Release, Again, Add, TypeOK, apiVars
<1>5. CASE Close(m)
  <2>1. object' \in [Machines -> MaasMachine]
    <3> DEFINE stage == Patched(object[m].stage, pass[m].base.stage, pass[m].v.stage)
               pow == Patched(object[m].power, pass[m].base.power, pass[m].v.power)
    <3>0. object[m] \in MaasMachine /\ pass[m] \in Pass
      BY DEF TypeOK
    <3>1. /\ stage \in {"absent", "present", "gone"} /\ pow \in Powers \cup {"unread"}
          /\ object[m].stage \in {"absent", "present", "gone"}
          /\ object[m].power \in Powers \cup {"unread"}
      BY <3>0 DEF Pass, MaasMachine, Patched
    <3>2. \A s \in {"absent", "present", "gone"}, q \in Powers \cup {"unread"} :
            [object[m] EXCEPT !.stage = s, !.power = q] \in MaasMachine
      BY <3>0 DEF MaasMachine
    <3>3. PICK s \in {stage, object[m].stage}, q \in {pow, object[m].power} :
            \/ object' = object
            \/ object' = [object EXCEPT ![m] = [object[m] EXCEPT !.stage = s, !.power = q]]
      BY <1>5 DEF Close
    <3> HIDE DEF stage, pow
    <3>4. [object[m] EXCEPT !.stage = s, !.power = q] \in MaasMachine
      BY <3>1, <3>2
    <3> QED
      BY <3>3, <3>4 DEF TypeOK
  <2>2. Idle \in Pass
    BY DEF Idle, Absent, Pass, MaasMachine
  <2>3. pass' \in [Machines -> Pass]
    BY <1>5, <2>2, PassTyped DEF Close, TypeOK
  <2> QED
    BY <1>5, <1>f, <2>1, <2>3 DEF Close, Add, TypeOK, maasVars
<1> QED
  BY <1>1, <1>2, <1>3, <1>4, <1>5 DEF Step

\* A name that a pass works with is one that may be made up.
LEMMA NamesTyped ==
  ASSUME TypeOK
  PROVE  GetDNSName(clusterPass) \subseteq Names
BY DEF TypeOK, ClusterPass, MaasCluster, GetDNSName

\* A resource that is created leaves the others as they are.
LEMMA CreatedTyped ==
  ASSUME TypeOK, NEW n \in Names
  PROVE  /\ DOMAIN Created(n) = DOMAIN addresses \cup {n}
         /\ Created(n) \in [DOMAIN Created(n) -> SUBSET Machines]
         /\ \A k \in DOMAIN addresses : Created(n)[k] = addresses[k]
BY DEF TypeOK, Created

-----------------------------------------------------------------------------
(* The invariant.  One lemma per step of a pass for the MaasCluster. *)

\* A pass begins with the MaasCluster of the cache and with the name that the
\* Cluster publishes, if there is one.
LEMMA ReconcileClusterInv ==
  ASSUME DInv, ReconcileCluster
  PROVE  DInv'
<1> DEFINE v == [clusterCache EXCEPT !.finalizer = TRUE]
           p == [pc |-> IF clusterCache.finalizer THEN "resource" ELSE "close",
                 host |-> endpoint, v |-> v, base |-> clusterCache, list |-> {}]
<1>1. clusterPass' = p
  BY DEF ReconcileCluster, IdleCluster
<1>2. v \in MaasCluster /\ v.finalizer /\ v.endpoint = clusterCache.endpoint
  BY DEF DInv, TypeOK, MaasCluster
<1>3. p \in ClusterPass
  BY <1>2 DEF ClusterPass, DInv, TypeOK
<1>4. faults' \in 0..MaxFaults
  BY FaultsTyped DEF ReconcileCluster, DInv, TypeOK
<1>5. TypeOK'
  BY <1>1, <1>3, <1>4 DEF ReconcileCluster, DInv, TypeOK, maasVars, apiVars
<1>p. /\ clusterPass'.v.endpoint = clusterCache.endpoint /\ clusterPass'.v.finalizer
      /\ clusterPass'.base = clusterCache
  BY <1>1, <1>2
<1>6. Existing'
  BY <1>p DEF ReconcileCluster, DInv, Existing, maasVars, apiVars
<1>7. Finalized'
  BY <1>p DEF ReconcileCluster, DInv, Finalized, ClusterAt, maasVars, apiVars
<1>8. Woken'
  BY <1>1 DEF ReconcileCluster, Woken, ClusterAt, apiVars
<1> QED
  BY <1>5, <1>6, <1>7, <1>8 DEF DInv

\* A pass that has read the published name works with the resource of that name.
LEMMA ReconcileDNSInv ==
  ASSUME DInv, ReconcileDNS
  PROVE  DInv'
<1>1. PICK n \in GetDNSName(clusterPass) :
        \/ /\ Works /\ addresses' = Created(n) /\ UNCHANGED due
           /\ clusterPass' = [clusterPass EXCEPT !.pc = "list", !.v.name = n, !.v.endpoint = n]
        \/ /\ Fails /\ addresses' \in {addresses, Created(n)} /\ Add({Cluster})
           /\ clusterPass' = [clusterPass EXCEPT !.pc = "close",
                !.v.name = IF clusterPass.host = NoName THEN n ELSE @]
  BY DEF ReconcileDNS
<1>n. n \in Names
  BY NamesTyped DEF DInv
<1>c. /\ DOMAIN Created(n) = DOMAIN addresses \cup {n}
      /\ Created(n) \in [DOMAIN Created(n) -> SUBSET Machines]
      /\ \A k \in DOMAIN addresses : Created(n)[k] = addresses[k]
  BY <1>n, CreatedTyped DEF DInv
<1>v. clusterPass \in ClusterPass /\ clusterPass.v \in MaasCluster
  BY DEF DInv, TypeOK, ClusterPass
<1>u. /\ ClusterAt("resource") /\ UNCHANGED <<maas, power, apiVars, pass>>
      /\ clusterPass.v.finalizer
      /\ clusterPass.base.finalizer => maasCluster.finalizer
  BY DEF ReconcileDNS, DInv, Finalized, ClusterAt
<1>2. CASE /\ Works /\ addresses' = Created(n) /\ UNCHANGED due
           /\ clusterPass' = [clusterPass EXCEPT !.pc = "list", !.v.name = n, !.v.endpoint = n]
  <2> DEFINE w == [clusterPass.v EXCEPT !.name = n, !.endpoint = n]
             p == [pc |-> "list", host |-> clusterPass.host, v |-> w,
                   base |-> clusterPass.base, list |-> clusterPass.list]
  <2>1. w \in MaasCluster /\ w.name = n /\ w.endpoint = n /\ w.finalizer
    BY <1>n, <1>v, <1>u DEF MaasCluster
  <2>2. clusterPass' = p
    BY <1>2, <1>v DEF ClusterPass, MaasCluster
  <2>3. p \in ClusterPass
    BY <1>v, <2>1 DEF ClusterPass
  <2>p. /\ clusterPass'.pc = "list" /\ clusterPass'.base = clusterPass.base
        /\ clusterPass'.v.name = n /\ clusterPass'.v.endpoint = n /\ clusterPass'.v.finalizer
    BY <2>1, <2>2
  <2> HIDE DEF w, p
  <2>4. TypeOK'
    BY <1>2, <1>n, <1>c, <1>u, <2>2, <2>3 DEF DInv, TypeOK, Works, apiVars
  <2>5. Existing'
    BY <1>2, <1>c, <1>u, <2>p DEF DInv, Existing, apiVars
  <2>6. Finalized'
    BY <1>u, <2>p DEF DInv, Finalized, ClusterAt, apiVars
  <2>7. Woken'
    BY <1>1, <1>2, <1>u, <2>p DEF DInv, Woken, ClusterAt, GetDNSName, apiVars
  <2> QED
    BY <2>4, <2>5, <2>6, <2>7 DEF DInv
<1>3. CASE /\ Fails /\ addresses' \in {addresses, Created(n)} /\ Add({Cluster})
           /\ clusterPass' = [clusterPass EXCEPT !.pc = "close",
                !.v.name = IF clusterPass.host = NoName THEN n ELSE @]
  <2> DEFINE w == [clusterPass.v EXCEPT !.name = IF clusterPass.host = NoName THEN n ELSE @]
             p == [pc |-> "close", host |-> clusterPass.host, v |-> w,
                   base |-> clusterPass.base, list |-> clusterPass.list]
  <2>1. w \in MaasCluster /\ w.endpoint = clusterPass.v.endpoint /\ w.finalizer
    BY <1>n, <1>v, <1>u DEF MaasCluster
  <2>2. clusterPass' = p
    BY <1>3, <1>v DEF ClusterPass, MaasCluster
  <2>3. p \in ClusterPass
    BY <1>v, <2>1 DEF ClusterPass
  <2>p. /\ clusterPass'.pc = "close" /\ clusterPass'.base = clusterPass.base
        /\ clusterPass'.v.endpoint = clusterPass.v.endpoint /\ clusterPass'.v.finalizer
    BY <2>1, <2>2
  <2> HIDE DEF w, p
  <2>4. faults' \in 0..MaxFaults
    BY <1>3, FaultsTyped DEF DInv, TypeOK
  <2>5. TypeOK'
    BY <1>3, <1>n, <1>c, <1>u, <2>2, <2>3, <2>4 DEF DInv, TypeOK, Add, apiVars
  <2>6. Existing'
    BY <1>3, <1>c, <1>u, <2>p DEF DInv, Existing, apiVars
  <2>7. Finalized'
    BY <1>u, <2>p DEF DInv, Finalized, ClusterAt, apiVars
  <2>8. Woken'
    BY <1>3 DEF Woken, Add
  <2> QED
    BY <2>5, <2>6, <2>7, <2>8 DEF DInv
<1> QED
  BY <1>1, <1>2, <1>3

\* The machines are listed as the cache has them.
LEMMA ListMachinesInv ==
  ASSUME DInv, ListMachines
  PROVE  DInv'
<1>v. clusterPass \in ClusterPass /\ clusterPass.v.finalizer
      /\ (clusterPass.base.finalizer => maasCluster.finalizer) /\ ClusterAt("list")
  BY DEF DInv, TypeOK, ListMachines, Finalized, ClusterAt
<1>u. UNCHANGED <<maasVars, apiVars, pass>>
  BY DEF ListMachines
<1>f. faults' \in 0..MaxFaults
  BY FaultsTyped DEF DInv, TypeOK, ListMachines
<1>1. PICK pc \in {"update", "close"}, l \in SUBSET Machines :
        /\ clusterPass' = [pc |-> pc, host |-> clusterPass.host, v |-> clusterPass.v,
                           base |-> clusterPass.base, list |-> l]
        /\ \/ pc = "update" /\ l = Listed /\ due' = due
           \/ due' = due \cup {Cluster}
  BY <1>v DEF ListMachines, ClusterAgain, ClusterGoto, Add, ClusterPass, Listed
<1>p. /\ clusterPass'.pc = pc /\ clusterPass'.v = clusterPass.v
      /\ clusterPass'.base = clusterPass.base /\ clusterPass'.list = l
      /\ clusterPass' \in ClusterPass
  BY <1>1, <1>v DEF ClusterPass
<1>2. TypeOK'
  BY <1>1, <1>f, <1>p, <1>u DEF DInv, TypeOK, maasVars, apiVars
<1>3. Existing' /\ Finalized'
  BY <1>p, <1>u, <1>v DEF DInv, Existing, Finalized, ClusterAt, maasVars, apiVars
<1>4. Woken'
  BY <1>1, <1>p, <1>u, <1>v DEF DInv, Woken, ClusterAt, Listed, maasVars, apiVars
<1> QED
  BY <1>2, <1>3, <1>4 DEF DInv

\* What was listed is what DNS gets, if the update works.
LEMMA UpdateInv ==
  ASSUME DInv, UpdateDNSAttachments
  PROVE  DInv'
<1> DEFINE updated == [addresses EXCEPT ![clusterPass.v.name] = clusterPass.list]
<1>v. clusterPass \in ClusterPass /\ clusterPass.v.finalizer
      /\ (clusterPass.base.finalizer => maasCluster.finalizer) /\ ClusterAt("update")
  BY DEF DInv, TypeOK, UpdateDNSAttachments, Finalized, ClusterAt
<1>u. UNCHANGED <<maas, power, apiVars, pass>>
  BY DEF UpdateDNSAttachments
<1>f. faults' \in 0..MaxFaults
  BY FaultsTyped DEF DInv, TypeOK, UpdateDNSAttachments
<1>a. /\ DOMAIN updated = DOMAIN addresses
      /\ updated \in [DOMAIN updated -> SUBSET Machines]
      /\ clusterPass.v.name \in DOMAIN addresses => updated[clusterPass.v.name] = clusterPass.list
  BY <1>v DEF DInv, TypeOK, ClusterPass
<1>1. /\ clusterPass' = [clusterPass EXCEPT !.pc = "close"]
      /\ \/ addresses' = updated /\ due' \in {due, due \cup {Cluster}}
         \/ addresses' \in {addresses, updated} /\ due' = due \cup {Cluster}
  BY DEF UpdateDNSAttachments, ClusterAgain, ClusterGoto, Add
<1> HIDE DEF updated
<1>p. /\ clusterPass'.pc = "close" /\ clusterPass'.v = clusterPass.v
      /\ clusterPass'.base = clusterPass.base
      /\ clusterPass' \in ClusterPass
  BY <1>1, <1>v DEF ClusterPass
<1>d. DOMAIN addresses' = DOMAIN addresses /\ addresses' \in [DOMAIN addresses' -> SUBSET Machines]
  BY <1>1, <1>a DEF DInv, TypeOK
<1>2. TypeOK'
  BY <1>1, <1>d, <1>f, <1>p, <1>u DEF DInv, TypeOK, apiVars
<1>3. Existing' /\ Finalized'
  BY <1>d, <1>p, <1>u, <1>v DEF DInv, Existing, Finalized, ClusterAt, apiVars
<1>4. Woken'
  <2>1. CASE Cluster \in due' \/ ~clusterCache.finalizer \/ endpoint = NoName
    BY <2>1, <1>u DEF Woken, apiVars
  <2>2. CASE ~(Cluster \in due' \/ ~clusterCache.finalizer \/ endpoint = NoName)
    <3>1. addresses' = updated /\ clusterPass.v.name = endpoint /\ clusterPass.list = Listed
      BY <2>2, <1>1, <1>v DEF DInv, Woken, ClusterAt
    <3>2. addresses'[endpoint] = Listed
      BY <2>2, <3>1, <1>a DEF DInv, TypeOK
    <3> QED
      BY <3>2, <1>p, <1>u DEF Woken, ClusterAt, Listed, apiVars
  <2> QED
    BY <2>1, <2>2
<1> QED
  BY <1>2, <1>3, <1>4 DEF DInv

\* The finalizer is stored together with the endpoint, if either is.
LEMMA CloseClusterInv ==
  ASSUME DInv, CloseCluster
  PROVE  DInv'
<1> DEFINE finalizer == Patched(maasCluster.finalizer, clusterPass.base.finalizer,
                                clusterPass.v.finalizer)
           url  == Patched(maasCluster.endpoint, clusterPass.base.endpoint, clusterPass.v.endpoint)
           name == Patched(maasCluster.name, clusterPass.base.name, clusterPass.v.name)
<1>v. /\ maasCluster \in MaasCluster
      /\ clusterPass \in ClusterPass /\ ClusterAt("close")
  BY DEF DInv, TypeOK, CloseCluster
<1>1. /\ finalizer = TRUE
      /\ url \in Names \cup {NoName} /\ name \in Names \cup {NoName}
      /\ url \in DOMAIN addresses \cup {NoName}
  <2>1. finalizer = TRUE
    BY <1>v DEF DInv, Finalized, Patched, ClusterAt, ClusterPass, MaasCluster
  <2>2. url \in DOMAIN addresses \cup {NoName}
    BY DEF DInv, Existing, Patched
  <2>3. url \in Names \cup {NoName} /\ name \in Names \cup {NoName}
    BY <1>v DEF Patched, ClusterPass, MaasCluster
  <2> QED
    BY <2>1, <2>2, <2>3
<1>2. PICK k \in {maasCluster.name, name} :
        \/ maasCluster' = maasCluster
        \/ maasCluster' = [finalizer |-> finalizer, name |-> k, endpoint |-> url]
        \/ maasCluster' = [finalizer |-> maasCluster.finalizer, name |-> k,
                           endpoint |-> maasCluster.endpoint]
  BY DEF CloseCluster
<1>u. /\ clusterPass' = IdleCluster /\ due' \in {due, due \cup {Cluster}}
      /\ UNCHANGED <<maasVars, object, cache, clusterCache, endpoint, pass>>
  BY DEF CloseCluster, Add
<1>f. faults' \in 0..MaxFaults
  BY FaultsTyped DEF DInv, TypeOK, CloseCluster
<1> HIDE DEF finalizer, url, name
<1>3. /\ maasCluster' \in MaasCluster
      /\ maasCluster'.endpoint \in DOMAIN addresses \cup {NoName}
      /\ \/ maasCluster'.finalizer
         \/ /\ maasCluster'.finalizer = maasCluster.finalizer
            /\ maasCluster'.endpoint = maasCluster.endpoint
  <2>1. k \in Names \cup {NoName} /\ maasCluster.endpoint \in DOMAIN addresses \cup {NoName}
    BY <1>1, <1>v DEF DInv, Existing, MaasCluster
  <2>2. CASE maasCluster' = maasCluster
    BY <1>v, <2>1, <2>2
  <2>3. CASE maasCluster' = [finalizer |-> finalizer, name |-> k, endpoint |-> url]
    BY <1>1, <2>1, <2>3 DEF MaasCluster
  <2>4. CASE maasCluster' = [finalizer |-> maasCluster.finalizer, name |-> k,
                             endpoint |-> maasCluster.endpoint]
    BY <1>v, <2>1, <2>4 DEF MaasCluster
  <2> QED
    BY <1>2, <2>2, <2>3, <2>4
<1>4. /\ IdleCluster \in ClusterPass /\ IdleCluster.pc = "idle"
      /\ IdleCluster.v.endpoint = NoName /\ IdleCluster.base.endpoint = NoName
  BY DEF IdleCluster, NewCluster, ClusterPass, MaasCluster
<1>5. TypeOK'
  BY <1>3, <1>4, <1>f, <1>u DEF DInv, TypeOK, maasVars
<1>6. Existing' /\ Finalized'
  BY <1>3, <1>4, <1>u DEF DInv, Existing, Finalized, ClusterAt, maasVars
<1>7. Woken'
  BY <1>4, <1>u, <1>v DEF DInv, Woken, ClusterAt, Listed, maasVars
<1> QED
  BY <1>5, <1>6, <1>7 DEF DInv

\* What the MaasCluster controller does not do leaves its pass, DNS and the machines
\* it has listed alone, and takes nothing but a machine from the queues.
LEMMA FrameInv ==
  ASSUME DInv, TypeOK',
         UNCHANGED <<addresses, cache, maasCluster, clusterCache, endpoint, clusterPass>>,
         Cluster \in due => Cluster \in due'
  PROVE  DInv'
<1>1. Existing' /\ Finalized'
  BY DEF DInv, Existing, Finalized, ClusterAt
<1>2. Woken'
  BY DEF DInv, Woken, ClusterAt, Listed
<1> QED
  BY <1>1, <1>2 DEF DInv

\* What wakes the MaasCluster controller up.
LEMMA EventInv ==
  ASSUME DInv, TypeOK', Cluster \in due',
         UNCHANGED <<addresses, maasCluster>>,
         clusterPass' \in {clusterPass, IdleCluster},
         clusterCache' \in {clusterCache, maasCluster},
         endpoint' \in {endpoint, maasCluster.endpoint}
  PROVE  DInv'
<1>1. IdleCluster.pc = "idle" /\ IdleCluster.v.endpoint = NoName /\ IdleCluster.base.endpoint = NoName
  BY DEF IdleCluster, NewCluster
<1>2. Existing' /\ Finalized'
  BY <1>1 DEF DInv, Existing, Finalized, ClusterAt
<1>3. Woken'
  BY DEF Woken
<1> QED
  BY <1>2, <1>3 DEF DInv

\* The invariant holds in every initial state.
LEMMA InitInv == Init => DInv
<1> SUFFICES ASSUME Init PROVE DInv
  OBVIOUS
<1>1. /\ Absent \in MaasMachine /\ Idle \in Pass
      /\ NewCluster \in MaasCluster /\ IdleCluster \in ClusterPass
  BY DEF Absent, Idle, NewCluster, IdleCluster, MaasMachine, Pass, MaasCluster, ClusterPass
<1>2. DOMAIN addresses = {} /\ addresses \in [DOMAIN addresses -> SUBSET Machines]
  BY DEF Init
<1>3. TypeOK
  BY <1>1, <1>2, ControlPlaneDNSAssumption DEF Init, TypeOK
<1>4. Existing /\ Finalized /\ Woken
  BY DEF Init, Existing, Finalized, Woken, ClusterAt, NewCluster, IdleCluster
<1> QED
  BY <1>3, <1>4 DEF DInv

\* Every step preserves it.
LEMMA NextInv == DInv /\ [Next]_vars => DInv'
<1> SUFFICES ASSUME DInv, [Next]_vars PROVE DInv'
  OBVIOUS
<1>t. TypeOK
  BY DEF DInv
<1>a. Cluster \notin Machines
  BY ControlPlaneDNSAssumption
<1>1. ASSUME NEW m \in Machines, Reconcile(m) PROVE DInv'
  <2>1. TypeOK'
    BY <1>1, <1>t, ReconcileTyped
  <2> QED
    BY <1>1, <1>a, <2>1, FrameInv DEF Reconcile, maasVars, apiVars
<1>2. ASSUME NEW m \in Machines, Step(m) PROVE DInv'
  <2>1. TypeOK'
    BY <1>2, <1>t, StepTyped
  <2> QED
    BY <1>2, <2>1, FrameInv
       DEF Step, PowerOn, Deploy, CheckDNS, Release, Close, Again, Add, maasVars, apiVars
<1>3. ASSUME NEW m \in Machines, Sync(m) PROVE DInv'
  <2>1. TypeOK'
    BY <1>3, <1>t DEF Sync, Add, TypeOK, maasVars
  <2> QED
    BY <1>3, <2>1, EventInv DEF Sync, Add, maasVars
<1>4. ASSUME NEW m \in Machines, Create(m) \/ Delete(m) PROVE DInv'
  <2>o. /\ [object[m] EXCEPT !.stage = "present"] \in MaasMachine
        /\ [object[m] EXCEPT !.deleting = TRUE] \in MaasMachine
    <3>1. object[m] \in MaasMachine
      BY <1>t DEF TypeOK
    <3>2. [object[m] EXCEPT !.stage = "present"] \in MaasMachine
      BY <3>1 DEF MaasMachine
    <3>3. [object[m] EXCEPT !.deleting = TRUE] \in MaasMachine
      BY <3>1 DEF MaasMachine
    <3> QED
      BY <3>2, <3>3
  <2>e. \/ object' = [object EXCEPT ![m] = [object[m] EXCEPT !.stage = "present"]]
        \/ object' = [object EXCEPT ![m] = [object[m] EXCEPT !.deleting = TRUE]]
    BY <1>4 DEF Create, Delete
  <2>1. object' \in [Machines -> MaasMachine]
    BY <1>t, <2>o, <2>e DEF TypeOK
  <2>2. TypeOK'
    BY <1>4, <1>t, <2>1 DEF Create, Delete, TypeOK, maasVars
  <2> QED
    BY <1>4, <2>2, FrameInv DEF Create, Delete, maasVars
<1>5. ASSUME NEW m \in Machines, MAASChanges(m) \/ PowerChanges(m) PROVE DInv'
  <2>1. TypeOK'
    BY <1>5, <1>t DEF MAASChanges, PowerChanges, TypeOK, apiVars
  <2> QED
    BY <1>5, <2>1, FrameInv DEF MAASChanges, PowerChanges, apiVars
<1>6. CASE SyncCluster \/ PublishEndpoint \/ Resync
  <2>1. AllItems \subseteq Machines \cup {Cluster} /\ Cluster \in AllItems
    BY DEF AllItems
  <2>2. endpoint' \in DOMAIN addresses \cup {NoName}
    BY <1>6 DEF DInv, TypeOK, Existing, SyncCluster, PublishEndpoint, Resync, apiVars
  <2>3. TypeOK'
    BY <1>6, <1>t, <2>1, <2>2
       DEF SyncCluster, PublishEndpoint, Resync, Add, TypeOK, maasVars, apiVars
  <2> QED
    BY <1>6, <2>1, <2>3, EventInv
       DEF SyncCluster, PublishEndpoint, Resync, Add, maasVars, apiVars
<1>7. CASE Restart
  <2>1. AllItems \subseteq Machines \cup {Cluster} /\ Cluster \in AllItems
    BY DEF AllItems
  <2>2. Idle \in Pass /\ IdleCluster \in ClusterPass
    BY DEF Absent, Idle, NewCluster, IdleCluster, MaasMachine, Pass, MaasCluster, ClusterPass
  <2>3. faults' \in 0..MaxFaults
    BY <1>7, <1>t, FaultsTyped DEF Restart, TypeOK
  <2>4. TypeOK'
    BY <1>7, <1>t, <2>1, <2>2, <2>3 DEF Restart, TypeOK, maasVars
  <2> QED
    BY <1>7, <2>1, <2>4, EventInv DEF Restart, maasVars
<1>8. CASE ReconcileCluster \/ ClusterStep
  BY <1>8, ReconcileClusterInv, ReconcileDNSInv, ListMachinesInv, UpdateInv, CloseClusterInv
     DEF ClusterStep
<1>9. CASE UNCHANGED vars
  <2>1. TypeOK'
    BY <1>9, <1>t DEF TypeOK, vars, maasVars, apiVars
  <2> QED
    BY <1>9, <2>1, FrameInv DEF vars, maasVars, apiVars
<1> QED
  BY <1>1, <1>2, <1>3, <1>4, <1>5, <1>6, <1>7, <1>8, <1>9 DEF Next

-----------------------------------------------------------------------------
\* The invariant holds in every reachable state.
THEOREM DNSInvariance == Spec => []DInv
BY InitInv, NextInv, PTL DEF Spec

\* Every variable keeps its type; the published endpoint always is that of a
\* resource that exists (ReconcileDNS comes before the endpoint is set).
THEOREM DNSTypeCorrect == Spec => []TypeOK
<1>1. DInv => TypeOK
  BY DEF DInv
<1> QED
  BY <1>1, DNSInvariance, PTL

\* Once nothing is left to do, the published resource holds the addresses of the
\* machines that run and stay, and no other ones (reconcileDNSAttachments).
THEOREM DNSConverges == Spec => []QuietIsRight
<1>1. DInv => QuietIsRight
  BY DEF DInv, Finalized, Woken, Listed, QuietIsRight, Quiet, ClusterAt
<1> QED
  BY <1>1, DNSInvariance, PTL

-----------------------------------------------------------------------------
(* How many DNS resources there are.  A pass creates one if it has read no  *)
(* endpoint and the name it has, or makes up, is that of no resource.  The  *)
(* invariant counts what may still be created without a further failure:    *)
(* by the running pass (PassLacks), and by one that reads what is stored    *)
(* when that pass has ended (StoredName).  The two are the same resource    *)
(* unless the pass has read a MaasCluster that was out of date.             *)

Lacks(host, name) == host = NoName /\ name \notin DOMAIN addresses
PassLacks  == ClusterAt("resource") /\ Lacks(clusterPass.host, clusterPass.v.name)
StoredName == Patched(maasCluster.name, clusterPass.base.name, clusterPass.v.name)
Resources  == Cardinality(DOMAIN addresses)

Named ==
  /\ clusterPass.host \in DOMAIN addresses \cup {NoName}
  /\ ClusterAt("idle") \/ ClusterAt("resource") => clusterPass.v.name = clusterPass.base.name
  /\ Resources <= faults + 1
  /\ Lacks(endpoint, StoredName) \/ PassLacks => Resources <= faults
  /\ PassLacks /\ clusterPass.base.name # maasCluster.name /\ Lacks(endpoint, maasCluster.name)
       => Resources < faults

\* There are finitely many resources, and creating one adds one at most.
LEMMA ResourcesCount ==
  ASSUME TypeOK, NEW n \in Names, NEW d, d \in {addresses, Created(n)}
  PROVE  /\ Resources \in Nat /\ Cardinality(DOMAIN d) \in Nat
         /\ DOMAIN addresses \subseteq DOMAIN d
         /\ DOMAIN d \subseteq DOMAIN addresses \cup {n}
         /\ Cardinality(DOMAIN d) <= Resources + 1
         /\ n \in DOMAIN addresses => Cardinality(DOMAIN d) = Resources
<1>1. IsFiniteSet(DOMAIN addresses)
  <2>1. IsFiniteSet(Names)
    BY FS_Interval, ControlPlaneDNSAssumption DEF Names
  <2> QED
    BY <2>1, FS_Subset DEF TypeOK
<1>2. DOMAIN d = DOMAIN addresses \/ DOMAIN d = DOMAIN addresses \cup {n}
  BY CreatedTyped
<1>3. Resources \in Nat
  BY <1>1, FS_CardinalityType DEF Resources
<1>4. Cardinality(DOMAIN addresses \cup {n}) =
        IF n \in DOMAIN addresses THEN Resources ELSE Resources + 1
  BY <1>1, FS_AddElement DEF Resources
<1> QED
  BY <1>2, <1>3, <1>4 DEF Resources

\* A failure pays for whatever may be created after it.
LEMMA FailurePays ==
  ASSUME TypeOK, Named, Fails, DOMAIN addresses' = DOMAIN addresses,
         clusterPass'.host \in DOMAIN addresses \cup {NoName},
         ClusterAt("idle")' \/ ClusterAt("resource")'
           => clusterPass'.v.name = clusterPass'.base.name,
         PassLacks' /\ Lacks(endpoint, maasCluster.name)' => Resources <= faults
  PROVE  Named'
<1>1. Resources \in Nat /\ Resources' = Resources
  <2>1. 1 \in Names
    BY ControlPlaneDNSAssumption DEF Names
  <2> QED
    BY <2>1, ResourcesCount DEF Resources
<1>2. faults \in Nat /\ faults' = faults + 1
  BY DEF TypeOK, Fails
<1> QED
  BY <1>1, <1>2 DEF Named, Lacks

\* A pass begins: one that reads what is stored may create what the next one could
\* have created, one that reads an older version has cost a failure.
LEMMA ReconcileClusterNamed ==
  ASSUME DInv, Named, ReconcileCluster
  PROVE  Named'
<1>1. /\ clusterPass'.host = endpoint /\ clusterPass'.base = clusterCache
      /\ clusterPass'.v.name = clusterCache.name
      /\ UNCHANGED <<addresses, maasCluster, endpoint>>
  BY DEF ReconcileCluster, IdleCluster, DInv, TypeOK, MaasCluster, maasVars, apiVars
<1>2. /\ endpoint \in DOMAIN addresses \cup {NoName} /\ TypeOK
      /\ ClusterAt("idle") /\ clusterPass.v.name = clusterPass.base.name
  BY DEF DInv, TypeOK, ReconcileCluster, Named
<1>3. StoredName = maasCluster.name /\ StoredName' = maasCluster.name
  BY <1>1, <1>2 DEF StoredName, Patched
<1>4. Lacks(endpoint, maasCluster.name) => Resources <= faults
  BY <1>3 DEF Named
<1>5. CASE clusterCache = maasCluster
  <2>1. Resources' = Resources /\ faults' = faults
    BY <1>1, <1>5 DEF Resources, ReconcileCluster, Works
  <2>2. PassLacks' => Lacks(endpoint, maasCluster.name)
    BY <1>1, <1>5 DEF PassLacks, Lacks
  <2> QED
    BY <1>1, <1>2, <1>3, <1>4, <1>5, <2>1, <2>2 DEF Named, Lacks
<1>6. CASE clusterCache # maasCluster
  <2>1. Fails
    BY <1>6 DEF ReconcileCluster
  <2> QED
    BY <1>1, <1>2, <1>4, <2>1, FailurePays DEF Lacks
<1> QED
  BY <1>5, <1>6

\* The published name and the name of another resource create nothing.
LEMMA ReconcileDNSNamed ==
  ASSUME DInv, Named, ReconcileDNS
  PROVE  Named'
<1>1. PICK n \in GetDNSName(clusterPass) :
        \/ /\ Works /\ addresses' = Created(n) /\ UNCHANGED due
           /\ clusterPass' = [clusterPass EXCEPT !.pc = "list", !.v.name = n, !.v.endpoint = n]
        \/ /\ Fails /\ addresses' \in {addresses, Created(n)} /\ Add({Cluster})
           /\ clusterPass' = [clusterPass EXCEPT !.pc = "close",
                !.v.name = IF clusterPass.host = NoName THEN n ELSE @]
  BY DEF ReconcileDNS
<1>n. n \in Names /\ n # NoName
  <2>1. n \in Names
    BY NamesTyped DEF DInv
  <2> QED
    BY <2>1, ControlPlaneDNSAssumption DEF Names, NoName
<1>u. /\ ClusterAt("resource") /\ TypeOK /\ UNCHANGED <<maasCluster, endpoint>>
      /\ clusterPass.v.name = clusterPass.base.name
      /\ clusterPass.host \in DOMAIN addresses \cup {NoName}
      /\ faults \in Nat
  BY DEF ReconcileDNS, DInv, Named, apiVars, TypeOK
<1>p. /\ clusterPass'.host = clusterPass.host /\ clusterPass'.base = clusterPass.base
      /\ clusterPass'.pc \in {"list", "close"} /\ ~PassLacks'
  BY <1>1, <1>u DEF DInv, TypeOK, ClusterPass, PassLacks, ClusterAt
<1>c. /\ Resources \in Nat /\ Resources' \in Nat
      /\ DOMAIN addresses \subseteq DOMAIN addresses'
      /\ Resources' <= Resources + 1
      /\ n \in DOMAIN addresses => Resources' = Resources
  BY <1>1, <1>n, <1>u, ResourcesCount DEF Resources
<1>l. n \in DOMAIN addresses \/ PassLacks
  <2>1. NoName \notin DOMAIN addresses
    BY <1>u DEF TypeOK, Names, NoName
  <2>2. CASE clusterPass.host # NoName
    BY <2>2, <1>1, <1>u DEF GetDNSName
  <2>3. CASE clusterPass.host = NoName /\ clusterPass.v.name \in DOMAIN addresses
    BY <2>1, <2>3, <1>1 DEF GetDNSName
  <2>4. CASE clusterPass.host = NoName /\ clusterPass.v.name \notin DOMAIN addresses
    BY <2>4, <1>u DEF PassLacks, Lacks
  <2> QED
    BY <2>2, <2>3, <2>4
<1>2. CASE Fails
  <2>1. faults' = faults + 1
    BY <1>2 DEF Fails
  <2>2. Resources' <= faults'
    BY <2>1, <1>c, <1>l, <1>u DEF Named
  <2> QED
    BY <2>1, <2>2, <1>c, <1>p, <1>u DEF Named, ClusterAt
<1>3. CASE /\ Works /\ addresses' = Created(n)
           /\ clusterPass' = [clusterPass EXCEPT !.pc = "list", !.v.name = n, !.v.endpoint = n]
  <2>1. clusterPass'.v.name = n /\ faults' = faults /\ n \in DOMAIN addresses'
    <3>1. clusterPass.v \in MaasCluster /\ clusterPass \in ClusterPass
      BY <1>u DEF TypeOK, ClusterPass
    <3>2. [clusterPass.v EXCEPT !.name = n, !.endpoint = n].name = n
      BY <3>1 DEF MaasCluster
    <3>3. clusterPass'.v = [clusterPass.v EXCEPT !.name = n, !.endpoint = n]
      BY <1>3, <3>1 DEF ClusterPass, MaasCluster
    <3> QED
      BY <1>3, <1>n, <1>u, <3>2, <3>3, CreatedTyped DEF Works
  <2>2. Resources' <= faults' + 1
    BY <2>1, <1>c, <1>l, <1>u DEF Named
  <2>3. ASSUME Lacks(endpoint, StoredName)'
        PROVE  Resources' <= faults'
    <3>1. StoredName' = maasCluster.name /\ n = clusterPass.v.name
      BY <2>1, <2>3, <1>p, <1>u DEF StoredName, Patched, Lacks
    <3>2. Lacks(endpoint, maasCluster.name) /\ maasCluster.name # n
      BY <2>1, <2>3, <3>1, <1>c, <1>u DEF Lacks
    <3>3. CASE n \in DOMAIN addresses
      <4>1. StoredName = maasCluster.name
        BY <1>u DEF StoredName, Patched
      <4> QED
        BY <4>1, <3>2, <3>3, <2>1, <1>c DEF Named
    <3>4. CASE PassLacks
      BY <3>1, <3>2, <3>4, <2>1, <1>c, <1>u DEF Named
    <3> QED
      BY <3>3, <3>4, <1>l
  <2> QED
    BY <2>1, <2>2, <2>3, <1>c, <1>p, <1>u DEF Named, ClusterAt
<1> QED
  BY <1>1, <1>2, <1>3

\* What a step that leaves DNS alone has to keep: the pass goes on as it was, or
\* ends, storing what it was to store.
LEMMA FrameNamed ==
  ASSUME TypeOK, Named, Works \/ Fails, DOMAIN addresses' = DOMAIN addresses,
         clusterPass'.host \in {clusterPass.host, NoName},
         ~PassLacks', ~Fails => StoredName' = StoredName,
         endpoint' = NoName => endpoint = NoName,
         ClusterAt("idle")' \/ ClusterAt("resource")'
           => clusterPass'.v.name = clusterPass'.base.name
  PROVE  Named'
<1>1. CASE Fails
  BY <1>1, FailurePays DEF Named
<1>2. CASE Works /\ ~Fails
  <2>1. Resources' = Resources /\ faults' = faults
    BY <1>2 DEF Resources, Works
  <2> QED
    BY <1>2, <2>1 DEF Named, Lacks
<1> QED
  BY <1>1, <1>2

\* Steps that leave the MaasCluster, its pass and DNS alone.
LEMMA OthersNamed ==
  ASSUME TypeOK, Named, Works \/ Fails, UNCHANGED <<addresses, maasCluster, clusterPass>>,
         endpoint' = NoName => endpoint = NoName
  PROVE  Named'
<1>1. CASE Fails
  BY <1>1, FailurePays DEF Named, PassLacks, ClusterAt, Lacks
<1>2. CASE Works
  BY <1>2 DEF Works, Named, PassLacks, StoredName, Resources, ClusterAt, Lacks
<1> QED
  BY <1>1, <1>2

\* The invariant holds in every initial state.
LEMMA InitNamed == Init => Named
<1> SUFFICES ASSUME Init PROVE Named
  OBVIOUS
<1>1. DOMAIN addresses = {} /\ faults = 0 /\ clusterPass = IdleCluster
  BY DEF Init
<1>2. Resources = 0
  BY <1>1, FS_EmptySet DEF Resources
<1>3. IdleCluster.pc = "idle" /\ IdleCluster.host = NoName /\ IdleCluster.v = IdleCluster.base
  BY DEF IdleCluster
<1> QED
  BY <1>1, <1>2, <1>3 DEF Named, PassLacks, ClusterAt

\* Every step preserves it.
LEMMA NextNamed == DInv /\ Named /\ [Next]_vars => Named'
<1> SUFFICES ASSUME DInv, Named, [Next]_vars PROVE Named'
  OBVIOUS
<1>t. TypeOK
  BY DEF DInv
<1>i. IdleCluster.pc = "idle" /\ IdleCluster.host = NoName /\ IdleCluster.v = IdleCluster.base
  BY DEF IdleCluster
<1>1. ASSUME NEW m \in Machines,
             Reconcile(m) \/ Step(m) \/ Sync(m) \/ Create(m) \/ Delete(m)
               \/ MAASChanges(m) \/ PowerChanges(m)
      PROVE  Named'
  <2>1. CASE Reconcile(m) \/ Step(m)
    BY <2>1, <1>t, OthersNamed
       DEF Reconcile, Step, PowerOn, Deploy, CheckDNS, Release, Close, maasVars, apiVars
  <2>2. CASE ~(Reconcile(m) \/ Step(m))
    BY <1>1, <2>2, <1>t, OthersNamed
       DEF Sync, Create, Delete, MAASChanges, PowerChanges, Works, maasVars, apiVars
  <2> QED
    BY <2>1, <2>2
<1>2. CASE SyncCluster \/ PublishEndpoint \/ Resync
  BY <1>2, <1>t, OthersNamed DEF SyncCluster, PublishEndpoint, Resync, Works, maasVars, apiVars
<1>3. CASE Restart
  BY <1>3, <1>i, <1>t, FailurePays DEF Restart, maasVars, PassLacks, ClusterAt
<1>4. CASE ReconcileCluster \/ ReconcileDNS
  BY <1>4, ReconcileClusterNamed, ReconcileDNSNamed
<1>5. CASE ListMachines \/ UpdateDNSAttachments
  <2>1. clusterPass \in ClusterPass
    BY <1>t DEF TypeOK
  <2>2. /\ clusterPass'.pc \in {"update", "close"} /\ clusterPass'.host = clusterPass.host
        /\ clusterPass'.v = clusterPass.v /\ clusterPass'.base = clusterPass.base
    BY <1>5, <2>1 DEF ListMachines, UpdateDNSAttachments, ClusterAgain, ClusterGoto, ClusterPass
  <2>3. DOMAIN addresses' = DOMAIN addresses /\ UNCHANGED <<maasCluster, endpoint>>
    BY <1>5 DEF ListMachines, UpdateDNSAttachments, maasVars, apiVars
  <2>4. Works \/ Fails
    BY <1>5 DEF ListMachines, UpdateDNSAttachments
  <2> QED
    BY <1>t, <2>2, <2>3, <2>4, FrameNamed DEF PassLacks, StoredName, ClusterAt
<1>6. CASE CloseCluster
  <2>1. clusterPass' = IdleCluster /\ UNCHANGED <<addresses, endpoint>> /\ (Works \/ Fails)
    BY <1>6 DEF CloseCluster, maasVars
  <2>2. ~Fails => maasCluster'.name = StoredName
    BY <1>6, <1>t DEF CloseCluster, StoredName, TypeOK, MaasCluster
  <2>3. StoredName' = maasCluster'.name
    BY <2>1, <1>i DEF StoredName, Patched
  <2> QED
    BY <1>i, <1>t, <2>1, <2>2, <2>3, FrameNamed DEF PassLacks, ClusterAt
<1>7. CASE UNCHANGED vars
  BY <1>7, <1>t, OthersNamed DEF vars, maasVars, apiVars, Works
<1> QED
  BY <1>1, <1>2, <1>3, <1>4, <1>5, <1>6, <1>7 DEF Next, ClusterStep

\* A failing call, a restart or a stale read leaves at most one DNS resource without
\* a cluster (GetDNSName, ReconcileDNS).
THEOREM ResourcesBounded == Spec => []ResourcesAreFailures
<1>1. DInv /\ Named => ResourcesAreFailures
  BY DEF Named, Resources, ResourcesAreFailures
<1>2. Spec => []Named
  BY InitNamed, NextNamed, DNSInvariance, PTL DEF Spec
<1> QED
  BY <1>1, <1>2, DNSInvariance, PTL
=============================================================================
