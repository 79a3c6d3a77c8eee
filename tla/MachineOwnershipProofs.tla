----------------------- MODULE MachineOwnershipProofs -----------------------
(***************************************************************************)
(* Proof that MachineLifecycle gives no node to two MaasMachines but by a  *)
(* fault, for any number of objects, nodes and faults, and whatever the    *)
(* patch helper compares with.                                             *)
(*                                                                         *)
(* What two objects claim says too little to be inductive: an object may   *)
(* name a node that its pass is giving up, and a pass may be about to      *)
(* store a node that no object names yet.  The invariant counts the nodes  *)
(* that are not held EXCLUSIVELY: held by two objects, or held by one that *)
(* may lose it to MAAS.  A step in which nothing fails keeps every node    *)
(* that is held exclusively so (StepFair); one that fails spoils the node  *)
(* it is about, at most (Hit).  What a pass knows at each of its steps is  *)
(* Form, from MachineLifecycleProofs.                                      *)
(***************************************************************************)
EXTENDS MachineLifecycleProofs

\* The pass of o gives up what the object names: it goes, or a patch that is
\* still to come clears its ID.
Forgets(o) ==
  \/ At(o, "close") /\ pass[o].finalizer = "remove"
  \/ pass[o].pc \in {"clear", "close"} /\ pass[o].id = NoNode /\ pass[o].base # NoNode

\* The object names n, or its pass has n in memory or at hand.
Holds(o, n) ==
  \/ Exists(object[o]) /\ object[o].id = n /\ ~Forgets(o)
  \/ pass[o].id = n /\ ~(At(o, "close") /\ pass[o].finalizer = "remove")
  \/ pass[o].pc \in NodeSteps /\ pass[o].m = n

\* MAAS does not give the node to anybody else; and a node allocated in this very
\* pass is not released while the object goes on naming it.
HeldWell(o, n) ==
  LET p == pass[o] IN
  /\ InUse(n)
  /\ p.m = n /\ p.base = NoNode =>
       /\ p.pc = "reject" => ~(Exists(object[o]) /\ object[o].id = n)
       /\ p.pc \in {"patchID", "deploy"} => node[n] = "Allocated"
       /\ p.pc # "rollback"

\* One object holds n at most, and holds it well.
Exclusive(n) ==
  /\ \A o, q \in Objects : Holds(o, n) /\ Holds(q, n) => o = q
  /\ \A o \in Objects : Holds(o, n) => HeldWell(o, n)

Contested == {n \in Nodes : ~Exclusive(n)}

\* The node that a failing call, or a stale read, can spoil.
Hit(o) == CASE At(o, "idle")   -> cache[o].id
            [] At(o, "deploy") -> pass[o].m
            [] At(o, "close")  -> object[o].id
            [] OTHER           -> NoNode

OInv == LInv /\ Cardinality(Contested) <= faults + stale

\* What a step for o has to do for n to stay exclusive: o holds n only if it did or
\* nobody does, and MAAS changes n only if nobody else holds it.
Respects(o, n) ==
  /\ Holds(o, n)' => HeldWell(o, n)' /\ (Holds(o, n) \/ \A q \in Objects : ~Holds(q, n))
  /\ node'[n] = node[n] \/ \A q \in Objects \ {o} : ~Holds(q, n)

-----------------------------------------------------------------------------
(* What a step leaves alone. *)

\* A step for one object that respects an exclusive node keeps it exclusive.
LEMMA RespectKeeps ==
  ASSUME NEW o \in Objects, NEW n \in Nodes, Exclusive(n), OnlyFor(o), Respects(o, n)
  PROVE  Exclusive(n)'
<1>1. ASSUME NEW q \in Objects \ {o}
      PROVE  /\ Holds(q, n)' <=> Holds(q, n)
             /\ Holds(q, n) => HeldWell(q, n)'
  <2>1. object'[q] = object[q] /\ pass'[q] = pass[q]
    BY DEF OnlyFor
  <2>2. Holds(q, n)' <=> Holds(q, n)
    BY <2>1 DEF Holds, Forgets, At, Exists
  <2>3. ASSUME Holds(q, n)
        PROVE  HeldWell(q, n)'
    <3>1. node'[n] = node[n] /\ HeldWell(q, n)
      BY <2>3 DEF Respects, Exclusive
    <3> QED BY <2>1, <3>1 DEF HeldWell, InUse, Exists
  <2> QED BY <2>2, <2>3
<1>2. \A p, q \in Objects : Holds(p, n)' /\ Holds(q, n)' => p = q
  BY <1>1 DEF Respects, Exclusive
<1>3. \A q \in Objects : Holds(q, n)' => HeldWell(q, n)'
  BY <1>1 DEF Respects
<1> QED BY <1>2, <1>3 DEF Exclusive

\* MAAS may change a node that nobody holds, and deploy one that is deploying.
LEMMA NodeKeeps ==
  ASSUME NEW n \in Nodes, Exclusive(n), UNCHANGED <<object, pass>>,
         \/ node'[n] = node[n]
         \/ InUse(n)' /\ node[n] # "Allocated"
         \/ ~InUse(n)
  PROVE  Exclusive(n)'
<1>1. \A q \in Objects : Holds(q, n)' <=> Holds(q, n)
  BY DEF Holds, Forgets, At, Exists
<1>2. ASSUME NEW q \in Objects, Holds(q, n)
      PROVE  HeldWell(q, n)'
  <2>1. HeldWell(q, n)
    BY <1>2 DEF Exclusive
  <2> QED BY <2>1 DEF HeldWell, InUse, Exists
<1> QED BY <1>1, <1>2 DEF Exclusive

-----------------------------------------------------------------------------
(* The steps of a pass, one by one. *)

USE DEF Form, Normal, Early, Late, Deleting

\* What the lemmas below show of a step for o.
Fair(o) ==
  /\ OnlyFor(o)
  /\ \A n \in Nodes : Exclusive(n) /\ (Works \/ n # Hit(o)) => Respects(o, n)

\* A pass begins with what the object names, unless the read is stale.
LEMMA ReconcileFair ==
  ASSUME TInv, NEW o \in Objects, Form(o), Reconcile(o)
  PROVE  Fair(o)
<1>0. /\ pass \in [Objects -> Pass] /\ object \in [Objects -> MaasMachine]
      /\ cache \in [Objects -> MaasMachine] /\ NoNode \notin Nodes
  BY MachineLifecycleAssumption DEF TInv, TypeOK
<1> DEFINE v == cache[o]
           q == [Idle EXCEPT !.id = v.id, !.base = v.id,
                   !.pc = IF v.deleting THEN "findToRelease"
                          ELSE IF v.stage = "bare" THEN "close" ELSE "find",
                   !.finalizer = IF v.stage = "bare" THEN "add" ELSE "leave"]
<1>1. /\ OnlyFor(o) /\ pass'[o] = q /\ node' = node /\ object' = object /\ cache' = cache
      /\ pass[o] = Idle /\ Exists(v)
  BY <1>0 DEF Reconcile, OnlyFor, Shape, At
<1>q. /\ q.id = v.id /\ q.base = v.id /\ q.m = NoNode /\ Idle.m = NoNode
      /\ q.pc = IF v.deleting THEN "findToRelease"
                ELSE IF v.stage = "bare" THEN "close" ELSE "find"
      /\ q.finalizer = IF v.stage = "bare" THEN "add" ELSE "leave"
      /\ Idle.pc = "idle" /\ Idle.id = NoNode /\ Idle.finalizer = "leave"
  BY DEF Idle
<1> HIDE DEF q
<1> SUFFICES ASSUME NEW n \in Nodes, Exclusive(n), Works \/ n # Hit(o)
             PROVE  Respects(o, n)
  BY <1>1 DEF Fair
<1>3. ASSUME Works \/ n # v.id
      PROVE  v = object[o] \/ n # v.id
  <2>1. ASSUME Works, v # object[o]
        PROVE  v.id = NoNode
    <3>1. CASE v.deleting
      BY <2>1, <3>1, MachineLifecycleAssumption
         DEF Reconcile, Works, ReadsStale, counts, TInv, TypeOK
    <3>2. CASE ~v.deleting
      BY <2>1, <3>2, MachineLifecycleAssumption DEF Reconcile, Works, Fails, counts, TInv, TypeOK
    <3> QED BY <3>1, <3>2
  <2> QED BY <1>0, <1>3, <2>1
<1>4. Hit(o) = v.id
  BY <1>1, <1>q DEF Hit, At
<1>5. ASSUME v = object[o] \/ n # v.id
      PROVE  Respects(o, n)
  <2>1. Holds(o, n)' => Holds(o, n)
    BY <1>0, <1>1, <1>5, <1>q DEF Holds, Forgets, At, Exists, NodeSteps
  <2>2. HeldWell(o, n) => HeldWell(o, n)'
    BY <1>0, <1>1, <1>q DEF HeldWell, InUse
  <2> QED BY <1>1, <2>1, <2>2 DEF Respects, Exclusive
<1> QED BY <1>1, <1>3, <1>4, <1>5 DEF Fair

\* Looking a machine up changes only where the pass goes.
LEMMA FindFair ==
  ASSUME TInv, NEW o \in Objects, Form(o), Find(o)
  PROVE  Fair(o)
<1> DEFINE p == pass[o]
<1>0. /\ pass \in [Objects -> Pass] /\ object \in [Objects -> MaasMachine]
      /\ node \in [Nodes -> NodeStates] /\ NoNode \notin Nodes
  BY MachineLifecycleAssumption DEF TInv, TypeOK
<1>1. PICK pc \in {"allocate", "close", "reuse"} :
        /\ pass' = [pass EXCEPT ![o].pc = pc]
        /\ pc = "allocate" => p.id = NoNode
  BY DEF Find, Goto
<1>2. /\ OnlyFor(o) /\ pass'[o] = [p EXCEPT !.pc = pc] /\ p.pc = "find"
      /\ object' = object /\ cache' = cache /\ node' = node
  BY <1>0, <1>1 DEF Find, OnlyFor, At
<1> SUFFICES ASSUME NEW n \in Nodes, Exclusive(n), Works \/ n # Hit(o)
             PROVE  Respects(o, n)
  BY <1>2 DEF Fair
<1>4. Holds(o, n)' => Holds(o, n)
  BY <1>0, <1>1, <1>2 DEF Holds, Forgets, Shape, At, Exists, NodeSteps, Pass
<1>5. HeldWell(o, n) => HeldWell(o, n)'
  BY <1>0, <1>1, <1>2 DEF HeldWell, InUse, Pass
<1> QED BY <1>2, <1>4, <1>5 DEF Respects, Exclusive

\* What MAAS allocates is free: nobody holds it.
LEMMA AllocateFair ==
  ASSUME TInv, NEW o \in Objects, Form(o), Allocate(o)
  PROVE  Fair(o)
<1> DEFINE p == pass[o]
<1>0. /\ pass \in [Objects -> Pass] /\ object \in [Objects -> MaasMachine]
      /\ node \in [Nodes -> NodeStates] /\ NoNode \notin Nodes
  BY MachineLifecycleAssumption DEF TInv, TypeOK
<1>1. /\ OnlyFor(o) /\ p.pc = "allocate" /\ p.id = NoNode /\ p.base = NoNode
      /\ object' = object /\ cache' = cache
  BY <1>0 DEF Allocate, OnlyFor, Goto, At, Shape
<1>2. ASSUME NEW m \in Nodes, node[m] = "Ready", node' = [node EXCEPT ![m] = "Allocated"],
             NEW pc \in {"reject", "patchID"},
             pass' = [pass EXCEPT ![o].m = m, ![o].pc = pc]
      PROVE  Fair(o)
  <2>1. pass'[o] = [p EXCEPT !.m = m, !.pc = pc]
    BY <1>0, <1>2
  <2> SUFFICES ASSUME NEW n \in Nodes, Exclusive(n), Works \/ n # Hit(o)
               PROVE  Respects(o, n)
    BY <1>1 DEF Fair
  <2>3. n = m => \A q \in Objects : ~Holds(q, n)
    BY <1>2 DEF Exclusive, HeldWell, InUse
  <2>4. CASE n = m
    <3>1. ~(Exists(object[o]) /\ object[o].id = n)
      BY <1>1, <2>3, <2>4 DEF Holds, Forgets, At
    <3>2. HeldWell(o, n)'
      BY <1>0, <1>1, <1>2, <2>1, <2>4, <3>1 DEF HeldWell, InUse, Exists, Pass
    <3> QED BY <1>1, <2>3, <2>4, <3>2 DEF Respects
  <2>5. CASE n # m
    <3>1. Holds(o, n)' => Holds(o, n)
      BY <1>0, <1>1, <2>1, <2>5 DEF Holds, Forgets, At, Exists, NodeSteps, Pass
    <3>2. HeldWell(o, n) => HeldWell(o, n)'
      BY <1>0, <1>1, <1>2, <2>1, <2>5 DEF HeldWell, InUse, Pass
    <3>3. node'[n] = node[n]
      BY <1>0, <1>2, <2>5
    <3> QED BY <1>1, <3>1, <3>2, <3>3 DEF Respects, Exclusive
  <2> QED BY <2>4, <2>5
<1>3. ASSUME pass' = [pass EXCEPT ![o].pc = "close"],
             \/ node' = node
             \/ \E m \in Nodes : node[m] = "Ready" /\ node' = [node EXCEPT ![m] = "Allocated"]
      PROVE  Fair(o)
  <2>1. pass'[o] = [p EXCEPT !.pc = "close"]
    BY <1>0, <1>3
  <2> SUFFICES ASSUME NEW n \in Nodes, Exclusive(n), Works \/ n # Hit(o)
               PROVE  Respects(o, n)
    BY <1>1 DEF Fair
  <2>3. Holds(o, n)' => Holds(o, n)
    BY <1>0, <1>1, <2>1 DEF Holds, Forgets, At, Exists, NodeSteps, Pass
  <2>4. node'[n] = node[n] \/ node[n] = "Ready"
    BY <1>0, <1>3
  <2>5. \A q \in Objects : Holds(q, n) => InUse(n) /\ node'[n] = node[n]
    BY <2>4 DEF Exclusive, HeldWell, InUse
  <2>6. Holds(o, n) => HeldWell(o, n)'
    BY <1>0, <2>1, <2>5 DEF HeldWell, InUse, Pass
  <2> QED BY <1>1, <2>3, <2>5, <2>6 DEF Respects
<1>4. \/ \E m \in Nodes, pc \in {"reject", "patchID"} :
           /\ node[m] = "Ready" /\ node' = [node EXCEPT ![m] = "Allocated"]
           /\ pass' = [pass EXCEPT ![o].m = m, ![o].pc = pc]
      \/ /\ pass' = [pass EXCEPT ![o].pc = "close"]
         /\ \/ node' = node
            \/ \E m \in Nodes : node[m] = "Ready" /\ node' = [node EXCEPT ![m] = "Allocated"]
  BY DEF Allocate, Goto
<1> QED BY <1>2, <1>3, <1>4

\* A rejected VM is one that the object does not name, or is about to forget.
LEMMA RejectVMHostFair ==
  ASSUME TInv, NEW o \in Objects, Form(o), RejectVMHost(o)
  PROVE  Fair(o)
<1> DEFINE p == pass[o]
<1>0. /\ pass \in [Objects -> Pass] /\ object \in [Objects -> MaasMachine]
      /\ node \in [Nodes -> NodeStates] /\ NoNode \notin Nodes
  BY MachineLifecycleAssumption DEF TInv, TypeOK
<1>1. /\ OnlyFor(o) /\ p.pc = "reject" /\ p.m \in Nodes
      /\ p.base = p.id /\ p.id \in {NoNode, p.m}
      /\ pass'[o] = [p EXCEPT !.id = NoNode, !.pc = IF p.id = NoNode THEN "close" ELSE "clear"]
      /\ \A k \in Nodes \ {p.m} : node'[k] = node[k]
      /\ object' = object /\ cache' = cache
  BY <1>0 DEF RejectVMHost, Release, OnlyFor, At, Shape, TInv, TypeOK, Pass, NodeSteps
<1> SUFFICES ASSUME NEW n \in Nodes, Exclusive(n), Works \/ n # Hit(o)
             PROVE  Respects(o, n)
  BY <1>1 DEF Fair
<1>3. Holds(o, p.m)
  BY <1>1 DEF Holds, NodeSteps
<1>4. Holds(o, n)' => Holds(o, n) /\ n # p.m
  <2>1. CASE p.id = NoNode
    <3>1. n = p.m => ~(Exists(object[o]) /\ object[o].id = n)
      BY <1>1, <1>3, <2>1 DEF Exclusive, HeldWell
    <3> QED BY <1>0, <1>1, <2>1, <3>1 DEF Holds, Forgets, Shape, At, Exists, NodeSteps, Pass
  <2>2. CASE p.id # NoNode
    BY <1>0, <1>1, <2>2 DEF Holds, Forgets, At, Exists, NodeSteps, Pass
  <2> QED BY <2>1, <2>2
<1>5. HeldWell(o, n) /\ n # p.m => HeldWell(o, n)'
  BY <1>0, <1>1 DEF HeldWell, InUse, Pass
<1>6. node'[n] = node[n] \/ \A q \in Objects \ {o} : ~Holds(q, n)
  BY <1>1, <1>3 DEF Exclusive
<1> QED BY <1>1, <1>4, <1>5, <1>6 DEF Respects, Exclusive

\* The object comes to name the node that its pass has at hand.
LEMMA PatchIDFair ==
  ASSUME TInv, NEW o \in Objects, Form(o), PatchID(o)
  PROVE  Fair(o)
<1> DEFINE p == pass[o]
<1>0. /\ pass \in [Objects -> Pass] /\ object \in [Objects -> MaasMachine]
      /\ node \in [Nodes -> NodeStates] /\ NoNode \notin Nodes
  BY MachineLifecycleAssumption DEF TInv, TypeOK
<1>1. /\ OnlyFor(o) /\ p.pc = "patchID" /\ p.m \in Nodes
      /\ p.base = NoNode /\ p.id = NoNode
      /\ node' = node /\ cache' = cache
  BY <1>0 DEF PatchID, PatchFails, OnlyFor, At, Shape, TInv, TypeOK, Pass, NodeSteps
<1>2. \/ /\ object' = [object EXCEPT ![o].id = p.m]
         /\ pass' = [pass EXCEPT ![o] = [p EXCEPT !.id = p.m, !.pc = "deploy",
                                          !.base = IF HelperRebases THEN p.m ELSE @]]
      \/ /\ object' = object
         /\ pass' = [pass EXCEPT ![o] = [p EXCEPT !.id = p.m, !.pc = "close"]]
  BY <1>0 DEF PatchID, PatchFails
<1>s. object[o].stage \in {"kept", "gone"} /\ p.finalizer # "remove"
  BY <1>1 DEF Shape, Stored
<1>p. /\ pass'[o].id = p.m /\ pass'[o].m = p.m /\ pass'[o].base \in {NoNode, p.m}
      /\ pass'[o].finalizer = p.finalizer
      /\ object'[o].stage = object[o].stage
      /\ \/ pass'[o].pc = "deploy" /\ object'[o].id = p.m
         \/ pass'[o].pc = "close" /\ object'[o].id = object[o].id
  <2>1. CASE /\ object' = [object EXCEPT ![o].id = p.m]
             /\ pass' = [pass EXCEPT ![o] = [p EXCEPT !.id = p.m, !.pc = "deploy",
                                              !.base = IF HelperRebases THEN p.m ELSE @]]
    <3>1. object'[o] = [object[o] EXCEPT !.id = p.m]
      BY <1>0, <2>1
    <3>2. pass'[o] = [p EXCEPT !.id = p.m, !.pc = "deploy",
                               !.base = IF HelperRebases THEN p.m ELSE @]
      BY <1>0, <2>1
    <3>3. object'[o].id = p.m /\ object'[o].stage = object[o].stage
      BY <1>0, <3>1 DEF MaasMachine
    <3> QED BY <1>0, <1>1, <3>2, <3>3 DEF Pass
  <2>2. CASE /\ object' = object
             /\ pass' = [pass EXCEPT ![o] = [p EXCEPT !.id = p.m, !.pc = "close"]]
    BY <1>0, <1>1, <2>2 DEF Pass
  <2> QED BY <1>2, <2>1, <2>2
<1> SUFFICES ASSUME NEW n \in Nodes, Exclusive(n), Works \/ n # Hit(o)
             PROVE  Respects(o, n)
  BY <1>1 DEF Fair
<1>4. Holds(o, n)' => Holds(o, n)
  BY <1>0, <1>1, <1>s, <1>p DEF Holds, Forgets, At, Exists, NodeSteps
<1>5. HeldWell(o, n) => HeldWell(o, n)'
  BY <1>0, <1>1, <1>2 DEF HeldWell, InUse, Pass
<1> QED BY <1>1, <1>4, <1>5 DEF Respects, Exclusive

\* A node that is used again is one that the pass had in memory.
LEMMA ReuseFair ==
  ASSUME TInv, NEW o \in Objects, Form(o), Reuse(o)
  PROVE  Fair(o)
<1> DEFINE p == pass[o]
<1>0. /\ pass \in [Objects -> Pass] /\ object \in [Objects -> MaasMachine]
      /\ node \in [Nodes -> NodeStates] /\ NoNode \notin Nodes
  BY MachineLifecycleAssumption DEF TInv, TypeOK
<1>1. /\ OnlyFor(o) /\ p.pc = "reuse" /\ p.base = p.id /\ p.id # NoNode
      /\ object' = object /\ node' = node /\ cache' = cache
  BY <1>0 DEF Reuse, OnlyFor, Goto, At, Shape, TInv, PassesTyped
<1>2. \/ \E pc \in {"reject", "deploy"} : pass'[o] = [p EXCEPT !.m = p.id, !.pc = pc]
      \/ pass'[o] = [p EXCEPT !.pc = "close"]
  BY <1>0 DEF Reuse, Goto
<1> SUFFICES ASSUME NEW n \in Nodes, Exclusive(n), Works \/ n # Hit(o)
             PROVE  Respects(o, n)
  BY <1>1 DEF Fair
<1>4. Holds(o, n)' => Holds(o, n)
  BY <1>0, <1>1, <1>2 DEF Holds, Forgets, Shape, At, Exists, NodeSteps, Pass
<1>5. HeldWell(o, n) => HeldWell(o, n)'
  BY <1>0, <1>1, <1>2 DEF HeldWell, InUse, Pass
<1> QED BY <1>1, <1>4, <1>5 DEF Respects, Exclusive

\* MAAS deploys what the pass holds; it refuses, without a fault, only a node that
\* was not allocated in this pass.
LEMMA DeployFair ==
  ASSUME TInv, NEW o \in Objects, Form(o), Deploy(o)
  PROVE  Fair(o)
<1> DEFINE p == pass[o]
<1>0. /\ pass \in [Objects -> Pass] /\ object \in [Objects -> MaasMachine]
      /\ node \in [Nodes -> NodeStates] /\ NoNode \notin Nodes
  BY MachineLifecycleAssumption DEF TInv, TypeOK
<1>1. /\ OnlyFor(o) /\ p.pc = "deploy" /\ p.m \in Nodes
      /\ p.id = p.m /\ p.base \in {NoNode, p.m}
      /\ object' = object /\ cache' = cache
      /\ \/ node' = node
         \/ node' = [node EXCEPT ![p.m] = "Deploying"]
  BY <1>0 DEF Deploy, OnlyFor, Goto, At, Shape, TInv, TypeOK, Pass, NodeSteps
<1>2. PICK pc \in {"close", "rollback"} : pass'[o] = [p EXCEPT !.pc = pc]
  BY <1>0 DEF Deploy, Goto
<1> SUFFICES ASSUME NEW n \in Nodes, Exclusive(n), Works \/ n # Hit(o)
             PROVE  Respects(o, n)
  BY <1>1 DEF Fair
<1>4. Holds(o, n)' => Holds(o, n)
  BY <1>0, <1>1, <1>2 DEF Holds, Forgets, Shape, At, Exists, NodeSteps, Pass
<1>5. Holds(o, p.m) /\ Hit(o) = p.m
  BY <1>1 DEF Holds, Hit, NodeSteps, At
<1>6. node'[n] = node[n] \/ \A q \in Objects \ {o} : ~Holds(q, n)
  BY <1>0, <1>1, <1>5 DEF Exclusive
<1>7. ASSUME Works \/ n # p.m, Holds(o, n)
      PROVE  HeldWell(o, n)'
  <2>1. HeldWell(o, n) /\ (InUse(n) => InUse(n)')
    BY <1>0, <1>1, <1>7 DEF Exclusive, InUse
  <2>2. CASE pc = "close" \/ n # p.m \/ p.base # NoNode
    BY <1>0, <1>1, <1>2, <2>1, <2>2 DEF HeldWell, Pass
  <2>3. CASE pc = "rollback" /\ n = p.m /\ p.base = NoNode
    <3>1. node[n] = "Allocated"
      BY <1>1, <2>1, <2>3 DEF HeldWell
    <3>2. ~Works
      <4>1. faults \in Nat /\ pass'[o].pc = "rollback"
        BY <1>0, <1>2, <2>3, MachineLifecycleAssumption DEF TInv, TypeOK, Pass
      <4>2. ~(Works /\ Goto(o, "close"))
        BY <1>0, <4>1 DEF Goto, Pass
      <4>3. Fails
        BY <2>3, <3>1, <4>2 DEF Deploy
      <4> QED BY <4>1, <4>3 DEF Fails, Works, counts
    <3> QED BY <1>7, <2>3, <3>2
  <2> QED BY <2>2, <2>3
<1> QED BY <1>1, <1>4, <1>5, <1>6, <1>7 DEF Respects

\* What is rolled back the object names, and is about to forget.
LEMMA RollbackFair ==
  ASSUME TInv, NEW o \in Objects, Form(o), Rollback(o)
  PROVE  Fair(o)
<1> DEFINE p == pass[o]
<1>0. /\ pass \in [Objects -> Pass] /\ object \in [Objects -> MaasMachine]
      /\ node \in [Nodes -> NodeStates] /\ NoNode \notin Nodes
  BY MachineLifecycleAssumption DEF TInv, TypeOK
<1>1. /\ OnlyFor(o) /\ p.pc = "rollback" /\ p.m \in Nodes
      /\ p.id = p.m /\ p.base \in {NoNode, p.m}
      /\ pass'[o] = [p EXCEPT !.id = NoNode, !.pc = "clear"]
      /\ \A k \in Nodes \ {p.m} : node'[k] = node[k]
      /\ object' = object /\ cache' = cache
  BY <1>0 DEF Rollback, Release, OnlyFor, At, Shape, TInv, TypeOK, Pass, NodeSteps
<1> SUFFICES ASSUME NEW n \in Nodes, Exclusive(n), Works \/ n # Hit(o)
             PROVE  Respects(o, n)
  BY <1>1 DEF Fair
<1>3. Holds(o, p.m) /\ (p.base = NoNode => n # p.m)
  BY <1>1 DEF Holds, NodeSteps, Exclusive, HeldWell
<1>4. Holds(o, n)' => Holds(o, n) /\ n # p.m
  BY <1>0, <1>1, <1>3 DEF Holds, Forgets, At, Exists, NodeSteps, Pass
<1>5. HeldWell(o, n) /\ n # p.m => HeldWell(o, n)'
  BY <1>0, <1>1 DEF HeldWell, InUse, Pass
<1>6. node'[n] = node[n] \/ \A q \in Objects \ {o} : ~Holds(q, n)
  BY <1>1, <1>3 DEF Exclusive
<1> QED BY <1>1, <1>4, <1>5, <1>6 DEF Respects, Exclusive

\* Clearing the ID leaves the object no other node than it named.
LEMMA ClearIDFair ==
  ASSUME TInv, NEW o \in Objects, Form(o), ClearID(o)
  PROVE  Fair(o)
<1> DEFINE p == pass[o]
<1>0. /\ pass \in [Objects -> Pass] /\ object \in [Objects -> MaasMachine]
      /\ node \in [Nodes -> NodeStates] /\ NoNode \notin Nodes
  BY MachineLifecycleAssumption DEF TInv, TypeOK
<1>1. /\ OnlyFor(o) /\ p.pc = "clear" /\ p.id = NoNode
      /\ node' = node /\ cache' = cache
  BY <1>0 DEF ClearID, PatchFails, OnlyFor, Goto, At, Shape
<1>2. \/ /\ object' = [object EXCEPT ![o] = Patched(o)]
         /\ pass' = [pass EXCEPT ![o] = [p EXCEPT !.pc = "close", !.base = BaseAfterPatch(o)]]
      \/ /\ object' = object
         /\ pass' = [pass EXCEPT ![o] = [p EXCEPT !.pc = "close"]]
  BY <1>0 DEF ClearID, PatchFails, Goto
<1>s. object[o].stage \in {"kept", "gone"} /\ p.finalizer # "remove"
  BY <1>1 DEF Shape, Stored
<1>p. /\ pass'[o].pc = "close" /\ pass'[o].id = NoNode /\ pass'[o].m = p.m
      /\ pass'[o].finalizer = p.finalizer /\ object'[o].stage = object[o].stage
      /\ \/ object'[o].id = object[o].id /\ pass'[o].base = p.base
         \/ /\ object'[o].id = IF p.base = NoNode THEN object[o].id ELSE NoNode
            /\ p.base = NoNode => pass'[o].base = NoNode
  <2>1. CASE /\ object' = [object EXCEPT ![o] = Patched(o)]
             /\ pass' = [pass EXCEPT ![o] = [p EXCEPT !.pc = "close", !.base = BaseAfterPatch(o)]]
    <3>1. object'[o] = [object[o] EXCEPT !.id = IF NoNode = p.base THEN @ ELSE NoNode]
      BY <1>0, <1>1, <2>1 DEF Patched
    <3>2. /\ object'[o].stage = object[o].stage
          /\ object'[o].id = IF NoNode = p.base THEN object[o].id ELSE NoNode
      BY <1>0, <3>1 DEF MaasMachine
    <3>3. pass'[o] = [p EXCEPT !.pc = "close", !.base = BaseAfterPatch(o)]
      BY <1>0, <2>1
    <3>4. BaseAfterPatch(o) \in {NoNode, p.base}
      BY <1>1 DEF BaseAfterPatch
    <3> QED BY <1>0, <1>1, <3>2, <3>3, <3>4 DEF Pass
  <2>2. CASE /\ object' = object
             /\ pass' = [pass EXCEPT ![o] = [p EXCEPT !.pc = "close"]]
    BY <1>0, <1>1, <2>2 DEF Pass
  <2> QED BY <1>2, <2>1, <2>2
<1> SUFFICES ASSUME NEW n \in Nodes, Exclusive(n), Works \/ n # Hit(o)
             PROVE  Respects(o, n)
  BY <1>1 DEF Fair
<1>4. Holds(o, n)' => Holds(o, n)
  BY <1>0, <1>1, <1>s, <1>p DEF Holds, Forgets, At, Exists, NodeSteps
<1>5. HeldWell(o, n) => HeldWell(o, n)'
  BY <1>0, <1>1, <1>p DEF HeldWell, InUse
<1> QED BY <1>1, <1>4, <1>5 DEF Respects, Exclusive

\* The node to release is the one that the pass has in memory.
LEMMA FindToReleaseFair ==
  ASSUME TInv, NEW o \in Objects, Form(o), FindToRelease(o)
  PROVE  Fair(o)
<1> DEFINE p == pass[o]
<1>0. /\ pass \in [Objects -> Pass] /\ object \in [Objects -> MaasMachine]
      /\ node \in [Nodes -> NodeStates] /\ NoNode \notin Nodes
  BY MachineLifecycleAssumption DEF TInv, TypeOK
<1>1. /\ OnlyFor(o) /\ p.pc = "findToRelease" /\ p.base = p.id
      /\ object' = object /\ node' = node /\ cache' = cache
  BY <1>0 DEF FindToRelease, OnlyFor, Goto, At, Shape
<1>2. \/ \E finalizer \in {"remove", "leave"} :
           p.id = NoNode /\ pass'[o] = [p EXCEPT !.pc = "close", !.finalizer = finalizer]
      \/ p.id # NoNode /\ pass'[o] = [p EXCEPT !.pc = "release", !.m = p.id]
      \/ pass'[o] = [p EXCEPT !.pc = "close"]
  BY <1>0 DEF FindToRelease, Goto
<1>p. /\ pass'[o].id = p.id /\ pass'[o].base = p.base
      /\ pass'[o].pc \in {"close", "release"}
      /\ pass'[o].pc = "release" => pass'[o].m = p.id /\ pass'[o].finalizer = p.finalizer
  BY <1>0, <1>2 DEF Pass
<1> SUFFICES ASSUME NEW n \in Nodes, Exclusive(n), Works \/ n # Hit(o)
             PROVE  Respects(o, n)
  BY <1>1 DEF Fair
<1>4. Holds(o, n)' => Holds(o, n)
  BY <1>0, <1>1, <1>2 DEF Holds, Forgets, Shape, At, Exists, NodeSteps, Pass
<1>5. HeldWell(o, n) => HeldWell(o, n)'
  BY <1>0, <1>1, <1>2 DEF HeldWell, InUse, Pass
<1> QED BY <1>1, <1>4, <1>5 DEF Respects, Exclusive

\* The node is released by the pass that holds it; the object goes.
LEMMA ReleaseMachineFair ==
  ASSUME TInv, NEW o \in Objects, Form(o), ReleaseMachine(o)
  PROVE  Fair(o)
<1> DEFINE p == pass[o]
<1>0. /\ pass \in [Objects -> Pass] /\ object \in [Objects -> MaasMachine]
      /\ node \in [Nodes -> NodeStates] /\ NoNode \notin Nodes
  BY MachineLifecycleAssumption DEF TInv, TypeOK
<1>1. /\ OnlyFor(o) /\ p.pc = "release" /\ p.m = p.id /\ p.base = p.id /\ p.m \in Nodes
      /\ object' = object /\ cache' = cache
      /\ \/ /\ pass'[o] = [p EXCEPT !.pc = "close", !.finalizer = "remove"]
            /\ \A k \in Nodes \ {p.m} : node'[k] = node[k]
         \/ pass'[o] = [p EXCEPT !.pc = "close"] /\ node' = node
  BY <1>0 DEF ReleaseMachine, Release, OnlyFor, Goto, At, Shape, TInv, TypeOK, Pass, NodeSteps
<1> SUFFICES ASSUME NEW n \in Nodes, Exclusive(n), Works \/ n # Hit(o)
             PROVE  Respects(o, n)
  BY <1>1 DEF Fair
<1>3. Holds(o, p.m)
  BY <1>1 DEF Holds, NodeSteps
<1>4. Holds(o, n)' => Holds(o, n) /\ node'[n] = node[n]
  BY <1>0, <1>1 DEF Holds, Forgets, Shape, At, Exists, NodeSteps, Pass
<1>5. HeldWell(o, n) /\ node'[n] = node[n] => HeldWell(o, n)'
  BY <1>0, <1>1 DEF HeldWell, InUse, Pass
<1>6. node'[n] = node[n] \/ \A q \in Objects \ {o} : ~Holds(q, n)
  BY <1>1, <1>3 DEF Exclusive
<1> QED BY <1>1, <1>4, <1>5, <1>6 DEF Respects, Exclusive

\* What Close stores the pass had in memory; a Close that fails leaves the object
\* with what it named.
LEMMA CloseFair ==
  ASSUME TInv, NEW o \in Objects, Form(o), Close(o)
  PROVE  Fair(o)
<1> DEFINE p == pass[o]
<1>0. /\ pass \in [Objects -> Pass] /\ object \in [Objects -> MaasMachine]
      /\ node \in [Nodes -> NodeStates] /\ NoNode \notin Nodes
  BY MachineLifecycleAssumption DEF TInv, TypeOK
<1>1. /\ OnlyFor(o) /\ p.pc = "close" /\ pass'[o] = Idle
      /\ node' = node /\ cache' = cache
  BY <1>0 DEF Close, PatchFails, OnlyFor, At
<1>i. Idle.pc = "idle" /\ Idle.id = NoNode /\ Idle.base = NoNode /\ Idle.m = NoNode
      /\ Idle.finalizer = "leave"
  BY DEF Idle
<1>2. \/ /\ Exists(object[o])
         /\ object'[o].id = IF p.id = p.base THEN object[o].id ELSE p.id
         /\ object'[o].stage = CASE p.finalizer = "leave"  -> object[o].stage
                                 [] p.finalizer = "add"    -> "kept"
                                 [] p.finalizer = "remove" -> "gone"
      \/ object' = object /\ (Exists(object[o]) => Fails)
  <2>1. CASE object' = object /\ (Exists(object[o]) => Fails)
    BY <2>1
  <2>2. CASE /\ Exists(object[o])
             /\ object' = [object EXCEPT ![o] =
                  [Patched(o) EXCEPT !.stage = CASE p.finalizer = "leave"  -> @
                                                 [] p.finalizer = "add"    -> "kept"
                                                 [] p.finalizer = "remove" -> "gone"]]
    <3>1. Patched(o) = [object[o] EXCEPT !.id = IF p.id = p.base THEN @ ELSE p.id]
      BY DEF Patched
    <3>2. object'[o] = [Patched(o) EXCEPT !.stage = CASE p.finalizer = "leave"  -> @
                                                 [] p.finalizer = "add"    -> "kept"
                                                 [] p.finalizer = "remove" -> "gone"]
      BY <1>0, <2>2
    <3>3. /\ Patched(o) \in MaasMachine /\ Patched(o).stage = object[o].stage
          /\ Patched(o).id = IF p.id = p.base THEN object[o].id ELSE p.id
      BY <1>0, <3>1, PatchTyped DEF MaasMachine
    <3>4. /\ object'[o].id = Patched(o).id
          /\ object'[o].stage = CASE p.finalizer = "leave"  -> Patched(o).stage
                                  [] p.finalizer = "add"    -> "kept"
                                  [] p.finalizer = "remove" -> "gone"
      BY ONLY <3>2, <3>3 DEF MaasMachine
    <3>5. object'[o].id = IF p.id = p.base THEN object[o].id ELSE p.id
      BY <3>3, <3>4
    <3>6. object'[o].stage = CASE p.finalizer = "leave"  -> object[o].stage
                               [] p.finalizer = "add"    -> "kept"
                               [] p.finalizer = "remove" -> "gone"
      BY <3>3, <3>4
    <3> QED BY <2>2, <3>5, <3>6
  <2> QED BY <2>1, <2>2 DEF Close, PatchFails
<1>f. /\ p.finalizer \in {"leave", "add", "remove"}
      /\ object[o].stage \in {"absent", "bare", "kept", "gone"}
  BY <1>0 DEF Pass, MaasMachine
<1> SUFFICES ASSUME NEW n \in Nodes, Exclusive(n), Works \/ n # Hit(o)
             PROVE  Respects(o, n)
  BY <1>1 DEF Fair
<1>4. Works \/ n # object[o].id => (Holds(o, n)' => Holds(o, n))
  <2>1. faults \in Nat
    BY MachineLifecycleAssumption DEF TInv, TypeOK
  <2>2. Works /\ Exists(object[o]) => ~Fails
    BY <2>1 DEF Works, Fails, counts
  <2> QED BY <1>0, <1>1, <1>i, <1>2, <1>f, <2>2 DEF Holds, Forgets, At, Exists, NodeSteps
<1>5. HeldWell(o, n) => HeldWell(o, n)'
  BY <1>0, <1>1, <1>i DEF HeldWell, InUse
<1>6. Hit(o) = object[o].id
  BY <1>1 DEF Hit, At
<1> QED BY <1>1, <1>4, <1>5, <1>6 DEF Respects, Exclusive

\* Around the controller: nothing is held that was not.
LEMMA AroundFair ==
  ASSUME TInv, NEW o \in Objects, Form(o),
         Create(o) \/ Delete(o) \/ Sync(o) \/ Age(o)
  PROVE  Fair(o)
<1>0. /\ pass \in [Objects -> Pass] /\ object \in [Objects -> MaasMachine]
      /\ cache \in [Objects -> MaasMachine] /\ NoNode \notin Nodes
  BY MachineLifecycleAssumption DEF TInv, TypeOK
<1>1. OnlyFor(o) /\ pass' = pass /\ node' = node
  BY <1>0 DEF OnlyFor, Create, Delete, Sync, Age
<1>2. \/ object' = object /\ cache'[o] \in {cache[o], object[o]}
      \/ /\ object'[o].id = object[o].id /\ cache' = cache
         /\ \/ object[o].stage = "absent" /\ object'[o].stage = "bare"
            \/ object[o].stage = "bare" /\ object'[o].stage = "gone"
            \/ object'[o].stage = object[o].stage
  BY <1>0 DEF Create, Delete, Sync, Age, MaasMachine, Exists
<1> SUFFICES ASSUME NEW n \in Nodes, Exclusive(n), Works \/ n # Hit(o)
             PROVE  Respects(o, n)
  BY <1>1 DEF Fair
<1>4. Holds(o, n)' => Holds(o, n)
  BY <1>0, <1>1, <1>2 DEF Holds, Forgets, Shape, Stored, At, Exists
<1>5. HeldWell(o, n) => HeldWell(o, n)'
  BY <1>0, <1>1, <1>2 DEF HeldWell, InUse, Exists, Stored
<1> QED BY <1>1, <1>4, <1>5 DEF Respects, Exclusive

\* Whatever is done for one object keeps every exclusive node but the one that a
\* fault can spoil.
LEMMA StepFair ==
  ASSUME TInv, NEW o \in Objects, Form(o), StepsFor(o)
  PROVE  Fair(o)
BY ReconcileFair, FindFair, AllocateFair, RejectVMHostFair, PatchIDFair, ReuseFair, DeployFair,
   RollbackFair, ClearIDFair, FindToReleaseFair, ReleaseMachineFair, CloseFair, AroundFair
   DEF Step, StepsFor

-----------------------------------------------------------------------------
(* All steps. *)

\* What MAAS does by itself takes no node from who holds it.
LEMMA AloneKeeps ==
  ASSUME TInv, NEW n \in Nodes, Exclusive(n),
         \/ \E k \in Nodes : NodeDeployed(k) \/ NodeFails(k) \/ NodeReleased(k)
         \/ EnableLXD \/ UNCHANGED vars
  PROVE  Exclusive(n)'
<1>1. UNCHANGED <<object, pass>>
  BY DEF NodeDeployed, NodeFails, NodeReleased, EnableLXD, vars
<1>2. \/ node'[n] = node[n]
      \/ InUse(n)' /\ node[n] # "Allocated"
      \/ ~InUse(n)
  BY DEF NodeDeployed, NodeFails, NodeReleased, EnableLXD, vars, InUse, TInv, TypeOK
<1> QED BY <1>1, <1>2, NodeKeeps

\* A restart spoils no more than the nodes named by objects with a running pass.
LEMMA CrashKeeps ==
  ASSUME TInv, Formed, Crash, NEW n \in Nodes, Exclusive(n),
         \A o \in Objects : ~At(o, "idle") => object[o].id # n
  PROVE  Exclusive(n)'
<1>i. Idle.pc = "idle" /\ Idle.id = NoNode /\ Idle.m = NoNode /\ Idle.finalizer = "leave"
      /\ NoNode \notin Nodes
  BY MachineLifecycleAssumption DEF Idle
<1>1. node' = node /\ object' = object /\ \A o \in Objects : pass'[o] = Idle
  BY DEF Crash
<1>2. ASSUME NEW o \in Objects, Holds(o, n)'
      PROVE  Holds(o, n) /\ HeldWell(o, n)'
  <2>1. Exists(object[o]) /\ object[o].id = n
    BY <1>i, <1>1, <1>2 DEF Holds, Forgets, At, Exists, NodeSteps
  <2>2. pass[o] = Idle
    BY <2>1 DEF At, Formed, Shape
  <2>3. Holds(o, n)
    BY <1>i, <2>1, <2>2 DEF Holds, Forgets, At
  <2>4. InUse(n)'
    BY <1>1, <2>3 DEF Exclusive, HeldWell, InUse
  <2> QED BY <1>i, <1>1, <2>3, <2>4 DEF HeldWell
<1> QED BY <1>2 DEF Exclusive

\* A step adds to the contested nodes at most as many as to the faults and stale reads.
LEMMA ContestedNext ==
  ASSUME TInv, Formed, Next
  PROVE  \E B : /\ IsFiniteSet(B) /\ Contested' \subseteq Contested \cup B
                /\ Cardinality(B) <= faults' + stale' - (faults + stale)
<1>0. faults \in Nat /\ stale \in Nat
  BY MachineLifecycleAssumption DEF TInv, TypeOK
<1>e. IsFiniteSet({}) /\ Cardinality({}) = 0
  BY FS_EmptySet
<1>1. ASSUME NEW o \in Objects, StepsFor(o)
      PROVE  \E B : /\ IsFiniteSet(B) /\ Contested' \subseteq Contested \cup B
                    /\ Cardinality(B) <= faults' + stale' - (faults + stale)
  <2>1. Fair(o)
    BY <1>1, StepFair DEF Formed
  <2>2. ASSUME NEW n \in Nodes, Exclusive(n), Works \/ n # Hit(o)
        PROVE  Exclusive(n)'
    BY <2>1, <2>2, RespectKeeps DEF Fair
  <2>3. CASE Works
    <3>1. Contested' \subseteq Contested \cup {}
      BY <2>2, <2>3 DEF Contested
    <3>2. 0 <= faults' + stale' - (faults + stale)
      BY <1>0, <2>3 DEF Works, counts
    <3> QED BY <1>e, <3>1, <3>2
  <2>4. CASE Fails \/ ReadsStale
    <3>1. Contested' \subseteq Contested \cup {Hit(o)}
      BY <2>2 DEF Contested
    <3>2. IsFiniteSet({Hit(o)}) /\ Cardinality({Hit(o)}) = 1
      BY FS_Singleton
    <3>3. 1 <= faults' + stale' - (faults + stale)
      BY <1>0, <2>4 DEF Fails, ReadsStale
    <3> QED BY <3>1, <3>2, <3>3
  <2>5. Works \/ Fails \/ ReadsStale
    BY <1>1 DEF StepsFor, Reconcile, Step, Find, Allocate, RejectVMHost, PatchID, Reuse, Deploy,
                Rollback, ClearID, FindToRelease, ReleaseMachine, Close, PatchFails,
                Create, Delete, Sync, Age, Works
  <2> QED BY <2>3, <2>4, <2>5
<1>2. CASE \/ \E k \in Nodes : NodeDeployed(k) \/ NodeFails(k) \/ NodeReleased(k)
           \/ EnableLXD
  <2>1. Contested' \subseteq Contested \cup {}
    BY <1>2, AloneKeeps DEF Contested
  <2>2. 0 <= faults' + stale' - (faults + stale)
    BY <1>0, <1>2 DEF NodeDeployed, NodeFails, NodeReleased, EnableLXD, counts
  <2> QED BY <1>e, <2>1, <2>2
<1>3. CASE Crash
  <2> DEFINE running == {o \in Objects : ~At(o, "idle")}
             named == [o \in Objects |-> object[o].id]
             B == {named[o] : o \in running}
  <2>1. IsFiniteSet(B) /\ Cardinality(B) <= Cardinality(running) /\ Cardinality(running) \in Nat
    <3>1. running \in SUBSET Objects
      OBVIOUS
    <3> HIDE DEF running, named
    <3> QED BY <3>1, OneEach
  <2>2. Contested' \subseteq Contested \cup B
    BY <1>3, CrashKeeps DEF Contested
  <2>3. faults' = faults + Cardinality(running) /\ stale' = stale
    BY <1>3 DEF Crash
  <2>4. IsFiniteSet(B) => Cardinality(B) \in Nat
    BY FS_CardinalityType
  <2> HIDE DEF B, running
  <2>5. Cardinality(B) <= faults' + stale' - (faults + stale)
    BY <1>0, <2>1, <2>3, <2>4
  <2> QED BY <2>1, <2>2, <2>5
<1> QED BY <1>1, <1>2, <1>3 DEF Next, StepsFor

\* Nothing is contested in an initial state.
LEMMA InitOwners == Init => OInv
<1> SUFFICES ASSUME Init
             PROVE  OInv
  OBVIOUS
<1>1. LInv
  BY InitDebts
<1>2. NoNode \notin Nodes
  BY MachineLifecycleAssumption
<1>4. Contested = {}
  BY <1>2 DEF Init, Contested, Exclusive, Holds, Exists, At, Absent, Idle, NodeSteps
<1> QED BY <1>1, <1>4, FS_EmptySet DEF Init, OInv

\* An object that two objects claim is held by both.
LEMMA ClaimedIsContested ==
  ASSUME TInv, Formed, NEW n \in Nodes, NEW o \in Objects, NEW q \in Objects, o # q,
         Claim(o) = n, Claim(q) = n
  PROVE  n \in Contested
<1>1. ASSUME NEW r \in Objects, Claim(r) = n
      PROVE  Holds(r, n)
  <2>1. /\ Exists(object[r]) /\ pass[r].finalizer # "remove" /\ object[r].id = n
        /\ At(r, "idle") \/ pass[r].id = object[r].id
    BY <1>1, MachineLifecycleAssumption DEF Claim
  <2>2. ~Forgets(r)
    BY <2>1, MachineLifecycleAssumption DEF Forgets, At
  <2> QED BY <2>1, <2>2 DEF Holds
<1> QED BY <1>1 DEF Contested, Exclusive

\* Every reachable state has at most as many contested nodes as faults and stale reads.
THEOREM OwnersInvariance == Spec => []OInv
<1>1. ASSUME OInv, [Next]_vars, LInv'
      PROVE  OInv'
  <2>1. TInv /\ TInv' /\ Formed
    BY <1>1 DEF OInv, LInv
  <2>2. /\ IsFiniteSet(Contested) /\ Cardinality(Contested) \in Nat
        /\ faults \in Nat /\ stale \in Nat /\ faults' \in Nat /\ stale' \in Nat
        /\ Cardinality(Contested) <= faults + stale
    BY <1>1, <2>1, MachineLifecycleAssumption, FS_Subset, FS_CardinalityType
       DEF OInv, Contested, TInv, TypeOK
  <2>3. CASE Next
    <3>1. PICK B : /\ IsFiniteSet(B) /\ Contested' \subseteq Contested \cup B
                   /\ Cardinality(B) <= faults' + stale' - (faults + stale)
      BY <2>1, <2>3, ContestedNext
    <3>2. Cardinality(Contested') <= Cardinality(Contested) + Cardinality(B)
      BY <2>2, <3>1, AtMostBoth
    <3>3. Cardinality(B) \in Nat /\ IsFiniteSet(Contested') /\ Cardinality(Contested') \in Nat
      BY <2>2, <3>1, FS_Union, FS_Subset, FS_CardinalityType
    <3>4. Cardinality(Contested') <= faults' + stale'
      BY <2>2, <3>1, <3>2, <3>3
    <3> QED BY <1>1, <3>4 DEF OInv
  <2>4. CASE UNCHANGED vars
    <3>1. Contested' \subseteq Contested
      BY <2>1, <2>4, AloneKeeps DEF Contested
    <3>2. Cardinality(Contested') <= Cardinality(Contested) /\ Cardinality(Contested') \in Nat
      BY <2>2, <3>1, FS_Subset, FS_CardinalityType
    <3>3. faults' = faults /\ stale' = stale
      BY <2>4 DEF vars, counts
    <3>4. Cardinality(Contested') <= faults' + stale'
      BY <2>2, <3>2, <3>3
    <3> QED BY <1>1, <3>4 DEF OInv
  <2> QED BY <1>1, <2>3, <2>4
<1> QED BY InitOwners, <1>1, Invariance, PTL DEF Spec

\* A failing call, a lost pass or a stale read gives at most one node to two objects,
\* and nothing else does: whatever fails, is rejected, rolled back and given to
\* another object in whatever order.
THEOREM OwnersBounded == Spec => []OneOwner
<1>1. OInv => OneOwner
  <2> SUFFICES ASSUME OInv
               PROVE  OneOwner
    OBVIOUS
  <2> DEFINE S == {n \in Nodes : \E o, p \in Objects : o # p /\ Claim(o) = n /\ Claim(p) = n}
  <2>1. S \subseteq Contested
    BY ClaimedIsContested DEF OInv, LInv
  <2>2. IsFiniteSet(Contested)
    BY MachineLifecycleAssumption, FS_Subset DEF Contested
  <2>3. Cardinality(S) <= Cardinality(Contested) /\ Cardinality(S) \in Nat
        /\ Cardinality(Contested) \in Nat
    BY <2>1, <2>2, FS_Subset, FS_CardinalityType
  <2>4. Cardinality(Contested) <= faults + stale /\ faults \in Nat /\ stale \in Nat
    BY MachineLifecycleAssumption DEF OInv, LInv, TInv, TypeOK
  <2> HIDE DEF S
  <2>5. Cardinality(S) <= faults + stale
    BY <2>3, <2>4
  <2> QED BY <2>5 DEF OneOwner, S
<1> QED BY <1>1, OwnersInvariance, PTL
=============================================================================
