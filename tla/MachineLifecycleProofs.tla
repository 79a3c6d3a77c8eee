----------------------- MODULE MachineLifecycleProofs -----------------------
(***************************************************************************)
(* Proofs about MachineLifecycle, for any number of MaasMachines, of MAAS  *)
(* machines and of failures, and whatever the patch helper compares with:  *)
(* the state is well typed, and no more nodes are leaked than calls fail,  *)
(* passes are lost and reads of live objects are stale.                    *)
(*                                                                         *)
(* That every node in use is named or at hand but for the faults is not    *)
(* inductive: an object may name a node, or a pass have one at hand, that  *)
(* it is about to drop; and a pass that began with a stale read loses a    *)
(* node only later, when it stores what it believes.  The invariant is one *)
(* of debts: the nodes that no object KEEPS, and the objects that are      *)
(* still going to lose one (those that are not STRAIGHT), are together no  *)
(* more than the faults.  It needs to know, step by step, how the ID in    *)
(* memory, the one the patch helper compares with, the one that is stored  *)
(* and the one in the cache fit together (Form).                           *)
(***************************************************************************)
EXTENDS MachineLifecycle, FiniteSetTheorems, TLAPS

\* The steps of reconcileNormal, before and after a node is stored, and those of
\* reconcileDelete.
Early    == {"find", "allocate", "reuse", "reject", "patchID"}
Late     == {"deploy", "rollback", "clear"}
Normal   == Early \cup Late
Deleting == {"findToRelease", "release"}

PassesTyped ==
  /\ pass \in [Objects -> Pass]
  /\ \A o \in Objects : /\ pass[o].pc \in NodeSteps => pass[o].m # NoNode
                        /\ pass[o].pc = "reuse" => pass[o].id # NoNode

TInv == TypeOK /\ PassesTyped

\* What a pass knows at each of its steps, faults or not.
Shape(o) ==
  LET p == pass[o] IN
  /\ p.pc = "idle" => p = Idle
  /\ p.pc \in Early \cup Deleting => p.base = p.id
  /\ p.pc \in {"find", "allocate", "reuse", "findToRelease"} => p.m = NoNode
  /\ p.pc \in {"allocate", "patchID", "clear"} => p.id = NoNode
  /\ p.pc = "reject" => p.id \in {NoNode, p.m}
  /\ p.pc \in {"deploy", "rollback"} => p.id = p.m
  /\ p.pc \in Late => p.base \in {NoNode, p.m}
  /\ p.pc = "release" => p.m = p.id
  /\ p.pc = "close" /\ p.id # p.base => p.id \in {NoNode, p.m} /\ p.base \in {NoNode, p.m}
  /\ p.finalizer = "remove" => p.pc = "close" /\ p.m = p.id /\ p.base = p.id
  /\ p.finalizer = "add" => p.pc = "close" /\ p.base = p.id

\* What it knows of the object: one with an ID has, or had, the finalizer; a node
\* allocated in this pass is stored before it is deployed.
Stored(o) ==
  LET p == pass[o]  v == object[o] IN
  /\ v.stage \in {"absent", "bare"} => v.id = NoNode
  /\ p.id # p.base \/ p.pc \in Normal \/ cache[o].stage \in {"kept", "gone"}
       => v.stage \in {"kept", "gone"}
  /\ p.pc \in {"deploy", "rollback"} /\ p.base # p.id => v.stage = "kept" /\ v.id = p.m

\* Two minutes after its deletion an object is read as it is.
Deletion(o) ==
  LET p == pass[o]  v == object[o]  c == cache[o] IN
  /\ v.deleting => v.stage \in {"kept", "gone"}
  /\ c.deleting => c.stage \in {"kept", "gone"} /\ v.deleting
  /\ p.finalizer = "remove" /\ p.id = NoNode /\ Exists(v) => v.id = NoNode
  /\ o \in aged =>
       /\ v.deleting /\ c.deleting /\ p.pc \notin Normal
       /\ Exists(v) => c = v
       /\ p.pc = "close" => p.id = p.base
       /\ p.pc \in Deleting /\ Exists(v) => p.id = v.id

\* A version in the cache that is being deleted is out of date by what the running
\* pass has stored, at most.
Cached(o) ==
  LET p == pass[o]  v == object[o]  c == cache[o] IN
  c.deleting =>
    /\ p.pc \in Early => c.id = v.id
    /\ p.pc \in Late => v.id = p.m \/ c.id = v.id
    /\ p.pc = "close" /\ p.id # p.base => v.id \in {p.id, p.m} \/ c.id = v.id
    /\ p.pc \in Deleting /\ p.id # NoNode /\ Exists(v) => c.id \in {p.id, v.id}

Form(o) == Shape(o) /\ Stored(o) /\ Deletion(o) /\ Cached(o)

\* The pass of o stores nothing over another node, and a deletion of what the cache
\* shows, or the pass has read, releases what the object names.
Straight(o) ==
  LET p == pass[o]  v == object[o]  c == cache[o] IN
  /\ c.deleting /\ c.id # NoNode /\ Exists(v) => v.id \in {c.id, NoNode}
  /\ p.pc \in Normal => v.stage = "kept"
  /\ p.pc \in Early => v.id = p.id /\ c.id = v.id
  /\ p.pc \in Late => v.id = p.m
  /\ p.pc \in Deleting /\ p.id # NoNode /\ Exists(v) => v.id \in {p.id, NoNode}
  /\ p.pc = "close" /\ Exists(v) =>
       /\ p.finalizer = "remove" => v.id \in {p.id, NoNode}
       /\ p.id # p.base =>
            /\ v.id \in {p.id, NoNode} \/ (p.id = NoNode /\ v.id = p.m)
            /\ p.id # NoNode /\ c.deleting => c.id \in {NoNode, p.id}

\* The pass of o has released n, or has failed to, and is about to forget it.
Drops(o, n) ==
  /\ pass[o].m = n
  /\ \/ At(o, "clear")
     \/ At(o, "close") /\ (pass[o].finalizer = "remove" \/ pass[o].id = NoNode)

\* A node that the object is rid of and its deletion would still release.
Ghost(o, n) ==
  /\ Exists(object[o]) /\ object[o].id \notin {n, NoNode} /\ pass[o].finalizer # "remove"
  /\ \/ cache[o].deleting /\ cache[o].id = n
     \/ pass[o].pc \in Deleting /\ pass[o].id = n

\* The object names n, its pass has n at hand or is about to store it, or n is a ghost.
Keeps(o, n) ==
  \/ Exists(object[o]) /\ object[o].id = n /\ ~Drops(o, n)
  \/ pass[o].pc \in NodeSteps /\ pass[o].m = n
  \/ At(o, "close") /\ Exists(object[o]) /\ pass[o].id = n /\ pass[o].id # pass[o].base
  \/ Ghost(o, n)

Lost    == {n \in Nodes : InUse(n) /\ \A o \in Objects : ~Keeps(o, n)}
Crooked == {o \in Objects : ~Straight(o)}

Formed == \A o \in Objects : Form(o)

LInv == TInv /\ Formed /\ Cardinality(Lost) + Cardinality(Crooked) <= faults

-----------------------------------------------------------------------------
(* Type correctness. *)

CountsTyped == faults \in 0..MaxFaults /\ stale \in 0..MaxStale

\* What works, fails or reads a stale object keeps the counts within their bounds.
LEMMA CountsStayTyped ==
  ASSUME CountsTyped, Works \/ Fails \/ ReadsStale
  PROVE  CountsTyped'
BY MachineLifecycleAssumption DEF CountsTyped, Works, Fails, ReadsStale, counts

\* Giving one pass a new typed value keeps all of them typed.
LEMMA PassTyped ==
  ASSUME PassesTyped, NEW o \in Objects, NEW p \in Pass, pass' = [pass EXCEPT ![o] = p],
         p.pc \in NodeSteps => p.m # NoNode, p.pc = "reuse" => p.id # NoNode
  PROVE  PassesTyped'
BY DEF PassesTyped

\* A release keeps what MAAS says typed.
LEMMA ReleaseTyped ==
  ASSUME TInv, NEW n, Release(n)
  PROVE  node' \in [Nodes -> NodeStates]
BY DEF TInv, TypeOK, Release, NodeStates

\* What a patch leaves is typed.
LEMMA PatchTyped ==
  ASSUME object \in [Objects -> MaasMachine], pass \in [Objects -> Pass], NEW o \in Objects
  PROVE  Patched(o) \in MaasMachine
BY DEF Patched, MaasMachine, Pass

\* Every initial state is typed.
LEMMA InitTyped == Init => TInv
BY MachineLifecycleAssumption
   DEF Init, TInv, PassesTyped, TypeOK, Absent, Idle, MaasMachine, Pass, PassSteps, NodeSteps,
       NodeStates, At

\* The steps of a pass.
LEMMA StepTyped ==
  ASSUME TInv, NEW o \in Objects, Step(o)
  PROVE  TInv'
<1> DEFINE p == pass[o]
<1>0. /\ p \in Pass /\ pass \in [Objects -> Pass] /\ object \in [Objects -> MaasMachine]
      /\ node \in [Nodes -> NodeStates] /\ PassesTyped
  BY DEF TInv, TypeOK
<1>n. NoNode \notin Nodes
  BY MachineLifecycleAssumption
<1>f. Works \/ Fails => CountsTyped'
  BY CountsStayTyped DEF TInv, TypeOK, CountsTyped
<1>p. ASSUME PassesTyped', CountsTyped', UNCHANGED <<cache, aged, lxd>>,
             node' \in [Nodes -> NodeStates], object' \in [Objects -> MaasMachine]
      PROVE  TInv'
  BY <1>p DEF TInv, TypeOK, PassesTyped, CountsTyped
<1> USE DEF Pass, PassSteps, NodeSteps
<1>1. CASE Find(o)
  <2>1. PICK pc \in {"allocate", "close", "reuse"} :
          pass' = [pass EXCEPT ![o].pc = pc] /\ (pc = "reuse" => p.id # NoNode)
    BY <1>1 DEF Find, Goto
  <2>2. pass' = [pass EXCEPT ![o] = [p EXCEPT !.pc = pc]]
    BY <2>1, <1>0
  <2>3. PassesTyped'
    <3> DEFINE q == [p EXCEPT !.pc = pc]
    <3>1. q \in Pass /\ q.pc = pc /\ q.id = p.id
      BY <1>0
    <3> QED BY <1>0, <2>1, <2>2, <3>1, PassTyped
  <2> QED BY <1>0, <1>1, <1>f, <1>p, <2>3 DEF Find
<1>2. CASE Allocate(o)
  <2>1. \/ \E n \in Nodes, pc \in {"reject", "patchID"} :
             pass' = [pass EXCEPT ![o] = [p EXCEPT !.m = n, !.pc = pc]]
        \/ pass' = [pass EXCEPT ![o] = [p EXCEPT !.pc = "close"]]
    BY <1>0, <1>2 DEF Allocate, Goto
  <2>2. PassesTyped'
    <3>1. ASSUME NEW n \in Nodes, NEW pc \in {"reject", "patchID"},
                 pass' = [pass EXCEPT ![o] = [p EXCEPT !.m = n, !.pc = pc]]
          PROVE  PassesTyped'
      <4> DEFINE q == [p EXCEPT !.m = n, !.pc = pc]
      <4>1. q \in Pass /\ q.pc = pc /\ q.m = n
        BY <1>0
      <4> QED BY <1>0, <1>n, <3>1, <4>1, PassTyped
    <3>2. ASSUME pass' = [pass EXCEPT ![o] = [p EXCEPT !.pc = "close"]]
          PROVE  PassesTyped'
      <4> DEFINE q == [p EXCEPT !.pc = "close"]
      <4>1. q \in Pass /\ q.pc = "close"
        BY <1>0
      <4> QED BY <1>0, <3>2, <4>1, PassTyped
    <3> QED BY <2>1, <3>1, <3>2
  <2>3. node' \in [Nodes -> NodeStates]
    BY <1>0, <1>2 DEF Allocate, NodeStates
  <2> QED BY <1>0, <1>2, <1>f, <1>p, <2>2, <2>3 DEF Allocate
<1>3. CASE RejectVMHost(o)
  <2>1. PICK pc \in {"close", "clear"} :
          pass' = [pass EXCEPT ![o] = [p EXCEPT !.id = NoNode, !.pc = pc]]
    BY <1>0, <1>3 DEF RejectVMHost
  <2>2. PassesTyped'
    <3> DEFINE q == [p EXCEPT !.id = NoNode, !.pc = pc]
    <3>1. q \in Pass /\ q.pc = pc
      BY <1>0
    <3> QED BY <1>0, <2>1, <3>1, PassTyped
  <2>3. node' \in [Nodes -> NodeStates]
    BY <1>0, <1>3, ReleaseTyped DEF RejectVMHost
  <2> QED BY <1>0, <1>3, <1>f, <1>p, <2>2, <2>3 DEF RejectVMHost
<1>4. CASE PatchID(o)
  <2>1. PICK pc \in {"close", "deploy"}, base \in {p.m, p.base} :
          pass' = [pass EXCEPT ![o] = [p EXCEPT !.id = p.m, !.pc = pc, !.base = base]]
    BY <1>0, <1>4 DEF PatchID, PatchFails
  <2>2. PassesTyped'
    <3> DEFINE q == [p EXCEPT !.id = p.m, !.pc = pc, !.base = base]
    <3>1. q \in Pass /\ q.pc = pc /\ q.m = p.m
      BY <1>0
    <3>2. p.m # NoNode
      BY <1>0, <1>4 DEF PatchID, PatchFails, At, PassesTyped
    <3> QED BY <1>0, <2>1, <3>1, <3>2, PassTyped
  <2>3. object' \in [Objects -> MaasMachine]
    <3>1. [object[o] EXCEPT !.id = p.m] \in MaasMachine
      BY <1>0 DEF MaasMachine
    <3>2. object' = object \/ object' = [object EXCEPT ![o] = [object[o] EXCEPT !.id = p.m]]
      BY <1>0, <1>4 DEF PatchID, PatchFails
    <3> QED BY <1>0, <3>1, <3>2
  <2> QED BY <1>0, <1>4, <1>f, <1>p, <2>2, <2>3 DEF PatchID, PatchFails
<1>5. CASE Reuse(o)
  <2>1. p.id # NoNode
    BY <1>0, <1>5 DEF Reuse, At, PassesTyped
  <2>2. PICK pc \in {"close", "deploy", "reject"}, m \in {p.id, p.m} :
          /\ pass' = [pass EXCEPT ![o] = [p EXCEPT !.m = m, !.pc = pc]]
          /\ pc = "close" \/ m = p.id
    BY <1>0, <1>5 DEF Reuse, Goto
  <2>3. PassesTyped'
    <3> DEFINE q == [p EXCEPT !.m = m, !.pc = pc]
    <3>1. q \in Pass /\ q.pc = pc /\ q.m = m
      BY <1>0
    <3> QED BY <1>0, <2>1, <2>2, <3>1, PassTyped
  <2> QED BY <1>0, <1>5, <1>f, <1>p, <2>3 DEF Reuse
<1>6. CASE Deploy(o)
  <2>1. PICK pc \in {"close", "rollback"} :
          pass' = [pass EXCEPT ![o] = [p EXCEPT !.pc = pc]]
    BY <1>0, <1>6 DEF Deploy, Goto
  <2>2. PassesTyped'
    <3> DEFINE q == [p EXCEPT !.pc = pc]
    <3>1. q \in Pass /\ q.pc = pc /\ q.m = p.m
      BY <1>0
    <3>2. p.m # NoNode
      BY <1>0, <1>6 DEF Deploy, At, PassesTyped
    <3> QED BY <1>0, <2>1, <3>1, <3>2, PassTyped
  <2>3. node' \in [Nodes -> NodeStates]
    BY <1>0, <1>6 DEF Deploy, NodeStates
  <2> QED BY <1>0, <1>6, <1>f, <1>p, <2>2, <2>3 DEF Deploy
<1>7. CASE Rollback(o)
  <2>1. pass' = [pass EXCEPT ![o] = [p EXCEPT !.id = NoNode, !.pc = "clear"]]
    BY <1>0, <1>7 DEF Rollback
  <2>2. PassesTyped'
    <3> DEFINE q == [p EXCEPT !.id = NoNode, !.pc = "clear"]
    <3>1. q \in Pass /\ q.pc = "clear"
      BY <1>0
    <3> QED BY <1>0, <2>1, <3>1, PassTyped
  <2>3. node' \in [Nodes -> NodeStates]
    BY <1>0, <1>7, ReleaseTyped DEF Rollback
  <2> QED BY <1>0, <1>7, <1>f, <1>p, <2>2, <2>3 DEF Rollback
<1>8. CASE ClearID(o)
  <2>1. PICK base \in {p.id, p.base} :
          pass' = [pass EXCEPT ![o] = [p EXCEPT !.pc = "close", !.base = base]]
    BY <1>0, <1>8 DEF ClearID, PatchFails, Goto, BaseAfterPatch
  <2>2. PassesTyped'
    <3> DEFINE q == [p EXCEPT !.pc = "close", !.base = base]
    <3>1. q \in Pass /\ q.pc = "close"
      BY <1>0
    <3> QED BY <1>0, <2>1, <3>1, PassTyped
  <2>3. object' \in [Objects -> MaasMachine]
    BY <1>0, <1>8, PatchTyped DEF ClearID, PatchFails
  <2> QED BY <1>0, <1>8, <1>f, <1>p, <2>2, <2>3 DEF ClearID, PatchFails
<1>9. CASE FindToRelease(o)
  <2>1. PICK pc \in {"close", "release"}, m \in {p.id, p.m},
             fin \in {"leave", "remove", p.finalizer} :
          /\ pass' = [pass EXCEPT ![o] = [p EXCEPT !.pc = pc, !.m = m, !.finalizer = fin]]
          /\ pc = "close" \/ m # NoNode
    BY <1>0, <1>9 DEF FindToRelease, Goto
  <2>2. PassesTyped'
    <3> DEFINE q == [p EXCEPT !.pc = pc, !.m = m, !.finalizer = fin]
    <3>1. q \in Pass /\ q.pc = pc /\ q.m = m
      BY <1>0
    <3> QED BY <1>0, <2>1, <3>1, PassTyped
  <2> QED BY <1>0, <1>9, <1>f, <1>p, <2>2 DEF FindToRelease
<1>10. CASE ReleaseMachine(o)
  <2>1. PICK fin \in {"remove", p.finalizer} :
          pass' = [pass EXCEPT ![o] = [p EXCEPT !.pc = "close", !.finalizer = fin]]
    BY <1>0, <1>10 DEF ReleaseMachine, Goto
  <2>2. PassesTyped'
    <3> DEFINE q == [p EXCEPT !.pc = "close", !.finalizer = fin]
    <3>1. q \in Pass /\ q.pc = "close"
      BY <1>0
    <3> QED BY <1>0, <2>1, <3>1, PassTyped
  <2>3. node' \in [Nodes -> NodeStates]
    BY <1>0, <1>10, ReleaseTyped DEF ReleaseMachine
  <2> QED BY <1>0, <1>10, <1>f, <1>p, <2>2, <2>3 DEF ReleaseMachine
<1>11. CASE Close(o)
  <2>1. PassesTyped'
    <3>1. Idle \in Pass /\ Idle.pc = "idle"
      BY DEF Idle
    <3> QED BY <1>0, <1>11, <3>1, PassTyped DEF Close, PatchFails
  <2>2. object' \in [Objects -> MaasMachine]
    <3>1. PICK stage \in {"absent", "bare", "kept", "gone"} :
            object' = object \/ object' = [object EXCEPT ![o] = [Patched(o) EXCEPT !.stage = stage]]
      <4>1. Patched(o) \in MaasMachine
        BY <1>0, PatchTyped
      <4>2. p.finalizer \in {"leave", "add", "remove"}
        BY <1>0
      <4> QED BY <1>11, <4>1, <4>2 DEF Close, PatchFails, MaasMachine
    <3>2. [Patched(o) EXCEPT !.stage = stage] \in MaasMachine
      BY <1>0, PatchTyped DEF MaasMachine
    <3> QED BY <1>0, <3>1, <3>2
  <2> QED BY <1>0, <1>11, <1>f, <1>p, <2>1, <2>2 DEF Close, PatchFails
<1> QED BY <1>1, <1>2, <1>3, <1>4, <1>5, <1>6, <1>7, <1>8, <1>9, <1>10, <1>11 DEF Step

\* The reading of an object, restarts, and what happens around the controller.
LEMMA OutsideTyped ==
  ASSUME TInv, Next, ~ \E o \in Objects : Step(o)
  PROVE  TInv'
<1>0. /\ pass \in [Objects -> Pass] /\ object \in [Objects -> MaasMachine]
      /\ cache \in [Objects -> MaasMachine] /\ aged \subseteq Objects
      /\ node \in [Nodes -> NodeStates] /\ PassesTyped /\ TypeOK
      /\ CountsTyped /\ lxd \in BOOLEAN
  BY DEF TInv, TypeOK, CountsTyped
<1>1. ASSUME NEW o \in Objects, Reconcile(o)
      PROVE  TInv'
  <2> DEFINE v == cache[o]
             q == [Idle EXCEPT !.id = v.id, !.base = v.id,
                     !.pc = IF v.deleting THEN "findToRelease"
                            ELSE IF v.stage = "bare" THEN "close" ELSE "find",
                     !.finalizer = IF v.stage = "bare" THEN "add" ELSE "leave"]
  <2>1. q \in Pass /\ q.pc \notin NodeSteps /\ q.pc # "reuse"
    BY <1>0 DEF Idle, Pass, PassSteps, NodeSteps, MaasMachine
  <2>2. pass' = [pass EXCEPT ![o] = q]
    BY <1>1 DEF Reconcile
  <2>3. PassesTyped'
    BY <1>0, <2>1, <2>2, PassTyped
  <2>4. CountsTyped'
    BY <1>0, <1>1, CountsStayTyped DEF Reconcile
  <2> QED BY <1>0, <1>1, <2>3, <2>4 DEF Reconcile, TInv, TypeOK, PassesTyped, CountsTyped
<1>2. ASSUME NEW o \in Objects, Create(o) \/ Delete(o)
      PROVE  TInv'
  <2>1. object' \in [Objects -> MaasMachine]
    <3>1. \E v \in MaasMachine : object' = [object EXCEPT ![o] = v]
      <4>1. CASE Create(o)
        <5>1. [object[o] EXCEPT !.stage = "bare"] \in MaasMachine
          BY <1>0 DEF MaasMachine
        <5> QED BY <1>0, <4>1, <5>1 DEF Create
      <4>2. CASE Delete(o)
        <5> DEFINE v == [object[o] EXCEPT !.deleting = TRUE,
                                          !.stage = IF @ = "bare" THEN "gone" ELSE @]
        <5>1. v \in MaasMachine
          BY <1>0 DEF MaasMachine
        <5>2. object' = [object EXCEPT ![o] = v]
          BY <1>0, <4>2 DEF Delete
        <5> QED BY <5>1, <5>2
      <4> QED BY <1>2, <4>1, <4>2
    <3> QED BY <1>0, <3>1
  <2> QED BY <1>0, <1>2, <2>1 DEF Create, Delete, TInv, TypeOK, PassesTyped, counts
<1>3. ASSUME NEW o \in Objects, Sync(o)
      PROVE  TInv'
  BY <1>0, <1>3 DEF Sync, TInv, TypeOK, PassesTyped, counts
<1>4. ASSUME NEW o \in Objects, Age(o)
      PROVE  TInv'
  BY <1>0, <1>4 DEF Age, TInv, TypeOK, PassesTyped, counts
<1>5. ASSUME NEW n \in Nodes, NodeDeployed(n) \/ NodeFails(n) \/ NodeReleased(n)
      PROVE  TInv'
  <2>1. node' \in [Nodes -> NodeStates]
    BY <1>0, <1>5 DEF NodeDeployed, NodeFails, NodeReleased, NodeStates
  <2> QED BY <1>0, <1>5, <2>1
          DEF NodeDeployed, NodeFails, NodeReleased, TInv, TypeOK, PassesTyped, counts
<1>6. CASE EnableLXD
  BY <1>0, <1>6 DEF EnableLXD, TInv, TypeOK, PassesTyped, counts
<1>7. CASE Crash
  <2>1. PassesTyped'
    BY <1>7 DEF Crash, PassesTyped, Idle, Pass, PassSteps, NodeSteps
  <2>2. CountsTyped'
    <3>1. Cardinality({o \in Objects : ~At(o, "idle")}) \in Nat
      BY MachineLifecycleAssumption, FS_Subset, FS_CardinalityType
    <3> QED BY <1>0, <1>7, <3>1, MachineLifecycleAssumption DEF Crash, CountsTyped
  <2> QED BY <1>0, <1>7, <2>1, <2>2 DEF Crash, TInv, TypeOK, PassesTyped, CountsTyped
<1> QED BY <1>1, <1>2, <1>3, <1>4, <1>5, <1>6, <1>7 DEF Next

\* Types, and a node at hand wherever a step needs one, are inductive.
LEMMA TypeInvariance == Spec => []TInv
<1>1. ASSUME TInv, [Next]_vars
      PROVE  TInv'
  <2>1. CASE \E o \in Objects : Step(o)
    BY <1>1, <2>1, StepTyped
  <2>2. CASE Next /\ ~ \E o \in Objects : Step(o)
    BY <1>1, <2>2, OutsideTyped
  <2>3. CASE UNCHANGED vars
    BY <1>1, <2>3 DEF vars, counts, TInv, TypeOK, PassesTyped, At
  <2> QED BY <1>1, <2>1, <2>2, <2>3
<1> QED BY InitTyped, <1>1, PTL DEF Spec

\* Every variable keeps its type, and a step that works on a node has one at hand:
\* the controller never releases, deploys or stores nothing.
THEOREM TypeCorrect == Spec => []TypeOK
<1>1. TInv => TypeOK
  BY DEF TInv
<1> QED BY <1>1, TypeInvariance, PTL

-----------------------------------------------------------------------------
(* No more nodes are leaked than there are faults. *)

OnlyFor(o) ==
  \A q \in Objects \ {o} :
    object'[q] = object[q] /\ cache'[q] = cache[q] /\ pass'[q] = pass[q]
    /\ (q \in aged' <=> q \in aged)

\* The nodes that a step for o makes nobody keep.
NewLoss(o) == {n \in Nodes : InUse(n)' /\ ~Keeps(o, n)' /\ (Keeps(o, n) \/ ~InUse(n))}

AtMostOne(S) == \A m, n \in S : m = n

\* A step loses nothing; or one node, for a fault or for a debt that it settles.  A
\* debt is made by a fault only.
Settles(o) ==
  \/ NewLoss(o) = {} /\ (Straight(o) => Straight(o)' \/ Fails)
  \/ AtMostOne(NewLoss(o)) /\ ~Straight(o) /\ Straight(o)'
  \/ AtMostOne(NewLoss(o)) /\ Fails /\ (Straight(o) => Straight(o)')

\* What the lemmas below show of a step for o.
Sound(o) == Form(o)' /\ OnlyFor(o) /\ Settles(o)

\* Looking a machine up changes only where the pass goes.
LEMMA FindSound ==
  ASSUME TInv, NEW o \in Objects, Form(o), Find(o)
  PROVE  Sound(o)
<1> DEFINE p == pass[o]
<1> USE DEF Normal, Early, Late, Deleting, NodeSteps, At, Exists
<1>0. /\ pass \in [Objects -> Pass] /\ object \in [Objects -> MaasMachine]
      /\ node \in [Nodes -> NodeStates] /\ NoNode \notin Nodes
  BY MachineLifecycleAssumption DEF TInv, TypeOK
<1>1. /\ OnlyFor(o) /\ p.pc = "find" /\ p.m = NoNode /\ p.base = p.id
      /\ object' = object /\ cache' = cache /\ node' = node /\ aged' = aged
      /\ p.finalizer = "leave"
  BY <1>0 DEF Find, OnlyFor, Goto, Form, Shape, Pass
<1>2. /\ pass'[o].pc \in {"allocate", "close", "reuse"}
      /\ pass'[o].pc = "allocate" => p.id = NoNode
      /\ pass'[o].id = p.id /\ pass'[o].base = p.base /\ pass'[o].m = p.m
      /\ pass'[o].finalizer = p.finalizer
  BY <1>0 DEF Find, Goto, Pass
<1>3. Form(o)'
  BY <1>1, <1>2 DEF Form, Shape, Stored, Deletion, Cached
<1>4. NewLoss(o) = {}
  BY <1>0, <1>1, <1>2 DEF NewLoss, Keeps, Drops, Ghost, InUse
<1>5. Straight(o) => Straight(o)'
  BY <1>1, <1>2 DEF Straight
<1> QED BY <1>1, <1>3, <1>4, <1>5 DEF Sound, Settles

\* A node is allocated to a pass that has it at hand, unless the answer is lost.
LEMMA AllocateSound ==
  ASSUME TInv, NEW o \in Objects, Form(o), Allocate(o)
  PROVE  Sound(o)
<1> DEFINE p == pass[o]
<1> USE DEF Normal, Early, Late, Deleting, NodeSteps, At, Exists
<1>0. /\ pass \in [Objects -> Pass] /\ object \in [Objects -> MaasMachine]
      /\ node \in [Nodes -> NodeStates] /\ NoNode \notin Nodes
  BY MachineLifecycleAssumption DEF TInv, TypeOK
<1>1. /\ OnlyFor(o) /\ p.pc = "allocate" /\ p.m = NoNode /\ p.id = NoNode /\ p.base = NoNode
      /\ object' = object /\ cache' = cache /\ aged' = aged /\ p.finalizer = "leave"
  BY <1>0 DEF Allocate, OnlyFor, Goto, Form, Shape, Pass
<1>2. ASSUME NEW m \in Nodes, node' = [node EXCEPT ![m] = "Allocated"],
             NEW pc \in {"reject", "patchID"},
             pass' = [pass EXCEPT ![o].m = m, ![o].pc = pc]
      PROVE  Sound(o)
  <2>1. /\ pass'[o].pc = pc /\ pass'[o].m = m /\ pass'[o].id = p.id
        /\ pass'[o].base = p.base /\ pass'[o].finalizer = p.finalizer
    BY <1>0, <1>2 DEF Pass
  <2>2. Form(o)'
    BY <1>1, <2>1 DEF Form, Shape, Stored, Deletion, Cached
  <2>3. \A n \in Nodes : n = m \/ node'[n] = node[n]
    BY <1>0, <1>2
  <2>4. NewLoss(o) = {}
    BY <1>0, <1>1, <2>1, <2>3 DEF NewLoss, Keeps, Drops, Ghost, InUse
  <2>5. Straight(o) => Straight(o)'
    BY <1>1, <2>1 DEF Straight
  <2> QED BY <1>1, <2>2, <2>4, <2>5 DEF Sound, Settles
<1>3. ASSUME pass' = [pass EXCEPT ![o].pc = "close"],
             \/ node' = node
             \/ Fails /\ \E m \in Nodes : node' = [node EXCEPT ![m] = "Allocated"]
      PROVE  Sound(o)
  <2>1. /\ pass'[o].pc = "close" /\ pass'[o].m = p.m /\ pass'[o].id = p.id
        /\ pass'[o].base = p.base /\ pass'[o].finalizer = p.finalizer
    BY <1>0, <1>3 DEF Pass
  <2>2. Form(o)'
    BY <1>1, <2>1 DEF Form, Shape, Stored, Deletion, Cached
  <2>3. \A n \in Nodes : Keeps(o, n) => Keeps(o, n)'
    BY <1>0, <1>1, <2>1 DEF Keeps, Drops, Ghost
  <2>4. Straight(o) => Straight(o)'
    BY <1>1, <2>1 DEF Straight
  <2>5. CASE node' = node
    <3>1. NewLoss(o) = {}
      BY <2>3, <2>5 DEF NewLoss, InUse
    <3> QED BY <1>1, <2>2, <2>4, <3>1 DEF Sound, Settles
  <2>6. ASSUME Fails, NEW m \in Nodes, node' = [node EXCEPT ![m] = "Allocated"]
        PROVE  Sound(o)
    <3>1. \A n \in Nodes : n = m \/ node'[n] = node[n]
      BY <1>0, <2>6
    <3>2. \A n \in NewLoss(o) : n = m
      BY <2>3, <3>1 DEF NewLoss, InUse
    <3> QED BY <1>1, <2>2, <2>4, <2>6, <3>2 DEF Sound, Settles, AtMostOne
  <2> QED BY <1>3, <2>5, <2>6
<1>4. \/ \E m \in Nodes, pc \in {"reject", "patchID"} :
           /\ node' = [node EXCEPT ![m] = "Allocated"]
           /\ pass' = [pass EXCEPT ![o].m = m, ![o].pc = pc]
      \/ /\ pass' = [pass EXCEPT ![o].pc = "close"]
         /\ \/ node' = node
            \/ Fails /\ \E m \in Nodes : node' = [node EXCEPT ![m] = "Allocated"]
  BY DEF Allocate, Goto
<1> QED BY <1>2, <1>3, <1>4

\* A release that works takes the node out of use.
LEMMA Released ==
  ASSUME TInv, NEW m \in Nodes, Release(m)
  PROVE  ~InUse(m)' /\ \A n \in Nodes : InUse(n)' => InUse(n)
BY DEF TInv, TypeOK, Release, InUse

\* A pass that drops the node it has at hand, and nothing else, loses it only by a fault.
LEMMA DropSettles ==
  ASSUME TInv, NEW o \in Objects, NEW m \in Nodes, Release(m) \/ (Fails /\ node' = node),
         \A n \in Nodes : Keeps(o, n) => Keeps(o, n)' \/ n = m
  PROVE  NewLoss(o) = {} \/ (AtMostOne(NewLoss(o)) /\ Fails)
<1>1. CASE Release(m)
  <2>1. ~InUse(m)' /\ \A n \in Nodes : InUse(n)' => InUse(n)
    BY <1>1, Released
  <2> QED BY <2>1 DEF NewLoss
<1>2. CASE Fails /\ node' = node
  <2>1. \A n \in NewLoss(o) : n = m
    BY <1>2 DEF NewLoss, InUse
  <2> QED BY <1>2, <2>1 DEF AtMostOne
<1> QED BY <1>1, <1>2

\* A rejected node is released before the pass drops it.
LEMMA RejectVMHostSound ==
  ASSUME TInv, NEW o \in Objects, Form(o), RejectVMHost(o)
  PROVE  Sound(o)
<1> DEFINE p == pass[o]
<1> USE DEF Normal, Early, Late, Deleting, NodeSteps, At, Exists
<1>0. /\ pass \in [Objects -> Pass] /\ object \in [Objects -> MaasMachine]
      /\ node \in [Nodes -> NodeStates] /\ NoNode \notin Nodes
  BY MachineLifecycleAssumption DEF TInv, TypeOK
<1>1. /\ OnlyFor(o) /\ p.pc = "reject" /\ p.m \in Nodes /\ p.base = p.id /\ p.id \in {NoNode, p.m}
      /\ object' = object /\ cache' = cache /\ aged' = aged /\ p.finalizer = "leave"
  BY <1>0 DEF RejectVMHost, OnlyFor, Form, Shape, Pass, TInv, TypeOK
<1>2. /\ pass'[o].pc = (IF p.id = NoNode THEN "close" ELSE "clear")
      /\ pass'[o].id = NoNode /\ pass'[o].base = p.base /\ pass'[o].m = p.m
      /\ pass'[o].finalizer = p.finalizer
  BY <1>0 DEF RejectVMHost, Pass
<1>3. Form(o)'
  BY <1>0, <1>1, <1>2 DEF Form, Shape, Stored, Deletion, Cached
<1>4. Release(p.m) \/ (Fails /\ node' = node)
  BY DEF RejectVMHost
<1>5. \A n \in Nodes : Keeps(o, n) => Keeps(o, n)' \/ n = p.m
  BY <1>0, <1>1, <1>2 DEF Keeps, Drops, Ghost
<1>6. Straight(o) => Straight(o)'
  BY <1>0, <1>1, <1>2 DEF Straight
<1>7. NewLoss(o) = {} \/ (AtMostOne(NewLoss(o)) /\ Fails)
  BY <1>1, <1>4, <1>5, DropSettles
<1> QED BY <1>1, <1>3, <1>6, <1>7 DEF Sound, Settles

\* Storing the ID makes the object keep what the pass has at hand.  What it named
\* before is lost, or still to be released by a deletion with the cached ID.
LEMMA PatchIDSound ==
  ASSUME TInv, NEW o \in Objects, Form(o), PatchID(o)
  PROVE  Sound(o)
<1> DEFINE p == pass[o]  v == object[o]
<1> USE DEF Normal, Early, Late, Deleting, NodeSteps, At, Exists
<1>0. /\ pass \in [Objects -> Pass] /\ object \in [Objects -> MaasMachine]
      /\ node \in [Nodes -> NodeStates] /\ NoNode \notin Nodes
  BY MachineLifecycleAssumption DEF TInv, TypeOK
<1>1. /\ OnlyFor(o) /\ p.pc = "patchID" /\ p.m \in Nodes /\ p.base = NoNode /\ p.id = NoNode
      /\ cache' = cache /\ aged' = aged /\ node' = node
      /\ p.finalizer = "leave" /\ v.stage \in {"kept", "gone"}
  BY <1>0 DEF PatchID, PatchFails, OnlyFor, Form, Shape, Stored, Pass, TInv, TypeOK
<1>2. ASSUME Exists(v), object' = [object EXCEPT ![o].id = p.m],
             pass' = [pass EXCEPT ![o].id = p.m, ![o].pc = "deploy",
                        ![o].base = IF HelperRebases THEN p.m ELSE @]
      PROVE  Sound(o)
  <2>1. /\ pass'[o].pc = "deploy" /\ pass'[o].id = p.m /\ pass'[o].m = p.m
        /\ pass'[o].base \in {NoNode, p.m} /\ pass'[o].finalizer = p.finalizer
    BY <1>0, <1>1, <1>2 DEF Pass
  <2>2. object'[o].id = p.m /\ object'[o].stage = "kept" /\ object'[o].deleting = v.deleting
        /\ v.stage = "kept"
    BY <1>0, <1>1, <1>2 DEF MaasMachine
  <2>3. Form(o)'
    BY <1>0, <1>1, <1>2, <2>1, <2>2 DEF Form, Shape, Stored, Deletion, Cached
  <2>4. \A n \in Nodes : Keeps(o, n) => Keeps(o, n)' \/ (n = v.id /\ ~cache[o].deleting)
    BY <1>0, <1>1, <2>1, <2>2 DEF Keeps, Drops, Ghost, Form, Cached
  <2>5. NewLoss(o) = {} \/ (~cache[o].deleting /\ v.id # NoNode /\ AtMostOne(NewLoss(o)))
    <3>1. \A n \in NewLoss(o) : n = v.id /\ n # NoNode /\ ~cache[o].deleting
      BY <1>0, <1>1, <2>4 DEF NewLoss, InUse
    <3> QED BY <3>1 DEF AtMostOne
  <2>6. v.id = NoNode \/ ~cache[o].deleting => Straight(o)'
    BY <1>1, <2>1, <2>2 DEF Straight, Form, Cached
  <2>7. Straight(o) => v.id = NoNode
    BY <1>1 DEF Straight
  <2> QED BY <1>1, <2>3, <2>5, <2>6, <2>7 DEF Sound, Settles
<1>3. ASSUME object' = object, pass' = [pass EXCEPT ![o].id = p.m, ![o].pc = "close"]
      PROVE  Sound(o)
  <2>1. /\ pass'[o].pc = "close" /\ pass'[o].id = p.m /\ pass'[o].m = p.m
        /\ pass'[o].base = p.base /\ pass'[o].finalizer = p.finalizer
    BY <1>0, <1>3 DEF Pass
  <2>3. Form(o)'
    BY <1>0, <1>1, <1>3, <2>1 DEF Form, Shape, Stored, Deletion, Cached
  <2>4. \A n \in Nodes : Keeps(o, n) => Keeps(o, n)' \/ (n = p.m /\ ~Exists(v))
    BY <1>0, <1>1, <1>3, <2>1 DEF Keeps, Drops, Ghost
  <2>5. NewLoss(o) = {} \/ (~Exists(v) /\ AtMostOne(NewLoss(o)))
    <3>1. \A n \in NewLoss(o) : n = p.m /\ ~Exists(v)
      BY <1>1, <2>4 DEF NewLoss, InUse
    <3> QED BY <3>1 DEF AtMostOne
  <2>6. ~Exists(v) => Straight(o)' /\ ~Straight(o)
    BY <1>1, <1>3, <2>1 DEF Straight
  <2>7. Straight(o) => Straight(o)'
    BY <1>0, <1>1, <1>3, <2>1 DEF Straight
  <2> QED BY <1>1, <2>3, <2>5, <2>6, <2>7 DEF Sound, Settles
<1> QED BY <1>2, <1>3 DEF PatchID, PatchFails

\* A node that is used again is one that the pass has in memory.
LEMMA ReuseSound ==
  ASSUME TInv, NEW o \in Objects, Form(o), Reuse(o)
  PROVE  Sound(o)
<1> DEFINE p == pass[o]
<1> USE DEF Normal, Early, Late, Deleting, NodeSteps, At, Exists
<1>0. /\ pass \in [Objects -> Pass] /\ object \in [Objects -> MaasMachine]
      /\ node \in [Nodes -> NodeStates] /\ NoNode \notin Nodes
  BY MachineLifecycleAssumption DEF TInv, TypeOK
<1>1. /\ OnlyFor(o) /\ p.pc = "reuse" /\ p.base = p.id /\ p.m = NoNode /\ p.id # NoNode
      /\ object' = object /\ cache' = cache /\ aged' = aged /\ node' = node
      /\ p.finalizer = "leave"
  BY <1>0 DEF Reuse, OnlyFor, Goto, Form, Shape, Pass, TInv, PassesTyped
<1>2. /\ pass'[o].id = p.id /\ pass'[o].base = p.base /\ pass'[o].finalizer = p.finalizer
      /\ \/ pass'[o].pc \in {"reject", "deploy"} /\ pass'[o].m = p.id
         \/ pass'[o].pc = "close" /\ pass'[o].m = p.m
  BY <1>0 DEF Reuse, Goto, Pass
<1>3. Form(o)'
  BY <1>0, <1>1, <1>2 DEF Form, Shape, Stored, Deletion, Cached
<1>4. NewLoss(o) = {}
  BY <1>0, <1>1, <1>2 DEF NewLoss, Keeps, Drops, Ghost, InUse
<1>5. Straight(o) => Straight(o)'
  BY <1>1, <1>2 DEF Straight
<1> QED BY <1>1, <1>3, <1>4, <1>5 DEF Sound, Settles

\* A pass that has deployed a node that the object does not name loses it now.
LEMMA DeploySound ==
  ASSUME TInv, NEW o \in Objects, Form(o), Deploy(o)
  PROVE  Sound(o)
<1> DEFINE p == pass[o]  v == object[o]
<1> USE DEF Normal, Early, Late, Deleting, NodeSteps, At, Exists
<1>0. /\ pass \in [Objects -> Pass] /\ object \in [Objects -> MaasMachine]
      /\ node \in [Nodes -> NodeStates] /\ NoNode \notin Nodes
  BY MachineLifecycleAssumption DEF TInv, TypeOK
<1>1. /\ OnlyFor(o) /\ p.pc = "deploy" /\ p.m \in Nodes /\ p.id = p.m /\ p.base \in {NoNode, p.m}
      /\ object' = object /\ cache' = cache /\ aged' = aged /\ p.finalizer = "leave"
      /\ node' = node \/ node' = [node EXCEPT ![p.m] = "Deploying"]
  BY <1>0 DEF Deploy, OnlyFor, Goto, Form, Shape, Pass, TInv, TypeOK
<1>2. /\ pass'[o].pc \in {"close", "rollback"}
      /\ pass'[o].id = p.id /\ pass'[o].base = p.base /\ pass'[o].m = p.m
      /\ pass'[o].finalizer = p.finalizer
  BY <1>0 DEF Deploy, Goto, Pass
<1>3. Form(o)'
  BY <1>0, <1>1, <1>2 DEF Form, Shape, Stored, Deletion, Cached
<1>4. \A n \in Nodes : n = p.m \/ node'[n] = node[n]
  BY <1>0, <1>1
<1>5. Keeps(o, p.m)
  BY <1>1 DEF Keeps
<1>6. \A n \in Nodes :
        Keeps(o, n) /\ ~Keeps(o, n)'
          => n = p.m /\ pass'[o].pc = "close" /\ ~(v.id = p.m /\ Exists(v))
  BY <1>0, <1>1, <1>2 DEF Keeps, Drops, Ghost
<1>7. \A n \in NewLoss(o) : n = p.m /\ pass'[o].pc = "close" /\ ~(v.id = p.m /\ Exists(v))
  BY <1>4, <1>5, <1>6 DEF NewLoss, InUse
<1>8. Straight(o) => v.id = p.m /\ Exists(v) /\ Straight(o)'
  BY <1>0, <1>1, <1>2 DEF Straight
<1>9. pass'[o].pc = "close" /\ ~(v.id = p.m /\ Exists(v)) => Straight(o)'
  BY <1>1, <1>2 DEF Straight, Form, Stored, Cached
<1> QED BY <1>1, <1>3, <1>7, <1>8, <1>9 DEF Sound, Settles, AtMostOne

\* A node that is rolled back is released before the pass drops it.
LEMMA RollbackSound ==
  ASSUME TInv, NEW o \in Objects, Form(o), Rollback(o)
  PROVE  Sound(o)
<1> DEFINE p == pass[o]
<1> USE DEF Normal, Early, Late, Deleting, NodeSteps, At, Exists
<1>0. /\ pass \in [Objects -> Pass] /\ object \in [Objects -> MaasMachine]
      /\ node \in [Nodes -> NodeStates] /\ NoNode \notin Nodes
  BY MachineLifecycleAssumption DEF TInv, TypeOK
<1>1. /\ OnlyFor(o) /\ p.pc = "rollback" /\ p.m \in Nodes /\ p.id = p.m /\ p.base \in {NoNode, p.m}
      /\ object' = object /\ cache' = cache /\ aged' = aged /\ p.finalizer = "leave"
  BY <1>0 DEF Rollback, OnlyFor, Form, Shape, Pass, TInv, TypeOK
<1>2. /\ pass'[o].pc = "clear" /\ pass'[o].id = NoNode
      /\ pass'[o].base = p.base /\ pass'[o].m = p.m
      /\ pass'[o].finalizer = p.finalizer
  BY <1>0 DEF Rollback, Pass
<1>3. Form(o)'
  BY <1>0, <1>1, <1>2 DEF Form, Shape, Stored, Deletion, Cached
<1>4. Release(p.m) \/ (Fails /\ node' = node)
  BY DEF Rollback
<1>5. \A n \in Nodes : Keeps(o, n) => Keeps(o, n)' \/ n = p.m
  BY <1>0, <1>1, <1>2 DEF Keeps, Drops, Ghost
<1>6. Straight(o) => Straight(o)'
  BY <1>0, <1>1, <1>2 DEF Straight
<1>7. NewLoss(o) = {} \/ (AtMostOne(NewLoss(o)) /\ Fails)
  BY <1>1, <1>4, <1>5, DropSettles
<1> QED BY <1>1, <1>3, <1>6, <1>7 DEF Sound, Settles

\* Clearing the ID takes from the object what it names, if the helper sends it: the
\* node that was rolled back, or another one, by a pass that began with a stale read.
LEMMA ClearIDSound ==
  ASSUME TInv, NEW o \in Objects, Form(o), ClearID(o)
  PROVE  Sound(o)
<1> DEFINE p == pass[o]  v == object[o]  c == cache[o]
<1> USE DEF Normal, Early, Late, Deleting, NodeSteps, At, Exists
<1>0. /\ pass \in [Objects -> Pass] /\ object \in [Objects -> MaasMachine]
      /\ node \in [Nodes -> NodeStates] /\ NoNode \notin Nodes
  BY MachineLifecycleAssumption DEF TInv, TypeOK
<1>1. /\ OnlyFor(o) /\ p.pc = "clear" /\ p.id = NoNode /\ p.base \in {NoNode, p.m}
      /\ cache' = cache /\ aged' = aged /\ node' = node
      /\ p.finalizer = "leave" /\ v.stage \in {"kept", "gone"}
  BY <1>0 DEF ClearID, PatchFails, OnlyFor, Goto, Form, Shape, Stored, Pass
<1>2. ASSUME Exists(v), object' = [object EXCEPT ![o] = Patched(o)],
             pass' = [pass EXCEPT ![o].pc = "close", ![o].base = BaseAfterPatch(o)]
      PROVE  Sound(o)
  <2>1. /\ pass'[o].pc = "close" /\ pass'[o].id = NoNode /\ pass'[o].m = p.m
        /\ pass'[o].base \in {NoNode, p.base} /\ pass'[o].finalizer = p.finalizer
    BY <1>0, <1>1, <1>2 DEF Pass, BaseAfterPatch
  <2>2. /\ object'[o].id = IF p.base = NoNode THEN v.id ELSE NoNode
        /\ object'[o].stage = v.stage /\ object'[o].deleting = v.deleting
    <3>1. object'[o] = [v EXCEPT !.id = IF NoNode = p.base THEN @ ELSE NoNode]
      BY <1>0, <1>1, <1>2 DEF Patched
    <3> QED BY <1>0, <3>1 DEF MaasMachine
  <2>3. Form(o)'
    <3>1. o \notin aged /\ v.stage = "kept"
      BY <1>1, <1>2 DEF Form, Deletion
    <3> QED BY <1>0, <1>1, <2>1, <2>2, <3>1 DEF Form, Shape, Stored, Deletion, Cached
  <2>4. CASE p.base = NoNode
    <3>1. NewLoss(o) = {}
      BY <1>0, <1>1, <2>1, <2>2, <2>4 DEF NewLoss, Keeps, Drops, Ghost, InUse
    <3>2. Straight(o) => Straight(o)'
      BY <1>1, <2>1, <2>2, <2>4 DEF Straight
    <3> QED BY <1>1, <2>3, <3>1, <3>2 DEF Sound, Settles
  <2>5. CASE p.base = p.m /\ p.m # NoNode
    <3>1. Straight(o)'
      BY <1>1, <2>1, <2>2, <2>5 DEF Straight
    <3>2. \A n \in NewLoss(o) :
            \/ n = v.id /\ v.id # p.m
            \/ n = c.id /\ c.deleting /\ v.id \notin {n, NoNode}
      BY <1>0, <1>1, <2>1, <2>2, <2>5 DEF NewLoss, Keeps, Drops, Ghost, InUse
    <3>3. c.deleting => v.id = p.m \/ c.id = v.id
      BY <1>1 DEF Form, Cached
    <3>4. AtMostOne(NewLoss(o))
      BY <3>2, <3>3 DEF AtMostOne
    <3>5. Straight(o) => NewLoss(o) = {}
      BY <1>0, <1>1, <1>2, <3>2 DEF Straight, NewLoss
    <3> QED BY <1>1, <2>3, <3>1, <3>4, <3>5 DEF Sound, Settles
  <2> QED BY <1>1, <2>4, <2>5
<1>3. ASSUME object' = object, pass' = [pass EXCEPT ![o].pc = "close"]
      PROVE  Sound(o)
  <2>1. /\ pass'[o].pc = "close" /\ pass'[o].id = NoNode /\ pass'[o].m = p.m
        /\ pass'[o].base = p.base /\ pass'[o].finalizer = p.finalizer
    BY <1>0, <1>1, <1>3 DEF Pass
  <2>2. Form(o)'
    <3>1. v.id # p.m /\ c.deleting => c.id = v.id
      BY <1>1 DEF Form, Cached
    <3> QED BY <1>0, <1>1, <1>3, <2>1, <3>1 DEF Form, Shape, Stored, Deletion, Cached
  <2>3. NewLoss(o) = {}
    BY <1>0, <1>1, <1>3, <2>1 DEF NewLoss, Keeps, Drops, Ghost, InUse
  <2>4. Straight(o) => Straight(o)'
    BY <1>0, <1>1, <1>3, <2>1 DEF Straight
  <2> QED BY <1>1, <2>2, <2>3, <2>4 DEF Sound, Settles
<1> QED BY <1>2, <1>3 DEF ClearID, PatchFails, Goto

\* An object is finalized without a release only if it really names no node:
\* within two minutes of its deletion a stale read may say so wrongly.
LEMMA FindToReleaseSound ==
  ASSUME TInv, NEW o \in Objects, Form(o), FindToRelease(o)
  PROVE  Sound(o)
<1> DEFINE p == pass[o]
<1> USE DEF Normal, Early, Late, Deleting, NodeSteps, At, Exists
<1>0. /\ pass \in [Objects -> Pass] /\ object \in [Objects -> MaasMachine]
      /\ node \in [Nodes -> NodeStates] /\ NoNode \notin Nodes
  BY MachineLifecycleAssumption DEF TInv, TypeOK
<1>1. /\ OnlyFor(o) /\ p.pc = "findToRelease" /\ p.m = NoNode /\ p.base = p.id
      /\ object' = object /\ cache' = cache /\ aged' = aged /\ node' = node
      /\ p.finalizer = "leave"
  BY <1>0 DEF FindToRelease, OnlyFor, Goto, Form, Shape, Pass
<1>2. ASSUME p.id = NoNode,
             pass' = [pass EXCEPT ![o].pc = "close",
                        ![o].finalizer = IF o \in aged THEN "remove" ELSE "leave"]
      PROVE  Sound(o)
  <2>1. /\ pass'[o].pc = "close" /\ pass'[o].id = p.id /\ pass'[o].base = p.base
        /\ pass'[o].m = p.m
        /\ pass'[o].finalizer = IF o \in aged THEN "remove" ELSE "leave"
    BY <1>0, <1>2 DEF Pass
  <2>2. Form(o)'
    BY <1>1, <1>2, <2>1 DEF Form, Shape, Stored, Deletion, Cached
  <2>3. NewLoss(o) = {}
    BY <1>0, <1>1, <1>2, <2>1 DEF NewLoss, Keeps, Drops, Ghost, InUse, Form, Deletion
  <2>4. Straight(o) => Straight(o)'
    BY <1>1, <1>2, <2>1 DEF Straight, Form, Deletion
  <2> QED BY <1>1, <2>2, <2>3, <2>4 DEF Sound, Settles
<1>3. ASSUME p.id # NoNode, pass' = [pass EXCEPT ![o].pc = "release", ![o].m = p.id]
      PROVE  Sound(o)
  <2>1. /\ pass'[o].pc = "release" /\ pass'[o].id = p.id /\ pass'[o].base = p.base
        /\ pass'[o].m = p.id /\ pass'[o].finalizer = p.finalizer
    BY <1>0, <1>3 DEF Pass
  <2>2. Form(o)'
    BY <1>1, <1>3, <2>1 DEF Form, Shape, Stored, Deletion, Cached
  <2>3. NewLoss(o) = {}
    BY <1>0, <1>1, <1>3, <2>1 DEF NewLoss, Keeps, Drops, Ghost, InUse
  <2>4. Straight(o) => Straight(o)'
    BY <1>1, <2>1 DEF Straight
  <2> QED BY <1>1, <2>2, <2>3, <2>4 DEF Sound, Settles
<1>4. ASSUME Fails, pass' = [pass EXCEPT ![o].pc = "close"]
      PROVE  Sound(o)
  <2>1. /\ pass'[o].pc = "close" /\ pass'[o].id = p.id /\ pass'[o].base = p.base
        /\ pass'[o].m = p.m /\ pass'[o].finalizer = p.finalizer
    BY <1>0, <1>4 DEF Pass
  <2>2. Form(o)'
    BY <1>1, <2>1 DEF Form, Shape, Stored, Deletion, Cached
  <2>3. \A n \in NewLoss(o) : n = p.id
    BY <1>0, <1>1, <2>1 DEF NewLoss, Keeps, Drops, Ghost, InUse
  <2>4. Straight(o) => Straight(o)'
    BY <1>1, <2>1 DEF Straight
  <2> QED BY <1>1, <1>4, <2>2, <2>3, <2>4 DEF Sound, Settles, AtMostOne
<1> QED BY <1>2, <1>3, <1>4 DEF FindToRelease, Goto

\* The node is released before the finalizer is dropped.
LEMMA ReleaseMachineSound ==
  ASSUME TInv, NEW o \in Objects, Form(o), ReleaseMachine(o)
  PROVE  Sound(o)
<1> DEFINE p == pass[o]
<1> USE DEF Normal, Early, Late, Deleting, NodeSteps, At, Exists
<1>0. /\ pass \in [Objects -> Pass] /\ object \in [Objects -> MaasMachine]
      /\ node \in [Nodes -> NodeStates] /\ NoNode \notin Nodes
  BY MachineLifecycleAssumption DEF TInv, TypeOK
<1>1. /\ OnlyFor(o) /\ p.pc = "release" /\ p.m = p.id /\ p.base = p.id /\ p.m \in Nodes
      /\ object' = object /\ cache' = cache /\ aged' = aged /\ p.finalizer = "leave"
  BY <1>0 DEF ReleaseMachine, OnlyFor, Goto, Form, Shape, Pass, TInv, TypeOK
<1>2. /\ pass'[o].pc = "close" /\ pass'[o].id = p.id /\ pass'[o].base = p.base
      /\ pass'[o].m = p.m /\ pass'[o].finalizer \in {"leave", "remove"}
  BY <1>0, <1>1 DEF ReleaseMachine, Goto, Pass
<1>3. Release(p.m) \/ (Fails /\ node' = node)
  BY DEF ReleaseMachine
<1>4. Form(o)'
  BY <1>0, <1>1, <1>2 DEF Form, Shape, Stored, Deletion, Cached
<1>5. \A n \in Nodes : Keeps(o, n) => Keeps(o, n)' \/ n = p.m
  BY <1>0, <1>1, <1>2 DEF Keeps, Drops, Ghost, Form, Cached
<1>6. Straight(o) => Straight(o)'
  BY <1>0, <1>1, <1>2 DEF Straight
<1>7. NewLoss(o) = {} \/ (AtMostOne(NewLoss(o)) /\ Fails)
  BY <1>1, <1>3, <1>5, DropSettles
<1> QED BY <1>1, <1>4, <1>6, <1>7 DEF Sound, Settles

\* Objects with the same fields are the same.
LEMMA SameObject ==
  ASSUME NEW v \in MaasMachine, NEW w \in MaasMachine,
         v.stage = w.stage, v.deleting = w.deleting, v.id = w.id
  PROVE  v = w
BY DEF MaasMachine

\* What Close stores over another node is lost, or still to be released by a deletion
\* with the cached ID; what it removes names nothing but what was released.
LEMMA CloseSound ==
  ASSUME TInv, NEW o \in Objects, Form(o), Close(o)
  PROVE  Sound(o)
<1> DEFINE p == pass[o]  v == object[o]  c == cache[o]
<1> USE DEF Normal, Early, Late, Deleting, NodeSteps, At, Exists
<1>0. /\ pass \in [Objects -> Pass] /\ object \in [Objects -> MaasMachine]
      /\ node \in [Nodes -> NodeStates] /\ NoNode \notin Nodes
  BY MachineLifecycleAssumption DEF TInv, TypeOK
<1>1. /\ OnlyFor(o) /\ p.pc = "close" /\ pass'[o] = Idle
      /\ cache' = cache /\ aged' = aged /\ node' = node
      /\ v.stage \in {"absent", "bare", "kept", "gone"} /\ v.id \in Nodes \cup {NoNode}
      /\ p.finalizer \in {"leave", "add", "remove"}
  BY <1>0 DEF Close, PatchFails, OnlyFor, Pass, MaasMachine
<1>i. /\ Idle.pc = "idle" /\ Idle.id = NoNode /\ Idle.base = NoNode /\ Idle.m = NoNode
      /\ Idle.finalizer = "leave"
  BY DEF Idle
<1>2. ASSUME Exists(v),
             object' = [object EXCEPT ![o] =
               [Patched(o) EXCEPT !.stage = CASE p.finalizer = "leave"  -> @
                                              [] p.finalizer = "add"    -> "kept"
                                              [] p.finalizer = "remove" -> "gone"]]
      PROVE  Sound(o)
  <2>1. /\ object'[o].id = (IF p.id = p.base THEN v.id ELSE p.id)
        /\ object'[o].deleting = v.deleting /\ object'[o] \in MaasMachine
        /\ object'[o].stage = CASE p.finalizer = "leave"  -> v.stage
                                [] p.finalizer = "add"    -> "kept"
                                [] p.finalizer = "remove" -> "gone"
    <3>1. Patched(o) = [v EXCEPT !.id = IF p.id = p.base THEN @ ELSE p.id]
      BY DEF Patched
    <3>2. /\ Patched(o) \in MaasMachine /\ Patched(o).stage = v.stage
          /\ Patched(o).id = (IF p.id = p.base THEN v.id ELSE p.id)
          /\ Patched(o).deleting = v.deleting
      BY <1>0, <3>1, PatchTyped DEF MaasMachine
    <3>3. object'[o] = [Patched(o) EXCEPT !.stage = CASE p.finalizer = "leave"  -> @
                                                      [] p.finalizer = "add"    -> "kept"
                                                      [] p.finalizer = "remove" -> "gone"]
      BY <1>0, <1>2
    <3> DEFINE stage == CASE p.finalizer = "leave"  -> v.stage
                          [] p.finalizer = "add"    -> "kept"
                          [] p.finalizer = "remove" -> "gone"
    <3>4. stage \in {"absent", "bare", "kept", "gone"}
      BY <1>1
    <3>5. object'[o] = [Patched(o) EXCEPT !.stage = stage]
      BY <3>2, <3>3
    <3> HIDE DEF stage
    <3>6. /\ object'[o] \in MaasMachine /\ object'[o].id = Patched(o).id
          /\ object'[o].deleting = Patched(o).deleting /\ object'[o].stage = stage
      BY <3>2, <3>4, <3>5 DEF MaasMachine
    <3> QED BY <3>2, <3>6 DEF stage
  <2>2. CASE p.finalizer = "remove"
    <3>1. p.m = p.id /\ p.base = p.id /\ object'[o].stage = "gone" /\ object'[o].id = v.id
      BY <2>1, <2>2 DEF Form, Shape
    <3>2. Form(o)'
      BY <1>1, <1>2, <1>i, <2>1, <3>1 DEF Form, Shape, Stored, Deletion, Cached
    <3>3. Straight(o)'
      BY <1>1, <1>i, <3>1 DEF Straight
    <3>4. \A n \in NewLoss(o) : n = v.id /\ v.id \notin {p.id, NoNode}
      BY <1>0, <1>1, <2>2, <3>1 DEF NewLoss, Keeps, Drops, Ghost, InUse
    <3>5. Straight(o) => NewLoss(o) = {}
      BY <1>1, <1>2, <2>2, <3>4 DEF Straight
    <3> QED BY <1>1, <3>2, <3>3, <3>4, <3>5 DEF Sound, Settles, AtMostOne
  <2>3. CASE p.finalizer # "remove" /\ p.id = p.base
    <3>1. object'[o].id = v.id /\ object'[o].stage \in {v.stage, "kept"}
      BY <1>1, <2>1, <2>3
    <3>2. Form(o)'
      <4>1. o \in aged => object'[o] = v
        <5>1. ASSUME o \in aged
              PROVE  v.stage = "kept"
          BY <1>2, <5>1 DEF Form, Deletion
        <5>2. v \in MaasMachine
          BY <1>0
        <5> QED BY <2>1, <3>1, <5>1, <5>2, SameObject
      <4> QED BY <1>1, <1>2, <1>i, <2>1, <3>1, <4>1 DEF Form, Shape, Stored, Deletion, Cached
    <3>3. NewLoss(o) = {}
      BY <1>0, <1>1, <1>2, <1>i, <2>3, <3>1 DEF NewLoss, Keeps, Drops, Ghost, InUse
    <3>4. Straight(o) => Straight(o)'
      BY <1>1, <1>2, <1>i, <3>1 DEF Straight
    <3> QED BY <1>1, <3>2, <3>3, <3>4 DEF Sound, Settles
  <2>4. CASE p.finalizer # "remove" /\ p.id # p.base
    <3>1. /\ p.finalizer = "leave" /\ p.id \in {NoNode, p.m} /\ o \notin aged
          /\ v.stage = "kept" /\ object'[o].stage = "kept" /\ object'[o].id = p.id
          /\ c.deleting => v.id \in {p.id, p.m} \/ c.id = v.id
      BY <1>1, <1>2, <2>1, <2>4 DEF Form, Shape, Stored, Deletion, Cached
    <3>2. Form(o)'
      BY <1>1, <1>i, <2>1, <3>1 DEF Form, Shape, Stored, Deletion, Cached
    <3>3. CASE p.id = NoNode
      <4>1. Straight(o)'
        BY <1>1, <1>i, <3>1, <3>3 DEF Straight
      <4>2. \A n \in NewLoss(o) :
              \/ n = v.id /\ v.id \notin {p.m, NoNode}
              \/ n = c.id /\ c.deleting /\ v.id \notin {n, NoNode}
        BY <1>0, <1>1, <1>i, <3>1, <3>3 DEF NewLoss, Keeps, Drops, Ghost, InUse
      <4>3. AtMostOne(NewLoss(o))
        BY <3>1, <3>3, <4>2 DEF AtMostOne
      <4>4. Straight(o) => NewLoss(o) = {}
        BY <1>0, <1>1, <1>2, <2>4, <3>3, <4>2 DEF Straight, NewLoss
      <4> QED BY <1>1, <3>2, <4>1, <4>3, <4>4 DEF Sound, Settles
    <3>4. CASE p.id = p.m /\ p.m # NoNode
      <4>1. \A n \in NewLoss(o) : n = v.id /\ v.id \notin {p.id, NoNode} /\ ~c.deleting
        BY <1>0, <1>1, <1>i, <3>1, <3>4 DEF NewLoss, Keeps, Drops, Ghost, InUse
      <4>2. ~c.deleting => Straight(o)'
        BY <1>1, <1>i, <3>1 DEF Straight
      <4>3. Straight(o) => Straight(o)' /\ NewLoss(o) = {}
        BY <1>1, <1>2, <1>i, <2>4, <3>1, <3>4, <4>1 DEF Straight
      <4> QED BY <1>1, <3>2, <4>1, <4>2, <4>3 DEF Sound, Settles, AtMostOne
    <3> QED BY <3>1, <3>3, <3>4
  <2> QED BY <2>2, <2>3, <2>4
<1>3. ASSUME object' = object, Exists(v) => Fails
      PROVE  Sound(o)
  <2>1. Form(o)'
    BY <1>1, <1>3, <1>i DEF Form, Shape, Stored, Deletion, Cached
  <2>2. \A n \in NewLoss(o) : n = p.id /\ Exists(v)
    BY <1>0, <1>1, <1>3, <1>i DEF NewLoss, Keeps, Drops, Ghost, InUse
  <2>3. Straight(o) => Straight(o)'
    BY <1>1, <1>3, <1>i DEF Straight
  <2> QED BY <1>1, <1>3, <2>1, <2>2, <2>3 DEF Sound, Settles, AtMostOne
<1> QED BY <1>2, <1>3 DEF Close, PatchFails

\* A pass begins with a current object, with one that is being deleted, or by a fault.
LEMMA ReconcileSound ==
  ASSUME TInv, NEW o \in Objects, Form(o), Reconcile(o)
  PROVE  Sound(o)
<1> DEFINE v == object[o]  c == cache[o]
           q == [Idle EXCEPT !.id = c.id, !.base = c.id,
                   !.pc = IF c.deleting THEN "findToRelease"
                          ELSE IF c.stage = "bare" THEN "close" ELSE "find",
                   !.finalizer = IF c.stage = "bare" THEN "add" ELSE "leave"]
<1> USE DEF Normal, Early, Late, Deleting, NodeSteps, At, Exists
<1>0. /\ pass \in [Objects -> Pass] /\ object \in [Objects -> MaasMachine]
      /\ cache \in [Objects -> MaasMachine]
      /\ node \in [Nodes -> NodeStates] /\ NoNode \notin Nodes
  BY MachineLifecycleAssumption DEF TInv, TypeOK
<1>1. /\ OnlyFor(o) /\ pass[o] = Idle /\ pass'[o] = q /\ Exists(c)
      /\ object' = object /\ cache' = cache /\ aged' = aged /\ node' = node
  BY <1>0 DEF Reconcile, OnlyFor, Form, Shape
<1>2. /\ q.id = c.id /\ q.base = c.id /\ q.m = NoNode
      /\ q.pc = IF c.deleting THEN "findToRelease"
                ELSE IF c.stage = "bare" THEN "close" ELSE "find"
      /\ q.finalizer = IF c.stage = "bare" THEN "add" ELSE "leave"
      /\ Idle.pc = "idle" /\ Idle.id = NoNode /\ Idle.base = NoNode /\ Idle.m = NoNode
      /\ Idle.finalizer = "leave"
  BY DEF Idle
<1>3. c = v \/ c.deleting \/ Fails
  BY DEF Reconcile
<1> HIDE DEF q
<1>4. c.deleting => c.stage = "kept"
  BY <1>1 DEF Form, Deletion
<1>5. Form(o)'
  <2>1. Shape(o)' /\ Stored(o)'
    BY <1>1, <1>2, <1>4 DEF Form, Shape, Stored
  <2>2. Deletion(o)'
    BY <1>1, <1>2, <1>4 DEF Form, Deletion
  <2>3. Cached(o)'
    BY <1>1, <1>2, <1>4 DEF Form, Cached
  <2> QED BY <2>1, <2>2, <2>3 DEF Form
<1>6. NewLoss(o) = {}
  BY <1>0, <1>1, <1>2, <1>4 DEF NewLoss, Keeps, Drops, Ghost, InUse
<1>7. Straight(o) => Straight(o)' \/ Fails
  BY <1>1, <1>2, <1>3, <1>4 DEF Straight
<1> QED BY <1>1, <1>5, <1>6, <1>7 DEF Sound, Settles

\* What happens to an object around the controller.
LEMMA AroundSound ==
  ASSUME TInv, NEW o \in Objects, Form(o), Create(o) \/ Delete(o) \/ Age(o)
  PROVE  Sound(o)
<1> DEFINE p == pass[o]  v == object[o]
<1> USE DEF Normal, Early, Late, Deleting, NodeSteps, At, Exists
<1>0. /\ pass \in [Objects -> Pass] /\ object \in [Objects -> MaasMachine]
      /\ node \in [Nodes -> NodeStates] /\ NoNode \notin Nodes
  BY MachineLifecycleAssumption DEF TInv, TypeOK
<1>1. OnlyFor(o) /\ pass' = pass /\ node' = node /\ cache' = cache
  BY <1>0 DEF OnlyFor, Create, Delete, Age
<1>2. \/ /\ object' = object /\ v.deleting /\ cache[o] = v /\ p = Idle
         /\ aged' = aged \cup {o}
      \/ /\ object'[o].id = v.id /\ aged' = aged
         /\ \/ /\ v.stage = "absent" /\ object'[o].stage = "bare"
               /\ object'[o].deleting = v.deleting
            \/ /\ ~v.deleting /\ object'[o].deleting
               /\ \/ v.stage = "bare" /\ object'[o].stage = "gone"
                  \/ v.stage = "kept" /\ object'[o].stage = "kept"
  BY <1>0 DEF Create, Delete, Age, MaasMachine, Form, Shape
<1>i. Idle.pc = "idle" /\ Idle.id = NoNode /\ Idle.base = NoNode /\ Idle.finalizer = "leave"
  BY DEF Idle
<1>3. Form(o)'
  BY <1>1, <1>2, <1>i DEF Form, Shape, Stored, Deletion, Cached
<1>4. NewLoss(o) = {}
  BY <1>0, <1>1, <1>2 DEF NewLoss, Keeps, Drops, Ghost, InUse, Form, Stored
<1>5. Straight(o) => Straight(o)'
  BY <1>1, <1>2 DEF Straight, Form, Stored, Shape, Deletion
<1> QED BY <1>1, <1>3, <1>4, <1>5 DEF Sound, Settles

\* When the informer catches up, the node that only the old version named is lost,
\* unless the pass has read it.
LEMMA SyncSound ==
  ASSUME TInv, NEW o \in Objects, Form(o), Sync(o)
  PROVE  Sound(o)
<1> DEFINE p == pass[o]  v == object[o]  c == cache[o]
<1> USE DEF Normal, Early, Late, Deleting, NodeSteps, At, Exists
<1>0. /\ pass \in [Objects -> Pass] /\ object \in [Objects -> MaasMachine]
      /\ cache \in [Objects -> MaasMachine] /\ NoNode \notin Nodes
      /\ p.pc \in PassSteps
  BY MachineLifecycleAssumption DEF TInv, TypeOK, Pass
<1>1. /\ OnlyFor(o) /\ pass' = pass /\ node' = node /\ object' = object /\ aged' = aged
      /\ cache'[o] = v
  BY <1>0 DEF OnlyFor, Sync
<1>2. Form(o)'
  BY <1>1 DEF Form, Shape, Stored, Deletion, Cached
<1>3. Straight(o) => Straight(o)'
  BY <1>1 DEF Straight
<1>4. \A n \in NewLoss(o) : n = c.id /\ Ghost(o, n) /\ ~(p.pc \in Deleting /\ p.id = n)
  BY <1>1 DEF NewLoss, Keeps, Drops, Ghost, InUse
<1>5. ASSUME NEW n \in NewLoss(o)
      PROVE  Straight(o)' /\ ~Straight(o)
  <2>1. /\ Exists(v) /\ v.id \notin {n, NoNode} /\ p.finalizer # "remove"
        /\ c.deleting /\ c.id = n /\ n # NoNode /\ ~(p.pc \in Deleting /\ p.id = n)
    BY <1>0, <1>4, <1>5 DEF Ghost, NewLoss
  <2>2. ~Straight(o)
    BY <2>1 DEF Straight
  <2>3. p.pc \notin Early /\ (p.pc \in Deleting => p.id = NoNode)
    BY <2>1 DEF Form, Cached
  <2>4. p.pc \in Late => v.stage = "kept" /\ v.id = p.m
    BY <2>1 DEF Form, Stored, Cached
  <2>5. p.pc = "close" /\ p.id # p.base => v.id = p.m /\ p.id \in {NoNode, p.m}
    BY <2>1 DEF Form, Shape, Cached
  <2> QED BY <1>1, <2>1, <2>2, <2>3, <2>4, <2>5 DEF Straight
<1> QED BY <1>1, <1>2, <1>3, <1>4, <1>5 DEF Sound, Settles, AtMostOne

\* All that is done for one object.
StepsFor(o) ==
  Reconcile(o) \/ Step(o) \/ Create(o) \/ Delete(o) \/ Sync(o) \/ Age(o)

LEMMA StepSound ==
  ASSUME TInv, NEW o \in Objects, Form(o), StepsFor(o)
  PROVE  Sound(o)
BY ReconcileSound, FindSound, AllocateSound, RejectVMHostSound, PatchIDSound, ReuseSound,
   DeploySound, RollbackSound, ClearIDSound, FindToReleaseSound, ReleaseMachineSound,
   CloseSound, AroundSound, SyncSound DEF Step, StepsFor

-----------------------------------------------------------------------------
(* Counting: the debts of all objects together. *)

\* The members of two sets together are no more than those of each.
LEMMA AtMostBoth ==
  ASSUME NEW A, NEW B, NEW S, IsFiniteSet(A), IsFiniteSet(B), S \subseteq A \cup B
  PROVE  Cardinality(S) <= Cardinality(A) + Cardinality(B)
<1>1. /\ IsFiniteSet(A \cup B)
      /\ Cardinality(A \cup B) = Cardinality(A) + Cardinality(B) - Cardinality(A \cap B)
  BY FS_Union
<1>2. IsFiniteSet(A \cap B) /\ Cardinality(A \cap B) \in Nat
  BY FS_Intersection, FS_CardinalityType
<1>3. /\ Cardinality(A) \in Nat /\ Cardinality(B) \in Nat
      /\ IsFiniteSet(S) /\ Cardinality(S) \in Nat /\ Cardinality(S) <= Cardinality(A \cup B)
  BY <1>1, FS_Subset, FS_CardinalityType
<1> QED BY <1>1, <1>2, <1>3

\* As many objects have at most as many nodes, one each.
LEMMA OneEach ==
  ASSUME NEW T \in SUBSET Objects, NEW f
  PROVE  /\ IsFiniteSet({f[o] : o \in T})
         /\ Cardinality({f[o] : o \in T}) <= Cardinality(T)
         /\ Cardinality(T) \in Nat /\ Cardinality({f[o] : o \in T}) \in Nat
<1> DEFINE g == [o \in T |-> f[o]]
           S == {f[o] : o \in T}
<1>1. IsFiniteSet(T)
  BY MachineLifecycleAssumption, FS_Subset
<1>2. g \in Surjection(T, S)
  BY DEF Surjection
<1>3. IsFiniteSet(S) /\ Cardinality(S) <= Cardinality(T)
  BY <1>1, <1>2, FS_Surjection
<1> QED BY <1>1, <1>3, FS_CardinalityType

\* A set that grows by one member at most.
LEMMA OneMore ==
  ASSUME NEW A, NEW B, NEW D, IsFiniteSet(A), B \subseteq A \cup D, AtMostOne(D)
  PROVE  Cardinality(B) <= Cardinality(A) + 1 /\ (D = {} => Cardinality(B) <= Cardinality(A))
<1>1. CASE D = {}
  <2>1. B \in SUBSET A
    BY <1>1
  <2> QED BY <2>1, FS_Subset, FS_CardinalityType
<1>2. ASSUME NEW k \in D
      PROVE  Cardinality(B) <= Cardinality(A) + 1 /\ D # {}
  <2>1. B \subseteq A \cup {k}
    BY <1>2 DEF AtMostOne
  <2>2. IsFiniteSet({k}) /\ Cardinality({k}) = 1
    BY FS_Singleton
  <2>3. Cardinality(B) <= Cardinality(A) + Cardinality({k})
    BY <2>1, <2>2, AtMostBoth
  <2> QED BY <1>2, <2>2, <2>3
<1> QED BY <1>1, <1>2

\* Nodes and objects are finite, and so is every count.
LEMMA DebtsFinite ==
  /\ IsFiniteSet(Lost) /\ IsFiniteSet(Crooked)
  /\ Cardinality(Lost) \in Nat /\ Cardinality(Crooked) \in Nat
  /\ IsFiniteSet(Lost') /\ IsFiniteSet(Crooked')
  /\ Cardinality(Lost') \in Nat /\ Cardinality(Crooked') \in Nat
<1>1. /\ Lost \in SUBSET Nodes /\ Crooked \in SUBSET Objects
      /\ Lost' \in SUBSET Nodes /\ Crooked' \in SUBSET Objects
  BY DEF Lost, Crooked
<1>2. IsFiniteSet(Nodes) /\ IsFiniteSet(Objects)
  BY MachineLifecycleAssumption
<1>3. /\ IsFiniteSet(Lost) /\ IsFiniteSet(Crooked)
      /\ IsFiniteSet(Lost') /\ IsFiniteSet(Crooked')
  BY <1>1, <1>2, FS_Subset
<1> QED BY <1>3, FS_CardinalityType

\* What is done for one object leaves the others as they are.
LEMMA OthersStay ==
  ASSUME NEW o \in Objects, OnlyFor(o), NEW q \in Objects, q # o
  PROVE  /\ Form(q) => Form(q)'
         /\ Straight(q)' <=> Straight(q)
         /\ \A n \in Nodes : Keeps(q, n)' <=> Keeps(q, n)
<1>1. /\ object'[q] = object[q] /\ cache'[q] = cache[q] /\ pass'[q] = pass[q]
      /\ q \in aged' <=> q \in aged
  BY DEF OnlyFor
<1>2. Form(q) => Form(q)'
  BY <1>1 DEF Form, Shape, Stored, Deletion, Cached, Exists
<1>3. Straight(q)' <=> Straight(q)
  BY <1>1 DEF Straight, Exists
<1>4. \A n \in Nodes : Keeps(q, n)' <=> Keeps(q, n)
  BY <1>1 DEF Keeps, Drops, Ghost, At, Exists
<1> QED BY <1>2, <1>3, <1>4

\* A step for one object makes no more debts than it makes faults.
LEMMA StepCounts ==
  ASSUME TInv, Formed, NEW o \in Objects, StepsFor(o)
  PROVE  /\ Formed'
         /\ Cardinality(Lost') + Cardinality(Crooked') - (Cardinality(Lost) + Cardinality(Crooked))
              <= faults' - faults
<1>1. Form(o)' /\ OnlyFor(o) /\ Settles(o)
  BY StepSound DEF Formed, Sound
<1>2. Formed'
  BY <1>1, OthersStay DEF Formed
<1>3. Lost' \subseteq Lost \cup NewLoss(o)
  <2>1. ASSUME NEW n \in Nodes, InUse(n)', \A q \in Objects : ~Keeps(q, n)', n \notin NewLoss(o)
        PROVE  InUse(n) /\ \A q \in Objects : ~Keeps(q, n)
    <3>1. InUse(n) /\ ~Keeps(o, n)
      BY <2>1 DEF NewLoss
    <3>2. ASSUME NEW q \in Objects, q # o
          PROVE  ~Keeps(q, n)
      BY <1>1, <2>1, <3>2, OthersStay
    <3> QED BY <3>1, <3>2
  <2> QED BY <2>1 DEF Lost
<1>4. \A q \in Objects : q # o => (q \in Crooked' <=> q \in Crooked)
  BY <1>1, OthersStay DEF Crooked
<1>5. /\ o \in Crooked <=> ~Straight(o)
      /\ o \in Crooked' <=> ~Straight(o)'
      /\ Crooked \subseteq Objects /\ Crooked' \subseteq Objects
  BY DEF Crooked
<1>6. faults \in Nat /\ faults' \in Nat /\ (Fails => faults' = faults + 1) /\ faults <= faults'
  <2>1. faults \in Nat
    BY MachineLifecycleAssumption DEF TInv, TypeOK
  <2>2. faults' = faults \/ Fails
    BY DEF StepsFor, Reconcile, Step, Find, Allocate, RejectVMHost, PatchID, Reuse, Deploy,
           Rollback, ClearID, FindToRelease, ReleaseMachine, Close, PatchFails,
           Create, Delete, Sync, Age, Works, ReadsStale, counts
  <2> QED BY <2>1, <2>2 DEF Fails
<1>l. NewLoss(o) = {} \/ AtMostOne(NewLoss(o)) => Cardinality(Lost') <= Cardinality(Lost) + 1
  BY <1>3, DebtsFinite, OneMore DEF AtMostOne
<1>7. CASE NewLoss(o) = {} /\ (Straight(o) => Straight(o)' \/ Fails)
  <2>1. Cardinality(Lost') <= Cardinality(Lost)
    BY <1>3, <1>7, DebtsFinite, FS_Subset
  <2>2. CASE Straight(o) => Straight(o)'
    <3>1. Crooked' \subseteq Crooked
      BY <1>4, <1>5, <2>2
    <3>2. Cardinality(Crooked') <= Cardinality(Crooked)
      BY <3>1, DebtsFinite, FS_Subset
    <3> QED BY <1>2, <1>6, <2>1, <3>2, DebtsFinite
  <2>3. CASE Fails
    <3>1. Crooked' \subseteq Crooked \cup {o}
      BY <1>4, <1>5
    <3>2. Cardinality(Crooked') <= Cardinality(Crooked) + 1
      BY <3>1, DebtsFinite, OneMore DEF AtMostOne
    <3> QED BY <1>2, <1>6, <2>1, <2>3, <3>2, DebtsFinite
  <2> QED BY <1>7, <2>2, <2>3
<1>8. CASE AtMostOne(NewLoss(o)) /\ ~Straight(o) /\ Straight(o)'
  <2>1. Crooked' = Crooked \ {o} /\ o \in Crooked
    BY <1>4, <1>5, <1>8
  <2>2. Cardinality(Crooked') = Cardinality(Crooked) - 1
    BY <2>1, DebtsFinite, FS_RemoveElement
  <2> QED BY <1>2, <1>6, <1>8, <1>l, <2>2, DebtsFinite
<1>9. CASE AtMostOne(NewLoss(o)) /\ Fails /\ (Straight(o) => Straight(o)')
  <2>1. Crooked' \subseteq Crooked
    BY <1>4, <1>5, <1>9
  <2>2. Cardinality(Crooked') <= Cardinality(Crooked)
    BY <2>1, DebtsFinite, FS_Subset
  <2> QED BY <1>2, <1>6, <1>9, <1>l, <2>2, DebtsFinite
<1> QED BY <1>1, <1>7, <1>8, <1>9 DEF Settles

\* What MAAS and the operators do makes nothing that was free be in use.
LEMMA NodesAlone ==
  ASSUME TInv, Formed,
         \/ \E n \in Nodes : NodeDeployed(n) \/ NodeFails(n) \/ NodeReleased(n)
         \/ EnableLXD \/ UNCHANGED vars
  PROVE  /\ Formed' /\ faults' = faults
         /\ Cardinality(Lost') + Cardinality(Crooked') <= Cardinality(Lost) + Cardinality(Crooked)
<1>1. UNCHANGED <<object, cache, aged, pass>> /\ faults' = faults
  BY DEF NodeDeployed, NodeFails, NodeReleased, EnableLXD, vars, counts
<1>2. \A n \in Nodes : InUse(n)' => InUse(n)
  BY DEF NodeDeployed, NodeFails, NodeReleased, EnableLXD, vars, InUse, TInv, TypeOK
<1>3. Formed'
  BY <1>1 DEF Formed, Form, Shape, Stored, Deletion, Cached, Exists
<1>4. Crooked' \subseteq Crooked
  BY <1>1 DEF Crooked, Straight, Exists
<1>5. Lost' \subseteq Lost
  BY <1>1, <1>2 DEF Lost, Keeps, Drops, Ghost, At, Exists
<1>6. Cardinality(Lost') <= Cardinality(Lost) /\ Cardinality(Crooked') <= Cardinality(Crooked)
  BY <1>4, <1>5, DebtsFinite, FS_Subset
<1> QED BY <1>1, <1>3, <1>6, DebtsFinite

\* A pass that is lost in a restart loses the node it has at hand or in memory.
LEMMA CrashCounts ==
  ASSUME TInv, Formed, Crash
  PROVE  /\ Formed'
         /\ Cardinality(Lost') + Cardinality(Crooked') - (Cardinality(Lost) + Cardinality(Crooked))
              <= faults' - faults
<1> DEFINE running == {o \in Objects : ~At(o, "idle")}
           f == [o \in Objects |-> IF pass[o].pc \in NodeSteps THEN pass[o].m ELSE pass[o].id]
           B == {f[o] : o \in running}
<1>i. /\ Idle.pc = "idle" /\ Idle.id = NoNode /\ Idle.base = NoNode /\ Idle.m = NoNode
      /\ Idle.finalizer = "leave" /\ NoNode \notin Nodes
  BY MachineLifecycleAssumption DEF Idle
<1>1. /\ UNCHANGED <<node, object, cache, aged>> /\ \A o \in Objects : pass'[o] = Idle
      /\ faults' = faults + Cardinality(running) /\ faults \in Nat
  BY MachineLifecycleAssumption DEF Crash, TInv, TypeOK
<1>2. Formed'
  BY <1>i, <1>1 DEF Formed, Form, Shape, Stored, Deletion, Cached, Exists,
                    Normal, Early, Late, Deleting
<1>3. Crooked' \subseteq Crooked
  BY <1>i, <1>1 DEF Crooked, Straight, Exists, Normal, Early, Late, Deleting
<1>4. ASSUME NEW o \in Objects, NEW n \in Nodes, Keeps(o, n), ~Keeps(o, n)'
      PROVE  n \in B
  <2>1. Form(o)
    BY DEF Formed
  <2>2. CASE At(o, "idle")
    <3>1. pass[o] = Idle
      BY <2>1, <2>2 DEF Form, Shape, At
    <3> QED BY <1>1, <1>4, <3>1 DEF Keeps, Drops, Ghost, At, Exists
  <2>3. CASE ~At(o, "idle")
    <3>1. n = f[o]
      BY <1>i, <1>1, <1>4, <2>1
         DEF Keeps, Drops, Ghost, At, Exists, NodeSteps, Deleting, Form, Shape
    <3> QED BY <2>3, <3>1
  <2> QED BY <2>2, <2>3
<1>5. Lost' \subseteq Lost \cup B
  BY <1>1, <1>4 DEF Lost, InUse
<1>6. /\ IsFiniteSet(B) /\ Cardinality(B) <= Cardinality(running)
      /\ Cardinality(running) \in Nat /\ Cardinality(B) \in Nat
  <2>1. running \in SUBSET Objects
    OBVIOUS
  <2> HIDE DEF running, f
  <2> QED BY <2>1, OneEach
<1>7. Cardinality(Lost') <= Cardinality(Lost) + Cardinality(B)
  BY <1>5, <1>6, DebtsFinite, AtMostBoth
<1>8. Cardinality(Crooked') <= Cardinality(Crooked)
  BY <1>3, DebtsFinite, FS_Subset
<1> HIDE DEF B, running
<1> QED BY <1>1, <1>2, <1>6, <1>7, <1>8, DebtsFinite

\* There are no debts in an initial state.
LEMMA InitDebts == Init => LInv
<1> SUFFICES ASSUME Init
             PROVE  LInv
  OBVIOUS
<1>1. TInv
  BY InitTyped
<1>2. Formed
  BY DEF Init, Formed, Form, Shape, Stored, Deletion, Cached, Absent, Idle, Exists,
         Normal, Early, Late, Deleting
<1>3. Lost = {}
  BY DEF Init, Lost, InUse
<1>4. Crooked = {}
  BY DEF Init, Crooked, Straight, Absent, Idle, Exists, Normal, Early, Late, Deleting
<1>5. Cardinality(Lost) = 0 /\ Cardinality(Crooked) = 0 /\ faults = 0
  BY <1>3, <1>4, FS_EmptySet DEF Init
<1> QED BY <1>1, <1>2, <1>5 DEF LInv

\* In every reachable state the nodes nobody keeps and the objects that are still
\* going to lose one are together no more than the faults.
THEOREM Invariance == Spec => []LInv
<1>1. ASSUME LInv, [Next]_vars, TInv'
      PROVE  LInv'
  <2>1. /\ TInv /\ Formed /\ faults \in Nat /\ faults' \in Nat
        /\ Cardinality(Lost) + Cardinality(Crooked) <= faults
    BY <1>1, MachineLifecycleAssumption DEF LInv, TInv, TypeOK
  <2>2. ASSUME NEW o \in Objects, StepsFor(o)
        PROVE  LInv'
    <3>1. /\ Formed'
          /\ Cardinality(Lost') + Cardinality(Crooked') - (Cardinality(Lost) + Cardinality(Crooked))
               <= faults' - faults
      BY <2>1, <2>2, StepCounts
    <3>2. Cardinality(Lost') + Cardinality(Crooked') <= faults'
      BY <2>1, <3>1, DebtsFinite
    <3> QED BY <1>1, <3>1, <3>2 DEF LInv
  <2>3. CASE Crash
    <3>1. /\ Formed'
          /\ Cardinality(Lost') + Cardinality(Crooked') - (Cardinality(Lost) + Cardinality(Crooked))
               <= faults' - faults
      BY <2>1, <2>3, CrashCounts
    <3>2. Cardinality(Lost') + Cardinality(Crooked') <= faults'
      BY <2>1, <3>1, DebtsFinite
    <3> QED BY <1>1, <3>1, <3>2 DEF LInv
  <2>4. CASE \/ \E n \in Nodes : NodeDeployed(n) \/ NodeFails(n) \/ NodeReleased(n)
             \/ EnableLXD \/ UNCHANGED vars
    <3>1. /\ Formed' /\ faults' = faults
          /\ Cardinality(Lost') + Cardinality(Crooked') <= Cardinality(Lost) + Cardinality(Crooked)
      BY <2>1, <2>4, NodesAlone
    <3>2. Cardinality(Lost') + Cardinality(Crooked') <= faults'
      BY <2>1, <3>1, DebtsFinite
    <3> QED BY <1>1, <3>1, <3>2 DEF LInv
  <2> QED BY <1>1, <2>2, <2>3, <2>4 DEF Next, StepsFor
<1> QED BY InitDebts, <1>1, TypeInvariance, PTL DEF Spec

\* The node that a crooked object is still going to lose.
Doomed(o) == IF pass[o].pc \in Deleting /\ pass[o].id # NoNode THEN pass[o].id ELSE cache[o].id

\* A leaked node is one that nobody keeps, or the one that an object still owes.
LEMMA LeakedIsOwed ==
  ASSUME TInv, Formed, NEW n \in Leaked
  PROVE  n \in Lost \/ \E o \in Crooked : n = Doomed(o)
<1>1. /\ n \in Nodes /\ InUse(n)
      /\ \A o \in Objects : /\ Exists(object[o]) => object[o].id # n
                            /\ ~At(o, "idle") => pass[o].m # n
  BY DEF Leaked
<1>2. NoNode \notin Nodes
  BY MachineLifecycleAssumption
<1>3. ASSUME NEW o \in Objects, Keeps(o, n)
      PROVE  o \in Crooked /\ n = Doomed(o)
  <2> USE DEF At, Exists
  <2>1. Form(o)
    BY DEF Formed
  <2>2. Ghost(o, n)
    BY <1>1, <1>2, <1>3, <2>1 DEF Keeps, NodeSteps, Form, Shape
  <2>3. ~Straight(o)
    BY <1>1, <1>2, <2>2 DEF Ghost, Straight
  <2>4. n = Doomed(o)
    BY <1>1, <1>2, <2>1, <2>2 DEF Ghost, Doomed, Form, Cached
  <2> QED BY <2>3, <2>4 DEF Crooked
<1> QED BY <1>1, <1>3 DEF Lost

\* A failing call, a stale read of a live object or a pass lost in a restart leaks at
\* most one node; roll-backs, rejections and deletions add nothing to it.
THEOREM LeaksBounded == Spec => []LeaksAreFailures
<1>1. LInv => LeaksAreFailures
  <2> SUFFICES ASSUME LInv
               PROVE  Cardinality(Leaked) <= faults
    BY DEF LeaksAreFailures
  <2> DEFINE g == [o \in Objects |-> Doomed(o)]
             D == {g[o] : o \in Crooked}
  <2>1. Crooked \in SUBSET Objects
    BY DEF Crooked
  <2>2. Leaked \subseteq Lost \cup D
    BY <2>1, LeakedIsOwed DEF LInv
  <2>3. /\ IsFiniteSet(D) /\ Cardinality(D) <= Cardinality(Crooked)
        /\ Cardinality(D) \in Nat
    BY <2>1, OneEach
  <2>4. Cardinality(Leaked) <= Cardinality(Lost) + Cardinality(D)
    BY <2>2, <2>3, DebtsFinite, AtMostBoth
  <2>5. Leaked \in SUBSET Nodes /\ IsFiniteSet(Nodes)
    BY MachineLifecycleAssumption DEF Leaked
  <2>6. Cardinality(Leaked) \in Nat
    BY <2>5, FS_Subset, FS_CardinalityType
  <2>7. faults \in Nat /\ Cardinality(Lost) + Cardinality(Crooked) <= faults
    BY MachineLifecycleAssumption DEF LInv, TInv, TypeOK
  <2> HIDE DEF D
  <2> QED BY <2>3, <2>4, <2>6, <2>7, DebtsFinite
<1> QED BY <1>1, Invariance, PTL

\* While no call has failed, no pass was lost and no live object was read stale,
\* nothing leaks.
THEOREM NothingLeaksByItself == Spec => [](faults = 0 => Leaked = {})
<1>1. LeaksAreFailures /\ faults = 0 => Leaked = {}
  <2> SUFFICES ASSUME LeaksAreFailures, faults = 0
               PROVE  Leaked = {}
    OBVIOUS
  <2>1. Leaked \in SUBSET Nodes /\ IsFiniteSet(Nodes)
    BY MachineLifecycleAssumption DEF Leaked
  <2>2. IsFiniteSet(Leaked) /\ Cardinality(Leaked) \in Nat
    BY <2>1, FS_Subset, FS_CardinalityType
  <2>3. Cardinality(Leaked) = 0
    BY <2>2 DEF LeaksAreFailures
  <2> QED BY <2>2, <2>3, FS_EmptySet
<1> QED BY <1>1, LeaksBounded, PTL
=============================================================================
