-------------------------- MODULE VMPlacementProofs --------------------------
(***************************************************************************)
(* Proofs about VMPlacement, for any number of hosts, VMs, workers and     *)
(* failures, and whatever the hosts offer: the state is well typed, a VM   *)
(* is known to its MaasMachine and a deployed VM is tagged, unless calls   *)
(* failed, and the VMs are spread over the hosts that are good and have    *)
(* room, but for what workers cannot see of each other.                    *)
(*                                                                         *)
(* All of it rests on the queue: one worker at most has a VM.  What the    *)
(* pass has done to it by then depends on where the pass is.  The spread   *)
(* needs more: how many passes are HEADING for a host with a count that    *)
(* lets them put a VM there, and how many VMs no count will ever show      *)
(* (LOST).                                                                 *)
(***************************************************************************)
EXTENDS VMPlacement, FiniteSetTheorems, TLAPS

Has(w, v) == worker[w].vm = v

\* One worker per VM, and no worker has a VM that is gone.
OneWorker ==
  /\ \A w, x \in Workers : worker[w].vm # NoVM /\ worker[w].vm = worker[x].vm => w = x
  /\ \A w \in Workers : worker[w].vm \notin deleted

\* A pass has a VM; it has selected a host before it composes; later on the
\* VM exists, and one that is to be deployed has its ID stored.
PassOK(w) ==
  LET p == worker[w] IN
  /\ p.pc = "idle" <=> p.vm = NoVM
  /\ p.pc = "compose" => p.host # NoHost
  /\ p.pc \in {"patch", "tag", "deploy", "close"} => p.vm \in Placed
  /\ p.pc = "deploy" => p.vm \in stored

TInv ==
  /\ TypeOK /\ OneWorker
  /\ \A w \in Workers : PassOK(w)
  /\ stored \ deleted \subseteq Placed

\* Without failures a VM is new, and its pass about to store its ID and to tag
\* it, or has both.
Handled ==
  faults = 0 =>
    /\ \A v \in Placed \ stored : \E w \in Workers : Has(w, v) /\ worker[w].pc = "patch"
    /\ \A v \in Placed \ tagged : \E w \in Workers : Has(w, v) /\ worker[w].pc \in {"patch", "tag"}
    /\ deployed \subseteq tagged

-----------------------------------------------------------------------------
(* The order of the candidates.                                            *)

\* The order of the candidates is asymmetric and transitive.
LEMMA BetterIsAnOrder ==
  ASSUME NEW count \in [Hosts -> Nat], NEW free \in [Hosts -> Nat],
         NEW a \in Hosts, NEW b \in Hosts, NEW c \in Hosts
  PROVE  /\ ~(Better(a, b, count, free) /\ Better(b, a, count, free))
         /\ Better(a, b, count, free) /\ Better(b, c, count, free) => Better(a, c, count, free)
<1> DEFINE S(h) == Score(h, free[h])
<1>1. \A h \in Hosts : S(h) \in Nat
  <2> SUFFICES ASSUME NEW h \in Hosts PROVE S(h) \in Nat
    OBVIOUS
  <2>1. /\ free[h] \in Nat /\ Inventory[h].memory \in Nat
        /\ Options.cores \in Nat /\ Options.memory \in Nat
    BY HostSelectionAssumption
  <2>2. \A x, y \in Nat : x * y \in Nat
    OBVIOUS
  <2>3. \A x, min \in Nat : Times(x, min) \in Nat
    BY <2>2, Zenon DEF Times
  <2>4. \A x, min, other \in Nat : Term(x, min, other) \in Nat
    <3>1. 0 \in Nat
      OBVIOUS
    <3>. QED
      BY <2>2, <2>3, <3>1, Zenon DEF Term
  <2>5. /\ Term(free[h], Options.cores, Options.memory) \in Nat
        /\ Term(Inventory[h].memory, Options.memory, Options.cores) \in Nat
    BY <2>1, <2>4
  <2>. QED
    BY <2>5 DEF Score
<1>2. S(a) \in Nat /\ S(b) \in Nat /\ S(c) \in Nat
  BY <1>1
<1>3. \A g, h \in Hosts :
        Better(g, h, count, free) <=>
          \/ count[g] < count[h]
          \/ count[g] = count[h] /\ S(g) > S(h)
          \/ /\ count[g] = count[h] /\ S(g) = S(h)
             /\ Inventory[g].managed /\ ~Inventory[h].managed
  BY DEF Better
<1>4. count[a] \in Nat /\ count[b] \in Nat /\ count[c] \in Nat
  OBVIOUS
<1> HIDE DEF S
<1>. QED
  BY <1>2, <1>3, <1>4

\* A host that is selected has as few control plane VMs as any candidate.
LEMMA BestIsLeastLoaded ==
  ASSUME NEW count \in [Hosts -> Nat], NEW free, NEW C \in SUBSET Hosts,
         NEW h \in Best(C, count, free)
  PROVE  h \in C /\ \A g \in C : count[h] <= count[g]
BY DEF Best, Better

-----------------------------------------------------------------------------
(* Type correctness.                                                       *)

LEMMA IdleTyped == Idle \in Pass /\ Idle.pc = "idle" /\ Idle.vm = NoVM
BY DEF Idle, Zero, Pass

Points == {"idle", "count", "select", "compose", "patch", "tag", "deploy", "close"}

\* The pass of w goes from one point to another with the VM v and the host h; no
\* other pass moves.
Moves(w, from, to, v, h) ==
  /\ worker' \in [Workers -> Pass]
  /\ worker[w].pc = from /\ worker'[w].pc = to
  /\ worker'[w].vm = v /\ worker'[w].host = h
  /\ \A x \in Workers \ {w} : worker'[x] = worker[x]

LEMMA PassMoves ==
  ASSUME TypeOK, NEW w \in Workers, NEW p \in Pass, worker' = [worker EXCEPT ![w] = p]
  PROVE  Moves(w, worker[w].pc, p.pc, p.vm, p.host)
BY DEF TypeOK, Moves

LEMMA GoesMoves ==
  ASSUME TypeOK, NEW w \in Workers, NEW from, NEW to \in Points, Goes(w, from, to)
  PROVE  Moves(w, from, to, worker[w].vm, worker[w].host)
<1> DEFINE p == [worker[w] EXCEPT !.pc = to]
<1>1. worker[w] \in Pass
  BY DEF TypeOK
<1>2. p \in Pass /\ p.pc = to /\ p.vm = worker[w].vm /\ p.host = worker[w].host
  BY <1>1 DEF Pass, Points
<1>3. worker[w].pc = from /\ worker' = [worker EXCEPT ![w] = p]
  BY DEF Goes
<1> HIDE DEF p
<1>. QED
  BY <1>2, <1>3, PassMoves

LEMMA EndsMoves ==
  ASSUME TypeOK, NEW w \in Workers, NEW from, Ends(w, from)
  PROVE  Moves(w, from, "idle", NoVM, NoHost)
<1>1. worker[w].pc = from /\ worker' = [worker EXCEPT ![w] = Idle] /\ Idle.host = NoHost
  BY DEF Ends, Idle
<1>. QED
  BY <1>1, IdleTyped, PassMoves

\* The VMs on a host are as many as there are VMs, or fewer.
LEMMA FreeTyped ==
  ASSUME NEW h \in Hosts
  PROVE  Free(h) \in Nat /\ CountByHost(h) \in Nat
<1>1. /\ IsFiniteSet(Guests(h)) /\ Cardinality(Guests(h)) \in Nat
      /\ IsFiniteSet(Guests(h) \cap tagged) /\ Cardinality(Guests(h) \cap tagged) \in Nat
  <2>1. Guests(h) \in SUBSET VMs /\ Guests(h) \cap tagged \in SUBSET VMs
    BY DEF Guests
  <2>. QED
    BY <2>1, FS_Subset, FS_CardinalityType, VMPlacementAssumption
<1>2. Options.cores \in Nat /\ Inventory[h].cores \in Nat
  BY HostSelectionAssumption
<1>3. \A x, y \in Nat : x * y \in Nat
  OBVIOUS
<1>4. Cardinality(Guests(h)) * Options.cores \in Nat
  BY <1>1, <1>2, <1>3
<1>. QED
  BY <1>1, <1>2, <1>4 DEF Free, CountByHost

LEMMA BeginMoves ==
  ASSUME TypeOK, NEW w \in Workers, NEW v \in VMs, Begin(w, v)
  PROVE  \E to \in {"deploy", "count"} :
           Moves(w, "idle", to, v, NoHost) /\ (to = "deploy" <=> v \in stored)
<1> DEFINE p == IF v \in stored
                  THEN [pc |-> "deploy", vm |-> v, host |-> NoHost, free |-> Zero, count |-> Zero]
                  ELSE [pc |-> "count", vm |-> v, host |-> NoHost,
                        free |-> [h \in Hosts |-> Free(h)], count |-> Zero]
<1>1. Zero \in [Hosts -> Nat] /\ [h \in Hosts |-> Free(h)] \in [Hosts -> Nat]
  BY FreeTyped DEF Zero
<1>2. /\ p \in Pass /\ p.vm = v /\ p.host = NoHost
      /\ p.pc = (IF v \in stored THEN "deploy" ELSE "count")
  BY <1>1 DEF Pass
<1>3. worker[w].pc = "idle" /\ worker' = [worker EXCEPT ![w] = p]
  BY DEF Begin
<1> HIDE DEF p
<1>. QED
  BY <1>2, <1>3, PassMoves

LEMMA CountMoves ==
  ASSUME TypeOK, NEW w \in Workers, CountCPs(w)
  PROVE  \E h \in Hosts \cup {NoHost} : Moves(w, "count", "select", worker[w].vm, h)
<1> DEFINE p == [pc |-> "select", vm |-> worker[w].vm, host |-> NoHost, free |-> worker[w].free,
                 count |-> [h \in Hosts |-> CountByHost(h)]]
<1>1. worker[w] \in Pass
  BY DEF TypeOK
<1>2. CASE worker' = [worker EXCEPT ![w] = p]
  <2>1. [h \in Hosts |-> CountByHost(h)] \in [Hosts -> Nat]
    BY FreeTyped
  <2>2. p \in Pass /\ p.pc = "select" /\ p.vm = worker[w].vm /\ p.host = NoHost
    BY <1>1, <2>1 DEF Pass
  <2>3. worker[w].pc = "count"
    BY DEF CountCPs
  <2> HIDE DEF p
  <2>. QED
    BY <1>2, <2>2, <2>3, PassMoves
<1>3. CASE Goes(w, "count", "select")
  <2>1. Moves(w, "count", "select", worker[w].vm, worker[w].host)
    BY <1>3, GoesMoves DEF Points
  <2>. QED
    BY <1>1, <2>1 DEF Pass
<1>. QED
  BY <1>2, <1>3 DEF CountCPs

LEMMA SelectMoves ==
  ASSUME TypeOK, NEW w \in Workers, SelectHost(w)
  PROVE  \/ \E h \in Hosts : Moves(w, "select", "compose", worker[w].vm, h)
         \/ Moves(w, "select", "idle", NoVM, NoHost)
<1>1. worker[w] \in Pass
  BY DEF TypeOK
<1>2. ASSUME NEW C \in SUBSET Hosts, NEW h \in Best(C, worker[w].count, worker[w].free),
             worker' = [worker EXCEPT ![w] = [pc |-> "compose", vm |-> worker[w].vm, host |-> h,
                                              free |-> Zero, count |-> Zero]]
      PROVE  h \in Hosts /\ Moves(w, "select", "compose", worker[w].vm, h)
  <2> DEFINE p == [pc |-> "compose", vm |-> worker[w].vm, host |-> h, free |-> Zero, count |-> Zero]
  <2>1. h \in Hosts
    BY <1>2 DEF Best
  <2>2. p \in Pass /\ p.pc = "compose" /\ p.vm = worker[w].vm /\ p.host = h
    BY <1>1, <2>1 DEF Pass, Zero
  <2>3. worker[w].pc = "select"
    BY DEF SelectHost
  <2> HIDE DEF p
  <2>4. worker' = [worker EXCEPT ![w] = p]
    BY <1>2 DEF p
  <2>. QED
    BY <2>1, <2>2, <2>3, <2>4, PassMoves
<1>3. CASE Ends(w, "select")
  BY <1>3, EndsMoves
<1>4. ASSUME NEW C \in SUBSET Hosts, SelectAmong(w, C)
      PROVE  Ends(w, "select") \/ \E h \in Hosts : Moves(w, "select", "compose", worker[w].vm, h)
  BY <1>2, <1>4 DEF SelectAmong
<1>5. Candidates(w) \in SUBSET Hosts
  BY DEF Candidates, TypeOK
<1>. QED
  BY <1>3, <1>4, <1>5 DEF SelectHost

\* No step but those that follow changes the workers.
LEMMA NextKinds ==
  ASSUME [Next]_vars
  PROVE  \/ \E w \in Workers, v \in VMs : Begin(w, v)
         \/ \E w \in Workers : Step(w)
         \/ \E v \in VMs : DeleteVM(v)
         \/ Restart
         \/ UNCHANGED <<maasVars, stored, deleted, worker, faults>>
BY DEF Next, vars, HostChanges

LEMMA ComposeMoves ==
  ASSUME TypeOK, NEW w \in Workers, Compose(w)
  PROVE  \/ /\ Moves(w, "compose", "close", worker[w].vm, worker[w].host)
            /\ worker[w].vm \in Placed /\ UNCHANGED <<on, faults>>
         \/ /\ \/ /\ Moves(w, "compose", "patch", worker[w].vm, worker[w].host)
                  /\ UNCHANGED faults
               \/ Moves(w, "compose", "idle", NoVM, NoHost) /\ Fault
            /\ worker[w].vm \notin Placed
            /\ on' = [on EXCEPT ![worker[w].vm] = worker[w].host]
         \/ /\ Moves(w, "compose", "idle", NoVM, NoHost) /\ UNCHANGED on
            /\ Fault \/ UNCHANGED faults
<1>1. CASE TakeOver(w)
  <2>1. Goes(w, "compose", "close") /\ worker[w].vm \in Placed /\ UNCHANGED <<on, faults>>
    BY <1>1 DEF TakeOver
  <2>. QED
    BY <2>1, GoesMoves DEF Points
<1>2. CASE Goes(w, "compose", "patch") /\ Composed(w) /\ worker[w].vm \notin Placed /\ UNCHANGED faults
  BY <1>2, GoesMoves DEF Points, Composed
<1>3. CASE Ends(w, "compose") /\ UNCHANGED on /\ (Fault \/ UNCHANGED faults)
  BY <1>3, EndsMoves
<1>4. CASE Ends(w, "compose") /\ Composed(w) /\ worker[w].vm \notin Placed /\ Fault
  BY <1>4, EndsMoves DEF Composed
<1>. QED
  BY <1>1, <1>2, <1>3, <1>4 DEF Compose

LEMMA PatchMoves ==
  ASSUME TypeOK, NEW w \in Workers, PatchID(w)
  PROVE  Moves(w, "patch", "tag", worker[w].vm, worker[w].host)
<1>1. Goes(w, "patch", "tag")
  BY DEF PatchID
<1>. QED
  BY <1>1, GoesMoves DEF Points

LEMMA TagMoves ==
  ASSUME TypeOK, NEW w \in Workers, TagVM(w)
  PROVE  Moves(w, "tag", "close", worker[w].vm, worker[w].host)
<1>1. Goes(w, "tag", "close")
  BY DEF TagVM
<1>. QED
  BY <1>1, GoesMoves DEF Points

LEMMA DeployMoves ==
  ASSUME TypeOK, NEW w \in Workers, DeployVM(w)
  PROVE  \/ /\ Moves(w, "deploy", "tag", worker[w].vm, worker[w].host)
            /\ deployed' = deployed \cup {worker[w].vm} /\ UNCHANGED faults
         \/ Moves(w, "deploy", "idle", NoVM, NoHost) /\ UNCHANGED deployed /\ Fault
<1>1. \/ /\ Goes(w, "deploy", "tag") /\ deployed' = deployed \cup {worker[w].vm}
         /\ UNCHANGED faults
      \/ Ends(w, "deploy") /\ UNCHANGED deployed /\ Fault
  BY DEF DeployVM
<1>2. Goes(w, "deploy", "tag") => Moves(w, "deploy", "tag", worker[w].vm, worker[w].host)
  BY GoesMoves DEF Points
<1>3. Ends(w, "deploy") => Moves(w, "deploy", "idle", NoVM, NoHost)
  BY EndsMoves
<1>. QED
  BY <1>1, <1>2, <1>3

LEMMA CloseMoves ==
  ASSUME TypeOK, NEW w \in Workers, Close(w)
  PROVE  Moves(w, "close", "idle", NoVM, NoHost)
<1>1. Ends(w, "close")
  BY DEF Close
<1>. QED
  BY <1>1, EndsMoves

-----------------------------------------------------------------------------
(* One step preserves the types and what a pass knows.                     *)

LEMMA OneWorkerKept ==
  ASSUME TInv, NEW w \in Workers, NEW from, NEW to, NEW v \in {worker[w].vm, NoVM}, NEW h,
         Moves(w, from, to, v, h), UNCHANGED deleted
  PROVE  OneWorker'
<1>1. NoVM \notin deleted
  BY VMPlacementAssumption DEF TInv, TypeOK
<1>. QED
  BY <1>1 DEF TInv, OneWorker, Moves

LEMMA PassesKept ==
  ASSUME TInv, NEW w \in Workers, NEW from, NEW to, NEW v, NEW h, Moves(w, from, to, v, h),
         Placed \subseteq Placed', stored \subseteq stored', PassOK(w)'
  PROVE  \A x \in Workers : PassOK(x)'
<1> SUFFICES ASSUME NEW x \in Workers \ {w} PROVE PassOK(x)'
  OBVIOUS
<1>1. worker'[x] = worker[x] /\ PassOK(x)
  BY DEF TInv, Moves
<1>. QED
  BY <1>1 DEF PassOK

\* A step of a pass on a VM that changes nothing but the pass.
LEMMA PassAlone ==
  ASSUME TInv, NEW w \in Workers, NEW from, NEW to, NEW v \in {worker[w].vm, NoVM}, NEW h,
         Moves(w, from, to, v, h), UNCHANGED <<maasVars, stored, deleted, good>>,
         faults' \in 0..MaxFaults, PassOK(w)'
  PROVE  TInv'
<1>1. OneWorker'
  BY OneWorkerKept
<1>2. UNCHANGED Placed
  BY DEF maasVars, Placed
<1>3. \A x \in Workers : PassOK(x)'
  BY <1>2, PassesKept
<1>. QED
  BY <1>1, <1>2, <1>3 DEF TInv, TypeOK, maasVars, Moves

LEMMA FaultTyped ==
  ASSUME TypeOK, Fault \/ UNCHANGED faults
  PROVE  faults' \in 0..MaxFaults
BY VMPlacementAssumption DEF TypeOK, Fault

LEMMA InitTyped == Init => TInv /\ Handled /\ UntaggedAreFailures
<1> SUFFICES ASSUME Init PROVE TInv /\ Handled /\ UntaggedAreFailures
  OBVIOUS
<1>1. /\ on = [v \in VMs |-> NoHost] /\ tagged = {} /\ deployed = {} /\ stored = {}
      /\ deleted = {} /\ good = Hosts /\ faults = 0
      /\ worker = [w \in Workers |-> Idle]
  BY DEF Init
<1>2. Placed = {}
  BY <1>1 DEF Placed
<1>3. worker \in [Workers -> Pass]
  BY <1>1, IdleTyped
<1>4. \A w \in Workers : worker[w].pc = "idle" /\ worker[w].vm = NoVM
  BY <1>1, IdleTyped
<1>5. TypeOK
  BY <1>1, <1>2, <1>3, VMPlacementAssumption DEF TypeOK
<1>6. OneWorker /\ \A w \in Workers : PassOK(w)
  BY <1>1, <1>4 DEF OneWorker, PassOK
<1>. QED
  BY <1>1, <1>2, <1>5, <1>6 DEF TInv, Handled, UntaggedAreFailures

LEMMA StepTyped ==
  ASSUME TInv, NEW w \in Workers, Step(w)
  PROVE  TInv'
<1> DEFINE v == worker[w].vm
<1>0. /\ TypeOK /\ PassOK(w) /\ v \in VMs \cup {NoVM} /\ v \notin deleted
      /\ NoVM \notin Placed /\ worker[w].host \in Hosts \cup {NoHost}
  BY VMPlacementAssumption DEF TInv, TypeOK, Pass, OneWorker, Placed
<1>1. CASE CountCPs(w)
  <2>1. PICK h \in Hosts \cup {NoHost} : Moves(w, "count", "select", v, h)
    BY <1>0, <1>1, CountMoves
  <2>2. PassOK(w)'
    BY <1>0, <2>1 DEF Moves, PassOK
  <2>3. UNCHANGED <<maasVars, stored, deleted, good>> /\ faults' \in 0..MaxFaults
    BY <1>0, <1>1, FaultTyped DEF CountCPs
  <2>. QED
    BY <2>1, <2>2, <2>3, PassAlone
<1>2. CASE SelectHost(w)
  <2>1. UNCHANGED <<maasVars, stored, deleted, good>> /\ faults' \in 0..MaxFaults
    BY <1>0, <1>2, FaultTyped DEF SelectHost
  <2>2. ASSUME NEW h \in Hosts, Moves(w, "select", "compose", v, h)
        PROVE  TInv'
    <3>1. PassOK(w)'
      BY <1>0, <2>2, VMPlacementAssumption DEF Moves, PassOK
    <3>. QED
      BY <2>1, <2>2, <3>1, PassAlone
  <2>3. CASE Moves(w, "select", "idle", NoVM, NoHost)
    <3>1. PassOK(w)'
      BY <2>3 DEF Moves, PassOK
    <3>. QED
      BY <2>1, <2>3, <3>1, PassAlone
  <2>. QED
    BY <1>0, <1>2, <2>2, <2>3, SelectMoves
<1>3. CASE Compose(w)
  <2>1. UNCHANGED <<tagged, deployed, stored, deleted, good>> /\ faults' \in 0..MaxFaults
    BY <1>0, <1>3, FaultTyped, ComposeMoves DEF Compose
  <2>2. CASE Moves(w, "compose", "close", v, worker[w].host) /\ v \in Placed /\ UNCHANGED on
    <3>1. PassOK(w)'
      BY <1>0, <2>2 DEF Moves, PassOK, Placed
    <3>. QED
      BY <2>1, <2>2, <3>1, PassAlone DEF maasVars
  <2>3. CASE Moves(w, "compose", "idle", NoVM, NoHost) /\ UNCHANGED on
    <3>1. PassOK(w)'
      BY <2>3 DEF Moves, PassOK
    <3>. QED
      BY <2>1, <2>3, <3>1, PassAlone DEF maasVars
  <2>4. CASE /\ \/ Moves(w, "compose", "patch", v, worker[w].host)
                \/ Moves(w, "compose", "idle", NoVM, NoHost)
             /\ v \notin Placed /\ on' = [on EXCEPT ![v] = worker[w].host]
    <3>1. v \in VMs /\ worker[w].host \in Hosts
      BY <1>0, <2>4 DEF Moves, PassOK
    <3>2. on' \in [VMs -> Hosts \cup {NoHost}] /\ Placed' = Placed \cup {v}
      BY <1>0, <2>4, <3>1, VMPlacementAssumption DEF TypeOK, Placed
    <3>3. PassOK(w)'
      BY <2>4, <3>1, <3>2, VMPlacementAssumption DEF Moves, PassOK
    <3>4. (\A x \in Workers : PassOK(x)') /\ OneWorker'
      BY <2>1, <2>4, <3>2, <3>3, PassesKept, OneWorkerKept
    <3>5. worker' \in [Workers -> Pass]
      BY <2>4 DEF Moves
    <3>. QED
      BY <2>1, <3>2, <3>4, <3>5 DEF TInv, TypeOK
  <2>. QED
    BY <1>0, <1>3, <2>2, <2>3, <2>4, ComposeMoves
<1>4. CASE PatchID(w) \/ Close(w)
  <2>1. /\ \/ Moves(w, "patch", "tag", v, worker[w].host)
           \/ Moves(w, "close", "idle", NoVM, NoHost)
        /\ UNCHANGED <<maasVars, deleted, good>> /\ faults' \in 0..MaxFaults
        /\ stored' \in {stored, stored \cup {v}}
    BY <1>0, <1>4, FaultTyped, PatchMoves, CloseMoves DEF PatchID, Close
  <2>2. v \in Placed /\ v \in VMs /\ UNCHANGED Placed
    BY <1>0, <2>1 DEF Moves, PassOK, Placed, maasVars
  <2>3. PassOK(w)'
    BY <2>1, <2>2, <1>0 DEF Moves, PassOK
  <2>4. (\A x \in Workers : PassOK(x)') /\ OneWorker'
    BY <2>1, <2>2, <2>3, PassesKept, OneWorkerKept
  <2>5. worker' \in [Workers -> Pass]
    BY <2>1 DEF Moves
  <2>. QED
    BY <2>1, <2>2, <2>4, <2>5 DEF TInv, TypeOK, maasVars
<1>5. CASE TagVM(w) \/ DeployVM(w)
  <2>1. /\ \/ Moves(w, "tag", "close", v, worker[w].host) /\ UNCHANGED deployed
           \/ Moves(w, "deploy", "tag", v, worker[w].host)
           \/ Moves(w, "deploy", "idle", NoVM, NoHost) /\ UNCHANGED deployed
        /\ UNCHANGED <<on, stored, deleted, good>> /\ faults' \in 0..MaxFaults
        /\ tagged' \in {tagged, tagged \cup {v}}
        /\ deployed' \in {deployed, deployed \cup {v}}
    BY <1>0, <1>5, FaultTyped, TagMoves, DeployMoves DEF TagVM, DeployVM
  <2>2. v \in Placed /\ v \in VMs /\ UNCHANGED Placed
    BY <1>0, <2>1 DEF Moves, PassOK, Placed
  <2>3. PassOK(w)'
    BY <2>1, <2>2, <1>0 DEF Moves, PassOK
  <2>4. (\A x \in Workers : PassOK(x)') /\ OneWorker'
    BY <2>1, <2>2, <2>3, PassesKept, OneWorkerKept
  <2>5. worker' \in [Workers -> Pass]
    BY <2>1 DEF Moves
  <2>6. deployed' \subseteq Placed \cap stored
    BY <1>0, <2>1, <2>2 DEF TypeOK, Moves, PassOK
  <2>. QED
    BY <2>1, <2>2, <2>4, <2>5, <2>6 DEF TInv, TypeOK
<1>. QED
  BY <1>1, <1>2, <1>3, <1>4, <1>5 DEF Step

LEMMA NextTyped == TInv /\ [Next]_vars => TInv'
<1> SUFFICES ASSUME TInv, [Next]_vars PROVE TInv'
  OBVIOUS
<1>0. TypeOK /\ OneWorker /\ good' \subseteq Hosts
  <2>1. TypeOK /\ OneWorker /\ good \subseteq Hosts
    BY DEF TInv, TypeOK
  <2>2. ASSUME NEW h \in Flaky, HostChanges(h)
        PROVE  good' \subseteq Hosts
    BY <2>1, <2>2, VMPlacementAssumption DEF HostChanges
  <2>3. ASSUME NEW w \in Workers, Step(w)
        PROVE  UNCHANGED good
    BY <2>3 DEF Step, CountCPs, SelectHost, Compose, PatchID, TagVM, DeployVM, Close
  <2>4. UNCHANGED good \/ \E h \in Flaky : HostChanges(h)
    BY <2>3 DEF Next, vars, Begin, DeleteVM, Restart
  <2>. QED
    BY <2>1, <2>2, <2>4
<1>1. ASSUME NEW w \in Workers, NEW v \in VMs, Begin(w, v)
      PROVE  TInv'
  <2>1. /\ v \notin deleted /\ \A x \in Workers : worker[x].vm # v
        /\ UNCHANGED <<maasVars, stored, deleted, good, faults>>
    BY <1>1 DEF Begin
  <2>2. PICK to \in {"deploy", "count"} :
          Moves(w, "idle", to, v, NoHost) /\ (to = "deploy" <=> v \in stored)
    BY <1>0, <1>1, BeginMoves
  <2>3. UNCHANGED Placed
    BY <2>1 DEF maasVars, Placed
  <2>4. PassOK(w)'
    <3>1. v # NoVM /\ (to = "deploy" => v \in Placed /\ v \in stored)
      BY <2>1, <2>2, VMPlacementAssumption DEF TInv
    <3>. QED
      BY <2>1, <2>2, <2>3, <3>1 DEF Moves, PassOK
  <2>5. \A x \in Workers : PassOK(x)'
    BY <2>1, <2>2, <2>3, <2>4, PassesKept
  <2>6. OneWorker'
    BY <1>0, <2>1, <2>2 DEF OneWorker, Moves
  <2>7. worker' \in [Workers -> Pass]
    BY <2>2 DEF Moves
  <2>. QED
    BY <2>1, <2>3, <2>5, <2>6, <2>7 DEF TInv, TypeOK, maasVars
<1>2. ASSUME NEW w \in Workers, Step(w)
      PROVE  TInv'
  BY <1>2, StepTyped
<1>3. ASSUME NEW v \in VMs, DeleteVM(v)
      PROVE  TInv'
  <2>1. /\ v \notin deleted /\ \A w \in Workers : worker[w].vm # v
        /\ deleted' = deleted \cup {v}
        /\ UNCHANGED <<stored, good, worker, faults>>
    BY <1>3 DEF DeleteVM
  <2>2. /\ on' \in [VMs -> Hosts \cup {NoHost}]
        /\ Placed \ {v} \subseteq Placed' /\ Placed' \subseteq Placed
        /\ tagged' \subseteq Placed' /\ deployed' \subseteq Placed' \cap stored
    <3>1. CASE UNCHANGED maasVars
      BY <1>0, <3>1 DEF TypeOK, Placed, maasVars
    <3>2. CASE /\ on' = [on EXCEPT ![v] = NoHost]
               /\ tagged' = tagged \ {v} /\ deployed' = deployed \ {v}
      <4>1. on' \in [VMs -> Hosts \cup {NoHost}] /\ Placed' = Placed \ {v}
        BY <1>0, <3>2 DEF TypeOK, Placed
      <4>. QED
        BY <1>0, <3>2, <4>1 DEF TypeOK
    <3>. QED
      BY <1>3, <3>1, <3>2 DEF DeleteVM, Released
  <2>3. OneWorker'
    BY <1>0, <2>1 DEF OneWorker
  <2>4. \A w \in Workers : PassOK(w)'
    BY <2>1, <2>2 DEF TInv, PassOK
  <2>5. stored' \ deleted' \subseteq Placed'
    BY <2>1, <2>2 DEF TInv
  <2>. QED
    BY <1>0, <2>1, <2>2, <2>3, <2>4, <2>5 DEF TInv, TypeOK
<1>4. CASE Restart
  <2>1. /\ worker' = [w \in Workers |-> Idle] /\ UNCHANGED <<maasVars, stored, deleted, good>>
        /\ faults' \in 0..MaxFaults
    BY <1>0, <1>4, FaultTyped DEF Restart
  <2>2. /\ worker' \in [Workers -> Pass]
        /\ \A w \in Workers : worker'[w].pc = "idle" /\ worker'[w].vm = NoVM
    BY <2>1, IdleTyped
  <2>3. NoVM \notin deleted
    BY <1>0, VMPlacementAssumption DEF TypeOK
  <2>4. OneWorker' /\ \A w \in Workers : PassOK(w)'
    BY <2>1, <2>2, <2>3 DEF OneWorker, PassOK
  <2>. QED
    BY <2>1, <2>2, <2>4 DEF TInv, TypeOK, maasVars, Placed
<1>5. CASE UNCHANGED <<maasVars, stored, deleted, worker, faults>>
  <2>1. UNCHANGED Placed
    BY <1>5 DEF maasVars, Placed
  <2>. QED
    BY <1>0, <1>5, <2>1 DEF TInv, TypeOK, OneWorker, PassOK, maasVars
<1>. QED
  BY <1>1, <1>2, <1>3, <1>4, <1>5, NextKinds

\* Every state is well typed: a tagged VM exists, and a deployed one has its ID
\* stored, whichever machines are deleted meanwhile.
THEOREM TypeCorrect == Spec => []TypeOK
<1>1. Spec => []TInv
  BY InitTyped, NextTyped, PTL DEF Spec
<1>2. TInv => TypeOK
  BY DEF TInv
<1>. QED
  BY <1>1, <1>2, PTL

-----------------------------------------------------------------------------
(* What becomes of a VM without failures.                                  *)

\* A step is a failure or leaves their number.
LEMMA FaultsGrow ==
  ASSUME TInv, [Next]_vars
  PROVE  /\ faults' = faults \/ (Fault /\ faults' = faults + 1)
         /\ faults \in Nat
         /\ faults' = 0 => faults = 0 /\ ~Fault
<1>1. faults \in Nat
  BY DEF TInv, TypeOK
<1>2. ASSUME NEW w \in Workers, Step(w)
      PROVE  Fault \/ UNCHANGED faults
  <2>1. TypeOK
    BY DEF TInv
  <2>. QED
    BY <1>2, <2>1, ComposeMoves, DeployMoves
       DEF Step, CountCPs, SelectHost, PatchID, TagVM, Close
<1>3. Fault \/ UNCHANGED faults
  BY <1>2, NextKinds DEF Begin, DeleteVM, Restart
<1>. QED
  BY <1>1, <1>3 DEF Fault

\* A pass that neither stores an ID nor tags a VM leaves those that do.
LEMMA HandledBeside ==
  ASSUME TInv, Handled, NEW w \in Workers, NEW from, from \notin {"patch", "tag"}, NEW to, NEW v, NEW h,
         Moves(w, from, to, v, h), faults = 0
  PROVE  /\ \A u \in Placed \ stored : \E x \in Workers : Has(x, u)' /\ worker'[x].pc = "patch"
         /\ \A u \in Placed \ tagged :
              \E x \in Workers : Has(x, u)' /\ worker'[x].pc \in {"patch", "tag"}
         /\ deployed \subseteq tagged
<1>1. \A x \in Workers : worker[x].pc \in {"patch", "tag"} => worker'[x] = worker[x]
  BY DEF Moves
<1>. QED
  BY <1>1 DEF Handled, Has

LEMMA StepHandled ==
  ASSUME TInv, Handled, NEW w \in Workers, Step(w), faults = 0, ~Fault
  PROVE  Handled'
<1> DEFINE v == worker[w].vm
<1>0. TypeOK /\ PassOK(w) /\ OneWorker
  BY DEF TInv
<1>1. ASSUME NEW from, from \notin {"patch", "tag"}, NEW to, NEW u, NEW h, Moves(w, from, to, u, h),
             UNCHANGED maasVars, stored \subseteq stored'
      PROVE  Handled'
  <2>1. UNCHANGED Placed
    BY <1>1 DEF maasVars, Placed
  <2>. QED
    BY <1>1, <2>1, HandledBeside DEF Handled, Has, maasVars
<1>2. CASE CountCPs(w)
  <2>1. (\E h \in Hosts \cup {NoHost} : Moves(w, "count", "select", v, h))
        /\ UNCHANGED <<maasVars, stored>>
    BY <1>0, <1>2, CountMoves DEF CountCPs
  <2>. QED
    BY <1>1, <2>1
<1>3. CASE SelectHost(w)
  <2>1. UNCHANGED <<maasVars, stored>>
    BY <1>3 DEF SelectHost
  <2>2. \/ \E h \in Hosts : Moves(w, "select", "compose", v, h)
        \/ Moves(w, "select", "idle", NoVM, NoHost)
    BY <1>0, <1>3, SelectMoves
  <2>. QED
    BY <1>1, <2>1, <2>2
<1>4. CASE Compose(w)
  <2>1. UNCHANGED <<tagged, deployed, stored>>
    BY <1>4 DEF Compose
  <2>2. \/ Moves(w, "compose", "close", v, worker[w].host) /\ UNCHANGED on
        \/ Moves(w, "compose", "idle", NoVM, NoHost) /\ UNCHANGED on
        \/ /\ Moves(w, "compose", "patch", v, worker[w].host)
           /\ v \notin Placed /\ on' = [on EXCEPT ![v] = worker[w].host]
    BY <1>0, <1>4, ComposeMoves
  <2>3. CASE UNCHANGED on
    BY <1>1, <2>1, <2>2, <2>3 DEF maasVars
  <2>4. CASE /\ Moves(w, "compose", "patch", v, worker[w].host)
             /\ on' = [on EXCEPT ![v] = worker[w].host]
    <3>1. Placed' \subseteq Placed \cup {v} /\ worker'[w].vm = v /\ worker'[w].pc = "patch"
      BY <1>0, <2>4 DEF Placed, TypeOK, Moves
    <3>2. /\ \A u \in Placed \ stored : \E x \in Workers : Has(x, u)' /\ worker'[x].pc = "patch"
          /\ \A u \in Placed \ tagged :
               \E x \in Workers : Has(x, u)' /\ worker'[x].pc \in {"patch", "tag"}
          /\ deployed \subseteq tagged
      BY <2>4, HandledBeside
    <3> HIDE DEF v
    <3>3. ASSUME NEW u \in Placed' \ stored'
          PROVE  \E x \in Workers : worker'[x].vm = u /\ worker'[x].pc = "patch"
      BY <2>1, <3>1, <3>2, <3>3 DEF Has
    <3>4. ASSUME NEW u \in Placed' \ tagged'
          PROVE  \E x \in Workers : worker'[x].vm = u /\ worker'[x].pc \in {"patch", "tag"}
      BY <2>1, <3>1, <3>2, <3>4 DEF Has
    <3>. QED
      BY <2>1, <3>2, <3>3, <3>4 DEF Handled, Has
  <2>. QED
    BY <2>2, <2>3, <2>4
<1>5. CASE PatchID(w)
  <2>1. Moves(w, "patch", "tag", v, worker[w].host) /\ UNCHANGED maasVars /\ stored' = stored \cup {v}
    BY <1>0, <1>5, PatchMoves DEF PatchID
  <2>2. UNCHANGED Placed
    BY <2>1 DEF maasVars, Placed
  <2>3. \A x \in Workers : /\ worker'[x].vm = worker[x].vm
                           /\ x # w => worker'[x] = worker[x]
    BY <2>1 DEF Moves
  <2>4. \A u \in Placed \ stored' : \E x \in Workers : Has(x, u)' /\ worker'[x].pc = "patch"
    BY <2>1, <2>3 DEF Handled, Has
  <2>5. \A u \in Placed \ tagged :
          \E x \in Workers : Has(x, u)' /\ worker'[x].pc \in {"patch", "tag"}
    BY <2>1, <2>3 DEF Handled, Has, Moves
  <2>. QED
    BY <2>1, <2>2, <2>4, <2>5 DEF Handled, Has, maasVars
<1>6. CASE TagVM(w)
  <2>1. /\ Moves(w, "tag", "close", v, worker[w].host) /\ UNCHANGED <<on, deployed, stored>>
        /\ tagged' = tagged \cup {v}
    BY <1>0, <1>6, TagMoves DEF TagVM
  <2>2. UNCHANGED Placed
    BY <2>1 DEF Placed
  <2>3. \A x \in Workers : /\ worker'[x].vm = worker[x].vm
                           /\ x # w => worker'[x] = worker[x]
    BY <2>1 DEF Moves
  <2>4. \A u \in Placed \ stored : \E x \in Workers : Has(x, u)' /\ worker'[x].pc = "patch"
    BY <2>1, <2>3 DEF Handled, Has, Moves
  <2>5. \A u \in Placed \ tagged' :
          \E x \in Workers : Has(x, u)' /\ worker'[x].pc \in {"patch", "tag"}
    BY <2>1, <2>3 DEF Handled, Has
  <2>. QED
    BY <2>1, <2>2, <2>4, <2>5 DEF Handled, Has
<1>7. CASE DeployVM(w)
  <2>1. /\ Moves(w, "deploy", "tag", v, worker[w].host) /\ UNCHANGED <<on, tagged, stored>>
        /\ deployed' = deployed \cup {v}
    BY <1>0, <1>7, DeployMoves DEF DeployVM
  <2>2. v \in Placed /\ v # NoVM /\ UNCHANGED Placed
    BY <1>0, <2>1 DEF Moves, PassOK, Placed
  <2>3. v \in tagged
    <3> SUFFICES ASSUME v \notin tagged PROVE FALSE
      OBVIOUS
    <3>1. PICK x \in Workers : worker[x].vm = v /\ worker[x].pc \in {"patch", "tag"}
      BY <2>2 DEF Handled, Has
    <3>. QED
      BY <1>0, <2>1, <2>2, <3>1 DEF OneWorker, Moves
  <2>. QED
    BY <2>1, <2>2, <2>3, HandledBeside DEF Handled, Has
<1>8. CASE Close(w)
  <2>1. Moves(w, "close", "idle", NoVM, NoHost) /\ UNCHANGED maasVars /\ stored \subseteq stored'
    BY <1>0, <1>8, CloseMoves DEF Close
  <2>. QED
    BY <1>1, <2>1
<1>. QED
  BY <1>2, <1>3, <1>4, <1>5, <1>6, <1>7, <1>8 DEF Step

LEMMA HandledNext == TInv /\ Handled /\ [Next]_vars => Handled'
<1> SUFFICES ASSUME TInv, Handled, [Next]_vars, faults' = 0 PROVE Handled'
  BY DEF Handled
<1>0. faults = 0 /\ ~Fault /\ TypeOK
  BY FaultsGrow DEF TInv
<1>1. ASSUME NEW w \in Workers, NEW v \in VMs, Begin(w, v)
      PROVE  Handled'
  <2>1. PICK to \in {"deploy", "count"} : Moves(w, "idle", to, v, NoHost)
    BY <1>0, <1>1, BeginMoves
  <2>2. UNCHANGED <<maasVars, stored, Placed>>
    BY <1>1 DEF Begin, maasVars, Placed
  <2>. QED
    BY <1>0, <2>1, <2>2, HandledBeside DEF Handled, Has, maasVars
<1>2. ASSUME NEW w \in Workers, Step(w)
      PROVE  Handled'
  BY <1>0, <1>2, StepHandled
<1>3. ASSUME NEW v \in VMs, DeleteVM(v)
      PROVE  Handled'
  <2>1. UNCHANGED <<stored, worker>>
    BY <1>3 DEF DeleteVM
  <2>2. CASE UNCHANGED maasVars
    BY <1>0, <2>1, <2>2 DEF Handled, Has, maasVars, Placed
  <2>3. CASE /\ on' = [on EXCEPT ![v] = NoHost]
             /\ tagged' = tagged \ {v} /\ deployed' = deployed \ {v}
    <3>1. Placed' = Placed \ {v}
      BY <1>0, <2>3 DEF TypeOK, Placed
    <3>. QED
      BY <1>0, <2>1, <2>3, <3>1 DEF Handled, Has
  <2>. QED
    BY <1>3, <2>2, <2>3 DEF DeleteVM, Released
<1>4. CASE Restart
  BY <1>0, <1>4 DEF Restart
<1>5. CASE UNCHANGED <<maasVars, stored, deleted, worker, faults>>
  BY <1>0, <1>5 DEF Handled, Has, maasVars, Placed
<1>. QED
  BY <1>1, <1>2, <1>3, <1>4, <1>5, NextKinds

LEMMA UntaggedNext == TInv /\ Handled /\ UntaggedAreFailures /\ [Next]_vars => UntaggedAreFailures'
<1> SUFFICES ASSUME TInv, Handled, UntaggedAreFailures, [Next]_vars, ~(faults' > 1),
                    NEW v \in deployed' \ tagged'
             PROVE  \E w \in Workers : worker'[w].vm = v /\ worker'[w].pc = "tag"
  BY DEF UntaggedAreFailures
<1>0. TypeOK
  BY DEF TInv
<1>1. CASE v \notin deployed \ tagged
  <2>1. ASSUME NEW w \in Workers, Step(w)
        PROVE  worker'[w].vm = v /\ worker'[w].pc = "tag"
    <3>1. tagged \subseteq tagged'
      BY <2>1 DEF Step, CountCPs, SelectHost, Compose, PatchID, TagVM, DeployVM, Close, maasVars
    <3>2. v \notin deployed
      BY <1>1, <3>1
    <3>3. DeployVM(w)
      BY <2>1, <3>2 DEF Step, CountCPs, SelectHost, Compose, PatchID, TagVM, Close, maasVars
    <3>. QED
      BY <1>0, <3>2, <3>3, DeployMoves DEF Moves
  <2>2. ASSUME ~\E w \in Workers : Step(w)
        PROVE  v \in deployed \ tagged
    BY <2>2, NextKinds DEF Begin, DeleteVM, Released, Restart, maasVars
  <2>. QED
    BY <1>1, <2>1, <2>2
<1>2. CASE v \in deployed \ tagged
  <2>1. faults # 0
    BY <1>2 DEF Handled
  <2>2. faults' = faults /\ ~Fault /\ ~(faults > 1)
    BY <2>1, FaultsGrow DEF Fault
  <2>3. PICK w \in Workers : worker[w].vm = v /\ worker[w].pc = "tag"
    BY <1>2, <2>2 DEF UntaggedAreFailures
  <2>4. ASSUME NEW x \in Workers, Step(x)
        PROVE  worker'[w] = worker[w]
    <3>1. CASE x = w
      <4>1. TagVM(w)
        BY <1>0, <2>3, <2>4, <3>1, CountMoves, SelectMoves, ComposeMoves, PatchMoves, DeployMoves,
           CloseMoves DEF Step, Moves
      <4>. QED
        BY <2>2, <2>3, <4>1 DEF TagVM
    <3>2. CASE x # w
      BY <1>0, <2>4, <3>2, CountMoves, SelectMoves, ComposeMoves, PatchMoves, TagMoves, DeployMoves,
         CloseMoves DEF Step, Moves
    <3>. QED
      BY <3>1, <3>2
  <2>5. ASSUME NEW x \in Workers, NEW u \in VMs, Begin(x, u)
        PROVE  worker'[w] = worker[w]
    BY <1>0, <2>3, <2>5, BeginMoves DEF Moves
  <2>6. worker'[w] = worker[w]
    BY <2>2, <2>4, <2>5, NextKinds DEF DeleteVM, Restart
  <2>. QED
    BY <2>3, <2>6
<1>. QED
  BY <1>1, <1>2

LEMMA Inductive == Spec => [](TInv /\ Handled /\ UntaggedAreFailures)
<1> DEFINE I == TInv /\ Handled /\ UntaggedAreFailures
<1>1. Init => I
  BY InitTyped
<1>2. I /\ [Next]_vars => I'
  BY NextTyped, HandledNext, UntaggedNext
<1> HIDE DEF I
<1>3. Spec => []I
  BY <1>1, <1>2, PTL DEF Spec
<1>. QED
  BY <1>3 DEF I

\* Of a deployed VM that is not tagged both attempts have failed, or were cut
\* short by a restart.
THEOREM DeployedAreTagged == Spec => []UntaggedAreFailures
<1>1. TInv /\ Handled /\ UntaggedAreFailures => UntaggedAreFailures
  OBVIOUS
<1>. QED
  BY <1>1, Inductive, PTL

\* Without failures no pass leaves a VM behind that its MaasMachine does not
\* name, whichever worker took over from which.
THEOREM ComposedAreKnown == Spec => []KnownVMs
<1>1. TInv /\ Handled => KnownVMs
  <2> SUFFICES ASSUME TInv, Handled, NEW v \in Placed \ stored, ~(faults > 0)
               PROVE  \E w \in Workers : worker[w].vm = v
    BY DEF KnownVMs
  <2>1. faults = 0
    BY DEF TInv, TypeOK
  <2>. QED
    BY <2>1 DEF Handled, Has
<1>2. TInv /\ Handled /\ UntaggedAreFailures => KnownVMs
  BY <1>1
<1>. QED
  BY <1>2, Inductive, PTL
-----------------------------------------------------------------------------
(* How the VMs are spread over the hosts.                                  *)

\* Passes that compose or have composed a VM they are going to tag.
Busy == {w \in Workers : worker[w].pc \in {"patch", "tag"}}

\* VMs without tags that no pass is going to tag: later counts miss them.
Lost == {v \in Placed \ tagged : \A w \in Busy : worker[w].vm # v}

\* Passes that may still put a VM on h, for all they have counted against g.
Heading(h, g) ==
  {w \in Workers : \/ worker[w].pc = "select" /\ worker[w].count[h] <= worker[w].count[g]
                   \/ worker[w].pc = "compose" /\ worker[w].host = h}

\* The selection never misses a steady host.
SteadySeen ==
  /\ Steady \subseteq good
  /\ \A w \in Workers : worker[w].pc \in {"count", "select"} =>
                          \A g \in Steady : worker[w].free[g] >= Options.cores

\* Each failure makes the manager forget a VM per worker at most.
LostBounded == Cardinality(Lost) <= Cardinality(Workers) * faults

\* The sets that are counted are finite, and their sizes numbers.
Sizes ==
  /\ Cardinality(Workers) \in Nat /\ Cardinality(VMs) \in Nat
  /\ faults \in Nat /\ Cardinality(deleted) \in Nat /\ IsFiniteSet(deleted)
  /\ \A h : IsFiniteSet(Guests(h)) /\ Load(h) \in Nat
  /\ \A S : S \subseteq Workers => IsFiniteSet(S) /\ Cardinality(S) \in Nat
                                   /\ Cardinality(S) <= Cardinality(Workers)
  /\ \A S : S \subseteq VMs => IsFiniteSet(S) /\ Cardinality(S) \in Nat

\* What is counted is finite.
LEMMA SizesAreNumbers == TypeOK => Sizes
<1> SUFFICES ASSUME TypeOK PROVE Sizes
  OBVIOUS
<1>1. /\ IsFiniteSet(VMs) /\ IsFiniteSet(Workers)
      /\ Cardinality(Workers) \in Nat /\ Cardinality(VMs) \in Nat
  BY VMPlacementAssumption, FS_CardinalityType
<1>2. \A S : S \subseteq VMs => IsFiniteSet(S) /\ Cardinality(S) \in Nat
  BY <1>1, FS_Subset, FS_CardinalityType
<1>3. \A S : S \subseteq Workers => IsFiniteSet(S) /\ Cardinality(S) \in Nat
                                    /\ Cardinality(S) <= Cardinality(Workers)
  BY <1>1, FS_Subset, FS_CardinalityType
<1>4. deleted \subseteq VMs /\ faults \in Nat
  BY VMPlacementAssumption DEF TypeOK
<1>5. \A h : Guests(h) \subseteq VMs
  BY DEF Guests
<1>. QED
  BY <1>1, <1>2, <1>3, <1>4, <1>5 DEF Sizes, Load

LEMMA SizesAfter == TypeOK' => Sizes'
BY SizesAreNumbers, PTL

\* A failure allows for one more VM per worker.
LEMMA OneMorePerWorker ==
  ASSUME NEW n \in Nat, NEW f \in Nat
  PROVE  /\ n * f \in Nat /\ n * (1 + f) \in Nat /\ n * (1 + (f + 1)) \in Nat
         /\ n * (f + 1) = n * f + n
         /\ n * (1 + f) = n * f + n
         /\ n * (1 + (f + 1)) = n * (1 + f) + n
<1>1. \A x, y \in Nat : x * y \in Nat
  OBVIOUS
<1>2. \A x, y \in Nat : x * (y + 1) = x * y + x
  OBVIOUS
<1>3. f + 1 \in Nat /\ 1 + f = f + 1 /\ 1 + (f + 1) = (f + 1) + 1
  OBVIOUS
<1>4. n * (f + 1) = n * f + n /\ n * ((f + 1) + 1) = n * (f + 1) + n
  BY <1>2, <1>3
<1>5. n * f \in Nat /\ n * (f + 1) \in Nat /\ n * ((f + 1) + 1) \in Nat
  BY <1>1, <1>3
<1>. QED
  BY <1>3, <1>4, <1>5

\* Adding an element changes a cardinality by one at most, as does removing one.
LEMMA AtMostOneMore ==
  ASSUME NEW S, NEW T, NEW x, IsFiniteSet(S), T \subseteq S \cup {x}
  PROVE  IsFiniteSet(T) /\ Cardinality(T) \in Nat /\ Cardinality(T) <= Cardinality(S) + 1
<1>1. Cardinality(S) \in Nat
  BY FS_CardinalityType
<1>2. /\ IsFiniteSet(S \cup {x})
      /\ Cardinality(S \cup {x}) = IF x \in S THEN Cardinality(S) ELSE Cardinality(S) + 1
  BY FS_AddElement
<1>3. Cardinality(S \cup {x}) <= Cardinality(S) + 1 /\ Cardinality(S \cup {x}) \in Nat
  BY <1>1, <1>2
<1>4. IsFiniteSet(T) /\ Cardinality(T) <= Cardinality(S \cup {x})
  BY <1>2, FS_Subset
<1>5. Cardinality(T) \in Nat
  BY <1>4, FS_CardinalityType
<1>. QED
  BY <1>1, <1>3, <1>4, <1>5

\* A subset has no more elements than its set.
LEMMA NotMore ==
  ASSUME NEW S, NEW T, IsFiniteSet(S), T \subseteq S
  PROVE  IsFiniteSet(T) /\ Cardinality(T) \in Nat /\ Cardinality(T) <= Cardinality(S)
BY FS_Subset, FS_CardinalityType

\* A union has no more elements than its two sets together.
LEMMA UnionIsBounded ==
  ASSUME NEW S, NEW T, IsFiniteSet(S), IsFiniteSet(T)
  PROVE  /\ IsFiniteSet(S \cup T) /\ Cardinality(S \cup T) \in Nat
         /\ Cardinality(S \cup T) <= Cardinality(S) + Cardinality(T)
<1>1. IsFiniteSet(S \cap T)
  BY FS_Intersection
<1>2. Cardinality(S) \in Nat /\ Cardinality(T) \in Nat /\ Cardinality(S \cap T) \in Nat
  BY <1>1, FS_CardinalityType
<1>3. /\ IsFiniteSet(S \cup T)
      /\ Cardinality(S \cup T) = Cardinality(S) + Cardinality(T) - Cardinality(S \cap T)
  BY FS_Union
<1>4. Cardinality(S \cup T) \in Nat
  BY <1>3, FS_CardinalityType
<1>. QED
  BY <1>2, <1>3, <1>4

\* The VMs on a host are tagged, lost, or one for each busy pass.
LEMMA LoadIsCounted ==
  ASSUME TypeOK, NEW h \in Hosts, NEW S, S \subseteq Workers, S \cap Busy = {}
  PROVE  Load(h) + Cardinality(S)
           <= CountByHost(h) + Cardinality(Lost) + Cardinality(Workers)
<1> DEFINE f == [w \in Busy |-> worker[w].vm]
           Carried == {worker[w].vm : w \in Busy}
           T == Guests(h) \cap tagged
<1>1. IsFiniteSet(Busy) /\ IsFiniteSet(S) /\ IsFiniteSet(T) /\ IsFiniteSet(Lost)
  <2>1. Busy \subseteq Workers /\ T \subseteq VMs /\ Lost \subseteq VMs
    BY DEF Busy, Guests, Lost, Placed
  <2>. QED
    BY <2>1, SizesAreNumbers DEF Sizes
<1>2. IsFiniteSet(Carried) /\ Cardinality(Carried) <= Cardinality(Busy)
  <2>1. f \in Surjection(Busy, Carried)
    BY DEF Surjection
  <2>. QED
    BY <1>1, <2>1, FS_Surjection
<1>3. Guests(h) \subseteq (T \cup Lost) \cup Carried
  <2> SUFFICES ASSUME NEW v \in Guests(h), v \notin tagged, v \notin Carried
               PROVE  v \in Lost
    OBVIOUS
  <2>1. v \in Placed
    BY VMPlacementAssumption DEF Guests, Placed
  <2>. QED
    BY <2>1 DEF Lost
<1>4. /\ IsFiniteSet(T \cup Lost)
      /\ Cardinality(T \cup Lost) <= Cardinality(T) + Cardinality(Lost)
  BY <1>1, UnionIsBounded
<1>5. Cardinality(Guests(h)) <= Cardinality(T \cup Lost) + Cardinality(Carried)
  <2>1. /\ IsFiniteSet((T \cup Lost) \cup Carried)
        /\ Cardinality((T \cup Lost) \cup Carried)
             <= Cardinality(T \cup Lost) + Cardinality(Carried)
        /\ Cardinality((T \cup Lost) \cup Carried) \in Nat
    BY <1>2, <1>4, UnionIsBounded
  <2>2. /\ Cardinality(Guests(h)) <= Cardinality((T \cup Lost) \cup Carried)
        /\ Cardinality(Guests(h)) \in Nat
    BY <1>3, <2>1, NotMore
  <2>3. Cardinality(T \cup Lost) \in Nat /\ Cardinality(Carried) \in Nat
    BY <1>2, <1>4, FS_CardinalityType
  <2> HIDE DEF T, Carried
  <2>. QED
    BY <2>1, <2>2, <2>3
<1>6. Cardinality(Busy) + Cardinality(S) <= Cardinality(Workers)
  <2>1. /\ Busy \cap S = {} /\ Busy \cup S \subseteq Workers /\ Cardinality({}) = 0
        /\ Cardinality(Busy) \in Nat /\ Cardinality(S) \in Nat
    BY <1>1, FS_EmptySet, FS_CardinalityType DEF Busy
  <2>2. Cardinality(Busy \cup S)
          = Cardinality(Busy) + Cardinality(S) - Cardinality(Busy \cap S)
    BY <1>1, FS_Union
  <2>3. Cardinality(Busy \cup S) <= Cardinality(Workers) /\ Cardinality(Workers) \in Nat
    BY <2>1, SizesAreNumbers DEF Sizes
  <2>4. Cardinality(Busy \cap S) = 0
    BY <2>1
  <2> HIDE DEF Carried, T
  <2>. QED
    BY <2>1, <2>2, <2>3, <2>4
<1>7. /\ Cardinality(T) \in Nat /\ Cardinality(Lost) \in Nat /\ Cardinality(Busy) \in Nat
      /\ Cardinality(S) \in Nat /\ Cardinality(Carried) \in Nat
      /\ Cardinality(Guests(h)) \in Nat /\ Cardinality(T \cup Lost) \in Nat
      /\ Cardinality(Workers) \in Nat
  BY <1>1, <1>2, <1>4, FS_CardinalityType, SizesAreNumbers DEF Sizes, Load
<1>8. CountByHost(h) = Cardinality(T) /\ Load(h) = Cardinality(Guests(h))
  BY DEF CountByHost, Load
<1> HIDE DEF T, Carried
<1>. QED
  BY <1>2, <1>4, <1>5, <1>6, <1>7, <1>8

-----------------------------------------------------------------------------
(* The selection sees the steady hosts.                                    *)

\* A product grows with its first factor.
LEMMA TimesGrows ==
  ASSUME NEW a \in Nat, NEW b \in Nat, NEW c \in Nat, a <= b
  PROVE  a * c \in Nat /\ b * c \in Nat /\ a * c <= b * c
<1>1. PICK d \in Nat : b = a + d
  <2>1. b - a \in Nat /\ b = a + (b - a)
    OBVIOUS
  <2>. QED
    BY <2>1
<1>2. \A x, y \in Nat : x * y \in Nat
  OBVIOUS
<1>3. b * c = a * c + d * c
  BY <1>1
<1>4. a * c \in Nat /\ d * c \in Nat /\ b * c \in Nat
  BY <1>1, <1>2
<1>. QED
  BY <1>3, <1>4

\* However many of the VMs it has, a steady host has room for another one.
LEMMA SteadyHasRoom ==
  ASSUME TypeOK, NEW g \in Steady
  PROVE  Free(g) >= Options.cores
<1> DEFINE c == Options.cores
           n == Cardinality(VMs)
           l == Cardinality(Guests(g))
           i == Inventory[g].cores
<1>1. g \in Hosts /\ i >= c * (n + 1)
  BY DEF Steady
<1>2. c \in Nat /\ i \in Nat
  BY <1>1, HostSelectionAssumption
<1>3. n \in Nat /\ l \in Nat /\ l <= n
  <2>1. Guests(g) \subseteq VMs /\ IsFiniteSet(VMs)
    BY VMPlacementAssumption DEF Guests
  <2>. QED
    BY <2>1, FS_Subset, FS_CardinalityType
<1>4. Free(g) = IF l * c > i THEN 0 ELSE i - l * c
  BY DEF Free
<1> HIDE DEF c, n, l, i
<1>5. l * c <= n * c /\ l * c \in Nat /\ n * c \in Nat
  BY <1>2, <1>3, TimesGrows
<1>6. c * (n + 1) = n * c + c
  BY <1>2, <1>3
<1>7. Free(g) >= c
  BY <1>1, <1>2, <1>4, <1>5, <1>6
<1>. QED
  BY <1>7 DEF c

\* What a pass has counted, and that it goes on with what it has listed.
LEMMA CountKeepsFree ==
  ASSUME TypeOK, NEW w \in Workers, CountCPs(w)
  PROVE  /\ worker'[w].free = worker[w].free
         /\ \/ worker'[w].count = [h \in Hosts |-> CountByHost(h)] /\ UNCHANGED faults
            \/ Fault
<1> DEFINE p == [pc |-> "select", vm |-> worker[w].vm, host |-> NoHost, free |-> worker[w].free,
                 count |-> [h \in Hosts |-> CountByHost(h)]]
           q == [worker[w] EXCEPT !.pc = "select"]
<1>1. worker \in [Workers -> Pass] /\ worker[w] \in Pass
  BY DEF TypeOK
<1>2. \/ worker' = [worker EXCEPT ![w] = p] /\ UNCHANGED faults
      \/ worker' = [worker EXCEPT ![w] = q] /\ Fault
  BY DEF CountCPs, Goes
<1>3. p.free = worker[w].free /\ p.count = [h \in Hosts |-> CountByHost(h)]
  OBVIOUS
<1>4. q.free = worker[w].free
  BY <1>1 DEF Pass
<1> HIDE DEF p, q
<1>. QED
  BY <1>1, <1>2, <1>3, <1>4

\* A pass lists the free cores as they are.
LEMMA BeginLists ==
  ASSUME TypeOK, NEW w \in Workers, NEW v \in VMs, Begin(w, v), worker'[w].pc = "count"
  PROVE  worker'[w].free = [h \in Hosts |-> Free(h)]
<1> DEFINE p == [pc |-> "deploy", vm |-> v, host |-> NoHost, free |-> Zero, count |-> Zero]
           q == [pc |-> "count", vm |-> v, host |-> NoHost,
                 free |-> [h \in Hosts |-> Free(h)], count |-> Zero]
<1>1. worker' = [worker EXCEPT ![w] = p] \/ worker' = [worker EXCEPT ![w] = q]
  BY DEF Begin
<1>2. p.pc = "deploy" /\ q.free = [h \in Hosts |-> Free(h)]
  OBVIOUS
<1> HIDE DEF p, q
<1>. QED
  BY <1>1, <1>2 DEF TypeOK

\* Where a pass may be after a step, whatever the step.
LEMMA StepMoves ==
  ASSUME TypeOK, NEW w \in Workers, Step(w)
  PROVE  /\ \A x \in Workers \ {w} : worker'[x] = worker[x]
         /\ worker'[w].pc \in {"count", "select"} => CountCPs(w)
BY CountMoves, SelectMoves, ComposeMoves, PatchMoves, TagMoves, DeployMoves, CloseMoves
   DEF Step, Moves

LEMMA SteadySeenNext == TInv /\ SteadySeen /\ [Next]_vars => SteadySeen'
<1> SUFFICES ASSUME TInv, SteadySeen, [Next]_vars PROVE SteadySeen'
  OBVIOUS
<1>0. TypeOK
  BY DEF TInv
<1>1. Steady \subseteq good'
  <2>1. ASSUME NEW h \in Flaky, HostChanges(h)
        PROVE  Steady \subseteq good'
    BY <2>1 DEF HostChanges, SteadySeen, Steady
  <2>2. ASSUME NEW w \in Workers, Step(w)
        PROVE  UNCHANGED good
    BY <2>2 DEF Step, CountCPs, SelectHost, Compose, PatchID, TagVM, DeployVM, Close
  <2>3. UNCHANGED good \/ \E h \in Flaky : HostChanges(h)
    BY <2>2 DEF Next, vars, Begin, DeleteVM, Restart
  <2>. QED
    BY <2>1, <2>3 DEF SteadySeen
<1>2. ASSUME NEW w \in Workers, worker'[w].pc \in {"count", "select"}, NEW g \in Steady
      PROVE  worker'[w].free[g] >= Options.cores
  <2>1. CASE UNCHANGED worker[w]
    BY <1>2, <2>1 DEF SteadySeen
  <2>2. ASSUME NEW x \in Workers, NEW v \in VMs, Begin(x, v)
        PROVE  worker'[w].free[g] >= Options.cores
    <3>1. CASE x = w
      <4>1. worker'[w].pc = "count"
        BY <1>0, <1>2, <2>2, <3>1, BeginMoves DEF Moves
      <4>2. worker'[w].free[g] = Free(g)
        BY <1>0, <2>2, <3>1, <4>1, BeginLists DEF Steady
      <4>. QED
        BY <1>0, <4>2, SteadyHasRoom
    <3>2. CASE x # w
      <4>1. worker'[w] = worker[w]
        BY <1>0, <2>2, <3>2, BeginMoves DEF Moves
      <4>. QED
        BY <2>1, <4>1
    <3>. QED
      BY <3>1, <3>2
  <2>3. ASSUME NEW x \in Workers, Step(x)
        PROVE  worker'[w].free[g] >= Options.cores
    <3>1. CASE x = w
      <4>1. CountCPs(w)
        BY <1>0, <1>2, <2>3, <3>1, StepMoves
      <4>2. worker'[w].free = worker[w].free /\ worker[w].pc = "count"
        BY <1>0, <4>1, CountKeepsFree DEF CountCPs, Goes
      <4>. QED
        BY <4>2 DEF SteadySeen
    <3>2. CASE x # w
      <4>1. worker'[w] = worker[w]
        BY <1>0, <2>3, <3>2, StepMoves
      <4>. QED
        BY <2>1, <4>1
    <3>. QED
      BY <3>1, <3>2
  <2>4. CASE Restart
    <3>1. worker'[w].pc = "idle"
      BY <2>4, IdleTyped DEF Restart
    <3>. QED
      BY <1>2, <3>1
  <2>. QED
    BY <2>1, <2>2, <2>3, <2>4, NextKinds DEF DeleteVM
<1>. QED
  BY <1>1, <1>2 DEF SteadySeen, Steady

-----------------------------------------------------------------------------
(* What failures lose.                                                     *)

\* Without a failure a pass leaves no VM untagged behind, and with one its own.
LEMMA StepLoses ==
  ASSUME TInv, NEW w \in Workers, Step(w)
  PROVE  /\ Lost' \subseteq Lost \cup {worker[w].vm}
         /\ UNCHANGED faults => Lost' \subseteq Lost
<1> DEFINE v == worker[w].vm
<1>0. TypeOK /\ PassOK(w) /\ faults \in Nat /\ (Fault => faults' # faults)
  BY VMPlacementAssumption DEF TInv, TypeOK, Fault
<1>1. ASSUME NEW from, NEW to, NEW u, NEW h, Moves(w, from, to, u, h),
             from \notin {"patch", "tag"} \/ (to \in {"patch", "tag"} /\ u = v),
             Placed' \subseteq Placed, tagged \subseteq tagged'
      PROVE  Lost' \subseteq Lost
  <2>1. \A x \in Busy : x \in Busy' /\ worker'[x].vm = worker[x].vm
    BY <1>1 DEF Busy, Moves
  <2>. QED
    BY <1>1, <2>1 DEF Lost
<1>2. ASSUME NEW to, NEW u, NEW h, NEW from, Moves(w, from, to, u, h),
             Placed' \subseteq Placed \cup {v}, tagged \subseteq tagged'
      PROVE  Lost' \subseteq Lost \cup {v}
  <2>1. \A x \in Busy : worker[x].vm # v => x \in Busy' /\ worker'[x].vm = worker[x].vm
    BY <1>2 DEF Busy, Moves
  <2>. QED
    BY <1>2, <2>1 DEF Lost
<1>3. CASE CountCPs(w)
  <2>1. PICK h \in Hosts \cup {NoHost} : Moves(w, "count", "select", v, h)
    BY <1>0, <1>3, CountMoves
  <2>2. Placed' = Placed /\ tagged' = tagged
    BY <1>3 DEF CountCPs, maasVars, Placed
  <2>. QED
    BY <1>1, <2>1, <2>2
<1>4. CASE SelectHost(w)
  <2>1. Placed' = Placed /\ tagged' = tagged
    BY <1>4 DEF SelectHost, maasVars, Placed
  <2>2. \/ \E h \in Hosts : Moves(w, "select", "compose", v, h)
        \/ Moves(w, "select", "idle", NoVM, NoHost)
    BY <1>0, <1>4, SelectMoves
  <2>. QED
    BY <1>1, <2>1, <2>2
<1>5. CASE Compose(w)
  <2>1. tagged' = tagged
    BY <1>5 DEF Compose
  <2>2. CASE UNCHANGED on
    <3>1. Placed' = Placed
      BY <2>2 DEF Placed
    <3>2. \/ Moves(w, "compose", "close", v, worker[w].host)
          \/ Moves(w, "compose", "idle", NoVM, NoHost)
          \/ Moves(w, "compose", "patch", v, worker[w].host)
      BY <1>0, <1>5, ComposeMoves
    <3>. QED
      BY <1>1, <2>1, <3>1, <3>2
  <2>3. CASE on' = [on EXCEPT ![v] = worker[w].host]
    <3>1. Placed' \subseteq Placed \cup {v}
      BY <1>0, <2>3 DEF Placed, TypeOK
    <3>2. \/ Moves(w, "compose", "idle", NoVM, NoHost) /\ (Fault \/ UNCHANGED on)
          \/ Moves(w, "compose", "close", v, worker[w].host) /\ UNCHANGED on
          \/ Moves(w, "compose", "patch", v, worker[w].host)
      BY <1>0, <1>5, ComposeMoves
    <3>3. ASSUME Moves(w, "compose", "patch", v, worker[w].host)
          PROVE  Lost' \subseteq Lost
      <4>1. /\ \A x \in Busy : x \in Busy' /\ worker'[x].vm = worker[x].vm
            /\ w \in Busy' /\ worker'[w].vm = v
        BY <3>3 DEF Busy, Moves
      <4>. QED
        BY <2>1, <3>1, <4>1 DEF Lost
    <3>4. Lost' \subseteq Lost \cup {v}
      BY <1>2, <2>1, <3>1, <3>2
    <3>. QED
      BY <1>0, <2>2, <3>2, <3>3, <3>4
  <2>. QED
    BY <1>0, <1>5, <2>2, <2>3, ComposeMoves
<1>6. CASE PatchID(w)
  <2>1. Moves(w, "patch", "tag", v, worker[w].host)
    BY <1>0, <1>6, PatchMoves
  <2>2. Placed' = Placed /\ tagged' = tagged
    BY <1>6 DEF PatchID, maasVars, Placed
  <2>. QED
    BY <1>1, <2>1, <2>2
<1>7. CASE TagVM(w)
  <2>1. Moves(w, "tag", "close", v, worker[w].host)
    BY <1>0, <1>7, TagMoves
  <2>2. /\ Placed' = Placed /\ tagged \subseteq tagged'
        /\ tagged' = tagged \cup {v} \/ Fault
    BY <1>7 DEF TagVM, Placed
  <2>3. Lost' \subseteq Lost \cup {v}
    BY <1>2, <2>1, <2>2
  <2>4. ASSUME tagged' = tagged \cup {v}
        PROVE  Lost' \subseteq Lost
    BY <2>3, <2>4 DEF Lost
  <2>. QED
    BY <1>0, <2>2, <2>3, <2>4
<1>8. CASE DeployVM(w)
  <2>1. Placed' = Placed /\ tagged' = tagged
    BY <1>8 DEF DeployVM, Placed
  <2>2. \/ Moves(w, "deploy", "tag", v, worker[w].host)
        \/ Moves(w, "deploy", "idle", NoVM, NoHost)
    BY <1>0, <1>8, DeployMoves
  <2>. QED
    BY <1>1, <2>1, <2>2
<1>9. CASE Close(w)
  <2>1. Moves(w, "close", "idle", NoVM, NoHost)
    BY <1>0, <1>9, CloseMoves
  <2>2. Placed' = Placed /\ tagged' = tagged
    BY <1>9 DEF Close, maasVars, Placed
  <2>. QED
    BY <1>1, <2>1, <2>2
<1>. QED
  BY <1>3, <1>4, <1>5, <1>6, <1>7, <1>8, <1>9 DEF Step

LEMMA LostBoundedNext == TInv /\ LostBounded /\ [Next]_vars => LostBounded'
<1> SUFFICES ASSUME TInv, LostBounded, [Next]_vars PROVE LostBounded'
  OBVIOUS
<1> DEFINE n == Cardinality(Workers)
<1>0. TypeOK /\ TypeOK' /\ TInv'
  BY NextTyped DEF TInv
<1>1. /\ IsFiniteSet(Lost) /\ IsFiniteSet(Lost') /\ faults \in Nat
      /\ Cardinality(Lost) \in Nat /\ Cardinality(Lost') \in Nat /\ n \in Nat
  <2>1. Lost \subseteq VMs /\ Lost' \subseteq VMs
    BY DEF Lost, Placed
  <2>. QED
    BY <1>0, <2>1, SizesAreNumbers DEF Sizes
<1>2. /\ faults' = faults \/ faults' = faults + 1
      /\ n * (faults + 1) = n * faults + n /\ n * faults \in Nat
  BY <1>1, FaultsGrow, OneMorePerWorker
<1>3. Cardinality(Lost) <= n * faults
  BY DEF LostBounded
<1>4. ASSUME Lost' \subseteq Lost
      PROVE  LostBounded'
  <2>1. Cardinality(Lost') <= Cardinality(Lost)
    BY <1>1, <1>4, NotMore
  <2>. QED
    BY <1>1, <1>2, <1>3, <2>1 DEF LostBounded
<1>5. ASSUME faults' = faults + 1, Cardinality(Lost') <= Cardinality(Lost) + n
      PROVE  LostBounded'
  BY <1>1, <1>2, <1>3, <1>5 DEF LostBounded
<1>6. ASSUME NEW w \in Workers, Step(w)
      PROVE  LostBounded'
  <2>1. CASE UNCHANGED faults
    BY <1>4, <1>6, <2>1, StepLoses
  <2>2. CASE faults' = faults + 1
    <3>1. Cardinality(Lost') <= Cardinality(Lost) + 1
      BY <1>1, <1>6, StepLoses, AtMostOneMore
    <3>2. n >= 1
      BY <1>0, <1>1, <1>6, VMPlacementAssumption, FS_EmptySet
    <3>. QED
      BY <1>1, <1>5, <2>2, <3>1, <3>2
  <2>. QED
    BY <1>2, <2>1, <2>2
<1>7. ASSUME NEW w \in Workers, NEW v \in VMs, Begin(w, v)
      PROVE  LostBounded'
  <2>1. PICK to \in {"deploy", "count"} : Moves(w, "idle", to, v, NoHost)
    BY <1>0, <1>7, BeginMoves
  <2>2. \A x \in Busy : x \in Busy' /\ worker'[x] = worker[x]
    BY <2>1 DEF Busy, Moves
  <2>3. Placed' = Placed /\ tagged' = tagged
    BY <1>7 DEF Begin, maasVars, Placed
  <2>4. Lost' \subseteq Lost
    BY <2>2, <2>3 DEF Lost
  <2>. QED
    BY <1>4, <2>4
<1>8. ASSUME NEW v \in VMs, DeleteVM(v)
      PROVE  LostBounded'
  <2>1. worker' = worker
    BY <1>8 DEF DeleteVM
  <2>2. ASSUME UNCHANGED maasVars
        PROVE  Lost' \subseteq Lost
    BY <2>1, <2>2 DEF Lost, Busy, Placed, maasVars
  <2>3. ASSUME on' = [on EXCEPT ![v] = NoHost], tagged' = tagged \ {v}
        PROVE  Lost' \subseteq Lost
    <3>1. Placed' = Placed \ {v}
      BY <1>0, <2>3 DEF TypeOK, Placed
    <3>. QED
      BY <2>1, <2>3, <3>1 DEF Lost, Busy
  <2>4. Lost' \subseteq Lost
    BY <1>8, <2>2, <2>3 DEF DeleteVM, Released
  <2>. QED
    BY <1>4, <2>4
<1>9. CASE Restart
  <2> DEFINE Carried == {worker[w].vm : w \in Busy}
             f == [w \in Busy |-> worker[w].vm]
  <2>1. IsFiniteSet(Busy) /\ Cardinality(Busy) \in Nat /\ Cardinality(Busy) <= n
    BY <1>0, SizesAreNumbers DEF Sizes, Busy
  <2>2. IsFiniteSet(Carried) /\ Cardinality(Carried) <= Cardinality(Busy)
    <3>1. f \in Surjection(Busy, Carried)
      BY DEF Surjection
    <3>. QED
      BY <2>1, <3>1, FS_Surjection
  <2>3. Placed' = Placed /\ tagged' = tagged /\ faults' = faults + 1
    BY <1>9 DEF Restart, Fault, maasVars, Placed
  <2>4. Lost' \subseteq Lost \cup Carried
    BY <2>3 DEF Lost
  <2> HIDE DEF Carried
  <2>5. /\ IsFiniteSet(Lost \cup Carried) /\ Cardinality(Lost \cup Carried) \in Nat
        /\ Cardinality(Lost \cup Carried) <= Cardinality(Lost) + Cardinality(Carried)
    BY <1>1, <2>2, UnionIsBounded
  <2>6. Cardinality(Lost') <= Cardinality(Lost \cup Carried) /\ Cardinality(Carried) \in Nat
    BY <2>2, <2>4, <2>5, NotMore, FS_CardinalityType
  <2>7. Cardinality(Lost') <= Cardinality(Lost) + n
    BY <1>1, <2>1, <2>2, <2>5, <2>6
  <2>. QED
    BY <1>5, <2>3, <2>7
<1>10. CASE UNCHANGED <<maasVars, stored, deleted, worker, faults>>
  <2>1. Lost' = Lost
    BY <1>10 DEF maasVars, Lost, Placed, Busy
  <2>. QED
    BY <1>4, <2>1
<1>. QED
  BY <1>6, <1>7, <1>8, <1>9, <1>10, NextKinds

-----------------------------------------------------------------------------
(* How far ahead a host may be.                                            *)

\* What SpreadBounded says of two hosts, with the VMs that are under way.
Ahead(h, g) ==
  Load(h) + Cardinality(Heading(h, g))
    <= Load(g) + Cardinality(Workers) * (1 + faults) + Cardinality(deleted)

\* The bound holds where no more passes are heading for a host than before; a
\* failure allows for one more.
LEMMA AheadKept ==
  ASSUME TInv, TInv', NEW h \in Hosts, NEW g \in Hosts, Ahead(h, g), NEW w \in Workers,
         UNCHANGED <<on, deleted>>,
         \/ Heading(h, g)' \subseteq Heading(h, g) /\ faults' \in {faults, faults + 1}
         \/ Heading(h, g)' \subseteq Heading(h, g) \cup {w} /\ faults' = faults + 1
  PROVE  Ahead(h, g)'
<1> DEFINE n == Cardinality(Workers)
           a == Cardinality(Heading(h, g))
           b == Cardinality(Heading(h, g)')
<1>1. Sizes /\ Sizes'
  BY SizesAreNumbers, SizesAfter DEF TInv
<1>2. Load(h)' = Load(h) /\ Load(g)' = Load(g)
  BY DEF Load, Guests
<1>3. /\ IsFiniteSet(Heading(h, g)) /\ a \in Nat /\ b \in Nat /\ n \in Nat /\ faults \in Nat
      /\ Load(h) \in Nat /\ Load(g) \in Nat /\ Cardinality(deleted) \in Nat
  BY <1>1 DEF Sizes, Heading
<1>4. n >= 1
  BY <1>3, VMPlacementAssumption, FS_EmptySet
<1>5. /\ n * (1 + (faults + 1)) = n * (1 + faults) + n /\ n * (1 + faults) \in Nat
  BY <1>3, OneMorePerWorker
<1>6. Load(h) + a <= Load(g) + n * (1 + faults) + Cardinality(deleted)
  BY DEF Ahead
<1>7. CASE Heading(h, g)' \subseteq Heading(h, g) /\ faults' \in {faults, faults + 1}
  <2>1. b <= a
    BY <1>3, <1>7, NotMore
  <2> HIDE DEF a, b, n
  <2>2. Load(h) + b <= Load(g) + n * (1 + faults') + Cardinality(deleted)
    BY <1>3, <1>4, <1>5, <1>6, <1>7, <2>1
  <2>. QED
    BY <1>2, <2>2 DEF Ahead, n, b
<1>8. CASE Heading(h, g)' \subseteq Heading(h, g) \cup {w} /\ faults' = faults + 1
  <2>1. b <= a + 1
    BY <1>3, <1>8, AtMostOneMore
  <2> HIDE DEF a, b, n
  <2>2. Load(h) + b <= Load(g) + n * (1 + faults') + Cardinality(deleted)
    BY <1>3, <1>4, <1>5, <1>6, <1>8, <2>1
  <2>. QED
    BY <1>2, <2>2 DEF Ahead, n, b
<1>. QED
  BY <1>7, <1>8

\* A pass that is not about to select or to compose is not heading for a host.
LEMMA NotHeading ==
  ASSUME NEW w \in Workers, NEW h, NEW g,
         \A x \in Workers \ {w} : worker'[x] = worker[x],
         worker'[w].pc \notin {"select", "compose"}
  PROVE  Heading(h, g)' \subseteq Heading(h, g) \ {w}
BY DEF Heading

\* Whoever counts anew is behind its own count, and that misses the lost VMs
\* and those of the other passes.
LEMMA CountAhead ==
  ASSUME TInv, TInv', LostBounded, NEW h \in Hosts, NEW g \in Hosts, Ahead(h, g),
         NEW w \in Workers, CountCPs(w)
  PROVE  Ahead(h, g)'
<1> DEFINE n == Cardinality(Workers)
           S == Heading(h, g)'
<1>0. TypeOK /\ Sizes /\ Sizes'
  BY SizesAreNumbers, SizesAfter DEF TInv
<1>1. PICK i \in Hosts \cup {NoHost} : Moves(w, "count", "select", worker[w].vm, i)
  BY <1>0, CountMoves
<1>2. UNCHANGED <<on, tagged, deleted>>
  BY DEF CountCPs, maasVars
<1>3. Heading(h, g)' \subseteq Heading(h, g) \cup {w}
  BY <1>1 DEF Heading, Moves
<1>4. CASE Fault
  BY <1>2, <1>3, <1>4, AheadKept DEF Fault
<1>5. CASE worker'[w].count = [k \in Hosts |-> CountByHost(k)] /\ UNCHANGED faults
  <2>1. CASE w \notin S
    BY <1>2, <1>3, <1>5, <2>1, AheadKept
  <2>2. CASE w \in S
    <3>1. CountByHost(h) <= CountByHost(g)
      BY <1>1, <1>5, <2>2 DEF Heading, Moves
    <3>2. S \subseteq Workers /\ S \cap Busy = {}
      BY <1>1 DEF Heading, Busy, Moves
    <3>3. Load(h) + Cardinality(S) <= CountByHost(h) + Cardinality(Lost) + n
      BY <1>0, <3>2, LoadIsCounted
    <3>4. CountByHost(g) <= Load(g)
      BY <1>0, NotMore DEF Sizes, CountByHost, Load
    <3>5. /\ Load(h) \in Nat /\ Load(g) \in Nat /\ n \in Nat /\ Cardinality(S) \in Nat
          /\ CountByHost(h) \in Nat /\ CountByHost(g) \in Nat /\ Cardinality(Lost) \in Nat
          /\ faults \in Nat /\ Cardinality(deleted) \in Nat
      <4>1. Lost \subseteq VMs
        BY DEF Lost, Placed
      <4>. QED
        BY <1>0, <3>2, <4>1, FreeTyped DEF Sizes
    <3>6. Cardinality(Lost) <= n * faults
      BY DEF LostBounded
    <3>7. n * (1 + faults) = n * faults + n /\ n * faults \in Nat
      BY <3>5, OneMorePerWorker
    <3> HIDE DEF n, S
    <3>8. Load(h) + Cardinality(S) <= Load(g) + n * (1 + faults) + Cardinality(deleted)
      BY <3>1, <3>3, <3>4, <3>5, <3>6, <3>7
    <3>9. Load(h)' = Load(h) /\ Load(g)' = Load(g)
      BY <1>2 DEF Load, Guests
    <3>. QED
      BY <1>2, <1>5, <3>8, <3>9 DEF Ahead, n, S
  <2>. QED
    BY <2>1, <2>2
<1>. QED
  BY <1>0, <1>4, <1>5, CountKeepsFree

\* A pass that takes all candidates into account was heading for its choice.
LEMMA SelectAhead ==
  ASSUME TInv, TInv', SteadySeen, NEW h \in Hosts, NEW g \in Steady, Ahead(h, g),
         NEW w \in Workers, SelectHost(w)
  PROVE  Ahead(h, g)'
<1>0. TypeOK /\ worker[w].pc = "select" /\ UNCHANGED <<on, deleted>> /\ g \in Hosts
  BY DEF TInv, SelectHost, maasVars, Steady
<1>1. \A x \in Workers \ {w} : worker'[x] = worker[x]
  BY <1>0, SelectMoves DEF Moves
<1>2. Heading(h, g)' \subseteq Heading(h, g) \cup {w}
  BY <1>1 DEF Heading
<1>3. CASE Fault
  BY <1>0, <1>2, <1>3, AheadKept DEF Fault
<1>4. CASE UNCHANGED faults /\ SelectAmong(w, Candidates(w))
  <2>1. CASE Ends(w, "select")
    <3>1. worker'[w].pc = "idle"
      BY <1>0, <2>1, EndsMoves DEF Moves
    <3>. QED
      BY <1>0, <1>1, <1>4, <3>1, NotHeading, AheadKept
  <2>2. ASSUME NEW i \in Best(Candidates(w), worker[w].count, worker[w].free),
               worker' = [worker EXCEPT ![w] = [pc |-> "compose", vm |-> worker[w].vm, host |-> i,
                                                free |-> Zero, count |-> Zero]]
        PROVE  Heading(h, g)' \subseteq Heading(h, g)
    <3>1. worker'[w].pc = "compose" /\ worker'[w].host = i
      BY <1>0, <2>2 DEF TypeOK
    <3>2. g \in Candidates(w)
      BY <1>0 DEF SteadySeen, Candidates, Steady, Fits
    <3>3. worker[w].count \in [Hosts -> Nat] /\ Candidates(w) \in SUBSET Hosts
      BY <1>0 DEF TypeOK, Pass, Candidates
    <3>4. worker[w].count[i] <= worker[w].count[g]
      BY <2>2, <3>2, <3>3, BestIsLeastLoaded
    <3>5. i = h => w \in Heading(h, g)
      BY <1>0, <3>4 DEF Heading
    <3>. QED
      BY <1>1, <3>1, <3>5 DEF Heading
  <2>. QED
    BY <1>0, <1>4, <2>1, <2>2, AheadKept DEF SelectAmong
<1>. QED
  BY <1>3, <1>4 DEF SelectHost

\* A VM that is composed was under way.
LEMMA ComposeAhead ==
  ASSUME TInv, TInv', NEW h \in Hosts, NEW g \in Hosts, Ahead(h, g),
         NEW w \in Workers, Compose(w)
  PROVE  Ahead(h, g)'
<1> DEFINE v == worker[w].vm
           k == worker[w].host
           n == Cardinality(Workers)
<1>0. /\ TypeOK /\ PassOK(w) /\ Sizes /\ Sizes' /\ UNCHANGED deleted /\ w \in Workers
      /\ worker[w].pc = "compose"
  BY SizesAreNumbers, SizesAfter, ComposeMoves DEF TInv, Compose, Moves
<1>1. /\ \A x \in Workers \ {w} : worker'[x] = worker[x]
      /\ worker'[w].pc \notin {"select", "compose"}
      /\ faults' \in {faults, faults + 1}
  BY <1>0, ComposeMoves DEF Moves, Fault
<1>2. Heading(h, g)' \subseteq Heading(h, g) \ {w}
  BY <1>1, NotHeading
<1>3. CASE UNCHANGED on
  BY <1>0, <1>1, <1>2, <1>3, AheadKept
<1>4. CASE v \notin Placed /\ on' = [on EXCEPT ![v] = k]
  <2>1. v \in VMs /\ k \in Hosts
    BY <1>0 DEF PassOK, TypeOK, Pass
  <2>2. \A j \in Hosts : Guests(j)' = IF j = k THEN Guests(j) \cup {v} ELSE Guests(j)
    BY <1>0, <1>4, <2>1, VMPlacementAssumption DEF Guests, Placed, TypeOK
  <2>3. \A j \in Hosts : v \notin Guests(j)
    BY <1>4, <2>1, VMPlacementAssumption DEF Guests, Placed
  <2>4. \A j \in Hosts : Load(j)' = IF j = k THEN Load(j) + 1 ELSE Load(j)
    <3>1. \A j \in Hosts : IsFiniteSet(Guests(j))
      BY <1>0 DEF Sizes
    <3>2. \A j \in Hosts : Cardinality(Guests(j) \cup {v}) = Cardinality(Guests(j)) + 1
      BY <2>3, <3>1, FS_AddElement
    <3>. QED
      BY <2>2, <3>2 DEF Load
  <2>5. /\ Load(h) \in Nat /\ Load(g) \in Nat /\ n \in Nat /\ faults \in Nat /\ faults' \in Nat
        /\ Cardinality(deleted) \in Nat /\ IsFiniteSet(Heading(h, g))
        /\ Cardinality(Heading(h, g)) \in Nat /\ Cardinality(Heading(h, g)') \in Nat
    BY <1>0 DEF Sizes, Heading
  <2>6. /\ n * (1 + faults) \in Nat /\ n * (1 + faults') \in Nat
        /\ n * (1 + faults) <= n * (1 + faults')
    BY <1>1, <2>5, OneMorePerWorker
  <2>7. Load(h)' + Cardinality(Heading(h, g)') <= Load(h) + Cardinality(Heading(h, g))
    <3>1. CASE h = k
      <4>1. w \in Heading(h, g)
        BY <1>0, <3>1 DEF Heading
      <4>2. /\ IsFiniteSet(Heading(h, g) \ {w})
            /\ Cardinality(Heading(h, g) \ {w}) = Cardinality(Heading(h, g)) - 1
        BY <2>5, <4>1, FS_RemoveElement
      <4>3. Cardinality(Heading(h, g)') <= Cardinality(Heading(h, g)) - 1
        BY <1>2, <4>2, NotMore
      <4>. QED
        BY <2>4, <2>5, <3>1, <4>3
    <3>2. CASE h # k
      <4>1. Cardinality(Heading(h, g)') <= Cardinality(Heading(h, g))
        BY <1>2, <2>5, NotMore
      <4>. QED
        BY <2>4, <2>5, <3>2, <4>1
    <3>. QED
      BY <3>1, <3>2
  <2>8. Load(g)' >= Load(g) /\ Load(g)' \in Nat /\ Load(h)' \in Nat
    BY <2>4, <2>5
  <2>9. Load(h) + Cardinality(Heading(h, g)) <= Load(g) + n * (1 + faults) + Cardinality(deleted)
    BY DEF Ahead
  <2>10. Load(h)' + Cardinality(Heading(h, g)') <= Load(g) + n * (1 + faults) + Cardinality(deleted)
    BY <2>5, <2>6, <2>7, <2>8, <2>9
  <2> HIDE DEF n
  <2>11. Load(h)' + Cardinality(Heading(h, g)') <= Load(g)' + n * (1 + faults') + Cardinality(deleted)
    <3> DEFINE r == n * (1 + faults)
               s == n * (1 + faults')
    <3>1. r \in Nat /\ s \in Nat /\ r <= s
      BY <2>6
    <3>2. Load(h)' + Cardinality(Heading(h, g)') <= Load(g) + r + Cardinality(deleted)
      BY <2>10
    <3> HIDE DEF r, s
    <3>3. Load(h)' + Cardinality(Heading(h, g)') <= Load(g)' + s + Cardinality(deleted)
      BY <2>5, <2>8, <3>1, <3>2
    <3>. QED
      BY <3>3 DEF s
  <2>. QED
    BY <1>0, <2>11 DEF Ahead, n
<1>. QED
  BY <1>0, <1>3, <1>4, ComposeMoves

\* A VM that is deleted counts as deleted from then on.
LEMMA DeleteAhead ==
  ASSUME TInv, TInv', NEW h \in Hosts, NEW g \in Hosts, Ahead(h, g),
         NEW v \in VMs, DeleteVM(v)
  PROVE  Ahead(h, g)'
<1> DEFINE n == Cardinality(Workers)
<1>0. /\ TypeOK /\ Sizes /\ Sizes' /\ v \notin deleted /\ deleted' = deleted \cup {v}
      /\ on' = on \/ on' = [on EXCEPT ![v] = NoHost]
      /\ UNCHANGED <<worker, faults>>
  BY SizesAreNumbers, SizesAfter DEF TInv, DeleteVM, Released, maasVars
<1>1. \A j \in Hosts : Guests(j)' = Guests(j) \/ Guests(j)' = Guests(j) \ {v}
  BY <1>0, VMPlacementAssumption DEF Guests, TypeOK
<1>2. \A j \in Hosts : Load(j)' <= Load(j) /\ Load(j) <= Load(j)' + 1
  <2> SUFFICES ASSUME NEW j \in Hosts PROVE Load(j)' <= Load(j) /\ Load(j) <= Load(j)' + 1
    OBVIOUS
  <2>1. IsFiniteSet(Guests(j)) /\ Cardinality(Guests(j)) \in Nat
    BY <1>0 DEF Sizes, Load
  <2>2. Cardinality(Guests(j) \ {v}) \in {Cardinality(Guests(j)), Cardinality(Guests(j)) - 1}
    BY <2>1, FS_RemoveElement
  <2>3. Load(j)' = Cardinality(Guests(j)) \/ Load(j)' = Cardinality(Guests(j) \ {v})
    BY <1>1 DEF Load
  <2>. QED
    BY <2>1, <2>2, <2>3 DEF Load
<1>3. Cardinality(deleted') = Cardinality(deleted) + 1
  BY <1>0, FS_AddElement DEF Sizes
<1>4. Heading(h, g)' = Heading(h, g)
  BY <1>0 DEF Heading
<1>5. /\ Load(h) \in Nat /\ Load(g) \in Nat /\ Load(h)' \in Nat /\ Load(g)' \in Nat
      /\ Cardinality(deleted) \in Nat /\ n * (1 + faults) \in Nat
      /\ Cardinality(Heading(h, g)) \in Nat
  BY <1>0, OneMorePerWorker DEF Sizes, Heading
<1>6. Load(h) + Cardinality(Heading(h, g)) <= Load(g) + n * (1 + faults) + Cardinality(deleted)
  BY DEF Ahead
<1> HIDE DEF n
<1>7. Load(h)' + Cardinality(Heading(h, g))
        <= Load(g)' + n * (1 + faults) + (Cardinality(deleted) + 1)
  BY <1>2, <1>5, <1>6
<1>. QED
  BY <1>0, <1>3, <1>4, <1>7 DEF Ahead, n

LEMMA AheadNext ==
  ASSUME TInv, SteadySeen, LostBounded, [Next]_vars, NEW h \in Hosts, NEW g \in Steady, Ahead(h, g)
  PROVE  Ahead(h, g)'
<1>0. TypeOK /\ TInv' /\ g \in Hosts /\ faults' \in {faults, faults + 1}
  BY NextTyped, FaultsGrow DEF TInv, Steady
<1>1. ASSUME NEW w \in Workers, NEW v \in VMs, Begin(w, v)
      PROVE  Ahead(h, g)'
  <2>1. PICK to \in {"deploy", "count"} : Moves(w, "idle", to, v, NoHost)
    BY <1>0, <1>1, BeginMoves
  <2>2. Heading(h, g)' \subseteq Heading(h, g)
    BY <2>1, NotHeading DEF Moves
  <2>. QED
    BY <1>0, <1>1, <2>2, AheadKept DEF Begin, maasVars
<1>2. ASSUME NEW w \in Workers, PatchID(w) \/ TagVM(w) \/ DeployVM(w) \/ Close(w)
      PROVE  Ahead(h, g)'
  <2>1. /\ \A x \in Workers \ {w} : worker'[x] = worker[x]
        /\ worker'[w].pc \notin {"select", "compose"}
    BY <1>0, <1>2, PatchMoves, TagMoves, DeployMoves, CloseMoves DEF Moves
  <2>2. Heading(h, g)' \subseteq Heading(h, g)
    BY <2>1, NotHeading
  <2>. QED
    BY <1>0, <1>2, <2>2, AheadKept DEF PatchID, TagVM, DeployVM, Close, maasVars
<1>3. ASSUME NEW w \in Workers, Step(w)
      PROVE  Ahead(h, g)'
  BY <1>0, <1>2, <1>3, CountAhead, SelectAhead, ComposeAhead DEF Step
<1>4. ASSUME NEW v \in VMs, DeleteVM(v)
      PROVE  Ahead(h, g)'
  BY <1>0, <1>4, DeleteAhead
<1>5. CASE Restart /\ Workers # {}
  <2>1. \A w \in Workers : worker'[w].pc = "idle"
    BY <1>5, IdleTyped DEF Restart
  <2>2. Heading(h, g)' \subseteq Heading(h, g)
    BY <2>1 DEF Heading
  <2>3. UNCHANGED <<on, deleted>>
    BY <1>5 DEF Restart, maasVars
  <2>. QED
    BY <1>0, <1>5, <2>2, <2>3, AheadKept
<1>6. CASE UNCHANGED <<on, deleted, worker, faults>>
  <2>1. Heading(h, g)' = Heading(h, g) /\ Load(h)' = Load(h) /\ Load(g)' = Load(g)
    BY <1>6 DEF Heading, Load, Guests
  <2>. QED
    BY <1>6, <2>1 DEF Ahead
<1>7. CASE Restart /\ Workers = {}
  <2> DEFINE n == Cardinality(Workers)
  <2>1. n = 0 /\ n * (1 + faults) = 0 /\ n * (1 + faults') = 0
    <3>1. n = 0
      BY <1>7, FS_EmptySet
    <3>2. \A x \in Nat : 0 * (1 + x) = 0
      OBVIOUS
    <3>3. faults \in Nat /\ faults' \in Nat
      BY <1>0, SizesAreNumbers DEF TInv, Sizes
    <3>. QED
      BY <3>1, <3>2, <3>3
  <2>2. Heading(h, g)' = Heading(h, g)
    BY <1>7 DEF Heading
  <2>3. UNCHANGED deleted /\ Load(h)' = Load(h) /\ Load(g)' = Load(g)
    BY <1>7 DEF Restart, maasVars, Load, Guests
  <2>. QED
    BY <2>1, <2>2, <2>3 DEF Ahead
<1>. QED
  BY <1>1, <1>3, <1>4, <1>5, <1>6, <1>7, NextKinds DEF maasVars

\* The inductive invariant: what is lost, and what is under way, is bounded.
SInv == SteadySeen /\ LostBounded /\ \A h \in Hosts, g \in Steady : Ahead(h, g)

LEMMA InitSpread == Init => SInv
<1> SUFFICES ASSUME Init PROVE SInv
  OBVIOUS
<1>0. TypeOK /\ Sizes
  BY InitTyped, SizesAreNumbers DEF TInv
<1>1. /\ on = [v \in VMs |-> NoHost] /\ deleted = {} /\ good = Hosts /\ faults = 0
      /\ \A w \in Workers : worker[w].pc = "idle"
  BY IdleTyped DEF Init
<1>2. Lost = {} /\ \A h \in Hosts : Guests(h) = {}
  BY <1>1, VMPlacementAssumption DEF Lost, Placed, Guests
<1>3. SteadySeen
  BY <1>1 DEF SteadySeen, Steady
<1>4. Cardinality(Workers) * faults \in Nat /\ Cardinality(Workers) * (1 + faults) \in Nat
  BY <1>0, OneMorePerWorker DEF Sizes
<1>5. LostBounded
  BY <1>2, <1>4, FS_EmptySet DEF LostBounded
<1>6. ASSUME NEW h \in Hosts, NEW g \in Steady
      PROVE  Ahead(h, g)
  <2>1. g \in Hosts /\ Heading(h, g) = {}
    BY <1>1 DEF Steady, Heading
  <2>2. Load(h) = 0 /\ Load(g) = 0 /\ Cardinality(Heading(h, g)) = 0 /\ Cardinality(deleted) = 0
    BY <1>1, <1>2, <2>1, FS_EmptySet DEF Load
  <2>. QED
    BY <1>4, <2>2 DEF Ahead
<1>. QED
  BY <1>3, <1>5, <1>6 DEF SInv

\* Whatever the workers count, select, compose, tag and forget, no host gets ahead
\* of a steady one by more than a VM per worker, and one more per worker for every
\* time their work may have been lost, and the VMs deleted since: the bound that the
\* anti-affinity of SelectLXDHostWithMaasClient leaves.
THEOREM AntiAffinityBounded == Spec => []SpreadBounded
<1>1. Init => TInv /\ SInv
  BY InitTyped, InitSpread
<1>2. TInv /\ SInv /\ [Next]_vars => (TInv /\ SInv)'
  BY NextTyped, SteadySeenNext, LostBoundedNext, AheadNext DEF SInv
<1>3. TInv /\ SInv => SpreadBounded
  <2> SUFFICES ASSUME TInv, SInv, NEW h \in Hosts, NEW g \in Steady
               PROVE  Load(h) <= Load(g) + Cardinality(Workers) * (1 + faults)
                                   + Cardinality(deleted)
    BY DEF SpreadBounded
  <2>1. Ahead(h, g) /\ Sizes
    BY SizesAreNumbers DEF SInv, TInv
  <2>2. /\ Load(h) \in Nat /\ Load(g) \in Nat /\ Cardinality(Heading(h, g)) \in Nat
        /\ Cardinality(Workers) * (1 + faults) \in Nat /\ Cardinality(deleted) \in Nat
    BY <2>1, OneMorePerWorker DEF Sizes, Heading
  <2>. QED
    BY <2>1, <2>2 DEF Ahead
<1>. QED
  BY <1>1, <1>2, <1>3, PTL DEF Spec
=============================================================================
