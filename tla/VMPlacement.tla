----------------------------- MODULE VMPlacement -----------------------------
(***************************************************************************)
(* The control plane VMs of a cluster and the hosts they are composed on.  *)
(* The workers of the MaasMachine controller each list the hosts, count    *)
(* the VMs by their tags, select a host and compose; a VM is tagged only   *)
(* afterwards, and on a best-effort basis.                                 *)
(*                                                                         *)
(* A VM stands for its MaasMachine and for its hostname.  What maintenance *)
(* does with the hosts is in HostMaintenance; here a host is good or not.  *)
(***************************************************************************)
EXTENDS HostSelection

CONSTANTS
  VMs,        \* control plane MaasMachines that are LXD VMs
  Workers,    \* workers of the controller (--machine-concurrency, two by default)
  Flaky,      \* hosts that may be in trouble, or in maintenance, at times
  NoVM, NoHost,
  MaxFaults,  \* bound: calls that fail, lost answers, restarts
  MaxDeleted  \* bound: VMs deleted again

ASSUME VMPlacementAssumption ==
  /\ IsFiniteSet(VMs) /\ IsFiniteSet(Workers)
  /\ NoVM \notin VMs /\ NoHost \notin Hosts
  /\ Flaky \subseteq Hosts
  /\ MaxFaults \in Nat /\ MaxDeleted \in Nat

VARIABLES
  on,        \* the host of each VM in MAAS
  tagged,    \* VMs with the tags of a control plane VM and of the cluster
  deployed,  \* VMs that are deployed
  stored,    \* MaasMachines with a system ID
  deleted,   \* MaasMachines that are gone
  good,      \* hosts that are on, Deployed and without a maintenance tag
  worker,    \* the running pass of each worker
  faults

maasVars == <<on, tagged, deployed>>
vars     == <<maasVars, stored, deleted, good, worker, faults>>

\* free and count are what the pass has listed, host is what it has selected.
Pass == [pc : {"idle", "count", "select", "compose", "patch", "tag",
               "deploy", "close"},
         vm : VMs \cup {NoVM}, host : Hosts \cup {NoHost},
         free : [Hosts -> Nat], count : [Hosts -> Nat]]

Zero == [h \in Hosts |-> 0]
Idle == [pc |-> "idle", vm |-> NoVM, host |-> NoHost, free |-> Zero, count |-> Zero]

Placed == {v \in VMs : on[v] # NoHost}

TypeOK ==
  /\ on \in [VMs -> Hosts \cup {NoHost}]
  /\ stored \subseteq VMs /\ deleted \subseteq VMs
  /\ tagged \subseteq Placed /\ deployed \subseteq Placed \cap stored
  /\ good \subseteq Hosts
  /\ worker \in [Workers -> Pass]
  /\ faults \in 0..MaxFaults

Init ==
  /\ on = [v \in VMs |-> NoHost]
  /\ tagged = {} /\ deployed = {} /\ stored = {} /\ deleted = {}
  /\ good = Hosts
  /\ worker = [w \in Workers |-> Idle]
  /\ faults = 0

Guests(h) == {v \in VMs : on[v] = h}
Free(h) ==
  LET used == Cardinality(Guests(h)) * Options.cores
  IN  IF used > Inventory[h].cores THEN 0 ELSE Inventory[h].cores - used

Fault == faults < MaxFaults /\ faults' = faults + 1

-----------------------------------------------------------------------------
(* A pass.                                                                 *)

Goes(w, from, to) ==
  worker[w].pc = from /\ worker' = [worker EXCEPT ![w] = [@ EXCEPT !.pc = to]]

\* The pass ends; an error, or VMs that are not deployed yet, bring it back.
Ends(w, from) == worker[w].pc = from /\ worker' = [worker EXCEPT ![w] = Idle]

\* The queue never hands one MaasMachine to two workers.  A pass deploys the
\* VM it knows, or lists the hosts, which is the first thing it does.
Begin(w, v) ==
  /\ worker[w].pc = "idle"
  /\ v \notin deployed \cup deleted
  /\ \A x \in Workers : worker[x].vm # v
  /\ worker' = [worker EXCEPT ![w] =
                  IF v \in stored
                    THEN [pc |-> "deploy", vm |-> v, host |-> NoHost,
                          free |-> Zero, count |-> Zero]
                    ELSE [pc |-> "count", vm |-> v, host |-> NoHost,
                          free |-> [h \in Hosts |-> Free(h)], count |-> Zero]]
  /\ UNCHANGED <<maasVars, stored, deleted, good, faults>>

\* Mutant of CountByHost: the tag of the cluster is not looked for.
CountNone(h) == 0

\* computeCPCountsByHost counts the VMs that carry both tags.
CountByHost(h) == Cardinality(Guests(h) \cap tagged)

\* When the machines cannot be listed the selection does without the counts.
CountCPs(w) ==
  /\ worker[w].pc = "count"
  /\ \/ /\ worker' = [worker EXCEPT ![w] =
                         [pc |-> "select", vm |-> @.vm, host |-> NoHost, free |-> @.free,
                          count |-> [h \in Hosts |-> CountByHost(h)]]]
        /\ UNCHANGED faults
     \/ Goes(w, "count", "select") /\ Fault
  /\ UNCHANGED <<maasVars, stored, deleted, good>>

Candidates(w) == {h \in good : Fits(h, worker[w].free[h])}

\* A pass without a candidate ends with an error.
SelectAmong(w, candidates) ==
  \/ \E h \in Best(candidates, worker[w].count, worker[w].free) :
       worker' = [worker EXCEPT ![w] =
                    [pc |-> "compose", vm |-> @.vm, host |-> h,
                     free |-> Zero, count |-> Zero]]
  \/ candidates = {} /\ Ends(w, "select")

\* A host whose machine cannot be read is skipped.
SelectHost(w) ==
  /\ worker[w].pc = "select"
  /\ \/ SelectAmong(w, Candidates(w)) /\ UNCHANGED faults
     \/ Fault /\ \E h \in Candidates(w) : SelectAmong(w, Candidates(w) \ {h})
  /\ UNCHANGED <<maasVars, stored, deleted, good>>

\* Mutant of TakeOver: a hostname that is taken is an error.
TakeOverFails(w) ==
  /\ Ends(w, "compose") /\ worker[w].vm \in Placed
  /\ UNCHANGED <<on, faults>>

\* A VM that exists, from a pass that did not get to know its ID, is found by
\* its hostname and taken over; it is not tagged.
TakeOver(w) ==
  /\ Goes(w, "compose", "close") /\ worker[w].vm \in Placed
  /\ UNCHANGED <<on, faults>>

Composed(w) == on' = [on EXCEPT ![worker[w].vm] = worker[w].host]

\* Mutant of Compose: the ID that MAAS returns is not looked at.
ComposeUnknown(w) ==
  /\ worker[w].pc = "compose"
  /\ \/ TakeOver(w)
     \/ /\ worker[w].vm \notin Placed
        /\ Ends(w, "compose")
        /\ \/ Free(worker[w].host) >= Options.cores /\ Composed(w)
           \/ Free(worker[w].host) < Options.cores /\ UNCHANGED on
        /\ UNCHANGED faults
  /\ UNCHANGED <<tagged, deployed, stored, deleted, good>>

\* MAAS refuses a VM for which the host has no room any more.  A call that fails may
\* have composed the VM; a VM that exists may not be found, when calls fail.
Compose(w) ==
  /\ worker[w].pc = "compose"
  /\ \/ TakeOver(w)
     \/ /\ worker[w].vm \notin Placed
        /\ \/ /\ Goes(w, "compose", "patch")
              /\ Free(worker[w].host) >= Options.cores
              /\ Composed(w)
              /\ UNCHANGED faults
           \/ /\ Ends(w, "compose")
              /\ Free(worker[w].host) < Options.cores
              /\ UNCHANGED <<on, faults>>
           \/ /\ Ends(w, "compose") /\ Fault
              /\ Free(worker[w].host) >= Options.cores
              /\ Composed(w)
     \/ Ends(w, "compose") /\ Fault /\ UNCHANGED on
  /\ UNCHANGED <<tagged, deployed, stored, deleted, good>>

\* The ID is patched at once, whether that succeeds or not.
PatchID(w) ==
  /\ Goes(w, "patch", "tag")
  /\ \/ stored' = stored \cup {worker[w].vm} /\ UNCHANGED faults
     \/ UNCHANGED stored /\ Fault
  /\ UNCHANGED <<maasVars, deleted, good>>

\* Mutant of TagVM: the tags of a deployed VM are taken for granted.
TagComposedOnly(w) ==
  /\ Goes(w, "tag", "close")
  /\ \/ /\ tagged' = IF worker[w].vm \in deployed THEN tagged ELSE tagged \cup {worker[w].vm}
        /\ UNCHANGED faults
     \/ UNCHANGED tagged /\ Fault
  /\ UNCHANGED <<on, deployed, stored, deleted, good>>

\* tagCPVM: a tag that could not be assigned is logged.
TagVM(w) ==
  /\ Goes(w, "tag", "close")
  /\ \/ tagged' = tagged \cup {worker[w].vm} /\ UNCHANGED faults
     \/ UNCHANGED tagged /\ Fault
  /\ UNCHANGED <<on, deployed, stored, deleted, good>>

\* A VM with an ID is deployed, and tagged once more.
DeployVM(w) ==
  /\ \/ /\ Goes(w, "deploy", "tag") /\ deployed' = deployed \cup {worker[w].vm}
        /\ UNCHANGED faults
     \/ Ends(w, "deploy") /\ UNCHANGED deployed /\ Fault
  /\ UNCHANGED <<on, tagged, stored, deleted, good>>

\* The deferred Close patches the object once more.
Close(w) ==
  /\ Ends(w, "close")
  /\ \/ stored' = stored \cup {worker[w].vm} /\ UNCHANGED faults
     \/ UNCHANGED stored /\ Fault
  /\ UNCHANGED <<maasVars, deleted, good>>

Step(w) ==
  \/ CountCPs(w) \/ SelectHost(w) \/ Compose(w)
  \/ PatchID(w) \/ TagVM(w) \/ DeployVM(w) \/ Close(w)

-----------------------------------------------------------------------------
(* Everything else.                                                        *)

\* What becomes of the VM when its MaasMachine is deleted: one whose ID was lost stays.
Released(v) ==
  IF v \in stored
    THEN /\ on' = [on EXCEPT ![v] = NoHost]
         /\ tagged' = tagged \ {v} /\ deployed' = deployed \ {v}
    ELSE UNCHANGED maasVars

\* Mutant of DeleteVM: a machine is deleted under the worker that has it.
DeleteUnderWorker(v) ==
  /\ v \notin deleted /\ Cardinality(deleted) < MaxDeleted
  /\ deleted' = deleted \cup {v}
  /\ Released(v)
  /\ UNCHANGED <<stored, good, worker, faults>>

\* A MaasMachine is deleted, between two passes.
DeleteVM(v) ==
  /\ v \notin deleted /\ Cardinality(deleted) < MaxDeleted
  /\ \A w \in Workers : worker[w].vm # v
  /\ deleted' = deleted \cup {v}
  /\ Released(v)
  /\ UNCHANGED <<stored, good, worker, faults>>

Restart ==
  /\ Fault
  /\ worker' = [w \in Workers |-> Idle]
  /\ UNCHANGED <<maasVars, stored, deleted, good>>

\* A host is put into maintenance, switched off or released; or comes back.
HostChanges(h) ==
  /\ good' \in {good \cup {h}, good \ {h}} \ {good}
  /\ UNCHANGED <<maasVars, stored, deleted, worker, faults>>

Next ==
  \/ \E w \in Workers : Step(w) \/ \E v \in VMs : Begin(w, v)
  \/ \E v \in VMs : DeleteVM(v)
  \/ \E h \in Flaky : HostChanges(h)
  \/ Restart

Spec == Init /\ [][Next]_vars

\* Every worker goes on, and every MaasMachine that is not done gets its turn.
FairSpec ==
  /\ Spec
  /\ \A w \in Workers : WF_vars(Step(w))
  /\ \A v \in VMs : SF_vars(\E w \in Workers : Begin(w, v))

-----------------------------------------------------------------------------
(* Properties.                                                             *)

Load(h) == Cardinality(Guests(h))

\* Hosts that satisfy the request at all times, with room for one VM more than
\* there are: a VM whose ID was lost is only found when a host has been
\* selected for it once more.
Steady == {h \in Hosts \ Flaky :
             Fits(h, Inventory[h].cores)
             /\ Inventory[h].cores >= Options.cores * (Cardinality(VMs) + 1)}

\* Anti-affinity that survives concurrent workers: no host is ahead of a steady one
\* by more than a VM per worker, for every time the manager may have lost
\* what its workers did, and the VMs deleted since.
SpreadBounded ==
  \A h \in Hosts, g \in Steady :
    Load(h) <= Load(g) + Cardinality(Workers) * (1 + faults) + Cardinality(deleted)

\* A deployed VM whose tags are missing, so that later selections and the
\* evacuation of its host do not see it, has been missed twice.
UntaggedAreFailures ==
  \A v \in deployed \ tagged :
    faults > 1 \/ \E w \in Workers : worker[w].vm = v /\ worker[w].pc = "tag"

\* A pass that has learnt of its VM does not leave another one behind: a VM
\* without an ID in its MaasMachine is one whose pass goes on, or a failure.
KnownVMs ==
  \A v \in Placed \ stored :
    faults > 0 \/ \E w \in Workers : worker[w].vm = v

\* As long as a steady host exists every MaasMachine gets its VM deployed,
\* whichever worker loses a race for the room on a host.
AllPlaced == Steady # {} => <>(VMs \subseteq deployed \cup deleted)
=============================================================================
