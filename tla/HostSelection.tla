---------------------------- MODULE HostSelection ----------------------------
(***************************************************************************)
(* Which LXD host a VM is composed on: every VM host is filtered by what   *)
(* the machine asks for and by the state of the machine behind it, and the *)
(* remaining ones are ranked.  Zones, pools and tags are opaque; a machine *)
(* that leaves one out asks for Anything.                                  *)
(***************************************************************************)
EXTENDS Naturals, FiniteSets

CONSTANTS
  Hosts,      \* VM hosts in MAAS
  Inventory,  \* what MAAS says of each host, as far as it does not change here
  Options,    \* what a machine asks for
  Anything    \* stands for a zone, or a pool, that is not asked for

ASSUME HostSelectionAssumption ==
  /\ IsFiniteSet(Hosts)
  /\ DOMAIN Inventory = Hosts
  /\ \A h \in Hosts : Inventory[h].cores \in Nat /\ Inventory[h].memory \in Nat
                      /\ Inventory[h].managed \in BOOLEAN
  /\ Options.cores \in Nat /\ Options.memory \in Nat

\* A pool on the host with enough space that is neither used nor promised.
\* In integers the subtraction would be cut off at zero.
HasStorage(h) ==
  Options.disk = 0 \/ \E p \in Inventory[h].storage :
                        ~p.remote /\ p.available >= p.pending + Options.disk

\* The hosts that pass the filters but the one for cores, and those that pass
\* all of them with so many free cores.
Suitable ==
  {h \in Hosts : /\ Options.zone \in {Anything, Inventory[h].zone}
                 /\ Options.pool \in {Anything, Inventory[h].pool}
                 /\ Options.tags \subseteq Inventory[h].tags
                 /\ Inventory[h].memory >= Options.memory
                 /\ HasStorage(h)}
Fits(h, cores) == h \in Suitable /\ cores >= Options.cores

\* cores/minCores + memory/minMemory, in integers; a minimum of zero leaves
\* its term out.
Times(x, min) == IF min = 0 THEN x ELSE x * min
Term(x, min, other) == IF min = 0 THEN 0 ELSE Times(x, other)
Score(h, cores) ==
  Term(cores, Options.cores, Options.memory)
    + Term(Inventory[h].memory, Options.memory, Options.cores)

\* The order the candidates are sorted by: fewer control plane VMs of the
\* cluster, then more resources, then a host that CAPMAAS manages.
Better(a, b, count, free) ==
  \/ count[a] < count[b]
  \/ /\ count[a] = count[b]
     /\ \/ Score(a, free[a]) > Score(b, free[b])
        \/ /\ Score(a, free[a]) = Score(b, free[b])
           /\ Inventory[a].managed /\ ~Inventory[b].managed

\* The hosts that may come first: sort.Slice keeps no order among equals.
Best(candidates, count, free) ==
  {a \in candidates : \A b \in candidates : ~Better(b, a, count, free)}
=============================================================================
