---------------------------- MODULE MCVMPlacement ----------------------------
(* An instance of VMPlacement for TLC. *)
EXTENDS VMPlacement, TLC

CONSTANTS h1, h2, h3, h4, z1, gpu

Host(cores, storage, managed) ==
  [zone |-> z1, pool |-> "default", tags |-> {gpu}, cores |-> cores, memory |-> 8,
   storage |-> storage, managed |-> managed]

Pool(remote, available, pending) ==
  [remote |-> remote, available |-> available, pending |-> pending]

\* The largest host; one that has room for one VM only; one with room for all
\* VMs and one more; and one whose own storage is promised to others.
FourHosts ==
  (h1 :> Host(20, {Pool(FALSE, 9, 0)}, FALSE))
    @@ (h2 :> Host(3, {Pool(FALSE, 9, 0), Pool(FALSE, 1, 0)}, TRUE))
    @@ (h3 :> Host(8, {Pool(FALSE, 9, 4)}, TRUE))
    @@ (h4 :> Host(20, {Pool(FALSE, 9, 8), Pool(TRUE, 9, 0)}, TRUE))

Request == [zone |-> z1, pool |-> Anything, tags |-> {gpu}, cores |-> 2, memory |-> 4, disk |-> 5]
=============================================================================
