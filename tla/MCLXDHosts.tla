------------------------------ MODULE MCLXDHosts ------------------------------
(* An instance of LXDHosts for TLC. *)
EXTENDS LXDHosts, TLC

CONSTANTS n1, n2

\* A control plane node, which another one may replace or join; and a control
\* plane node with a worker, which may be given up.
TwoLayouts == {[controlPlane |-> {n1, n2}, first |-> {n1}],
               [controlPlane |-> {n1}, first |-> {n1, n2}]}
=============================================================================
