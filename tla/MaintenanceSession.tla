------------------------- MODULE MaintenanceSession -------------------------
(***************************************************************************)
(* The host maintenance session that the host maintenance controller (HMC) *)
(* persists in the ConfigMap "hcp-maintenance-session" of a namespace      *)
(* (pkg/maas/maintenance/session.go).  A session is a value here: the      *)
(* modules that use it keep the ConfigMap in a variable of their own.      *)
(***************************************************************************)

EXTENDS Naturals

CONSTANTS
  Hosts,  \* MAAS system IDs of the LXD hosts of one namespace
  OpIDs,  \* the operation identifiers StartSession can draw (k8suuid.NewUUID)
  NoHost, \* the empty host name
  NoOp    \* the empty operation identifier

ASSUME SessionAssumption == NoHost \notin Hosts /\ NoOp \notin OpIDs

Status == {"none", "Active", "Completed"}

(***************************************************************************)
(* The fields of State that decide anything; the lists of affected         *)
(* clusters and pending machines and the time stamp are only reported.     *)
(***************************************************************************)
Session ==
  [opID : OpIDs \cup {NoOp}, status : Status,
   currentHost : Hosts \cup {NoHost}, activeSessions : 0..1]

\* LoadSession of a ConfigMap that does not exist.
EmptySession ==
  [opID |-> NoOp, status |-> "none", currentHost |-> NoHost,
   activeSessions |-> 0]

\* The test of StartSession: an active session is returned, not replaced.
HasActiveSession(s) == s.status = "Active" /\ s.activeSessions = 1

\* Mutant of StartSession: a session is started while one is active.
StartSessionTwice(s, host, op) ==
  [opID |-> op, status |-> "Active", currentHost |-> host,
   activeSessions |-> s.activeSessions + 1]

\* The session StartSession leaves behind, op being the identifier it draws.
StartSession(s, host, op) ==
  IF HasActiveSession(s)
    THEN s
    ELSE [opID |-> op, status |-> "Active",
          currentHost |-> host, activeSessions |-> 1]

\* The session CompleteSession leaves behind; the identifier is kept.
CompleteSession(s) ==
  IF s.status = "Completed"
    THEN s
    ELSE [s EXCEPT !.status = "Completed", !.currentHost = NoHost,
                   !.activeSessions = 0]
=============================================================================
