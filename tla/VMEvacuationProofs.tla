------------------------- MODULE VMEvacuationProofs -------------------------
(***************************************************************************)
(* Proofs about VMEvacuation, for any cluster and any bounds: the state is *)
(* well typed, a completed session has its acknowledgement, and, until the *)
(* first failing call or node, Machines are taken only from a complete     *)
(* control plane, VMs acknowledged only in one, and replacements recorded  *)
(* only elsewhere.                                                         *)
(*                                                                         *)
(* CompletedIsAcknowledged is not inductive.  It needs that a pass that is *)
(* about to complete a session has tagged its VM (TaggedFirst), which only *)
(* holds as long as nobody gives the VM of that Machine another parent:    *)
(* RecordedHasVM and PassHasVM say that a Machine that is recorded, or in  *)
(* the hands of the pass, is past the only state in which that happens.    *)
(*                                                                         *)
(* The rest needs to know where a replacement stands while a pass reads    *)
(* the status of the KCP, which lags behind.  Course follows it: from the  *)
(* eviction to the last join some session is active, so that no pass looks *)
(* for Machines, and a pass that closes the session finds it unrecorded or *)
(* the control plane unstable (JoiningIsUnstable).                         *)
(***************************************************************************)
EXTENDS VMEvacuation, FiniteSetTheorems, TLAPS

PassHasOp ==
  vec.pc \in {"activeKCP", "readSession", "tagReady", "complete", "save"} =>
    vec.op \in OpIDs

PassHasVM ==
  vec.pc \in {"tagReady", "complete"} =>
    vec.m \in Machines /\ machine[vec.m] # "new"

RecordedHasVM ==
  \A op \in OpIDs :
    cm[op].newVM \in Machines => machine[cm[op].newVM] # "new"

TaggedFirst ==
  vec.pc = "complete" /\ host[vec.m] # NoHost => vec.op \in ready[vec.m]

PassInv == PassHasOp /\ PassHasVM /\ TaggedFirst

IInv == TypeOK /\ PassInv /\ RecordedHasVM /\ CompletedIsAcknowledged

\* The steps of a pass that change nothing but the pass, and perhaps the budget.
Reads ==
  \/ ListSessions \/ CheckActiveKCP \/ ReadSession \/ ScanMachine \/ ScanEnds
  \/ CheckNewKCP \/ CheckOthers \/ LeaveTwoReplicas \/ Fail

-----------------------------------------------------------------------------

\* A counter of the budget that is below its bound may be spent.
LEMMA SpendType ==
  ASSUME NEW what \in {"marks", "outages", "faults"}, budget \in Budget,
         what = "marks" => budget.marks < MaxMarks,
         what = "outages" => budget.outages < MaxOutages,
         what = "faults" => budget.faults < MaxFaults,
         Spend(what)
  PROVE  budget' \in Budget
<1>1. {MaxMarks, MaxOutages, MaxFaults} \subseteq Nat
  BY VMEvacuationAssumption
<1> QED BY <1>1 DEF Spend, Budget

\* Recording a VM keeps the ConfigMaps and the budget well typed, and changes
\* only what active sessions record.
LEMMA RecordEffect ==
  ASSUME TypeOK, NEW m \in Machines, Record(m)
  PROVE  /\ cm' \in [OpIDs -> SessionCM] /\ budget' \in Budget
         /\ \A op \in OpIDs : \/ cm'[op] = cm[op]
                              \/ cm'[op].status = "Active" /\ cm'[op].newVM = m
<1>1. CASE Active = {} /\ UNCHANGED <<cm, budget>>
  BY <1>1 DEF TypeOK
<1>2. CASE (\E op \in Active : cm' = [cm EXCEPT ![op].newVM = m])
           /\ UNCHANGED budget
  BY <1>2 DEF TypeOK, SessionCM, Active
<1>3. CASE CanFault /\ Spend("faults") /\ UNCHANGED cm
  BY <1>3, SpendType DEF TypeOK, CanFault
<1> QED BY <1>1, <1>2, <1>3 DEF Record

\* The sets of Machines that the KCP counts are finite.
LEMMA CountsType ==
  ASSUME NEW S \in SUBSET Machines
  PROVE  Cardinality(S) \in Nat
BY VMEvacuationAssumption, FS_Subset, FS_CardinalityType

-----------------------------------------------------------------------------

LEMMA InitIInv == Init => IInv
<1> SUFFICES ASSUME Init PROVE IInv
  OBVIOUS
<1> USE VMEvacuationAssumption
<1>1. kcp \in KCP /\ budget \in Budget /\ vec \in Pass
  BY DEF Init, KCP, Budget, Pass, PassSteps, Idle
<1>2. /\ deleting \in SUBSET Machines /\ outdated \in SUBSET Machines
      /\ ops \in [Hosts -> SUBSET OpIDs] /\ ready \in [Machines -> SUBSET OpIDs]
  BY DEF Init
<1>3. cm \in [OpIDs -> SessionCM]
  BY DEF Init, SessionCM
<1>4. /\ machine \in
           [Machines -> {"absent", "new", "composed", "deployed", "up", "down"}]
      /\ host \in [Machines -> Hosts \cup {NoHost}]
  BY DEF Init
<1>5. TypeOK
  BY <1>1, <1>2, <1>3, <1>4 DEF TypeOK
<1>6. PassInv /\ RecordedHasVM /\ CompletedIsAcknowledged
  BY DEF Init, Idle, PassInv, PassHasOp, PassHasVM, TaggedFirst, RecordedHasVM,
         CompletedIsAcknowledged
<1> QED BY <1>5, <1>6 DEF IInv

\* A step of a pass that only reads.
LEMMA ReadsStep == IInv /\ Reads => IInv'
<1> SUFFICES ASSUME IInv, Reads PROVE IInv'
  OBVIOUS
<1> USE VMEvacuationAssumption
<1>1. UNCHANGED <<clusterVars, ops, cm, ready, kcp>>
  BY DEF Reads, ListSessions, CheckActiveKCP, ReadSession, ScanMachine, ScanEnds,
         CheckNewKCP, CheckOthers, LeaveTwoReplicas, Fail
<1>2. vec \in Pass /\ cm \in [OpIDs -> SessionCM]
  BY DEF IInv, TypeOK
<1>3. budget' \in Budget
  BY SpendType DEF IInv, TypeOK, CanFault, Reads, ListSessions, CheckActiveKCP,
                   ReadSession, ScanMachine, ScanEnds, CheckNewKCP, CheckOthers,
                   LeaveTwoReplicas, Fail
<1>4. vec' \in Pass /\ PassInv'
  <2>1. CASE ListSessions
    <3>1. CASE \E op \in OpIDs :
                 vec' = [Idle EXCEPT !.pc = "activeKCP", !.op = op]
      BY <3>1 DEF Pass, PassSteps, Idle, PassInv, PassHasOp, PassHasVM, TaggedFirst
    <3>2. CASE vec' = [Idle EXCEPT !.pc = "scan", !.todo = Owned \ deleting]
      BY <3>2 DEF Pass, PassSteps, Idle, Owned, PassInv, PassHasOp, PassHasVM,
         TaggedFirst
    <3> QED BY <2>1, <3>1, <3>2 DEF ListSessions, Active
  <2>2. CASE CheckActiveKCP
    BY <2>2, <1>2 DEF CheckActiveKCP, Pass, PassSteps, Idle, PassInv, PassHasOp,
       PassHasVM, TaggedFirst, IInv
  <2>3. CASE ReadSession
    BY <2>3, <1>1, <1>2 DEF ReadSession, Pass, PassSteps, Idle, PassInv, PassHasOp,
       PassHasVM, TaggedFirst, IInv, SessionCM, RecordedHasVM, clusterVars
  <2>4. CASE ScanMachine
    <3>1. PICK m \in vec.todo :
            \/ vec' = [vec EXCEPT !.todo = @ \ {m}]
            \/ \E op \in OpsAround(m) :
                 vec' = [vec EXCEPT !.pc = "save", !.todo = @ \ {m}, !.m = m,
                                    !.op = op]
      BY <2>4 DEF ScanMachine
    <3>2. m \in Machines /\ OpsAround(m) \subseteq OpIDs /\ vec.pc = "scan"
      BY <2>4, <1>2 DEF ScanMachine, Pass, OpsAround, IInv, TypeOK
    <3>3. CASE vec' = [vec EXCEPT !.todo = @ \ {m}]
      BY <3>2, <3>3, <1>2 DEF Pass, PassSteps, PassInv, PassHasOp, PassHasVM,
         TaggedFirst
    <3>4. ASSUME NEW op \in OpIDs,
                 vec' = [vec EXCEPT !.pc = "save", !.todo = @ \ {m}, !.m = m,
                                    !.op = op]
          PROVE  vec' \in Pass /\ PassInv'
      BY <3>2, <3>4, <1>2 DEF Pass, PassSteps, PassInv, PassHasOp, PassHasVM,
         TaggedFirst
    <3> QED BY <3>1, <3>2, <3>3, <3>4
  <2>5. CASE ScanEnds \/ CheckNewKCP \/ CheckOthers \/ LeaveTwoReplicas \/ Fail
    BY <2>5, <1>2 DEF ScanEnds, CheckNewKCP, CheckOthers, LeaveTwoReplicas, Fail,
       Pass, PassSteps, Idle, PassInv, PassHasOp, PassHasVM, TaggedFirst
  <2> QED BY <2>1, <2>2, <2>3, <2>4, <2>5 DEF Reads
<1>5. TypeOK'
  BY <1>1, <1>3, <1>4 DEF IInv, TypeOK, clusterVars
<1>6. RecordedHasVM' /\ CompletedIsAcknowledged'
  BY <1>1 DEF IInv, RecordedHasVM, CompletedIsAcknowledged, clusterVars
<1> QED BY <1>4, <1>5, <1>6 DEF IInv

\* A step of a pass that writes.
LEMMA WritesStep ==
  ASSUME IInv,
         TagReady \/ CompleteSession \/ SaveSession \/ DeleteCPMachine
           \/ SwapKCPTemplate
  PROVE  IInv'
<1> USE VMEvacuationAssumption
<1>1. TypeOK /\ PassInv /\ RecordedHasVM /\ CompletedIsAcknowledged
  BY DEF IInv
<1>2. vec \in Pass /\ cm \in [OpIDs -> SessionCM]
  BY <1>1 DEF TypeOK
<1>3. CASE TagReady
  <2>1. vec.op \in OpIDs /\ vec.m \in Machines /\ machine[vec.m] # "new"
    BY <1>1, <1>3 DEF TagReady, PassInv, PassHasOp, PassHasVM
  <2>2. UNCHANGED <<clusterVars, ops, cm, kcp, budget>>
    BY <1>3 DEF TagReady
  <2>3. /\ ready' \in [Machines -> SUBSET OpIDs]
        /\ \A m \in Machines : ready[m] \subseteq ready'[m]
    BY <1>1, <1>3, <2>1 DEF TagReady, TypeOK
  <2>4. vec' \in Pass /\ PassInv'
    BY <1>1, <1>2, <1>3, <2>1, <2>2 DEF TagReady, Pass, PassSteps, Idle, PassInv,
       PassHasOp, PassHasVM, TaggedFirst, TypeOK, clusterVars
  <2>5. TypeOK'
    BY <1>1, <2>2, <2>3, <2>4 DEF TypeOK, clusterVars
  <2>6. RecordedHasVM' /\ CompletedIsAcknowledged'
    BY <1>1, <1>2, <2>2, <2>3 DEF RecordedHasVM, CompletedIsAcknowledged,
       clusterVars, SessionCM
  <2> QED BY <2>4, <2>5, <2>6 DEF IInv
<1>4. CASE CompleteSession
  <2>1. /\ vec.op \in OpIDs /\ vec.m \in Machines
        /\ host[vec.m] # NoHost => vec.op \in ready[vec.m]
    BY <1>1, <1>4 DEF CompleteSession, PassInv, PassHasOp, PassHasVM, TaggedFirst
  <2>2. UNCHANGED <<clusterVars, ops, ready, kcp, budget>> /\ vec' = Idle
    BY <1>4 DEF CompleteSession
  <2>3. /\ cm' \in [OpIDs -> SessionCM]
        /\ \A op \in OpIDs : /\ cm'[op].newVM = cm[op].newVM
                             /\ cm'[op] = cm[op] \/
                                  (op = vec.op /\ cm[op].newVM = vec.m)
    BY <1>2, <1>4, <2>1 DEF CompleteSession, SessionCM
  <2>4. vec' \in Pass /\ PassInv'
    BY <2>2 DEF Pass, PassSteps, Idle, PassInv, PassHasOp, PassHasVM, TaggedFirst
  <2>5. TypeOK'
    BY <1>1, <2>2, <2>3, <2>4 DEF TypeOK, clusterVars
  <2>6. RecordedHasVM'
    BY <1>1, <2>2, <2>3 DEF RecordedHasVM, clusterVars
  <2>7. CompletedIsAcknowledged'
    BY <1>1, <2>1, <2>2, <2>3 DEF CompletedIsAcknowledged, clusterVars
  <2> QED BY <2>4, <2>5, <2>6, <2>7 DEF IInv
<1>5. CASE SaveSession
  <2>1. vec.op \in OpIDs
    BY <1>1, <1>5 DEF SaveSession, PassInv, PassHasOp
  <2>2. UNCHANGED <<clusterVars, ops, ready, kcp>>
    BY <1>5 DEF SaveSession
  <2>3. budget' \in Budget
    BY <1>1, <1>5, SpendType DEF SaveSession, TypeOK, CanFault
  <2>4. vec' \in Pass /\ PassInv'
    BY <1>2, <1>5 DEF SaveSession, Pass, PassSteps, PassInv, PassHasOp, PassHasVM,
       TaggedFirst
  <2>5. /\ cm' \in [OpIDs -> SessionCM]
        /\ \A op \in OpIDs : cm'[op] = cm[op] \/
             (cm'[op].status = "Active" /\ cm'[op].newVM = NoMachine)
    BY <1>2, <1>5, <2>1 DEF SaveSession, SessionCM
  <2>6. TypeOK'
    BY <1>1, <2>2, <2>3, <2>4, <2>5 DEF TypeOK, clusterVars
  <2>7. RecordedHasVM' /\ CompletedIsAcknowledged'
    BY <1>1, <2>2, <2>5 DEF RecordedHasVM, CompletedIsAcknowledged, clusterVars
  <2> QED BY <2>4, <2>6, <2>7 DEF IInv
<1>6. CASE DeleteCPMachine \/ SwapKCPTemplate
  <2>1. UNCHANGED <<machine, host, ops, cm, ready, kcp, budget>> /\ vec' = Idle
    BY <1>6 DEF DeleteCPMachine, SwapKCPTemplate
  <2>2. deleting' \in SUBSET Machines /\ outdated' \in SUBSET Machines
    BY <1>1, <1>6 DEF DeleteCPMachine, SwapKCPTemplate, TypeOK, Owned
  <2>3. vec' \in Pass /\ PassInv'
    BY <2>1 DEF Pass, PassSteps, Idle, PassInv, PassHasOp, PassHasVM, TaggedFirst
  <2>4. TypeOK' /\ RecordedHasVM' /\ CompletedIsAcknowledged'
    BY <1>1, <2>1, <2>2, <2>3 DEF TypeOK, RecordedHasVM, CompletedIsAcknowledged
  <2> QED BY <2>3, <2>4 DEF IInv
<1> QED BY <1>3, <1>4, <1>5, <1>6

\* A step of the MaasMachine controller.
LEMMA MachineStep ==
  ASSUME IInv, NEW m \in Machines, Compose(m) \/ Deploy(m) \/ Gone(m)
  PROVE  IInv'
<1> USE VMEvacuationAssumption
<1>1. TypeOK /\ PassInv /\ RecordedHasVM /\ CompletedIsAcknowledged
  BY DEF IInv
<1>2. vec \in Pass /\ cm \in [OpIDs -> SessionCM]
  BY <1>1 DEF TypeOK
<1>3. CASE Compose(m)
  <2>1. /\ machine[m] = "new" /\ machine' = [machine EXCEPT ![m] = "composed"]
        /\ UNCHANGED <<deleting, outdated, ops, ready, kcp, vec>>
        /\ Record(m)
    BY <1>3 DEF Compose
  <2>2. PICK h \in Hosts : host' = [host EXCEPT ![m] = h]
    BY <1>3 DEF Compose
  <2>3. /\ cm' \in [OpIDs -> SessionCM] /\ budget' \in Budget
        /\ \A op \in OpIDs : \/ cm'[op] = cm[op]
                             \/ cm'[op].status = "Active" /\ cm'[op].newVM = m
    BY <1>1, <2>1, RecordEffect
  <2>4. TypeOK'
    BY <1>1, <2>1, <2>2, <2>3 DEF TypeOK
  <2>5. PassInv'
    BY <1>1, <1>2, <2>1, <2>2 DEF TypeOK, PassInv, PassHasOp, PassHasVM, TaggedFirst
  <2>6. RecordedHasVM'
    BY <1>1, <2>1, <2>3 DEF TypeOK, RecordedHasVM
  <2>7. CompletedIsAcknowledged'
    <3> SUFFICES ASSUME NEW op \in OpIDs, cm'[op].status = "Completed"
                 PROVE  /\ cm'[op].newVM # NoMachine
                        /\ host'[cm'[op].newVM] # NoHost =>
                             op \in ready'[cm'[op].newVM]
      BY DEF CompletedIsAcknowledged
    <3>1. cm'[op] = cm[op] /\ cm[op].newVM \in Machines
      BY <1>1, <1>2, <2>3 DEF CompletedIsAcknowledged, SessionCM
    <3>2. cm[op].newVM # m
      BY <1>1, <2>1, <3>1 DEF RecordedHasVM
    <3> QED BY <1>1, <2>1, <2>2, <3>1, <3>2 DEF CompletedIsAcknowledged, TypeOK
  <2> QED BY <2>4, <2>5, <2>6, <2>7 DEF IInv
<1>4. CASE Deploy(m)
  <2>1. /\ machine[m] = "composed" /\ machine' = [machine EXCEPT ![m] = "deployed"]
        /\ UNCHANGED <<deleting, outdated, host, ops, ready, kcp, vec>>
        /\ Record(m)
    BY <1>4 DEF Deploy
  <2>2. /\ cm' \in [OpIDs -> SessionCM] /\ budget' \in Budget
        /\ \A op \in OpIDs : \/ cm'[op] = cm[op]
                             \/ cm'[op].status = "Active" /\ cm'[op].newVM = m
    BY <1>1, <2>1, RecordEffect
  <2>3. TypeOK'
    BY <1>1, <2>1, <2>2 DEF TypeOK
  <2>4. PassInv'
    BY <1>1, <1>2, <2>1 DEF TypeOK, PassInv, PassHasOp, PassHasVM, TaggedFirst
  <2>5. RecordedHasVM'
    BY <1>1, <2>1, <2>2 DEF TypeOK, RecordedHasVM
  <2>6. CompletedIsAcknowledged'
    BY <1>1, <2>1, <2>2 DEF CompletedIsAcknowledged
  <2> QED BY <2>3, <2>4, <2>5, <2>6 DEF IInv
<1>5. CASE Gone(m)
  <2>1. /\ machine' = [machine EXCEPT ![m] = "absent"]
        /\ host' = [host EXCEPT ![m] = NoHost]
        /\ ready' = [ready EXCEPT ![m] = {}]
        /\ deleting' = deleting \ {m} /\ outdated' = outdated \ {m}
        /\ UNCHANGED <<ops, cm, kcp, vec, budget>>
    BY <1>5 DEF Gone
  <2>2. TypeOK'
    BY <1>1, <2>1 DEF TypeOK
  <2>3. PassInv'
    BY <1>1, <1>2, <2>1 DEF TypeOK, PassInv, PassHasOp, PassHasVM, TaggedFirst
  <2>4. RecordedHasVM'
    BY <1>1, <2>1 DEF TypeOK, RecordedHasVM
  <2>5. CompletedIsAcknowledged'
    <3> SUFFICES ASSUME NEW op \in OpIDs, cm[op].status = "Completed"
                 PROVE  /\ cm[op].newVM # NoMachine
                        /\ host'[cm[op].newVM] # NoHost =>
                             op \in ready'[cm[op].newVM]
      BY <2>1 DEF CompletedIsAcknowledged
    <3>1. cm[op].newVM \in Machines
      BY <1>1, <1>2 DEF CompletedIsAcknowledged, SessionCM
    <3> QED BY <1>1, <2>1, <3>1 DEF CompletedIsAcknowledged, TypeOK
  <2> QED BY <2>2, <2>3, <2>4, <2>5 DEF IInv
<1> QED BY <1>3, <1>4, <1>5

\* A step of Cluster API.  A Machine it creates is not one that is recorded, nor
\* one the pass works on.
LEMMA ClusterAPIStep == IInv /\ ClusterAPI => IInv'
<1> SUFFICES ASSUME IInv, ClusterAPI PROVE IInv'
  OBVIOUS
<1> USE VMEvacuationAssumption
<1>1. TypeOK /\ PassInv /\ RecordedHasVM /\ CompletedIsAcknowledged
  BY DEF IInv
<1>2. vec \in Pass /\ cm \in [OpIDs -> SessionCM]
  BY <1>1 DEF TypeOK
<1>3. CASE KCPReconcile
  <2>1. UNCHANGED <<outdated, host, ops, cm, ready, vec, budget>>
    BY <1>3 DEF KCPReconcile
  <2>2. \/ machine' = machine
        \/ \E m \in Machines :
             Unused(m) /\ machine' = [machine EXCEPT ![m] = "new"]
    BY <1>3 DEF KCPReconcile, Scale
  <2>3. deleting' \in SUBSET Machines
    BY <1>1, <1>3 DEF KCPReconcile, Scale, TypeOK
  <2>4. machine' \in
          [Machines -> {"absent", "new", "composed", "deployed", "up", "down"}]
    BY <1>1, <2>2 DEF TypeOK
  <2>5. kcp' \in KCP
    <3>1. /\ Owned' \in SUBSET Machines /\ Up' \in SUBSET Machines
          /\ Owned' \ outdated \in SUBSET Machines
      BY DEF Owned, Up
    <3>2. kcp.spec \in ReplicaCounts
      BY <1>1 DEF TypeOK, KCP
    <3>3. /\ Cardinality(Owned') \in Nat /\ Cardinality(Up') \in Nat
          /\ Cardinality(Owned' \ outdated) \in Nat
      BY <3>1, CountsType
    <3> QED BY <1>3, <3>2, <3>3 DEF KCPReconcile, KCP, replicas
  <2>6. TypeOK'
    BY <1>1, <2>1, <2>3, <2>4, <2>5 DEF TypeOK
  <2>7. PassInv'
    BY <1>1, <2>1, <2>2 DEF TypeOK, PassInv, PassHasOp, PassHasVM, TaggedFirst, Unused
  <2>8. RecordedHasVM'
    BY <1>1, <2>1, <2>2 DEF TypeOK, RecordedHasVM, Unused
  <2>9. CompletedIsAcknowledged'
    BY <1>1, <2>1 DEF CompletedIsAcknowledged
  <2> QED BY <2>6, <2>7, <2>8, <2>9 DEF IInv
<1>4. ASSUME NEW m \in Machines, NodeReady(m) \/ NodeFails(m) \/ Remediate(m)
      PROVE  IInv'
  <2>1. UNCHANGED <<outdated, host, ops, cm, ready, kcp, vec>>
    BY <1>4 DEF NodeReady, NodeFails, Remediate
  <2>2. \/ machine' = machine
        \/ machine' = [machine EXCEPT ![m] = "up"]
        \/ machine' = [machine EXCEPT ![m] = "down"]
    BY <1>4 DEF NodeReady, NodeFails, Remediate
  <2>3. deleting' \in SUBSET Machines /\ budget' \in Budget
    BY <1>1, <1>4, SpendType DEF NodeReady, NodeFails, Remediate, TypeOK
  <2>4. TypeOK'
    BY <1>1, <2>1, <2>2, <2>3 DEF TypeOK
  <2>5. PassInv'
    BY <1>1, <2>1, <2>2 DEF TypeOK, PassInv, PassHasOp, PassHasVM, TaggedFirst
  <2>6. RecordedHasVM'
    BY <1>1, <2>1, <2>2 DEF TypeOK, RecordedHasVM
  <2>7. CompletedIsAcknowledged'
    BY <1>1, <2>1 DEF CompletedIsAcknowledged
  <2> QED BY <2>4, <2>5, <2>6, <2>7 DEF IInv
<1> QED BY <1>3, <1>4 DEF ClusterAPI

\* A step of the host maintenance controller.
LEMMA HMCStep == IInv /\ HostMaintenanceController => IInv'
<1> SUFFICES ASSUME IInv, NEW h \in Hosts,
                    UnmarkHost(h) \/ \E op \in OpIDs : MarkHost(h, op)
             PROVE  IInv'
  BY DEF HostMaintenanceController
<1>1. UNCHANGED <<clusterVars, cm, ready, kcp, vec>>
  BY DEF UnmarkHost, MarkHost
<1>2. ops' \in [Hosts -> SUBSET OpIDs] /\ budget' \in Budget
  BY SpendType DEF UnmarkHost, MarkHost, IInv, TypeOK
<1>3. TypeOK'
  BY <1>1, <1>2 DEF IInv, TypeOK, clusterVars
<1>4. PassInv' /\ RecordedHasVM' /\ CompletedIsAcknowledged'
  BY <1>1 DEF IInv, PassInv, PassHasOp, PassHasVM, TaggedFirst, RecordedHasVM,
              CompletedIsAcknowledged, clusterVars
<1> QED BY <1>3, <1>4 DEF IInv

-----------------------------------------------------------------------------

\* The inductive invariant holds in every reachable state of the VM evacuation.
THEOREM VECInvariance == Spec => []IInv
<1>1. Init => IInv
  BY InitIInv
<1>2. IInv /\ [Next]_vars => IInv'
  <2> SUFFICES ASSUME IInv, [Next]_vars PROVE IInv'
    OBVIOUS
  <2>1. CASE VECStep \/ Fail
    BY <2>1, ReadsStep, WritesStep DEF VECStep, Reads
  <2>2. ASSUME NEW m \in Machines, Compose(m) \/ Deploy(m) \/ Gone(m)
        PROVE  IInv'
    BY <2>2, MachineStep
  <2>3. CASE ClusterAPI
    BY <2>3, ClusterAPIStep
  <2>4. CASE HostMaintenanceController
    BY <2>4, HMCStep
  <2>5. CASE UNCHANGED vars
    BY <2>5 DEF vars, clusterVars, IInv, TypeOK, PassInv, PassHasOp, PassHasVM,
       TaggedFirst, RecordedHasVM, CompletedIsAcknowledged
  <2> QED BY <2>1, <2>2, <2>3, <2>4, <2>5 DEF Next
<1> QED BY <1>1, <1>2, PTL DEF Spec

\* The state of the VM evacuation is well typed.
THEOREM VECTypeCorrect == Spec => []TypeOK
<1>1. IInv => TypeOK
  BY DEF IInv
<1> QED BY <1>1, VECInvariance, PTL

\* No interleaving of the controllers, failing call or restart lets a session be
\* completed whose replacement VM has not been acknowledged.
THEOREM CompletionIsAcknowledged == Spec => []CompletedIsAcknowledged
<1>1. IInv => CompletedIsAcknowledged
  BY DEF IInv
<1> QED BY <1>1, VECInvariance, PTL

-----------------------------------------------------------------------------
(* While nothing fails. *)

Untroubled == budget.outages = 0 /\ budget.faults = 0

Joining == {m \in Machines : machine[m] \in {"new", "composed", "deployed"}}

\* Only a complete control plane looks stable: the step that creates a Machine
\* writes the status too.
JoiningIsUnstable == Joining # {} => ~IsStable

HostIsOwned == \A m \in Machines : host[m] # NoHost => m \in Owned

\* The control plane is complete, and nothing is being replaced.
Quiet ==
  /\ deleting = {} /\ outdated = {} /\ Owned = Up
  /\ Cardinality(Owned) = replicas

\* An evicted Machine is still there, or is gone and not replaced yet.
Shrunk ==
  /\ outdated = {} /\ Owned = Up
  /\ \/ deleting = {} /\ Cardinality(Owned) + 1 = replicas
     \/ \E x \in Owned : deleting = {x} /\ Cardinality(Owned) = replicas

\* Its replacement is on the way, or has joined.
Replaced ==
  deleting = {} /\ outdated = {} /\ Cardinality(Owned) = replicas

\* One replica: the template has been swapped and nothing is created yet.
Swapped ==
  /\ replicas = 1 /\ deleting = {} /\ outdated = Owned /\ Owned = Up
  /\ \E x \in Machines : Owned = {x}

\* The rollout has created the second Machine; the first goes once both are up.
Surged ==
  /\ replicas = 1 /\ kcp.replicas # 1
  /\ \E x, y \in Machines : /\ x # y /\ Owned = {x, y} /\ outdated = {x}
                            /\ deleting = {} \/ (deleting = {x} /\ Owned = Up)

\* No active session has its replacement, which none gets before its VM is composed.
Unrecorded   == \A op \in Active : cm[op].newVM = NoMachine
NoneComposed == \A m \in Machines : machine[m] \notin {"composed", "deployed"}

Evicting == {"newKCP", "others", "evacuate"}

\* A pass that looks for Machines to evict does so from a complete control plane.
\* From there on a session is active until the control plane is complete again: a
\* pass between its two reads has seen no replacement that it could take for one.
Course ==
  /\ \A m \in Machines : machine[m] # "down"
  /\ vec.pc \in {"activeKCP", "readSession"} => vec.op \in Active
  /\ \/ /\ Quiet
        /\ vec.pc \in {"scan", "save"} \cup Evicting => Unrecorded
        /\ vec.first # NoMachine \/ vec.pc \in Evicting => Active # {}
     \/ /\ Active # {} /\ vec.pc \in {"idle", "activeKCP", "readSession"}
        /\ vec.first = NoMachine
        /\ \/ (Shrunk \/ Swapped) /\ Unrecorded
           \/ /\ Replaced \/ Surged
              /\ vec.pc = "readSession" => Unrecorded /\ NoneComposed

\* What is composed, or recorded, is not on a host of an active session.
Elsewhere ==
  /\ ReplacementIsElsewhere
  /\ \A m \in Machines : machine[m] = "composed" => OpsAround(m) \cap Active = {}

CInv == /\ JoiningIsUnstable /\ HostIsOwned
        /\ QuickPasses /\ Untroubled => Course

EInv == QuickPasses /\ Untroubled /\ MaxMarked <= 1 => Elsewhere

-----------------------------------------------------------------------------

\* A failing call or node is trouble, and trouble stays.
LEMMA TroubleStays ==
  ASSUME TypeOK
  PROVE  /\ Spend("faults") \/ Spend("outages") => ~Untroubled'
         /\ Spend("marks") \/ UNCHANGED budget => (Untroubled' <=> Untroubled)
         /\ [Next]_vars => (Untroubled' => Untroubled)
<1>1. /\ budget \in Budget /\ budget.faults \in Nat /\ budget.outages \in Nat
  BY VMEvacuationAssumption DEF TypeOK, Budget
<1>2. Spend("faults") \/ Spend("outages") => ~Untroubled'
  BY <1>1 DEF Spend, Budget, Untroubled
<1>3. Spend("marks") \/ UNCHANGED budget => (Untroubled' <=> Untroubled)
  BY <1>1 DEF Spend, Budget, Untroubled
<1>4. [Next]_vars => Spend("faults") \/ Spend("outages") \/ Spend("marks") \/ UNCHANGED budget
  BY DEF Next, vars, VECStep, Fail, ListSessions, CheckActiveKCP, ReadSession, TagReady,
         CompleteSession, ScanMachine, SaveSession, ScanEnds, CheckNewKCP, CheckOthers,
         DeleteCPMachine, SwapKCPTemplate, LeaveTwoReplicas, Compose, Deploy, Gone, Record,
         ClusterAPI, KCPReconcile, NodeReady, NodeFails, Remediate,
         HostMaintenanceController, MarkHost, UnmarkHost
<1> QED BY <1>2, <1>3, <1>4

\* Machines are counted in finite sets.
LEMMA Counted ==
  /\ IsFiniteSet(Owned) /\ Cardinality(Owned) \in Nat
  /\ IsFiniteSet(Up) /\ Cardinality(Up) \in Nat /\ Up \subseteq Owned
  /\ IsFiniteSet(Owned') /\ Cardinality(Owned') \in Nat
  /\ IsFiniteSet(Up') /\ Cardinality(Up') \in Nat /\ Up' \subseteq Owned'
<1>1. /\ Owned \in SUBSET Machines /\ Up \in SUBSET Machines
      /\ Owned' \in SUBSET Machines /\ Up' \in SUBSET Machines
      /\ Up \subseteq Owned /\ Up' \subseteq Owned'
  BY DEF Owned, Up
<1> QED BY <1>1, VMEvacuationAssumption, FS_Subset, FS_CardinalityType

\* Nothing that is joining looks stable.
LEMMA JoiningStep ==
  ASSUME TypeOK, JoiningIsUnstable, [Next]_vars
  PROVE  JoiningIsUnstable'
<1>1. CASE KCPReconcile
  <2>1. /\ kcp'.replicas = Cardinality(Owned') /\ kcp'.ready = Cardinality(Up')
        /\ replicas' = replicas
    BY <1>1 DEF KCPReconcile, replicas
  <2> SUFFICES ASSUME IsStable'
               PROVE  Joining' = {}
    BY DEF JoiningIsUnstable
  <2>2. Cardinality(Owned') = Cardinality(Up')
    BY <2>1 DEF IsStable
  <2>3. Owned' = Up'
    BY <2>2, Counted, FS_Subset
  <2> QED BY <2>3 DEF Joining, Owned, Up
<1>2. CASE kcp' = kcp /\ Joining' \subseteq Joining
  BY <1>2 DEF JoiningIsUnstable, IsStable, replicas
<1>3. KCPReconcile \/ (kcp' = kcp /\ Joining' \subseteq Joining)
  BY DEF Joining, TypeOK, Next, vars, clusterVars, VECStep, Fail, ListSessions, CheckActiveKCP,
         ReadSession, TagReady, CompleteSession, ScanMachine, SaveSession, ScanEnds,
         CheckNewKCP, CheckOthers, DeleteCPMachine, SwapKCPTemplate, LeaveTwoReplicas,
         Compose, Deploy, Gone, ClusterAPI, NodeReady, NodeFails, Remediate,
         HostMaintenanceController, MarkHost, UnmarkHost
<1> QED BY <1>1, <1>2, <1>3

\* Only a Machine that exists has a VM.
LEMMA HostStep ==
  ASSUME TypeOK, HostIsOwned, [Next]_vars
  PROVE  HostIsOwned'
<1>1. CASE \E m \in Machines : Compose(m) \/ Deploy(m) \/ Gone(m)
  BY <1>1 DEF Compose, Deploy, Gone, HostIsOwned, Owned, TypeOK
<1>2. CASE ClusterAPI
  BY <1>2 DEF ClusterAPI, KCPReconcile, Scale, NodeReady, NodeFails, Remediate,
              HostIsOwned, Owned, TypeOK
<1>3. CASE UNCHANGED <<machine, host>>
  BY <1>3 DEF HostIsOwned, Owned
<1>4. \/ \E m \in Machines : Compose(m) \/ Deploy(m) \/ Gone(m)
      \/ ClusterAPI
      \/ UNCHANGED <<machine, host>>
  BY DEF Next, vars, clusterVars, VECStep, Fail, ListSessions, CheckActiveKCP,
         ReadSession, TagReady, CompleteSession, ScanMachine, SaveSession, ScanEnds,
         CheckNewKCP, CheckOthers, DeleteCPMachine, SwapKCPTemplate, LeaveTwoReplicas,
         HostMaintenanceController, MarkHost, UnmarkHost
<1> QED BY <1>1, <1>2, <1>3, <1>4

\* The steps of a pass that change nothing but the pass keep the course.
LEMMA ReadsCourse ==
  ASSUME IInv, JoiningIsUnstable, Course, Reads, UNCHANGED budget
  PROVE  Course'
<1>1. /\ UNCHANGED <<clusterVars, ops, cm, ready, kcp>>
      /\ vec \in Pass /\ TypeOK
  BY DEF Reads, ListSessions, CheckActiveKCP, ReadSession, ScanMachine, ScanEnds,
         CheckNewKCP, CheckOthers, LeaveTwoReplicas, Fail, IInv, TypeOK
<1>2. /\ Quiet' <=> Quiet
      /\ Shrunk' <=> Shrunk
      /\ Replaced' <=> Replaced
      /\ Swapped' <=> Swapped
      /\ Surged' <=> Surged
      /\ Unrecorded' <=> Unrecorded
      /\ NoneComposed' <=> NoneComposed
      /\ Active' = Active /\ machine' = machine
  BY <1>1 DEF Quiet, Shrunk, Replaced, Swapped, Surged, Unrecorded, NoneComposed,
              Active, Owned, Up, replicas, clusterVars
<1>3. /\ Idle.pc = "idle" /\ Idle.first = NoMachine
  BY DEF Idle
<1>4. CASE vec' = Idle
  BY <1>2, <1>3, <1>4 DEF Course, Evicting
<1>5. CASE ListSessions
  <2>1. ASSUME NEW op \in Active, vec' = [Idle EXCEPT !.pc = "activeKCP", !.op = op]
        PROVE  Course'
    <3>1. vec'.pc = "activeKCP" /\ vec'.op = op /\ vec'.first = NoMachine
      BY <2>1 DEF Idle
    <3> QED BY <1>2, <2>1, <3>1 DEF Course, Evicting
  <2>2. ASSUME Active = {}, vec' = [Idle EXCEPT !.pc = "scan", !.todo = Owned \ deleting]
        PROVE  Course'
    <3>1. vec'.pc = "scan" /\ vec'.first = NoMachine
      BY <2>2 DEF Idle
    <3> QED BY <1>2, <2>2, <3>1 DEF Course, Evicting, Unrecorded
  <2> QED BY <1>5, <2>1, <2>2 DEF ListSessions
<1>6. CASE CheckActiveKCP /\ vec' # Idle
  <2>1. /\ vec.pc = "activeKCP" /\ IsStable /\ vec' = [vec EXCEPT !.pc = "readSession"]
    BY <1>6 DEF CheckActiveKCP
  <2>2. vec'.pc = "readSession" /\ vec'.op = vec.op /\ vec'.first = vec.first
    BY <1>1, <2>1 DEF Pass
  <2>3. Joining = {} /\ kcp.replicas = replicas
    BY <2>1 DEF JoiningIsUnstable, IsStable
  <2>4. Owned = Up /\ NoneComposed
    BY <1>1, <2>3 DEF Joining, Owned, Up, Course, NoneComposed, TypeOK
  <2>5. Replaced => Quiet
    BY <2>4 DEF Replaced, Quiet
  <2>6. ~Surged
    BY <2>3 DEF Surged
  <2> QED BY <1>2, <2>1, <2>2, <2>5, <2>6 DEF Course, Evicting
<1>7. CASE ReadSession /\ vec' # Idle
  <2>1. /\ vec.pc = "readSession" /\ cm[vec.op].newVM # NoMachine
        /\ vec' = [vec EXCEPT !.pc = "tagReady", !.m = cm[vec.op].newVM]
    BY <1>7 DEF ReadSession
  <2>2. vec'.pc = "tagReady" /\ vec'.first = vec.first
    BY <1>1, <2>1 DEF Pass
  <2>3. ~Unrecorded
    BY <2>1 DEF Course, Unrecorded
  <2> QED BY <1>2, <2>1, <2>2, <2>3 DEF Course, Evicting
<1>8. CASE ScanMachine
  <2>1. /\ vec.pc = "scan" /\ vec'.first = vec.first /\ vec'.pc \in {"scan", "save"}
    BY <1>1, <1>8 DEF ScanMachine, Pass
  <2> QED BY <1>2, <2>1 DEF Course, Evicting
<1>9. CASE (ScanEnds \/ CheckNewKCP \/ CheckOthers) /\ vec' # Idle
  <2>1. /\ vec.pc \in {"scan"} \cup Evicting /\ vec'.first = vec.first
        /\ vec'.pc \in Evicting /\ (vec.pc = "scan" => vec.first # NoMachine)
    BY <1>1, <1>9 DEF ScanEnds, CheckNewKCP, CheckOthers, Pass, Evicting
  <2> QED BY <1>2, <2>1 DEF Course, Evicting
<1>10. CASE LeaveTwoReplicas \/ Fail
  BY <1>4, <1>10 DEF LeaveTwoReplicas, Fail
<1> QED BY <1>4, <1>5, <1>6, <1>7, <1>8, <1>9, <1>10 DEF Reads

\* So do those that write: what is evicted is evicted from a complete control plane,
\* by a pass that has just opened a session.
LEMMA WritesCourse ==
  ASSUME IInv, Course, UNCHANGED budget,
         TagReady \/ CompleteSession \/ SaveSession \/ DeleteCPMachine \/ SwapKCPTemplate
  PROVE  Course'
<1>1. /\ vec \in Pass /\ TypeOK /\ Idle.pc = "idle" /\ Idle.first = NoMachine
      /\ cm \in [OpIDs -> SessionCM]
  BY DEF IInv, TypeOK, Idle
<1>2. CASE TagReady
  <2>1. /\ vec.pc = "tagReady" /\ UNCHANGED <<clusterVars, cm, kcp>>
        /\ vec'.pc \in {"complete", "idle"} /\ (vec' = Idle \/ vec'.first = vec.first)
    BY <1>1, <1>2 DEF TagReady, Pass
  <2>2. /\ (Quiet' <=> Quiet) /\ Active' = Active /\ machine' = machine
    BY <2>1 DEF Quiet, Active, Owned, Up, replicas, clusterVars
  <2> QED BY <1>1, <2>1, <2>2 DEF Course, Evicting
<1>3. CASE CompleteSession
  <2>1. vec.pc = "complete" /\ UNCHANGED <<clusterVars, kcp>> /\ vec' = Idle
    BY <1>3 DEF CompleteSession
  <2>2. (Quiet' <=> Quiet) /\ machine' = machine
    BY <2>1 DEF Quiet, Owned, Up, replicas, clusterVars
  <2> QED BY <1>1, <2>1, <2>2 DEF Course, Evicting
<1>4. CASE SaveSession
  <2>1. /\ vec.pc = "save" /\ UNCHANGED <<clusterVars, kcp>> /\ vec'.pc = "scan"
        /\ vec.op \in OpIDs
    BY <1>1, <1>4 DEF SaveSession, Pass, IInv, PassInv, PassHasOp
  <2>2. (Quiet' <=> Quiet) /\ machine' = machine
    BY <2>1 DEF Quiet, Owned, Up, replicas, clusterVars
  <2>3. cm' = [cm EXCEPT ![vec.op] = [status |-> "Active", newVM |-> NoMachine]]
    BY <1>1, <1>4, VMEvacuationAssumption DEF SaveSession, Spend, TypeOK, Budget
  <2>4. Active' # {} /\ (Unrecorded => Unrecorded')
    BY <1>1, <2>1, <2>3 DEF Active, Unrecorded
  <2> QED BY <2>1, <2>2, <2>4 DEF Course, Evicting
<1>5. CASE DeleteCPMachine \/ SwapKCPTemplate
  <2>1. /\ vec.pc = "evacuate" /\ vec' = Idle /\ UNCHANGED <<machine, host, cm, kcp>>
    BY <1>5 DEF DeleteCPMachine, SwapKCPTemplate
  <2>2. Quiet /\ Unrecorded /\ Active # {}
    BY <2>1 DEF Course, Evicting
  <2>3. /\ Owned' = Owned /\ Up' = Up /\ replicas' = replicas
        /\ Unrecorded' /\ Active' # {}
    BY <2>1, <2>2 DEF Owned, Up, replicas, Unrecorded, Active
  <2>4. Quiet' \/ Shrunk' \/ Swapped'
    <3>1. CASE DeleteCPMachine
      <4>1. /\ outdated' = outdated
            /\ deleting' = {} \/ (vec.first \in Owned /\ deleting' = {vec.first})
        BY <2>2, <3>1 DEF DeleteCPMachine, Quiet
      <4> QED BY <2>2, <2>3, <4>1 DEF Quiet, Shrunk
    <3>2. CASE SwapKCPTemplate
      <4>1. replicas = 1 /\ deleting' = deleting /\ outdated' \in {Owned, outdated}
        BY <3>2 DEF SwapKCPTemplate
      <4>2. \E x \in Machines : Owned = {x}
        <5>1. \E x : Owned = {x}
          BY <2>2, <4>1, Counted, FS_Singleton DEF Quiet
        <5> QED BY <5>1 DEF Owned
      <4> QED BY <2>2, <2>3, <4>1, <4>2 DEF Quiet, Swapped
    <3> QED BY <1>5, <3>1, <3>2
  <2> QED BY <1>1, <2>1, <2>2, <2>3, <2>4 DEF Course, Evicting
<1> QED BY <1>2, <1>3, <1>4, <1>5

\* Counting the two Machines of a rollout.
LEMMA SurgedCount == Surged => Cardinality(Owned) = 2
<1> SUFFICES ASSUME NEW x, NEW y, x # y, Owned = {x, y}
             PROVE  Cardinality(Owned) = 2
  BY DEF Surged
<1>1. IsFiniteSet({x}) /\ Cardinality({x}) = 1
  BY FS_Singleton
<1>2. Cardinality({x} \cup {y}) = Cardinality({x}) + 1
  BY <1>1, FS_AddElement
<1>3. {x} \cup {y} = Owned
  OBVIOUS
<1> QED BY <1>1, <1>2, <1>3

\* A Machine gets a VM only where one is being replaced, and no replacement appears
\* between the two reads of a pass; the last evicted one gone, the next can come.
LEMMA MachineCourse ==
  ASSUME IInv, Course, QuickPasses, NEW m \in Machines, Compose(m) \/ Deploy(m) \/ Gone(m)
  PROVE  Course'
<1>1. TypeOK /\ vec' = vec /\ kcp' = kcp /\ replicas' = replicas
  BY DEF IInv, Compose, Deploy, Gone, replicas
<1>2. CASE Compose(m) \/ Deploy(m)
  <2>1. /\ m \in Owned /\ m \notin Up /\ m \notin deleting
        /\ UNCHANGED <<deleting, outdated>>
        /\ \/ machine' = [machine EXCEPT ![m] = "composed"] /\ vec.pc # "readSession"
           \/ machine' = [machine EXCEPT ![m] = "deployed"] /\ machine[m] = "composed"
    BY <1>2 DEF Compose, Deploy, Owned, Up
  <2>2. /\ Owned' = Owned /\ Up' = Up
        /\ \A k \in Machines : machine'[k] # "down" \/ machine[k] = "down"
    BY <1>1, <2>1 DEF Owned, Up, TypeOK
  <2>3. Active' = Active
    BY <1>1, <1>2, RecordEffect DEF Compose, Deploy, Record, Active, TypeOK, SessionCM
  <2>4. Owned # Up /\ ~Quiet /\ ~Shrunk /\ ~Swapped
    BY <2>1 DEF Quiet, Shrunk, Swapped
  <2>5. vec.pc # "readSession"
    BY <2>1, <2>4 DEF Course, NoneComposed
  <2>6. (Replaced => Replaced') /\ (Surged => Surged')
    BY <1>1, <2>1, <2>2, <2>4 DEF Replaced, Surged
  <2> QED BY <1>1, <2>2, <2>3, <2>4, <2>5, <2>6 DEF Course
<1>3. CASE Gone(m)
  <2>1. /\ m \in deleting /\ machine' = [machine EXCEPT ![m] = "absent"]
        /\ deleting' = deleting \ {m} /\ outdated' = outdated \ {m} /\ cm' = cm
    BY <1>3 DEF Gone
  <2>2. /\ Owned' = Owned \ {m} /\ Up' = Up \ {m} /\ Active' = Active
        /\ Unrecorded' <=> Unrecorded
        /\ NoneComposed => NoneComposed'
        /\ \A k \in Machines : machine'[k] # "down" \/ machine[k] = "down"
    BY <1>1, <2>1 DEF Owned, Up, Active, Unrecorded, NoneComposed, TypeOK
  <2>3. ~Quiet /\ ~Replaced /\ ~Swapped
    BY <2>1 DEF Quiet, Replaced, Swapped
  <2>4. ASSUME Shrunk
        PROVE  Shrunk'
    <3>1. m \in Owned /\ deleting = {m} /\ Cardinality(Owned) = replicas
      BY <2>1, <2>4 DEF Shrunk
    <3>2. Cardinality(Owned') + 1 = replicas
      BY <2>2, <3>1, Counted, FS_RemoveElement
    <3> QED BY <1>1, <2>1, <2>2, <2>4, <3>1, <3>2 DEF Shrunk
  <2>5. ASSUME Surged
        PROVE  Replaced'
    <3>1. PICK x, y \in Machines : x # y /\ Owned = {x, y} /\ outdated = {x} /\ deleting = {x}
      BY <2>1, <2>5 DEF Surged
    <3>2. Owned' = {y} /\ m = x
      BY <2>1, <2>2, <3>1
    <3>3. Cardinality(Owned') = 1
      BY <3>2, FS_Singleton
    <3> QED BY <1>1, <2>1, <2>5, <3>1, <3>2, <3>3 DEF Replaced, Surged
  <2> QED BY <1>1, <2>2, <2>3, <2>4, <2>5 DEF Course
<1> QED BY <1>2, <1>3

\* Cluster API creates a Machine only in place of one that is gone, or next to the one
\* that the rollout replaces, which it then removes.
LEMMA KCPCourse ==
  ASSUME IInv, Course, KCPReconcile
  PROVE  Course'
<1>1. /\ TypeOK /\ UNCHANGED <<outdated, cm, vec>>
      /\ kcp'.replicas = Cardinality(Owned') /\ replicas' = replicas
      /\ replicas \in Nat \ {0} /\ Active' = Active
      /\ Unrecorded' <=> Unrecorded
  BY VMEvacuationAssumption
     DEF IInv, TypeOK, KCP, KCPReconcile, replicas, Active, Unrecorded
<1>2. CASE UNCHANGED <<machine, deleting>>
  <2>1. Owned' = Owned /\ Up' = Up /\ (NoneComposed' <=> NoneComposed)
    BY <1>2 DEF Owned, Up, NoneComposed
  <2>2. /\ Quiet => Quiet'
        /\ Shrunk => Shrunk'
        /\ Replaced => Replaced'
        /\ Swapped => Swapped'
    BY <1>1, <1>2, <2>1 DEF Quiet, Shrunk, Replaced, Swapped
  <2>3. ASSUME Surged
        PROVE  Surged'
    <3>1. Cardinality(Owned) = 2
      BY <2>3, SurgedCount
    <3> QED BY <1>1, <1>2, <2>1, <2>3, <3>1 DEF Surged
  <2> QED BY <1>1, <1>2, <2>1, <2>2, <2>3 DEF Course
<1>3. ASSUME NEW m \in Machines, Unused(m), machine' = [machine EXCEPT ![m] = "new"],
             deleting' = deleting,
             \/ Cardinality(Owned) < replicas
             \/ Cardinality(Owned) = replicas /\ outdated # {} /\ Owned = Running
      PROVE  Course'
  <2>1. /\ m \notin Owned /\ Owned' = Owned \cup {m} /\ Up' = Up
        /\ \A k \in Machines : machine'[k] # "down" \/ machine[k] = "down"
        /\ NoneComposed => NoneComposed'
    BY <1>1, <1>3 DEF Unused, Owned, Up, NoneComposed, TypeOK
  <2>2. Cardinality(Owned') = Cardinality(Owned) + 1
    BY <2>1, Counted, FS_AddElement
  <2>3. ~Quiet /\ ~Replaced
    BY <1>1, <1>3, Counted DEF Quiet, Replaced
  <2>4. Owned = Up => NoneComposed
    BY <1>1 DEF Owned, Up, NoneComposed
  <2>5. ASSUME Shrunk
        PROVE  Replaced' /\ NoneComposed'
    BY <1>1, <1>3, <2>1, <2>2, <2>4, <2>5, Counted DEF Shrunk, Replaced
  <2>6. ASSUME Swapped
        PROVE  Surged' /\ NoneComposed'
    <3>1. PICK x \in Machines : Owned = {x} /\ outdated = {x} /\ deleting = {}
      BY <2>6 DEF Swapped
    <3>2. Cardinality(Owned) = 1
      BY <3>1, FS_Singleton
    <3>3. x # m /\ Owned' = {x, m} /\ kcp'.replicas # 1
      BY <1>1, <2>1, <2>2, <3>1, <3>2
    <3> QED BY <1>1, <1>3, <2>1, <2>4, <2>6, <3>1, <3>3 DEF Surged, Swapped
  <2>7. ~Surged
    <3>1. Surged => Cardinality(Owned) = 2 /\ replicas = 1
      BY SurgedCount DEF Surged
    <3> QED BY <1>3, <3>1
  <2> QED BY <1>1, <2>1, <2>3, <2>5, <2>6, <2>7 DEF Course
<1>4. ASSUME Cardinality(Owned) > replicas, Owned = Running, NEW m \in outdated,
             deleting' = {m}, machine' = machine
      PROVE  Course'
  <2>1. Owned' = Owned /\ Up' = Up /\ (NoneComposed' <=> NoneComposed) /\ Owned = Up
    BY <1>4 DEF Owned, Up, NoneComposed, Running
  <2>2. ~Quiet /\ ~Shrunk /\ ~Replaced
    BY <1>1, <1>4, Counted DEF Quiet, Shrunk, Replaced
  <2>3. ~Swapped
    <3>1. Swapped => Cardinality(Owned) = 1
      BY FS_Singleton DEF Swapped
    <3> QED BY <1>1, <1>4, <3>1 DEF Swapped
  <2>4. ASSUME Surged
        PROVE  Surged'
    <3>1. PICK x, y \in Machines : x # y /\ Owned = {x, y} /\ outdated = {x}
      BY <2>4 DEF Surged
    <3>3. Cardinality(Owned) = 2
      BY <2>4, SurgedCount
    <3> QED BY <1>1, <1>4, <2>1, <2>4, <3>1, <3>3 DEF Surged
  <2> QED BY <1>1, <1>4, <2>1, <2>2, <2>3, <2>4 DEF Course
<1>5. \/ UNCHANGED <<machine, deleting>>
      \/ /\ deleting' = deleting
         /\ \E m \in Machines : Unused(m) /\ machine' = [machine EXCEPT ![m] = "new"]
         /\ \/ Cardinality(Owned) < replicas
            \/ Cardinality(Owned) = replicas /\ outdated # {} /\ Owned = Running
      \/ /\ Cardinality(Owned) > replicas /\ Owned = Running /\ machine' = machine
         /\ \E m \in outdated : deleting' = {m}
  BY DEF KCPReconcile, Scale
<1> QED BY <1>2, <1>3, <1>4, <1>5

\* A node that joins completes the control plane; none fails.
LEMMA NodeCourse ==
  ASSUME IInv, Course, NEW m \in Machines, NodeReady(m) \/ Remediate(m)
  PROVE  Course'
<1>1. /\ TypeOK /\ machine[m] # "down" /\ NodeReady(m)
      /\ UNCHANGED <<deleting, outdated, cm, kcp, vec>>
  BY DEF IInv, Course, NodeReady, Remediate
<1>2. machine[m] = "deployed" /\ machine' = [machine EXCEPT ![m] = "up"]
  BY <1>1 DEF NodeReady
<1>3. /\ m \in Owned /\ m \notin Up /\ Owned' = Owned /\ Up' = Up \cup {m}
      /\ \A k \in Machines : machine'[k] # "down" \/ machine[k] = "down"
      /\ Active' = Active /\ replicas' = replicas /\ ~NoneComposed
  BY <1>1, <1>2 DEF Owned, Up, Active, replicas, NoneComposed, TypeOK
<1>4. ~Quiet /\ ~Shrunk /\ ~Swapped
  BY <1>3 DEF Quiet, Shrunk, Swapped
<1>5. (Replaced => Replaced') /\ (Surged => Surged')
  BY <1>1, <1>3 DEF Replaced, Surged
<1> QED BY <1>1, <1>3, <1>4, <1>5 DEF Course

\* Nothing that does not fail leaves the course.
LEMMA CourseStep ==
  ASSUME IInv, JoiningIsUnstable, QuickPasses, Course, [Next]_vars, Untroubled'
  PROVE  Course'
<1>1. TypeOK
  BY DEF IInv
<1>2. ~Spend("faults") /\ ~Spend("outages")
  BY <1>1, TroubleStays
<1>3. CASE Reads
  <2>1. UNCHANGED budget
    BY <1>2, <1>3 DEF Reads, ListSessions, CheckActiveKCP, ReadSession, ScanMachine,
       ScanEnds, CheckNewKCP, CheckOthers, LeaveTwoReplicas, Fail
  <2> QED BY <1>3, <2>1, ReadsCourse
<1>4. CASE TagReady \/ CompleteSession \/ SaveSession \/ DeleteCPMachine
             \/ SwapKCPTemplate
  <2>1. UNCHANGED budget
    BY <1>2, <1>4 DEF TagReady, CompleteSession, SaveSession, DeleteCPMachine,
       SwapKCPTemplate
  <2> QED BY <1>4, <2>1, WritesCourse
<1>5. CASE \E m \in Machines : Compose(m) \/ Deploy(m) \/ Gone(m)
  BY <1>5, MachineCourse
<1>6. CASE ClusterAPI
  <2>1. ASSUME NEW m \in Machines
        PROVE  ~NodeFails(m)
    BY <1>2 DEF NodeFails
  <2> QED BY <1>6, <2>1, KCPCourse, NodeCourse DEF ClusterAPI
<1>7. CASE HostMaintenanceController \/ UNCHANGED vars
  <2>1. UNCHANGED <<clusterVars, cm, kcp, vec>>
    BY <1>7 DEF HostMaintenanceController, MarkHost, UnmarkHost, vars
  <2>2. /\ Quiet' <=> Quiet
        /\ Shrunk' <=> Shrunk
        /\ Replaced' <=> Replaced
        /\ Swapped' <=> Swapped
        /\ Surged' <=> Surged
        /\ Unrecorded' <=> Unrecorded
        /\ NoneComposed' <=> NoneComposed
        /\ Active' = Active /\ machine' = machine /\ vec' = vec
    BY <2>1 DEF Quiet, Shrunk, Replaced, Swapped, Surged, Unrecorded, NoneComposed,
                Active, Owned, Up, replicas, clusterVars
  <2> QED BY <2>2 DEF Course, Evicting
<1> QED BY <1>3, <1>4, <1>5, <1>6, <1>7 DEF Next, VECStep, Reads

\* A replacement is put on a host that is in no maintenance, and a host is put into
\* maintenance for a new operation.
LEMMA ElsewhereStep ==
  ASSUME IInv, Course, Elsewhere, MaxMarked <= 1, [Next]_vars, Untroubled'
  PROVE  Elsewhere'
<1>1. /\ TypeOK /\ RecordedHasVM /\ ReplacementIsElsewhere
      /\ cm \in [OpIDs -> SessionCM] /\ ops \in [Hosts -> SUBSET OpIDs]
  BY DEF IInv, TypeOK, Elsewhere
<1>2. ~Spend("faults") /\ ~Spend("outages")
  BY <1>1, TroubleStays
<1>3. CASE UNCHANGED <<machine, host, ops, cm>>
  BY <1>1, <1>3 DEF Elsewhere, ReplacementIsElsewhere, OpsAround, Active
<1>4. CASE CompleteSession
  <2>1. /\ UNCHANGED <<machine, host, ops>> /\ Active' \subseteq Active
        /\ \A op \in OpIDs : cm'[op].newVM = cm[op].newVM
    BY <1>1, <1>4 DEF CompleteSession, clusterVars, Active, SessionCM
  <2> QED BY <1>1, <2>1 DEF Elsewhere, ReplacementIsElsewhere, OpsAround, Active
<1>5. CASE SaveSession
  <2>1. /\ UNCHANGED <<machine, host, ops>>
        /\ \A op \in OpIDs : cm'[op] = cm[op] \/ cm'[op].newVM = NoMachine
    BY <1>1, <1>2, <1>5 DEF SaveSession, clusterVars, SessionCM
  <2>2. Quiet
    BY <1>5 DEF SaveSession, Course
  <2>3. \A m \in Machines : machine'[m] # "composed"
    BY <2>1, <2>2 DEF Quiet, Owned, Up
  <2> QED BY <1>1, <2>1, <2>3, VMEvacuationAssumption
          DEF Elsewhere, ReplacementIsElsewhere, OpsAround
<1>6. ASSUME NEW m \in Machines, Compose(m)
      PROVE  Elsewhere'
  <2>1. PICK h \in Hosts : ops[h] = {} /\ host' = [host EXCEPT ![m] = h]
    BY <1>6 DEF Compose
  <2>2. /\ machine[m] = "new" /\ machine' = [machine EXCEPT ![m] = "composed"]
        /\ ops' = ops /\ Record(m)
    BY <1>6 DEF Compose
  <2>3. OpsAround(m)' = {} /\ \A k \in Machines \ {m} : OpsAround(k)' = OpsAround(k)
    BY <1>1, <2>1, <2>2 DEF OpsAround, TypeOK
  <2>4. /\ Active' = Active
        /\ \A op \in OpIDs : cm'[op] = cm[op] \/ cm'[op].newVM = m
    BY <1>1, <2>2, RecordEffect DEF Record, Active, SessionCM
  <2> QED BY <1>1, <2>2, <2>3, <2>4
          DEF Elsewhere, ReplacementIsElsewhere, TypeOK, Active
<1>7. ASSUME NEW m \in Machines, Deploy(m)
      PROVE  Elsewhere'
  <2>1. /\ machine[m] = "composed" /\ machine' = [machine EXCEPT ![m] = "deployed"]
        /\ UNCHANGED <<host, ops>> /\ Record(m)
    BY <1>7 DEF Deploy
  <2>2. \A k \in Machines : OpsAround(k)' = OpsAround(k)
    BY <2>1 DEF OpsAround
  <2>3. /\ Active' = Active
        /\ \A op \in OpIDs : cm'[op] = cm[op] \/ cm'[op].newVM = m
    BY <1>1, <2>1, RecordEffect DEF Record, Active, SessionCM
  <2> QED BY <1>1, <2>1, <2>2, <2>3
          DEF Elsewhere, ReplacementIsElsewhere, TypeOK, Active
<1>8. ASSUME NEW m \in Machines, Gone(m)
      PROVE  Elsewhere'
  <2>1. /\ machine' = [machine EXCEPT ![m] = "absent"]
        /\ host' = [host EXCEPT ![m] = NoHost] /\ UNCHANGED <<ops, cm>>
    BY <1>8 DEF Gone
  <2>2. OpsAround(m)' = {} /\ \A k \in Machines \ {m} : OpsAround(k)' = OpsAround(k)
    BY <1>1, <2>1 DEF OpsAround, TypeOK
  <2> QED BY <1>1, <2>1, <2>2 DEF Elsewhere, ReplacementIsElsewhere, TypeOK, Active
<1>9. CASE ClusterAPI
  <2>1. /\ UNCHANGED <<host, ops, cm>>
        /\ \A m \in Machines : machine'[m] = "composed" => machine[m] = "composed"
    BY <1>1, <1>9 DEF ClusterAPI, KCPReconcile, Scale, NodeReady, NodeFails, Remediate,
                      TypeOK
  <2> QED BY <1>1, <2>1 DEF Elsewhere, ReplacementIsElsewhere, OpsAround, Active
<1>10. CASE HostMaintenanceController
  <2>1. PICK h \in Hosts : UnmarkHost(h) \/ \E op \in OpIDs : MarkHost(h, op)
    BY <1>10 DEF HostMaintenanceController
  <2>2. UNCHANGED <<machine, host, cm>> /\ Active' = Active
    BY <2>1 DEF UnmarkHost, MarkHost, clusterVars, Active
  <2>3. CASE UnmarkHost(h)
    <3>1. \A m \in Machines : OpsAround(m)' \subseteq OpsAround(m)
      BY <1>1, <2>2, <2>3 DEF UnmarkHost, OpsAround, TypeOK
    <3> QED BY <1>1, <2>2, <3>1 DEF Elsewhere, ReplacementIsElsewhere
  <2>4. ASSUME NEW op \in OpIDs, MarkHost(h, op)
        PROVE  Elsewhere'
    <3>1. Marked = {} /\ ops[h] = {}
      <4>1. /\ Marked \in SUBSET Hosts /\ MaxMarked \in Nat
            /\ ops[h] = {} /\ Cardinality(Marked) < MaxMarked
        BY <2>4, VMEvacuationAssumption DEF MarkHost, Marked
      <4>2. IsFiniteSet(Marked) /\ Cardinality(Marked) \in Nat
        BY <4>1, VMEvacuationAssumption, FS_Subset, FS_CardinalityType
      <4>3. Cardinality(Marked) = 0
        BY <4>1, <4>2
      <4> QED BY <4>1, <4>2, <4>3, FS_EmptySet
    <3>2. cm[op].status = "none" /\ ops' = [ops EXCEPT ![h] = {op}]
      BY <2>4, <3>1 DEF MarkHost
    <3>3. \A m \in Machines : OpsAround(m)' \subseteq OpsAround(m) \cup {op}
      BY <1>1, <2>2, <3>2 DEF OpsAround, TypeOK
    <3> QED BY <1>1, <2>2, <3>2, <3>3 DEF Elsewhere, ReplacementIsElsewhere, Active
  <2> QED BY <2>1, <2>3, <2>4
<1>11. \/ UNCHANGED <<machine, host, ops, cm>> \/ CompleteSession \/ SaveSession
       \/ \E m \in Machines : Compose(m) \/ Deploy(m) \/ Gone(m)
       \/ ClusterAPI \/ HostMaintenanceController
  BY DEF Next, vars, clusterVars, VECStep, Fail, ListSessions, CheckActiveKCP,
         ReadSession, TagReady, ScanMachine, ScanEnds, CheckNewKCP, CheckOthers,
         DeleteCPMachine, SwapKCPTemplate, LeaveTwoReplicas
<1> QED BY <1>3, <1>4, <1>5, <1>6, <1>7, <1>8, <1>9, <1>10, <1>11

-----------------------------------------------------------------------------

\* The evacuation starts on course.
LEMMA InitCourse == Init => CInv /\ EInv
<1> SUFFICES ASSUME Init PROVE CInv /\ EInv
  OBVIOUS
<1>1. TypeOK
  BY InitIInv DEF IInv
<1>2. PICK ms \in SUBSET Machines :
        /\ Cardinality(ms) = replicas
        /\ machine = [m \in Machines |-> IF m \in ms THEN "up" ELSE "absent"]
        /\ \A m \in Machines : host[m] # NoHost => m \in ms
  BY DEF Init
<1>3. Owned = ms /\ Up = ms
  BY <1>2 DEF Owned, Up
<1>4. /\ deleting = {} /\ outdated = {} /\ vec = Idle /\ Active = {}
      /\ \A op \in OpIDs : cm[op] = [status |-> "none", newVM |-> NoMachine]
  BY DEF Init, Active
<1>5. Quiet
  BY <1>2, <1>3, <1>4 DEF Quiet
<1>6. JoiningIsUnstable /\ HostIsOwned
  BY <1>2, <1>3 DEF JoiningIsUnstable, Joining, HostIsOwned
<1>7. Course
  BY <1>2, <1>4, <1>5 DEF Course, Idle, Evicting
<1>8. Elsewhere
  BY <1>2, <1>4 DEF Elsewhere, ReplacementIsElsewhere
<1> QED BY <1>6, <1>7, <1>8 DEF CInv, EInv

\* The course is kept until the first failing call or node.
LEMMA CourseInvariance == Spec => [](IInv /\ CInv /\ EInv)
<1>1. Init => IInv /\ CInv /\ EInv
  BY InitIInv, InitCourse
<1>2. ASSUME IInv, CInv, EInv, [Next]_vars
      PROVE  CInv' /\ EInv'
  <2>1. TypeOK /\ JoiningIsUnstable /\ HostIsOwned
    BY <1>2 DEF IInv, CInv
  <2>2. JoiningIsUnstable' /\ HostIsOwned'
    BY <1>2, <2>1, JoiningStep, HostStep
  <2>3. Untroubled' => Untroubled
    BY <1>2, <2>1, TroubleStays
  <2>4. QuickPasses /\ Untroubled' => Course'
    BY <1>2, <2>1, <2>3, CourseStep DEF CInv
  <2>5. QuickPasses /\ Untroubled' /\ MaxMarked <= 1 => Elsewhere'
    BY <1>2, <2>3, ElsewhereStep DEF CInv, EInv
  <2> QED BY <2>2, <2>4, <2>5 DEF CInv, EInv
<1>3. Spec => []IInv
  BY VECInvariance
<1> QED BY <1>1, <1>2, <1>3, PTL DEF Spec

\* A step that deletes a Machine or acknowledges a VM, in a state on course.
LEMMA OnCourse ==
  ASSUME IInv, CInv, QuickPasses, Untroubled, [Next]_vars
  PROVE  /\ DeleteCPMachine /\ deleting' # deleting =>
              Cardinality(Running) >= replicas
         /\ \A m \in Machines : ready'[m] \subseteq ready[m] \/
              (machine[m] = "up" /\ Cardinality(Up) >= replicas)
<1>1. TypeOK /\ Course /\ HostIsOwned
  BY DEF IInv, CInv
<1>2. replicas \in Nat
  BY <1>1, VMEvacuationAssumption DEF TypeOK, KCP, replicas
<1>3. ASSUME DeleteCPMachine
      PROVE  Cardinality(Running) >= replicas
  <2>1. Quiet
    BY <1>1, <1>3 DEF Course, DeleteCPMachine
  <2>2. Running = Owned /\ Cardinality(Owned) = replicas
    BY <2>1 DEF Quiet, Running
  <2> QED BY <1>2, <2>2
<1>4. ASSUME NEW m \in Machines, ~(ready'[m] \subseteq ready[m])
      PROVE  machine[m] = "up" /\ Cardinality(Up) >= replicas
  <2>1. TagReady /\ m = vec.m /\ host[vec.m] # NoHost
    BY <1>1, <1>4 DEF TypeOK, Next, vars, clusterVars, VECStep, Fail, ListSessions,
       CheckActiveKCP, ReadSession, TagReady, CompleteSession, ScanMachine, SaveSession,
       ScanEnds, CheckNewKCP, CheckOthers, DeleteCPMachine, SwapKCPTemplate,
       LeaveTwoReplicas, Compose, Deploy, Gone, ClusterAPI, KCPReconcile, NodeReady,
       NodeFails, Remediate, HostMaintenanceController, MarkHost, UnmarkHost
  <2>2. Quiet
    BY <1>1, <2>1 DEF Course, TagReady
  <2>3. m \in Up /\ Cardinality(Up) = replicas
    BY <1>1, <2>1, <2>2 DEF Quiet, HostIsOwned
  <2> QED BY <1>2, <2>3 DEF Up
<1> QED BY <1>3, <1>4

-----------------------------------------------------------------------------

\* As long as no call and no node has failed, a pass takes a Machine only from a
\* complete control plane, and acknowledges only a VM whose node is up with all the
\* others.  What it needs is that no VM is composed between the two reads of a pass.
THEOREM OnCourseUntilTrouble ==
  ASSUME QuickPasses
  PROVE  Spec => [][Untroubled =>
           /\ DeleteCPMachine /\ deleting' # deleting =>
                Cardinality(Running) >= replicas
           /\ \A m \in Machines : ready'[m] \subseteq ready[m] \/
                (machine[m] = "up" /\ Cardinality(Up) >= replicas)]_vars
<1>1. ASSUME IInv, CInv, [Next]_vars
      PROVE  [Untroubled =>
           /\ DeleteCPMachine /\ deleting' # deleting =>
                Cardinality(Running) >= replicas
           /\ \A m \in Machines : ready'[m] \subseteq ready[m] \/
                (machine[m] = "up" /\ Cardinality(Up) >= replicas)]_vars
  BY <1>1, OnCourse
<1> QED BY <1>1, CourseInvariance, PTL DEF Spec

\* Without failing calls and nodes nothing is ever in trouble.
LEMMA CalmIsUntroubled ==
  ASSUME MaxOutages = 0, MaxFaults = 0
  PROVE  TypeOK => Untroubled
BY DEF TypeOK, Budget, Untroubled

\* A pass never takes a Machine from an incomplete control plane, whatever the number
\* of replicas, of hosts and of hosts in maintenance, and however the controllers
\* interleave: when nothing fails, the status of the KCP is never so stale that it
\* hides the replacement that is still missing.
THEOREM EvictsOnlyFromFullStrength ==
  ASSUME QuickPasses, MaxOutages = 0, MaxFaults = 0
  PROVE  Spec => EvictsFromFullStrength
<1>1. ASSUME IInv, CInv, [Next]_vars
      PROVE  [DeleteCPMachine /\ deleting' # deleting =>
                Cardinality(Running) >= replicas]_vars
  <2>1. Untroubled
    BY <1>1, CalmIsUntroubled DEF IInv
  <2> QED BY <1>1, <2>1, OnCourse
<1> QED BY <1>1, CourseInvariance, PTL DEF Spec, EvictsFromFullStrength

\* The acknowledgement of a replacement, likewise: its node is up, with all the others.
THEOREM AcknowledgesOnlyUp ==
  ASSUME QuickPasses, MaxOutages = 0, MaxFaults = 0
  PROVE  Spec => AcknowledgedIsUp
<1>1. ASSUME IInv, CInv, [Next]_vars
      PROVE  [\A m \in Machines : ready'[m] \subseteq ready[m] \/
                (machine[m] = "up" /\ Cardinality(Up) >= replicas)]_vars
  <2>1. Untroubled
    BY <1>1, CalmIsUntroubled DEF IInv
  <2> QED BY <1>1, <2>1, OnCourse
<1> QED BY <1>1, CourseInvariance, PTL DEF Spec, AcknowledgedIsUp

\* With one host in maintenance at a time, a recorded replacement never runs on the
\* host it was made to empty.
THEOREM ReplacementsAreElsewhere ==
  ASSUME QuickPasses, MaxOutages = 0, MaxFaults = 0, MaxMarked <= 1
  PROVE  Spec => []ReplacementIsElsewhere
<1>1. IInv /\ EInv => ReplacementIsElsewhere
  BY CalmIsUntroubled DEF IInv, EInv, Elsewhere
<1> QED BY <1>1, CourseInvariance, PTL
=============================================================================
