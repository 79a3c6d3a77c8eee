\* Two nodes, one change of the machines, one failure or outage.
SPECIFICATION FairSpec
CONSTANTS
  Pollers = {p1, p2}
  n1 = n1
  n2 = n2
  Nodes = {n1, n2}
  Layouts <- TwoLayouts
  MaxChanges = 1
  MaxFaults = 1
INVARIANT TypeOK
INVARIANT OnePoller
INVARIANT OfflineIsWatched
INVARIANT LabelledIsRegistered
INVARIANT MissedLabelsAreFailures
PROPERTY NoEarlyRemoval
PROPERTY ReadyNodesInitialised
PROPERTY DaemonSetGoes
PROPERTY LeavingMachinesGo
PROPERTY PollersEnd
CHECK_DEADLOCK FALSE
