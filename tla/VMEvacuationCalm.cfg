\* One host in maintenance at a time, nothing fails.
SPECIFICATION FairSpec
CONSTANTS
  Machines = {m1, m2, m3, m4, m5}
  Hosts = {h1, h2}
  OpIDs = {o1, o2}
  NoMachine = NoMachine
  NoHost = NoHost
  NoOp = NoOp
  ReplicaCounts = {1, 3}
  MaxMarked = 1
  MaxMarks = 2
  MaxOutages = 0
  MaxFaults = 0
  QuickPasses = TRUE
INVARIANT ReplacementIsElsewhere
PROPERTY EvictsFromFullStrength
PROPERTY AcknowledgedIsUp
PROPERTY MaintenanceEnds
PROPERTY SessionsComplete
