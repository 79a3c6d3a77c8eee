\* Two hosts go into maintenance in two operations; nothing fails.
SPECIFICATION FairSpec
CONSTANTS
  Machines = {m1, m2, m3, m4}
  Hosts = {h1, h2, h3}
  OpIDs = {o1, o2}
  NoMachine = NoMachine
  NoHost = NoHost
  NoOp = NoOp
  ReplicaCounts = {3}
  MaxMarked = 2
  MaxMarks = 2
  MaxOutages = 0
  MaxFaults = 0
  QuickPasses = TRUE
PROPERTY MaintenanceEnds
