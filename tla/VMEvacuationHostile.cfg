\* Two hosts in maintenance, a node that fails, two calls that fail or restarts.
SPECIFICATION Spec
CONSTANTS
  Machines = {m1, m2, m3, m4}
  Hosts = {h1, h2}
  OpIDs = {o1, o2}
  NoMachine = NoMachine
  NoHost = NoHost
  NoOp = NoOp
  ReplicaCounts = {1, 2}
  MaxMarked = 2
  MaxMarks = 2
  MaxOutages = 1
  MaxFaults = 2
  QuickPasses = FALSE
SYMMETRY Symmetry
INVARIANT TypeOK
INVARIANT CompletedIsAcknowledged
