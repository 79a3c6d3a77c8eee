\* The power of a machine cannot be read for a while.
SPECIFICATION Spec
CONSTANTS
  Machines = {m1}
  Cluster = Cluster
  Powers = {"on", "error"}
  MaxFaults = 0
PROPERTY UnknownPowerKeepsAddress
CHECK_DEADLOCK FALSE
