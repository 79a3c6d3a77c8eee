\* One machine, one failing call, restart or stale read.
SPECIFICATION FairSpec
CONSTANTS
  Machines = {m1}
  Cluster = Cluster
  Powers = {"on", "off"}
  MaxFaults = 1
INVARIANT TypeOK
INVARIANT QuietIsRight
INVARIANT ResourcesAreFailures
PROPERTY DeletedMachinesGo
PROPERTY RunningMachinesAreAttached
CHECK_DEADLOCK FALSE
