\* Two MaasMachines over two nodes, one of them a VM.
SPECIFICATION Spec
CONSTANTS
  Objects = {a, b}
  Nodes = {n1, n2}
  VMNodes = {n2}
  NoNode = NoNode
  MaxFaults = 1
  MaxStale = 1
  HelperRebases = FALSE
SYMMETRY Symmetry
INVARIANT TypeOK
INVARIANT LeaksAreFailures
INVARIANT OneOwner
CHECK_DEADLOCK FALSE
