\* A host is drained before its MaasMachine is deleted.
SPECIFICATION Spec
CONSTANTS
  Hosts = {h1}
  VMs = {v1}
  CPVMs = {v1}
  OpIDs = {o1, o2}
  NoHost = NoHost
  NoOp = NoOp
  NoTrigger = NoTrigger
  TagMaintenance = TagMaintenance
  TagNoSchedule = TagNoSchedule
  Triggers = {}
  Recreatable = {}
  MaxDraining = 1
  MaxFaults = 0
  PartialReads = FALSE
PROPERTY CompletedStaysLetGo
