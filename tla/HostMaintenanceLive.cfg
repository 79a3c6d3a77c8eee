\* Two hosts drained at once and one failing call or restart: every held host is let go.
SPECIFICATION FairSpec
CONSTANTS
  Hosts = {h1, h2}
  VMs = {v1}
  CPVMs = {v1}
  OpIDs = {o1, o2}
  NoHost = NoHost
  NoOp = NoOp
  NoTrigger = NoTrigger
  TagMaintenance = TagMaintenance
  TagNoSchedule = TagNoSchedule
  Triggers = {}
  Recreatable = {}
  MaxDraining = 2
  MaxFaults = 1
  PartialReads = FALSE
PROPERTY EvacuationCompletes
PROPERTY SerialTags
PROPERTY SerialCloses
