\* Two hosts drained at once, failing calls, restarts and sessions of the operator:
\* what becomes of the guests and of the tags?
SPECIFICATION Spec
CONSTANTS
  Hosts = {h1, h2}
  VMs = {v1, v2}
  CPVMs = {v1, v2}
  OpIDs = {o1, o2}
  NoHost = NoHost
  NoOp = NoOp
  NoTrigger = NoTrigger
  TagMaintenance = TagMaintenance
  TagNoSchedule = TagNoSchedule
  Triggers = {NoHost}
  Recreatable = {h1, h2}
  MaxDraining = 2
  MaxFaults = 1
  PartialReads = FALSE
SYMMETRY Symmetry
INVARIANT TypeOK
INVARIANT OnlyLateGuestsAtRelease
INVARIANT NoTagSurvivesEvacuation
PROPERTY PlacementFrozenWhileDraining
PROPERTY ImplementsDrain
