\* Two workers place three VMs on three hosts that qualify, one of them at times.
SPECIFICATION FairSpec
CONSTANTS
  h1 = h1
  h2 = h2
  h3 = h3
  z1 = z1
  h4 = h4
  gpu = gpu
  Anything = Anything
  Hosts = {h1, h2, h3, h4}
  Inventory <- FourHosts
  Options <- Request
  VMs = {v1, v2, v3}
  Workers = {w1, w2}
  Flaky = {h2}
  NoVM = NoVM
  NoHost = NoHost
  MaxFaults = 1
  MaxDeleted = 1
INVARIANT TypeOK
INVARIANT SpreadBounded
INVARIANT UntaggedAreFailures
INVARIANT KnownVMs
PROPERTY AllPlaced
CHECK_DEADLOCK FALSE
