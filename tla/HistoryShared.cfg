\* Two instances that restart and select the same proxy.
CONSTANTS
  i1 = i1
  i2 = i2
  p1 = p1
  p2 = p2
  Instances <- Both
  Configured <- Both
  Proxies <- OneProxy
  MaxUsage = 2
  Seeds <- Unused
  MaxUses = 6
  Settings <- Firestore
  Faults = {"crash"}
SPECIFICATION FairSpecStorage
INVARIANT OveruseIsBounded
PROPERTY OverusedIsDisabled
