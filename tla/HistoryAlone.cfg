\* One instance whose storage fails in the middle of its operations.
CONSTANTS
  i1 = i1
  i2 = i2
  p1 = p1
  p2 = p2
  Instances <- Alone
  Configured <- Alone
  Proxies <- TwoProxies
  MaxUsage = 2
  Seeds <- SomeRecords
  MaxUses = 5
  Settings <- AnySetting
  Faults = {"start", "read", "write", "ack", "history"}
SPECIFICATION SpecStorage
INVARIANTS TypeOK EveryUseIsCounted OverusedIsSkipped UsesAreBounded HistoryIsComplete EnabledMeansShared
