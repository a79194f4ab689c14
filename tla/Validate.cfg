\* Two passes, a candidate limit of two, a value that holds two short addresses.
CONSTANTS
  Proxies <- Addresses
  Junk = Junk
  Broken = Broken
  MaxRows = 3
  SuccessCount = 2
  MaxTiming = 1
  CandidateLimits = {0, 2}
  ResultCounts = {0, 1}
  MaxSaved = 2
  MaxLength = 14
  Size <- AddressSize
SPECIFICATION Spec
INVARIANTS ResultIsProven NoSecondChance LimitIsFilled SavedValueIsLongest RankedWithinRounding
CHECK_DEADLOCK FALSE
