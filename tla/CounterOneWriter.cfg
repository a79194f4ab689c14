\* One writer whose writes fail or go unacknowledged, reports that keep coming.
CONSTANTS
  a = a
  b = b
  Workers <- Two
  Readers <- Two
  Writers <- One
  Reporters <- Two
  MaxUse = 2
  MinHealth <- MinusTwo
  Seeds <- StoredFar
  Missing = Missing
  Malformed = Malformed
  Faults = {"write", "ack"}
SPECIFICATION FairSpec
PROPERTIES RefinesCycle PendingProgressIsStored
