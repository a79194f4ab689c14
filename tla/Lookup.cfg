\* A worker that reports, reads and saves, and one that saves nothing.
CONSTANTS
  a = a
  b = b
  Workers <- Two
  Readers <- Two
  Writers <- One
  Reporters <- Two
  MaxUse = 2
  MinHealth <- MinusOne
  Seeds <- Seeded
  Missing = Missing
  Malformed = Malformed
  Faults = {"write", "ack"}
  Verbose = {}
  MaxLists = 3
  ListFaults = {"read"}
SPECIFICATION SpecLookup
INVARIANTS WornListIsNotServed SavedListMatchesCycle
PROPERTIES OnlyDiscoveryRenews 
