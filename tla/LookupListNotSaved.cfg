\* The list of a discovery is not saved after the counter was reset.
CONSTANTS
  a = a
  b = b
  Workers <- One
  Readers <- One
  Writers <- One
  Reporters <- One
  MaxUse = 2
  MinHealth <- MinusOne
  Seeds <- Seeded
  Missing = Missing
  Malformed = Malformed
  Faults = {}
  Verbose = {}
  MaxLists = 4
  ListFaults = {"write"}
SPECIFICATION SpecLookup
INVARIANT WornListIsNotServed
