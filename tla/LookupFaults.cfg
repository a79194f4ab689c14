\* The same two workers with their log messages, lost and false replies, exceptions and restarts.
CONSTANTS
  a = a
  b = b
  Workers <- Two
  Readers <- Two
  Writers <- One
  Reporters <- Two
  MaxUse = 2
  MinHealth <- MinusOne
  Seeds <- Seeded
  Missing = Missing
  Malformed = Malformed
  Faults = {"write", "ack", "lie", "garbled", "crash"}
  Verbose <- Two
  MaxLists = 2
  ListFaults = {"read", "write", "garbled"}
SPECIFICATION SpecLookup
INVARIANTS TypeOKLookup InitializesOnlyAbsent SavesWhatItRead
PROPERTIES ExhaustedStaysExhausted DiscoveryIsLoggedWithoutWrite
