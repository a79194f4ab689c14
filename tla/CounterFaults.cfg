\* Two full workers, every failure.
CONSTANTS
  a = a
  b = b
  Workers <- Two
  Readers <- Two
  Writers <- Two
  Reporters <- Two
  MaxUse = 2
  MinHealth <- MinusOne
  Seeds <- StoredBefore
  Missing = Missing
  Malformed = Malformed
  Faults = {"read", "write", "ack", "late", "lie", "garbled", "crash"}
SPECIFICATION Spec
SYMMETRY WorkerSymmetry
INVARIANTS TypeOK CountInRange
