\* A read that fails after a restart lets a report overwrite an exhausted count.
CONSTANTS
  a = a
  b = b
  Workers <- Two
  Readers <- Two
  Writers <- One
  Reporters <- Two
  MaxUse = 2
  MinHealth <- MinusTwo
  Seeds <- StoredFar
  Missing = Missing
  Malformed = Malformed
  Faults = {"read", "crash"}
SPECIFICATION Spec
PROPERTY ExhaustedStaysExhausted
