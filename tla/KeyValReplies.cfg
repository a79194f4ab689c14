\* Every form of reply to the gets of one entry by a service built from one
\* of many environments.
CONSTANTS
  Numbers <- Counts
  None = None
  Absent = Absent
  Empty = Empty
  Null = Null
  Text = Text
  Environments <- SomeEnvironments
  Arguments <- SomeArguments
  IntOf <- Numerals
SPECIFICATION SpecStart
INVARIANTS CounterReadIsSound EnvironmentIsRestored LevelIsDocumented
