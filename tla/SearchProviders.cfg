\* Every order of calls and replies.
CONSTANTS
  DomainLabels <- SomeLabels
  Octets <- SomeOctets
  OddDigits <- SuperscriptTwo
  Rows <- SomeRows
  None = None
  Raised = Raised
  MaxRows = 2
SPECIFICATION Spec
INVARIANTS NoneMeansNothingWorks RankedListIsOfThisCall NamesDifferInDotsOnly
PROPERTY GeonodeIsLastResort
