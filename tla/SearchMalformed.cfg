\* A ProxyScrape reply that is not UTF-8.
CONSTANTS
  DomainLabels <- SomeLabels
  Octets <- SomeOctets
  OddDigits <- SuperscriptTwo
  Rows <- SomeRows
  None = None
  Raised = Raised
  MaxRows = 2
SPECIFICATION Spec
PROPERTY MalformedReplyFallsBack
