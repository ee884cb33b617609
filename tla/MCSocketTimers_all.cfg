SPECIFICATION FairSpec
CONSTANTS
  MaxEndpoints = 2
  MaxWrites = 3
INVARIANTS
  TlsIsUnwatched
  TouchedOnlyBy
PROPERTIES
  ClosesTheLate
  DeadlinesEnd
CHECK_DEADLOCK FALSE
