SPECIFICATION FairSpec
CONSTANTS
  Names = {n1, n2}
  MaxAdds = 2
  MaxRemoves = 2
  MaxLoop = 2
INVARIANTS
  RunsAsAsked
  LastCallWins
PROPERTIES
  TasksSettle
CHECK_DEADLOCK FALSE
