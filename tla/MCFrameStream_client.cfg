CONSTANTS
  Masked = FALSE
  Lengths <- Boundaries
  ShortMax = 1
  MediumMax = 3
  ReadMax = 12
  Shortfalls <- SomeLost
  MaxFrames = 3
CHECK_DEADLOCK FALSE
SPECIFICATION Spec
INVARIANTS
  PlaceIsKept
