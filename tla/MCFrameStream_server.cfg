CONSTANTS
  Masked = TRUE
  Lengths <- EachHeader
  ShortMax = 1
  MediumMax = 3
  ReadMax = 20
  Shortfalls <- SomeLost
  MaxFrames = 2
CHECK_DEADLOCK FALSE
SPECIFICATION LiveSpec
INVARIANTS
  PacketsAreFrames
PROPERTIES
  FramesArrive
