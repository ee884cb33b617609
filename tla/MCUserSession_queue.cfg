CONSTANTS
  s1 = s1
  s2 = s2
  none = none
  Sessions <- OneSession
  Plain <- NoSession
  None <- none
  MaxWrites = 4
SPECIFICATION PeerFairSpec
INVARIANTS
  QueueMoves
  OnceEach
PROPERTIES
  ClosedIsRemoved
  AcceptedIsSent
