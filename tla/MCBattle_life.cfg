\* Life of the battles of one key: joins, rejoins, leaves, errors, ends.
SPECIFICATION Spec
CONSTANTS
  k1 = k1  a1 = a1  a2 = a2  a3 = a3  p1 = p1  p2 = p2  p3 = p3  e1 = e1  e2 = e2
  Actors = {a1, a2, a3}
  NoActor = NoActor
  PlayerIds = {p1, p2}
  Endpoints = {}
  NoEndpoint = NoEndpoint
  SeqIds = {1}
  Keys = {k1}
  NoKey = NoKey
  NoBattle = NoBattle
  Roster <- MCRoster
  CharTotal <- MCCharTotal
  thread_size = 2
  LoopCount = 2
  Requests <- LifeRequests
  Unreliable = {a1}
  MaxQueued = 4
  MaxRequests = 3
INVARIANTS IInv ErrorsRouted
PROPERTIES LifecycleSafe
CHECK_DEADLOCK FALSE
