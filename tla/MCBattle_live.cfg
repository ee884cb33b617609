\* Errors and finished fights end battles, and ended battles are erased.
SPECIFICATION FairSpec
CONSTANTS
  k1 = k1  a1 = a1  a2 = a2  a3 = a3  p1 = p1  p2 = p2  p3 = p3  e1 = e1  e2 = e2
  Actors = {a1, a2}
  NoActor = NoActor
  PlayerIds = {p1, p2}
  Endpoints = {}
  NoEndpoint = NoEndpoint
  SeqIds = {1}
  Keys = {k1}
  NoKey = NoKey
  NoBattle = NoBattle
  Roster <- MCRoster
  CharTotal <- MCCharTotal
  thread_size = 1
  LoopCount = 1
  Requests <- LiveRequests
  Unreliable = {a1}
  MaxQueued = 4
  MaxRequests = 3

PROPERTIES ErrorEndsBattle FinishedIsErased EndedPlayersLeave LifecycleFair
CHECK_DEADLOCK FALSE
