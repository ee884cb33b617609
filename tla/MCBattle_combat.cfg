\* A fight: inputs over TCP and UDP, repeated sequence ids, shared endpoint.
SPECIFICATION Spec
CONSTANTS
  k1 = k1  a1 = a1  a2 = a2  a3 = a3  p1 = p1  p2 = p2  p3 = p3  e1 = e1  e2 = e2
  Actors = {a1, a2}
  NoActor = NoActor
  PlayerIds = {p1, p2, p3}
  Endpoints = {e1}
  NoEndpoint = NoEndpoint
  SeqIds = {1, 2}
  Keys = {k1}
  NoKey = NoKey
  NoBattle = NoBattle
  Roster <- MCRosterCombat
  CharTotal <- MCCharTotal
  thread_size = 1
  LoopCount = 2
  Requests <- CombatRequests
  Unreliable = {}
  MaxQueued = 1
  MaxRequests = 5
INVARIANTS AttackPerSeqId FocusFire SidesClaimed
PROPERTY DamageAnnounced
CHECK_DEADLOCK FALSE
