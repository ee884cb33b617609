CONSTANTS
  c1 = c1
  c2 = c2
  c3 = c3
  s1 = s1
  s2 = s2
  Commands <- ThreeCommands
  Subscriptions <- TwoSubscriptions
  MaxMessages = 2
CHECK_DEADLOCK FALSE
SPECIFICATION LiveSpec
INVARIANTS
  ItemsFollowRequests
  OneOutcome
  DeadIsReplaced
PROPERTIES
  AnswersMatch
  CallsAreSettled
