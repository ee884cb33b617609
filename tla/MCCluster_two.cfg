CONSTANTS
  n1 = n1
  n2 = n2
  None = None
  ClusterNodes <- TwoNodes
  MaxAttempts = 3
SPECIFICATION Spec
INVARIANTS
  ListsAgree
  NoDangling
  OpenIsCurrent
PROPERTIES
  NodesAreTried
