CONSTANTS
  s1 = s1
  s2 = s2
  none = none
  Sessions <- TwoSessions
  Plain <- TwoSessions
  None <- none
  MaxWrites = 1
SPECIFICATION Spec
INVARIANTS
  CountersHold
  QuietWhenDestroyed
SYMMETRY SessionSymmetry
