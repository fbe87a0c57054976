CONSTANTS
  s1 = s1
  s2 = s2
  Sessions = {s1, s2}
  Bounds <- SmallBounds
  Horizon = 4
SPECIFICATION Spec
SYMMETRY Symmetry
INVARIANTS
  TypeOK
  SettledInTime
  ReleaseWithinLongerBound
PROPERTIES
  DeletionGetsTheRest
CHECK_DEADLOCK FALSE
