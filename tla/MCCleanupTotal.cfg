CONSTANTS
  s1 = s1
  s2 = s2
  Sessions = {s1}
  Bounds <- SmallBounds
  Horizon = 3
SPECIFICATION Spec
INVARIANT
  ReleaseWithinTotal
CHECK_DEADLOCK FALSE
