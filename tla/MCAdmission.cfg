\* The suite and callers bound to none: one session, a model bound to the harness and
\* one that is not.
CONSTANTS
  bound = bound
  other = other
  s1 = s1
  NoModel = NoModel
  NoSpec = NoSpec
  NoAnswer = NoAnswer
  Sessions = {s1}
  Models = {bound, other}
  Capacities <- AroundTheLimit
SPECIFICATION MCSpec
INVARIANTS
  VerdictIsExact
  AdmittedIsKept
  DiscoveryAgrees
  RequirementSuitePasses
\* A scenario that is over has nothing left to run.
CHECK_DEADLOCK FALSE
