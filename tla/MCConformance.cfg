\* The runtime and cleanup scenarios: at most two sessions and three tasks, confirmed
\* cancellation, and models that heed or ignore it.
CONSTANTS
  tokens = tokens
  s1 = s1
  s2 = s2
  t1 = t1
  t2 = t2
  t3 = t3
  NoTask = NoTask
  NoSession = NoSession
  NoOutcome = NoOutcome
  NoUsage = NoUsage
  Unknown = Unknown
  Fields = {tokens}
  Sessions = {s1, s2}
  Tasks = {t1, t2, t3}
  ReplyUsages <- OneReplyUsage
  ConfirmsWorkStopped = TRUE
  DeleteSuspends = FALSE
SPECIFICATION SuiteSpec
INVARIANTS
  SuitePasses
  NothingLeftBehind
PROPERTIES
  SuiteEnds
\* A scenario that is over has nothing left to run.
CHECK_DEADLOCK FALSE
