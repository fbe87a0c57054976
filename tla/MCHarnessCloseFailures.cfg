\* aclose() and a deletion that takes too long.
CONSTANTS
  tokens = tokens
  s1 = s1
  s2 = s2
  t1 = t1
  t2 = t2
  NoTask = NoTask
  NoSession = NoSession
  NoOutcome = NoOutcome
  NoUsage = NoUsage
  Unknown = Unknown
  Fields = {tokens}
  Sessions = {s1}
  Tasks = {t1}
  ReplyUsages <- SomeReplyUsages
  ConfirmsWorkStopped = FALSE
  DeleteSuspends = TRUE
SPECIFICATION Spec
INVARIANT CloseReportsFailures
CHECK_DEADLOCK FALSE
