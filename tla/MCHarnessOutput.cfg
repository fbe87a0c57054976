\* The end of the total budget and the end of a run.
CONSTANTS
  tokens = tokens
  s1 = s1
  s2 = s2
  t1 = t1
  t2 = t2
  NoTask = NoTask
  NoSession = NoSession
  NoOutcome = NoOutcome
  NoUsage = NoUsage
  Unknown = Unknown
  Fields = {tokens}
  Sessions = {s1}
  Tasks = {t1}
  ReplyUsages <- SomeReplyUsages
  ConfirmsWorkStopped = FALSE
  DeleteSuspends = FALSE
SPECIFICATION Spec
INVARIANT OutputIsRetained
CHECK_DEADLOCK FALSE
