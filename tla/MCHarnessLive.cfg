\* What must happen although the graph run may never end, with confirmed cancellation
\* and a checkpointer whose deletion suspends.
CONSTANTS
  tokens = tokens
  s1 = s1
  s2 = s2
  t1 = t1
  t2 = t2
  NoTask = NoTask
  NoSession = NoSession
  NoOutcome = NoOutcome
  NoUsage = NoUsage
  Unknown = Unknown
  Fields = {tokens}
  Sessions = {s1}
  Tasks = {t1}
  ReplyUsages <- SomeReplyUsages
  ConfirmsWorkStopped = TRUE
  DeleteSuspends = TRUE
SPECIFICATION FairSpec
PROPERTIES
  CancellationIsAnswered
  CleanupEnds
  EndedRunFreesSession
CHECK_DEADLOCK FALSE
