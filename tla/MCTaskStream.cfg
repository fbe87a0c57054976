\* One task that may be cancelled, released or closed at any moment, and one reader of its
\* events, with a buffer of three.
CONSTANTS
  tokens = tokens
  s1 = s1
  t1 = t1
  r1 = r1
  NoTask = NoTask
  NoSession = NoSession
  NoOutcome = NoOutcome
  NoUsage = NoUsage
  Unknown = Unknown
  Fields = {tokens}
  Sessions = {s1}
  Tasks = {t1}
  ReplyUsages <- MeasuredReplies
  ConfirmsWorkStopped = TRUE
  DeleteSuspends = FALSE
  Watched = t1
  Readers = {r1}
  Diligent = {r1}
  Capacity = 3
SPECIFICATION MCSpec
INVARIANT
  StreamTellsTheOutcome
PROPERTY
  EndReachesReaders
CHECK_DEADLOCK FALSE
