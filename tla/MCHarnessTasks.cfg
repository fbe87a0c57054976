\* One session and two tasks, one after the other.
CONSTANTS
  tokens = tokens
  s1 = s1
  s2 = s2
  t1 = t1
  t2 = t2
  NoTask = NoTask
  NoSession = NoSession
  NoOutcome = NoOutcome
  NoUsage = NoUsage
  Unknown = Unknown
  Fields = {tokens}
  Sessions = {s1}
  Tasks = {t1, t2}
  ReplyUsages <- SomeReplyUsages
  ConfirmsWorkStopped = FALSE
  DeleteSuspends = FALSE
SPECIFICATION Spec
SYMMETRY SessionTaskSymmetry
INVARIANTS
  TypeOK
  SingleGraphRun
  ContextContinuity
  ConfirmedOutcomeFreesSession
  HonestCancellation
  UnknownIsNotZero
  DifferencesAreHonest
  ProjectionAgrees
  StoryAgrees
  ReleasedThreadStaysDeleted
PROPERTIES
  PortSpec
CHECK_DEADLOCK FALSE
