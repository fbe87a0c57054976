\* Two independent subscriptions with a buffer of three entries: one reader keeps
\* reading, the other one may stop at any time.
CONSTANTS
  r1 = r1
  r2 = r2
  Readers = {r1, r2}
  Diligent = {r1}
  Capacity = 3
  MaxPublished = 5
SPECIFICATION FairSpec
INVARIANTS
  TypeOK
  ExactAccounting
  BoundedBuffer
  GapsAreMaximal
  NoLostWakeup
  FinalIsLast
PROPERTIES
  LogSpec
  DiligentReaderHearsFinal
CHECK_DEADLOCK FALSE
