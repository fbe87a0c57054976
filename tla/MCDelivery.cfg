\* The scenarios of six suites, and two tasks on one context with callers who do what they like.
CONSTANTS
  h1 = h1
  h2 = h2
  h3 = h3
  c1 = c1
  c2 = c2
  t1 = t1
  t2 = t2
  t3 = t3
  NoHandle = NoHandle
  NoContext = NoContext
  Handles = {h1, h2, h3}
  Contexts = {c1, c2}
  Tasks = {t1, t2, t3}
  MaxSubmissions = 2
SPECIFICATION MCSpec
INVARIANTS
  DeliverySuitePasses
  EffectsAreAuthorised
  NothingIsResubmitted
  OneWorkPerContext
  ResolvedOnce
