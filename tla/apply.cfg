SPECIFICATION FairSpec
CONSTANTS
  d1 = d1  d2 = d2  p1 = p1  t1 = t1  t2 = t2
  here = here  elsewhere = elsewhere
  k1 = k1  k2 = k2  s1 = s1  s2 = s2  f0 = f0  f1 = f1
  Domain = {d1, d2}
  Product = {p1}
  Term = {t1, t2}
  Target = {here, elsewhere}
  Key = {k1, k2}
  Soft = {s1, s2}
  Deferred = {f0, f1}
  NewSoft = s1
  NoDeferred = f0
  Missing = Missing
  Unread = Unread
  NoLink = NoLink
  Unmanaged = Unmanaged
  None = None
  Scenarios <- EverySituation
  MaxEdits = 1
  MaxRuns = 2
INVARIANTS
  HonestResult
  WritesFormPlanPrefix
  RetryNeverRewrites
  NoDanglingLink
  AppliedMeansDesired
  WritesAreAccountedFor
  WritesOnlyAfterFullPreflight
  NoUnverifiedSemantics
PROPERTIES
  KeepsLedger
  PreservesUnmanaged
  EveryRunEnds
CHECK_DEADLOCK FALSE
