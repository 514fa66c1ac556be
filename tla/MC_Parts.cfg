SPECIFICATION Spec
CONSTANTS
  MaxTime = 6
  ApiKey = {k1}
  Handlers = {h1, h2}
  KeyTTL = 2
  Callers = {c1}
  MaxAttempts = 2
  Window = 2
  CacheKeys = {q1, q2}
  L1Size = 1
  CacheTTL = 2
  Queries = {r1, r2, r3}
  Statements <- Texts
  Limit <- Permits
  RowSizes = {1, 3}
  MaxRows = 2
  MaxBytes = 4
  MaxLen = 3
  Threads = {t1, t2}
  MaxNodes = 6
  Bounds <- BucketBounds
  Values = {1, 4}
  QNum = 9
  QDen = 10
  MaxCount = 11
  MaxTotal = 2
  Names = {n1, n2}
  Emails = {e1, e2}
  Served = {s1, s2}
  Target = 1
  MinRate = 40
  MaxRate = 100
  AdjustInterval = 2
  EscalationTime = 3
  SlowTime = 3
  MaxSampled = 3
INVARIANTS CachedKeyExpires WindowBound HitAge GateNeverShrinks LimitsArePrefix
  TimersAreTheirOwn MarkersApart AlertsReportOnce StartedOnFullSchema EscalationHolds
CHECK_DEADLOCK FALSE
