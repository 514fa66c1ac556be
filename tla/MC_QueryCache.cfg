SPECIFICATION MCSpec
CONSTANTS
  k1 = k1
  k2 = k2
  t1 = t1
  t2 = t2
  Tables = {t1, t2}
  Reads <- MCReads
  Tags <- MCReads
  WriteSets <- MCWriteSets
  None = None
  MaxJobs = 1
  Callers = {c1, c2}
  Keys = {k1, k2}
  MaxWrites = 2
INVARIANTS NoUnexplainedStale FlightsOwned
PROPERTIES RequestsEnd
