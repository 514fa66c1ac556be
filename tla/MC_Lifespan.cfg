SPECIFICATION MCSpec
CONSTANTS
  q1 = q1
  MaxRecords = 2
  MaxBatch = 1
  Calls = {j1, j2, q1}
  Jobs = {j1, j2}
  CallPool <- PoolOf
  Workers <- OneThread
  Consumers = {w1}
  MaxJobs = 1
INVARIANTS QuietAfterShutdown RecordsOnce FlushedBeforeClose CacheWritesBeforeClose
PROPERTIES ShutdownEnds
CHECK_DEADLOCK FALSE
