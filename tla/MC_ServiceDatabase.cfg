SPECIFICATION DbFairSpec
CONSTANTS
  Threads = {t1, t2}
  NumConns = 5
  None = None
  MinConn = 1
  MaxConn = 2
  Cooldown = 1
INVARIANTS CapacityBound ExclusiveUse NoLostWakeup IdleUnlessFailed FreshUnlessFailed
PROPERTIES OperationsEnd ImplementsBoundedPool Spec
