SPECIFICATION MCFairSpec
CONSTANTS
  Clients = {c1, c2}
  NumConns = 2
  None = None
  MinConn = 1
  MaxConn = 1
  Cooldown = 1
  MaxCancels = 1
INVARIANTS BrokenNeverReused IdleIsCleanUnlessSwallowed
PROPERTIES SessionEnds AcquireEnds
