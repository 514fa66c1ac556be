SPECIFICATION DbSpec
CONSTANTS
  Threads = {t1, t2}
  NumConns = 4
  None = None
  MinConn = 1
  MaxConn = 2
  Cooldown = 1
INVARIANTS WriteLockIsBrief
