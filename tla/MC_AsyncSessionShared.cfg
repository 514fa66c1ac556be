SPECIFICATION MCSpec
CONSTANTS
  Clients = {c1, c2}
  NumConns = 3
  None = None
  MinConn = 1
  MaxConn = 1
  Cooldown = 1
  MaxCancels = 1
INVARIANTS OneJobPerConnection
