SPECIFICATION Spec
CONSTANTS
  Clients = {c1, c2}
  NumConns = 5
  None = None
  MinConn = 1
  MaxConn = 2
  Cooldown = 2
  MaxCancels = 1
INVARIANTS CancelKeepsCapacity
