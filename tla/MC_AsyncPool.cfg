SPECIFICATION Spec
CONSTANTS
  Clients = {c1, c2, c3}
  NumConns = 5
  None = None
  MinConn = 1
  MaxConn = 2
  Cooldown = 2
  MaxCancels = 2
INVARIANTS CapacityBound ExclusiveUse ClosedNeverIdle SlotsAccounted WaitersAlive IdleReachesWaiter
PROPERTIES ImplementsBoundedPool
SYMMETRY Perms
