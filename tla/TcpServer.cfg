SPECIFICATION MCSpec
CONSTANTS
  Clients = {k1, k2}
  LongAddress = {}
  Users = {u1, u2}
  Activated = {k1, k2}
  Shared = {k2}
  Listener = Listener
  Nobody = Nobody
  LoopThread = LoopThread
  Owner = Owner
  MaxAppends = 2
  FirstUser = u1
  BusyPeer = k2
INVARIANTS NoDanglingChannel DisconnectedOnce
PROPERTIES NoConnectionAfterClose DisconnectedIsRemoved StopReturns StopReachesTheWait
CHECK_DEADLOCK FALSE
