SPECIFICATION Spec
CONSTANTS
  Clients = {k1}
  LongAddress = {k1}
  Users = {}
  Activated = {}
  Shared = {}
  Listener = Listener
  Nobody = Nobody
  LoopThread = LoopThread
  Owner = Owner
  MaxAppends = 0
INVARIANT AcceptedSocketReturned
CHECK_DEADLOCK FALSE
