SPECIFICATION MCSpec
CONSTANTS
  FdSetSize = 8
  Fds = {3, 5}
  Wakeup = 3
  Users = {u1, u2}
  Loop = Loop
  MaxCalls = 3
INVARIANTS SelectArguments RetriesBounded ConnectedHasConnection
PROPERTIES ReadableIsHandled WriteInterestReaches RetriesEnd
CHECK_DEADLOCK FALSE
