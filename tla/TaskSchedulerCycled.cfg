SPECIFICATION FairSpec
CONSTANTS
  Clients = {c1}
  Nobody = Nobody
  Worker = Worker
  MaxTimers = 1
  Durations = {1}
  Cycled = {TRUE}
  IdleNap = 1
  MaxLate = 1
  MaxTriggers = 0
PROPERTY CycledTimerCalled
CHECK_DEADLOCK FALSE
