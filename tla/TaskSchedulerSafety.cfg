SPECIFICATION Spec
CONSTANTS
  Clients = {c1, c2}
  Nobody = Nobody
  Worker = Worker
  MaxTimers = 2
  Durations = {1, 2}
  Cycled = {TRUE, FALSE}
  IdleNap = 1
  MaxLate = 2
  MaxTriggers = 0
INVARIANTS WorkerOnlyWithinRound OneShotOnce
SYMMETRY Symmetry
CHECK_DEADLOCK FALSE
