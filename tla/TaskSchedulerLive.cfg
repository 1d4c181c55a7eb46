SPECIFICATION FairSpec
CONSTANTS
  Clients = {c1, c2}
  Nobody = Nobody
  Worker = Worker
  MaxTimers = 2
  Durations = {1}
  Cycled = {FALSE}
  IdleNap = 1
  MaxLate = 1
  MaxTriggers = 1
PROPERTIES TriggersRun StopEnds OperationsReturn TimersFire
CHECK_DEADLOCK FALSE
