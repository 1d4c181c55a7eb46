SPECIFICATION LoopSpec
CONSTANTS
  Workers = {w1, w2}
  Nobody = Nobody
  Runner = main
  Submitters = {main, s1}
  QueueCapacity = 1
  MaxTasks = 2
  Ids = {tcp, udp}
  MaxMade = 2
INVARIANTS TaskOnce StopNeedsIdlePool LeftOnlyIfMissed MeetsEachId OneLoopEach
PROPERTY QueueDrains
CHECK_DEADLOCK FALSE
