SPECIFICATION MCSpec
CONSTANTS
  Producers = {p1, p2}
  Consumers = {loop}
  Nobody = Nobody
  Capacity = 4
  MaxPush = 10
  MaxBacklog = 3
  OverCapacity = 2
  OverPush = 7
  OverBacklog = 7
INVARIANTS InOrderExactlyOnce OverrunShape
PROPERTY QueueSpec
CHECK_DEADLOCK FALSE
