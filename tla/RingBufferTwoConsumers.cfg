SPECIFICATION Spec
CONSTANTS
  Producers = {p1}
  Consumers = {c1, c2}
  Nobody = Nobody
  Capacity = 3
  MaxPush = 3
  MaxBacklog = 2
INVARIANT NoDuplicateDelivery
CHECK_DEADLOCK FALSE
