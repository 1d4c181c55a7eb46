SPECIFICATION Spec
CONSTANTS
  Threads = {t1, t2}
  Loggers = {root, net}
  Root = root
  Nobody = Nobody
  Levels = {1, 2}
  Patterns <- SomePatterns
  kDefaultFormatPattern <- LevelPattern
  Requests <- SomeRequests
  Confs <- SomeConfs
  MaxAppenders = 3
  MaxEvents = 2
  MaxCalls = 3
  Writers = {t1, t2}
  kMaxLines = 2
  CntSize = 256
  DayLength = 4
  MaxClock = 9
  MaxLogged = 4
INVARIANTS SameOrder ColourOnTerminalOnly NoDeadlock
PROPERTIES WrittenToAll RightFile LogCallsReturn
CHECK_DEADLOCK FALSE
