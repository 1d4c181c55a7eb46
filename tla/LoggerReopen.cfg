SPECIFICATION FlaSpec
CONSTANTS
  Writers = {t1}
  kMaxLines = 2
  CntSize = 256
  DayLength = 4
  MaxClock = 9
  MaxLogged = 3
PROPERTY ReopenMeansReady
CHECK_DEADLOCK FALSE
