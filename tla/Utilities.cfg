SPECIFICATION Spec
CONSTANTS
  kBlockSize = 4096
  RequestSizes = {13, 1020, 1024, 1025, 2000}
  MaxChunks = 5
  Bytes = {1, 2}
  Junk = 0
  Strings <- SomeStrings
  Targets <- SomeTargets
  kMaxBytesPerRead = 3
  InitSize = 4
  MaxCapacity = 8
  Keys = {a, b, c, d}
  Values = {u, v}
  capacity = 3
  Directives <- SomeDirectives
  MaxDirectives = 3
  Ids = {1, 2, 3, 4}
  Durations = {1}
  HeapCapacity = 4
  MaxClock = 1
  SomeBytes = {0, 1, 127, 128, 255}
INVARIANTS ChunksApart BufferIsQueue MeansWhatItSpells ReadsBackUnlessSigned
PROPERTIES MapIsQueue HeapKeepsTimers CacheIsLRU
CHECK_DEADLOCK FALSE
