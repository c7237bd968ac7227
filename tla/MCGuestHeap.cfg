CONSTANTS
  WordSize = 64
  Base = 4
  WindowSize = 12
  HeapOff = 2
  HeapSize = 8
  Grain = 2
  Guard = 4
  MemAt = 8
  Bytes = {0, 1}
  Requests = {0, 1, 2}
  Texts <- MCTexts
  DataAt = 4
  DataSize = 2
  ShortCounts = FALSE
SPECIFICATION Spec
INVARIANTS TypeOK BlocksDisjoint HeadersHonest
PROPERTY ImplementsObjectStore
