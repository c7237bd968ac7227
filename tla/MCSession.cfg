CONSTANTS
  WordSize = 256
  Base = 64
  WindowSize = 72
  HeapOff = 16
  HeapSize = 24
  Grain = 4
  Guard = 24
  MemAt = 80
  Ptr = 2
  ThunkBase = 240
  PageSize = 8
  HostData <- MCHostData
  ExitName <- MCExitName
  Images <- MCImages
  StackTopOff = 52
  ArgvArea = 10
  ArgLists <- MCArgLists
  HostFns <- MCHostFns
  Exits <- MCExits
  Aborts <- MCAborts
  Values = {0, 1, 5}
  IntSize = 4
  Touched = {63, 40, 136, 159}
  Wild = {20}
  MaxSaid = 2
SPECIFICATION Spec
INVARIANTS TypeOK OneThunkEach PointersBound ArgvIntact StraysReported
PROPERTY ImplementsProcess
CHECK_DEADLOCK FALSE
