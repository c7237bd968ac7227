CONSTANTS
  Addr <- ZeroAddr
  Window <- MCWindow
  ThunkBase = 100
  DmcSize = 2
  Programs <- DirectOrNull
  Near <- AllNear
  None = None
SPECIFICATION FairSpec
CHECK_DEADLOCK FALSE
PROPERTIES HotPathsStayChained CrashOnlyThroughNull
