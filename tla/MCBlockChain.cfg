CONSTANTS
  Addr <- MCAddr
  Window <- MCWindow
  ThunkBase = 100
  DmcSize = 2
  Programs <- MCPrograms
  Near <- MCNear
  None = None
SPECIFICATION Spec
CHECK_DEADLOCK FALSE
INVARIANTS TypeOK LinksComplete ChainSound
PROPERTIES ImplementsGuestFlow DirectJumpsAreLearned
