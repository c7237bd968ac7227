CONSTANTS
  Addr <- MCAddr
  Window <- MCWindow
  ThunkBase = 4
  MaxInsns = 3
  Programs <- MCPrograms
SPECIFICATION FairSpec
INVARIANTS TypeOK EndsInExit
PROPERTIES ImplementsInsnFlow BlocksAreFinite
