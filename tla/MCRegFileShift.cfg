CONSTANTS
  Size = 4
  Half = 2
  Regs = {0, 1}
  Pinned = {0}
  Imms = {1}
  Offsets = {1, 3}
  Fns <- MCFns
  Shifts <- MCShifts
  Exts <- MCExts
  Forms = {"shiftrm"}
SPECIFICATION Spec
INVARIANT RegsCoherent
