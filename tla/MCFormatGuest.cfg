CONSTANTS
  Calls <- MCCalls
  First <- MCFirst
  Star = Star
  Unset = Unset
  Digits <- MCDigits
  Whole <- MCWhole
  Length <- MCLength
  Fraction = 1
  WordSize = 256
  IntSize = 16
  BufSize = 6
  Slack = 4
  MaxAlloc = 127
  Junk = {0, 15}
SPECIFICATION Spec
INVARIANTS TypeOK ThrowsOnlyBelow
PROPERTY ImplementsPrintf
CHECK_DEADLOCK FALSE
