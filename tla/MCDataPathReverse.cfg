CONSTANTS
  Digits = 4
  Insns <- Reversals
SPECIFICATION Spec
INVARIANT AgreesWithArm
