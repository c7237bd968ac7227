CONSTANTS
  Digits = 4
  Insns <- ExactInsns
SPECIFICATION Spec
INVARIANTS TypeOK AgreesWithArm NoTrap
