CONSTANTS
  Half = 2
  Kinds = {"arith", "plain", "carry"}
  Clobbers <- MCClobbers
  CcmpImms <- MCImms
SPECIFICATION Spec
INVARIANT AlwaysAgree
