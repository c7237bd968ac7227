CONSTANTS
  Half = 2
  Kinds = {"arith", "cmn", "cmpxzr", "addshift", "logic", "carry", "clobber", "plain", "select", "branch", "compare", "testbit", "exit"}
  Clobbers <- MCClobbers
  CcmpImms <- MCImms
SPECIFICATION Spec
INVARIANTS TypeOK FlagsCoherent
PROPERTY DecisionsAgree
