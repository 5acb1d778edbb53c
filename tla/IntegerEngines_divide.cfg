SPECIFICATION Spec
CONSTANTS
  WordBits = 8
  Programs <- MCDivide
  MidBlockDivide = TRUE
CHECK_DEADLOCK FALSE
INVARIANTS
  EnginesAgree
