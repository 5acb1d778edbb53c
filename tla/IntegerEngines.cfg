SPECIFICATION Spec
CONSTANTS
  WordBits = 8
  Programs <- MCPrograms
  MidBlockDivide = FALSE
CHECK_DEADLOCK FALSE
INVARIANTS
  EnginesAgree
  CacheCoherent
  WideArithmetic
