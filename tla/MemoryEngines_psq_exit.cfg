SPECIFICATION Spec
CONSTANTS
  WordBits = 8
  ScaleBits = 2
  FlatSize = 48
  Regions <- MCRegions
  Aliases <- MCAliases
  EventCapacity = 2
  GprCount = 4
  StringBits = 4
  StringDefault = 8
  CacheBlock = 8
  Programs <- MCPsqExit
  Departures = {"psq_exit"}
CHECK_DEADLOCK FALSE
INVARIANTS
  EnginesAgree
