CONSTANTS
  BackingPage = {0, 1}
  PageWords = 1
  AliasBase = 3
  AliasTarget = 0
  AliasSize = 1
  Code = {"plain", "store", "dcbz", "branch", "foreign"}
  MaxSpan = 2
  Import = 20
  MaxBlock = 2
  Slots = 2
  MaxSteps = 2
  ByteStores = FALSE
  MaxWrites = 2
  MCStart = 0
SPECIFICATION MCSpec
INVARIANTS
  EntersCurrentCode
  NoDanglingLookup
  WatchpointHonoured
