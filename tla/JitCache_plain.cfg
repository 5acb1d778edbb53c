CONSTANTS
  BackingPage = {0, 1}
  PageWords = 2
  AliasBase = 8
  AliasTarget = 0
  AliasSize = 0
  Code = {"store", "branch"}
  MaxSpan = 2
  Import = 20
  MaxBlock = 2
  Slots = 1
  MaxSteps = 2
  ByteStores = TRUE
  MaxWrites = 1
  MCStart = 1
SPECIFICATION MCSpec
INVARIANTS
  TypeOK
  RunsCurrentCode
PROPERTIES
  ImplementsExecution
