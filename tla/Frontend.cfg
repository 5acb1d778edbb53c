SPECIFICATION Spec
CONSTANTS
  i1 = i1
  i2 = i2
  f1 = f1
  f2 = f2
  Images = {i1, i2}
  FramesInFlight = 2
  Sizes = {1, 2}
  Hidden = 0
  None = None
  Folder = {f1, f2}
  Failed = Failed
  Scenarios <- MCScenarios
  Sequence = {2, 3}
INVARIANTS
  PresentedIsCurrent
  CommandsInOrder
  FramesIntact
  ImagesExclusive
PROPERTIES
  ScanoutReachesScreen
  FoldersListed
  ShutdownCompletes
CHECK_DEADLOCK FALSE
