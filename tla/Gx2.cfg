SPECIFICATION Spec
CONSTANTS
  Scenarios <- MCScenarios
  Unset = Unset
  Null = Null
  Units = {0, 1}
  Period = 3
  MaxBytes = 3000000
INVARIANTS
  ObjectsAsAsked
  LevelsApart
  MirrorsCurrent
  VsyncPaced
PROPERTIES
  ImplementsImmediate
  FailedCreateKeepsSurface
  FramesCaptured
CHECK_DEADLOCK FALSE
