SPECIFICATION Spec
CONSTANTS
  Operands <- MCOperands
  Modes <- MCModes
  Outcomes <- MCOutcomes
  FpscrImages <- MCFpscrImages
  MaxSteps = 1
CHECK_DEADLOCK FALSE
INVARIANTS
  EnginesAgree
  SummariesFollow
PROPERTIES
  EnabledExceptionSuppresses
