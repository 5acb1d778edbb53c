CONSTANTS
  main = main
  worker = worker
  helper = helper
  Thread = {main, worker, helper}
  Main = main
  Priority <- MCPriority
  MayRebuild = {}
  CoreMasks = {{}, {0}}
  Detached = {FALSE}
  Queue = {q1}
  NoQueue = NoQueue
  Message = {m1}
  NoMessage = NoMessage
  MaxCapacity = 1
  Delays = {1, 2}
  TickMax = 3
SPECIFICATION Spec
INVARIANTS
  StatesAgree
  NoLostWakeup
  ErrorMeansStuck
PROPERTIES
  UrgentFirst
  SleepNotCutShort
