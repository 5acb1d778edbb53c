CONSTANTS
  main = main
  worker = worker
  helper = helper
  Thread = {main, helper}
  Main = main
  Priority <- MCPriority
  MayRebuild = {helper}
  CoreMasks = {{1}}
  Detached = {FALSE}
  Queue = {q1}
  NoQueue = NoQueue
  Message = {m1, m2}
  NoMessage = NoMessage
  MaxCapacity = 3
  Delays = {1, 2}
  TickMax = 4
SPECIFICATION Spec
INVARIANTS
  TypeOK
  NoOverdueSleeper
  ClockCoversSleep
PROPERTIES
  ImplementsMessageQueues
