CONSTANTS
  Thread = {t1, t2}
  Main = t1
  Priority <- MCPriority
  MayRebuild = {}
  CoreMasks = {{1}}
  Detached = {FALSE}
  Queue = {q1}
  NoQueue = NoQueue
  Message = {m1}
  NoMessage = NoMessage
  MaxCapacity = 1
  Delays = {1}
  TickMax = 3
  Mutex = {mutex1, mutex2}
  NoOwner = NoOwner
  CountMax = 2
  NoOpLock = {fast1}
SPECIFICATION LocksSpec
INVARIANTS
  OwnerHolds
