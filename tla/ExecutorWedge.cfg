CONSTANTS
  NTasks = 3
  QueueDepth = 2
  HeapBlocks = 10
  MaxRequests = 4
  Selections <- TwoTasks
  PrioInputs <- LowHigh
  IntMax = 2147483647
SPECIFICATION Spec
INVARIANT SuspendsOutsideCriticalSection
CHECK_DEADLOCK FALSE
