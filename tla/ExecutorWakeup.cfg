CONSTANTS
  NTasks = 3
  QueueDepth = 2
  HeapBlocks = 10
  MaxRequests = 2
  Selections <- OneTask
  PrioInputs <- LowHigh
  IntMax = 2147483647
SPECIFICATION Spec
PROPERTY SignalledTaskRuns
CHECK_DEADLOCK FALSE
