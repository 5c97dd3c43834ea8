\* A heap that is too small for all the requests, and a user who may be impatient at any
\* of them.
CONSTANTS
  NTasks = 3
  QueueDepth = 2
  HeapBlocks = 7
  MaxRequests = 3
  Selections <- AnyTask
  PrioInputs <- LowHigh
  IntMax = 2147483647
SPECIFICATION Spec
INVARIANT TypeOK
INVARIANT CriticalSectionsExclude
INVARIANT NothingLostOrRepeated
INVARIANT BlocksFollowCallbacks
INVARIANT CurrentIsBusy
INVARIANT PreemptedIsOnStack
INVARIANT StackBounded
INVARIANT NothingPreempted
INVARIANT NeverStuck
PROPERTY ImplementsDispatch
PROPERTY ServesOrStuck
PROPERTY AcceptedCompletes
CHECK_DEADLOCK FALSE
