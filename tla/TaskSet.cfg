\* The sizes of a 64-bit build.  In 23 units a set of one task has room for two
\* callbacks, a set of two tasks for one, and what is lost makes a next one fail.
CONSTANTS
  Cap = 23
  Unit = 32
  Requests <- Sizes
  NULL = NULL
  SetBytes = 80
  TaskBytes = 24
  QueueBytes = 48
  PointerBytes = 8
  InfoBytes = 16
  DescriptorBytes = 16
  Messages <- ThreeMessages
  MaxLen = 2
  MaxDepth = 2
  Shapes <- FiveShapes
  Junk = Junk
SPECIFICATION SetSpec
INVARIANT SetTypeOK
INVARIANT OwnedOnce
INVARIANT MemoryComesBack
PROPERTY LossIsWhatTheCallGot
PROPERTY ImplementsTaskQueues
