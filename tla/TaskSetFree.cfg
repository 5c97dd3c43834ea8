\* The set of TaskSet.cfg against the header to the letter.
CONSTANTS
  Cap = 23
  Unit = 32
  Requests <- Sizes
  NULL = NULL
  SetBytes = 80
  TaskBytes = 24
  QueueBytes = 48
  PointerBytes = 8
  InfoBytes = 16
  DescriptorBytes = 16
  Messages <- ThreeMessages
  MaxLen = 2
  MaxDepth = 2
  Shapes <- FiveShapes
  Junk = Junk
SPECIFICATION SetSpec
PROPERTY ImplementsHeader
