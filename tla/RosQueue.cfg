\* Three slots and three distinct elements: ptr wraps and every fill level is
\* reached at every position of ptr.  IntMax is the least an int must hold for it.
CONSTANTS
  Cap = 3
  IntMax = 5
  Elems <- ThreeElems
  e1 = e1
  e2 = e2
  e3 = e3
  NULL = NULL
  Junk = Junk
SPECIFICATION Spec
INVARIANT TypeOK
INVARIANT WindowWritten
INVARIANT ShowsContentsUnlessWrapped
PROPERTY ImplementsFifo
