\* Seven units and blocks of two, three and four: up to three blocks at once, in
\* every order of allocation and release, with holes between them.
CONSTANTS
  Cap = 7
  Unit = 4
  Requests <- Sizes
  NULL = NULL
SPECIFICATION Spec
INVARIANT TypeOK
INVARIANT Tiles
INVARIANT Coalesced
INVARIANT UnifiedWhenAllFreed
PROPERTY ImplementsHeap
