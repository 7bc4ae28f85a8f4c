SPECIFICATION Spec
CONSTANTS
  Kind <- MCKind
  HeapSize = 16
  NumPages = 2
  Hdr = 2
  Wrap = 128
  Sizes = {1}
  LoopCount = 3
  Ten = 4
  Twelve = 5
  NULL = NULL
INVARIANT TiledUntilRaced
PROPERTY EndsUnlessCyclic
