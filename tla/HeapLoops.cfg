SPECIFICATION Spec
CONSTANTS
  HeapSize = 13
  Hdr = 1
  Sizes = {0, 1, 2, 3}
  MaxCalls = 6
  NULL = NULL
INVARIANT Tiled
INVARIANT ExclusiveUntilTailTaken
INVARIANT ReinitOnlyAfterZero
INVARIANT LoopsAgree
