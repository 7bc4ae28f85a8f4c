SPECIFICATION QueueSpec
CONSTANTS
  Nodes = {n1, n2, n3, n4, n5}
  MaxEnqueued = 5
  NULL = NULL
INVARIANT FifoWhileSound
INVARIANT InOrder
CHECK_DEADLOCK FALSE
