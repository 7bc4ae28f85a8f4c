SPECIFICATION Spec
CONSTANTS
  Threads = {t1, t2, t3}
  Program <- unitTest8
  HeapSize = 8
  Wrap = 32
  NULL = NULL
INVARIANT TypeOK
INVARIANT InitOnce
INVARIANT AtMostTwoInside
INVARIANT NotLeftLocked
PROPERTY ExclusiveOnceQuiet
PROPERTY StuckOnlyInCycle
