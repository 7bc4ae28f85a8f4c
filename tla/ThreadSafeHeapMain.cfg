CONSTANTS
  Threads = {t1, t2}
  Program <- mainThreads
  HeapSize = 23
  NULL = NULL
  JUNK = JUNK
SPECIFICATION Spec
INVARIANTS TypeOK InsideHeap ListAscends UnsharedAfterOneInit EntriesAreHeld
PROPERTY EndsAfterOneInit
