SPECIFICATION Spec
CONSTANTS
  NumThreads = 4
  Capacity = 2
  Program <- PairsProgram
  MaxSpurious = 1
  ThreadInfo = ThreadInfo
  Null = Null
  Nobody = Nobody
INVARIANT RingAgrees
INVARIANT NoLostWakeup
PROPERTY KeepsPromise
PROPERTY MainReturns
