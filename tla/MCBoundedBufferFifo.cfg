SPECIFICATION Spec
CONSTANTS
  NumThreads = 4
  Capacity = 2
  Program <- PairsProgram
  MaxSpurious = 0
  ThreadInfo = ThreadInfo
  Null = Null
  Nobody = Nobody
PROPERTY IsFifo
