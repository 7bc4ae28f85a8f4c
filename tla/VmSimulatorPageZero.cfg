SPECIFICATION Spec
CONSTANTS
  MaxPage = 3
  TlbSize = 2
  FrameCount = 4
  MaxAddresses = 7
  Zeroed = Zeroed
INVARIANT RetrievesStoredValue
