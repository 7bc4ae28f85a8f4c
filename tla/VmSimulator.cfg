SPECIFICATION Spec
CONSTANTS
  MaxPage = 3
  TlbSize = 2
  FrameCount = 4
  MaxAddresses = 7
  Zeroed = Zeroed
INVARIANT TlbCoherent
INVARIANT ReadsOwnPage
INVARIANT LoadedOnce
INVARIANT FramesSuffice
PROPERTY EvictsLeastRecent
