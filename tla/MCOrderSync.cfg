SPECIFICATION MCFairSpec
CONSTANTS
  Order = {1, 2}
  Syncer = {s1, s2}
  Ticker = s1
  PageSize = 1
  Overlap = 1
  MaxVersion = 2
  MaxTime = 4
  MaxFaults = 1
INVARIANT WatermarkCovers
PROPERTY LatestIsStored
PROPERTY ReturnIsClosed
