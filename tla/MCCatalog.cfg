SPECIFICATION MCSpec
CONSTANTS
  MaxProduct = 3
  Stock = 2
  Few = 1
  Supplier = {s1, s2}
  Worker = {w1, w2}
  Reindexer = {x1, x2}
  BatchSize = 2
  MaxWrites = 2
  MaxRebuilds = 2
  MaxFaults = 1
INVARIANT IndInv
INVARIANT ListingIsRight
INVARIANT TotalIsRight
PROPERTY RebuildEnds
CHECK_DEADLOCK FALSE
