SPECIFICATION MCSpec
CONSTANTS
  MaxOrder = 3
  OldOrders = 3
  Price = {60004, 50000}
  Deposit = {100000}
  Tool = {t1, t2}
  Batch = {b1, b2}
  NoBatch = NoBatch
  MaxRecord = 6
  FewRecords = 5
INVARIANT TypeOK
INVARIANT RepairIsNear
PROPERTY RepairIsSolvent
PROPERTY RebalanceIsContinuous
CHECK_DEADLOCK FALSE
SYMMETRY Symmetry
