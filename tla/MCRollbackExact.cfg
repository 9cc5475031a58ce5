SPECIFICATION Spec
CONSTANTS
  MaxOrder = 3
  OldOrders = 2
  Price = {60000}
  Deposit = {100000}
  Tool = {t1}
  Batch = {b1}
  NoBatch = NoBatch
  MaxRecord = 4
INVARIANT RepairIsExact
CHECK_DEADLOCK FALSE
