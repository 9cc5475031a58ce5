SPECIFICATION MCSpec
CONSTANTS
  Order = {o1, o2}
  First = o1
  Cost = 200
  Deposit = 300
  Funds = 200
  BatchSize = 2
  MaxFaults = 1
INVARIANT OtherMarksUnchanged
CHECK_DEADLOCK FALSE
