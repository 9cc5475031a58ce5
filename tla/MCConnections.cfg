SPECIFICATION MCSpec
CONSTANTS
  w1 = w1
  v1 = v1
  d1 = d1
  d2 = d2
  f1 = f1
  k1 = k1
  Wallet = {w1}
  Store = {v1}
  Deduction = {d1, d2}
  Posting = {}
  Refresh = {f1}
  Worker = {k1}
  Of <- MeetOf
  NoTask = NoTask
  Buffer = 1
  MaxAttempts = 2
  MaxOrders = 3
  Limits = {2, 3}
INVARIANT IndInv
INVARIANT NeverWedged
PROPERTY WedgeIsFinal
PROPERTY TasksEnd
