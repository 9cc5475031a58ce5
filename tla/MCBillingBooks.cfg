SPECIFICATION BooksSpec
CONSTANTS
  Account = {a1, a2}
  Order = {o1, o2}
  Recharge = {r1, r2}
  ScanWorker = {s1}
  AsyncWorker = {w1}
  RefundWorker = {f1}
  NoAccount = NoAccount
  NoOrder = NoOrder
  Cost = {200000}
  Deposit = {300000, 400000}
  MaxMonth = 2
  MaxFaults = 1
INVARIANT StatusHasRecord
INVARIANT RefundMatchesDeduction
INVARIANT IndInv
INVARIANT Conservation
INVARIANT NonNegative
PROPERTY LockedRateKept
