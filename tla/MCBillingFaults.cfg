SPECIFICATION FairFaultsSpec
CONSTANTS
  Account = {a1}
  Order = {o1}
  Recharge = {r1}
  ScanWorker = {s1}
  AsyncWorker = {w1}
  RefundWorker = {f1}
  NoAccount = NoAccount
  NoOrder = NoOrder
  Cost = {200000}
  Deposit = {300000}
  MaxMonth = 1
  MaxFaults = 2
INVARIANT RechargeCreditedIffApproved
PROPERTY ImplementsLedger
PROPERTY PayableIsCharged
PROPERTY ReturnableIsRefunded
