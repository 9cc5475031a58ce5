SPECIFICATION MCSpec
CONSTANTS
  Account = {a1, a2}
  Order = {o1, o2}
  Recharge = {r1}
  Worker = {w1, w2}
  NoAccount = NoAccount
  NoOrder = NoOrder
  Postage = {2000}
  Size = {2}
  Deposit = {3500}
  MaxFaults = 2
INVARIANT IndInv
INVARIANT SuccessIsCharged
INVARIANT RechargeCreditedIffApproved
PROPERTY ImplementsLedger
PROPERTY ChargedIsShown
PROPERTY PayableIsCharged
