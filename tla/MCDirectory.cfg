SPECIFICATION MCSpec
CONSTANTS
  Account = {admin, lead, chief, clerk, clerk2}
  Nobody = Nobody
  Root = admin
  Lead = lead
  Chief = chief
  Clerk = clerk
  Clerk2 = clerk2
  Module = {m1}
  Shop = {s1}
  Request = {r1, r2}
  MaxDepth = 10
  MaxUnruly = 1
  MaxFaults = 1
SYMMETRY Symmetry
INVARIANT IndInv
INVARIANT HierarchyKept
INVARIANT WalksAgree
INVARIANT GrantsComeFromAdmin
INVARIANT ShopHeldOnce
CHECK_DEADLOCK FALSE
