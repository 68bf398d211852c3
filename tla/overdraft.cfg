SPECIFICATION Spec
CONSTANTS
  l1 = l1
  l2 = l2
  l3 = l3
  i1 = i1
  i2 = i2
  None = None
  Lines = {l2, l3}
  Identities = {i2}
  IdentityOf <- SoleAndShared
  Cap <- NoCaps
  Limit = 2
  LowBalance = 3
  MonthLength = 3
  Horizon = 5
  MaxFaults = 0
  MaxRestarts = 0
CHECK_DEADLOCK FALSE
INVARIANT
  EveryTalkIsCapped
