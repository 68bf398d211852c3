SPECIFICATION Spec
CONSTANTS
  l1 = l1
  l2 = l2
  l3 = l3
  i1 = i1
  i2 = i2
  None = None
  Lines = {l1, l2, l3}
  Identities = {i1, i2}
  IdentityOf <- SoleAndShared
  Cap <- SoleIsCapped
  Limit = 2
  LowBalance = 2
  MonthLength = 2
  Horizon = 3
  MaxFaults = 1
  MaxRestarts = 1
CHECK_DEADLOCK FALSE
INVARIANTS
  CounterRunsInCall
  SoleLineWithinLimit
PROPERTIES
  KeepsTheLedger
