SPECIFICATION Spec
CONSTANTS
  Role <- WebToSip
  Metered = TRUE
  Events = {"offer", "end", "bye", "rotate", "close"}
  MaxIngress = 6
  MaxQueue = 1
  MaxFaults = 0
  MaxPasses = 50
CHECK_DEADLOCK FALSE
INVARIANTS
  BillingMatchesCall
  RetiredIsEmpty
PROPERTIES
  RetireCompletes
