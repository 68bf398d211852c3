SPECIFICATION Spec
CONSTANTS
  Role <- WebToSip
  Metered = TRUE
  Events = {"offer"}
  MaxIngress = 4
  MaxQueue = 1
  MaxFaults = 0
  MaxPasses = 50
CHECK_DEADLOCK FALSE
INVARIANTS
  DialogMatchesCall
