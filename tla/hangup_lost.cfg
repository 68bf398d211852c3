SPECIFICATION Spec
CONSTANTS
  Role <- WebToSip
  Metered = FALSE
  Events = {"offer", "end"}
  MaxIngress = 5
  MaxQueue = 1
  MaxFaults = 0
  MaxPasses = 50
CHECK_DEADLOCK FALSE
PROPERTIES
  HangupReachesPeer
