SPECIFICATION Spec
CONSTANTS
  Role <- SipToWeb
  Metered = FALSE
  Events = {"answer", "end", "bye", "inbound", "reject", "lose"}
  MaxIngress = 8
  MaxQueue = 1
  MaxFaults = 1
  MaxPasses = 50
CHECK_DEADLOCK FALSE
INVARIANTS
  DialogMatchesCall
