SPECIFICATION Spec
CONSTANTS
  Role <- WebToWeb
  Metered = FALSE
  Events = {"offer", "answer", "strayAnswer", "end", "cancel", "reject", "calleeClose", "destroy", "httpCancel"}
  MaxIngress = 6
  MaxQueue = 1
  MaxFaults = 1
  MaxPasses = 9
CHECK_DEADLOCK FALSE
INVARIANTS
  TypeOK
  DrainWaitsForOne
  Converges
  NoLoneCall
  MediaMatchesCall
  EndAcknowledged
  NoFailedLegAtRest
  InviteOutstanding
