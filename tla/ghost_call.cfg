SPECIFICATION Spec
CONSTANTS
  MaxSessions = 2
  MaxPolys = 2
  MaxTransfers = 2
  Handlers = {1, 2}
CHECK_DEADLOCK FALSE
INVARIANT
  CancelLeavesPairEmpty
