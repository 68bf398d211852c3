SPECIFICATION Spec
CONSTANTS
  Mids = {1}
  MaxOffers = 2
  MaxErrors = 0
CHECK_DEADLOCK FALSE
PROPERTIES
  GlareIsAccepted
