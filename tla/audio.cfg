SPECIFICATION Spec
CONSTANTS
  Mids = {1}
  MaxOffers = 2
  MaxErrors = 1
CHECK_DEADLOCK FALSE
INVARIANTS
  OneAudioLine
  FreshIdentity
  AnswerFits
  BridgedIsDescribed
PROPERTIES
  EndingSettles
