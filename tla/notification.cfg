SPECIFICATION Spec
CONSTANTS
  token = token
  Keys = {token}
  NoKey = NoKey
  Plans <- ShortPlans
  MaxDomains = 2
CHECK_DEADLOCK FALSE
INVARIANTS
  SentMeansAccepted
  TwiceOnlyInDoubt
  RawOnlyAfterMiss
PROPERTIES
  PlanEnds
