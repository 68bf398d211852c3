SPECIFICATION Spec
CONSTANTS
  g1 = g1
  g2 = g2
  t1 = t1
  t2 = t2
  None = None
  Groups = {g1}
  Targets = {t1, t2}
  RingGroup <- RingsAll
CHECK_DEADLOCK FALSE
INVARIANTS
  EveryTargetIsHeard
