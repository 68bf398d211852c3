SPECIFICATION Spec
CONSTANTS
  r1 = r1
  r2 = r2
  k1 = k1
  k2 = k2
  None = None
  Readers = {r1, r2}
  Keys = {k1, k2}
  Published <- Revisions
  Timeout = 1
  RpcLife = 2
  RouteTtl = 1
  MissTtl = 1
  Horizon = 4
  MaxWrites = 2
SYMMETRY Alike
CHECK_DEADLOCK FALSE
INVARIANTS
  NeverGoesBack
  MissIsRecent
  RouteIsRecent
  RoutesAreSound
