\* A revision scaled to zero.
CONSTANTS
  r1 = r1
  r2 = r2
  Req = {r1}
  Pod = {1, 2, 3}
  ClusterIP = ClusterIP
  Nil = Nil
  Updates <- ScaledToZero
  Endpoints <- Alone
  SelfIP = 2
  MaxUpdates = 2
  Setups <- Unlimited
  RevisionMaxConcurrency = 10
SPECIFICATION Spec
INVARIANT RequestsFindATracker
CHECK_DEADLOCK FALSE
