\* Updates of every kind, under fair scheduling.
CONSTANTS
  r1 = r1
  r2 = r2
  Req = {r1, r2}
  Pod = {1, 2, 3, 4, 5}
  ClusterIP = ClusterIP
  Nil = Nil
  Updates <- AnyUpdate
  Endpoints <- TwoOrThree
  SelfIP = 2
  MaxUpdates = 3
  Setups <- AnySetup
  RevisionMaxConcurrency = 2
SPECIFICATION FairSpec
INVARIANTS TypeOK Settled DirectFindsATracker SlicesPartition PodsNotOverbooked
PROPERTIES NoStaleDest RequestReturns
CHECK_DEADLOCK FALSE
