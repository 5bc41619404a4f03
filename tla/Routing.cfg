\* Every policy; reports carry the rate and may be lost; updates and a restart at any time.
CONSTANTS
  r1 = r1
  r2 = r2
  r3 = r3
  Req = {r1, r2, r3}
  Pod = {1, 2}
  Nil = Nil
  Rates <- MixedLengths
  ReportsRate = TRUE
  ReportsMayBeLost = TRUE
  MaxRestarts = 1
  Updates <- OneOrBoth
  MaxUpdates = 1
SPECIFICATION RoutingFairSpec
INVARIANTS RoutingTypeOK CountsOutstanding RatesumOutstanding TargetsArePinned RoundRobinIsEven
PROPERTIES EveryTaskIsBound UpdateEnds
CHECK_DEADLOCK FALSE
