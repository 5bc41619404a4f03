\* The pods of the ALU service: the third word of their reports is not the rate.
CONSTANTS
  r1 = r1
  r2 = r2
  r3 = r3
  Req = {r1, r2, r3}
  Pod = {1, 2}
  Nil = Nil
  Rates <- MixedLengths
  ReportsRate = FALSE
  ReportsMayBeLost = FALSE
  MaxRestarts = 0
  Updates <- OneOrBoth
  MaxUpdates = 0
SPECIFICATION RoutingSpec
INVARIANT RatesumOutstanding
CHECK_DEADLOCK FALSE
