\* Requests and scaling events in any order, under fair scheduling.
CONSTANTS
  r1 = r1
  r2 = r2
  r3 = r3
  Req = {r1, r2, r3}
  MaxUpdates = 5
SPECIFICATION FairSpec
INVARIANTS TypeOK BroadcastClosedOnce WaitsOnTheBroadcast
PROPERTY WaitersAreReleased
CHECK_DEADLOCK FALSE
