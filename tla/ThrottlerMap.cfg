\* A revision deleted and created again twice.
CONSTANTS
  g1 = g1
  g2 = g2
  g3 = g3
  Getter = {g1, g2, g3}
  MaxIncarnations = 3
  MaxThrottlers = 6
SPECIFICATION Spec
INVARIANTS NoDeadThrottler OneThrottler BacklogIsReady
CHECK_DEADLOCK FALSE
