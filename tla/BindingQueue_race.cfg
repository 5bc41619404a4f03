\* Two tasks bound one after the other.
CONSTANTS
  r1 = r1
  r2 = r2
  p1 = p1
  p2 = p2
  Req = {r1, r2}
  Pod = {p1, p2}
  Nil = Nil
  NoRate = NoRate
  Rates <- OneLength
  MaxQueueize = 2
  MaxWait = 1
  ServeTimeout = 2
  HandlerTimeout = 5
  AwaitTimeout = 1
  ClosesSchedulingDone = TRUE
  Prompt = TRUE
SPECIFICATION BindingSpec
INVARIANT LateBindsToIdle
CHECK_DEADLOCK FALSE
