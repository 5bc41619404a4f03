\* The ALU service: HandlerTimeout < ServeTimeout (120 < 300 s, a tick is a minute).
CONSTANTS
  r1 = r1
  r2 = r2
  r3 = r3
  Req = {r1, r2}
  Nil = Nil
  NoRate = NoRate
  Rates <- OneShortOneLong
  MaxQueueize = 2
  MaxWait = 1
  ServeTimeout = 5
  HandlerTimeout = 2
  ClosesSchedulingDone = FALSE
  Prompt = TRUE
SPECIFICATION Spec
INVARIANT NoDoubleClose
CHECK_DEADLOCK FALSE
