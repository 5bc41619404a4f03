\* Any scheduling: a goroutine may be late by any amount.
CONSTANTS
  r1 = r1
  r2 = r2
  r3 = r3
  Req = {r1, r2, r3}
  Nil = Nil
  NoRate = NoRate
  Rates <- OneShortOneLong
  MaxQueueize = 2
  MaxWait = 1
  ServeTimeout = 1
  HandlerTimeout = 2
  ClosesSchedulingDone = FALSE
  Prompt = FALSE
SPECIFICATION Spec
INVARIANTS TypeOK NoLostWakeup CursorInQueue QueuedOnce WaiterIsOwedClose
PROPERTY ImplementsLifecycle
CHECK_DEADLOCK FALSE
