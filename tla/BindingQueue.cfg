\* Early and late binding under fair scheduling; no pod need ever answer.
CONSTANTS
  r1 = r1
  r2 = r2
  p1 = p1
  p2 = p2
  Req = {r1, r2}
  Pod = {p1, p2}
  Nil = Nil
  NoRate = NoRate
  Rates <- OneLength
  MaxQueueize = 1
  MaxWait = 1
  ServeTimeout = 1
  HandlerTimeout = 1
  AwaitTimeout = 1
  ClosesSchedulingDone = TRUE
  Prompt = FALSE
SPECIFICATION BindingFairSpec
INVARIANTS BindingTypeOK ScheduledOneByOne HookClosesOnce
PROPERTIES ImplementsLifecycle QueuedIsTaken
CHECK_DEADLOCK FALSE
