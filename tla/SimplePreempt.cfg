\* Experiments 1 and 2: the experiment is chosen initially.
CONSTANTS
  r1 = r1
  r2 = r2
  r3 = r3
  r4 = r4
  Req = {r1, r2, r3, r4}
  Nil = Nil
  NoRate = NoRate
  Rates <- TwoLengths
  MaxQueueize = 3
  MaxWait = 1
  ServeTimeout = 1
  HandlerTimeout = 1
  ClosesSchedulingDone = FALSE
  Prompt = TRUE
SPECIFICATION SimpleSpec
INVARIANT FrontIsShortest
SYMMETRY Symmetry
CHECK_DEADLOCK FALSE
