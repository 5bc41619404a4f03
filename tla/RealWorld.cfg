\* The deadlines of the real-world service (320 > 4 + 300 s), fair scheduling, SIGTERM at any time.
CONSTANTS
  r1 = r1
  r2 = r2
  r3 = r3
  s1 = s1
  s2 = s2
  Req = {r1, r2, r3}
  Nil = Nil
  NoRate = NoRate
  Rates <- OneShortOneLong
  MaxQueueize = 1
  MaxWait = 1
  ServeTimeout = 1
  HandlerTimeout = 3
  ClosesSchedulingDone = FALSE
  Prompt = TRUE
  Sequence = {s1, s2}
  TaskOf <- TwoTasksAndOne
  ChainLens <- OneOrTwo
  Invokes <- AlwaysOne
  CVs <- AlwaysZero
  Scale = 3
  MayMiss = {"chainlenCDF", "invokesCDF"}
  MaxPause = 1
SPECIFICATION RealWorldFairSpec
INVARIANTS NoDoubleClose ContextOutlivesTask TasksInOrder ExitLosesNoTask
PROPERTIES QueuedIsServed SequenceReturns DrainEnds
CHECK_DEADLOCK FALSE
