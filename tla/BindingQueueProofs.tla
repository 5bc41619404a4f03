-------------------------- MODULE BindingQueueProofs --------------------------
(***************************************************************************)
(* Machine-checked proofs about the early- and late-binding queue: its     *)
(* invariants hold for every set of requests and pods, every capacity and  *)
(* every length of the timers, and its behaviours are those of             *)
(* TaskLifecycle.                                                          *)
(***************************************************************************)
EXTENDS BindingQueue, TaskQueueProofs

USE DEF queueVars, unitVars, taskVars, Queued, Serving

------------------------------------------------------------------------------
(* The queue in its initial state and under each step. *)

\* A started activator is consistent.
LEMMA InitBinding == BindingInit => BindingConsistent
<1> SUFFICES ASSUME BindingInit PROVE BindingConsistent
  OBVIOUS
<1>1. QueueInv
  BY InitQueueInv DEF BindingInit
<1>2. BindingTypeOK
  BY <1>1, BindingAssumption DEF BindingInit, BindingTypeOK, QueueInv
<1>3. AwaitsTask /\ BoundHasPod /\ ScheduledOneByOne
  BY DEF BindingInit, Init, AwaitsTask, BoundHasPod, ScheduledOneByOne
<1>4. ContextHasChannel /\ ClosedWhenCalled /\ HookClosesOnce
  BY DEF BindingInit, Init, ContextHasChannel, ClosedWhenCalled, HookClosesOnce
<1>5. QED BY <1>1, <1>2, <1>3, <1>4 DEF BindingConsistent

\* Consistency is about the variables of the module only.
LEMMA BindingStutterKeeps == BindingConsistent /\ UNCHANGED allVars => BindingConsistent'
<1> SUFFICES ASSUME BindingConsistent, UNCHANGED allVars PROVE BindingConsistent'
  OBVIOUS
<1>1. QueueInv'
  BY StutterKeeps DEF BindingConsistent, allVars
<1>2. QED
  BY <1>1 DEF allVars, vars, bindVars, BindingConsistent, QueueInv, BindingTypeOK, AwaitsTask,
              BoundHasPod, ContextHasChannel, ClosedWhenCalled, HookClosesOnce,
              ScheduledOneByOne

\* What the steps that leave the policy alone have to show.
LEMMA PolicyUntouched ==
  ASSUME BindingConsistent, QueueInv', UNCHANGED bindVars,
         awaitTimer' \in 0 .. AwaitTimeout, overtaken' \subseteq Req
  PROVE  BindingTypeOK' /\ BoundHasPod'
  BY DEF BindingConsistent, BindingTypeOK, QueueInv, BoundHasPod, bindVars

\* What the steps that leave the channels alone have to show.
LEMMA ChannelsUntouched ==
  ASSUME BindingConsistent, UNCHANGED schedulingDone,
         panic' \in {panic, "close of closed channel"},
         \A q \in Req : handler'[q] # "idle" => handler[q] # "idle",
         \A q \in Req : try[q] \in {"called", "sent"} => try'[q] \in {"called", "sent"}
  PROVE  ContextHasChannel' /\ ClosedWhenCalled' /\ HookClosesOnce'
  BY DEF BindingConsistent, ContextHasChannel, ClosedWhenCalled, HookClosesOnce

\* A request that arrives gets its channel, whether it is queued or rejected.
LEMMA AddReq0Keeps ==
  ASSUME BindingConsistent, NEW r \in Req, AddReq0(r)
  PROVE  /\ BindingConsistent'
         /\ queue' = queue \/ Range(queue') = Range(queue) \cup {r}
         /\ UNCHANGED serve /\ \E x \in Rates : Arrive(r, x)
<1>1. PICK x \in Rates : AddReq0Rejects(r, x) \/ AddReq0Queues(r, x)
  BY DEF AddReq0
<1>2. /\ Arrive(r, x) /\ UNCHANGED <<serve, cursor>>
      /\ schedulingDone' = [schedulingDone EXCEPT ![r] = "open"]
      /\ UNCHANGED <<awaitTimer, bindVars, overtaken>>
  BY <1>1 DEF AddReq0, AddReq0Rejects, AddReq0Queues, Reject
<1>3. QueueInv /\ Len(queue) \in Nat /\ DOMAIN schedulingDone = Req /\ DOMAIN handler = Req
  BY LenProperties DEF BindingConsistent, QueueInv, TypeOK
<1>4. /\ schedulingDone' \in [Req -> {"nil", "open", "closed"}]
      /\ maxQueueActualLen' \in Nat
  BY <1>1, <1>2, <1>3 DEF QueueInv, TypeOK, AddReq0Rejects, AddReq0Queues
<1>6. QueueInv' /\ (queue' = queue \/ Range(queue') = Range(queue) \cup {r})
  <2>1. CASE AddReq0Rejects(r, x)
    <3>1. QueueInv'
      BY <1>2, <1>3, <1>4, <2>1, RejectKeeps DEF AddReq0Rejects
    <3>2. QED BY <2>1, <3>1 DEF AddReq0Rejects, Reject
  <2>2. CASE AddReq0Queues(r, x)
    <3>1. timer' \in [Req -> 0 .. MaxWait]
      BY <1>3, <2>2 DEF AddReq0Queues, QueueInv, TypeOK
    <3>2. QED BY <1>2, <1>3, <1>4, <2>2, <3>1, QueueKeeps DEF AddReq0Queues
  <2>3. QED BY <1>1, <2>1, <2>2
<1>7. BindingTypeOK' /\ BoundHasPod'
  BY <1>2, <1>6, PolicyUntouched DEF BindingConsistent, BindingTypeOK
<1>8. ContextHasChannel' /\ ClosedWhenCalled' /\ HookClosesOnce'
  BY <1>2, <1>3 DEF BindingConsistent, ContextHasChannel, ClosedWhenCalled, HookClosesOnce,
                    Arrive, bindVars
<1>9. ScheduledOneByOne' /\ AwaitsTask'
  <2>1. serve[r] = "none"
    BY <1>2 DEF Arrive, BindingConsistent, QueueInv, IdleUntouched
  <2>2. manager' = "await" <=> manager = "await"
    BY <1>1 DEF AddReq0Rejects, AddReq0Queues, Reject, Signal
  <2>3. QED
    BY <1>2, <1>3, <2>1, <2>2 DEF BindingConsistent, ScheduledOneByOne, AwaitsTask, bindVars
<1>10. QED BY <1>2, <1>6, <1>7, <1>8, <1>9 DEF BindingConsistent

\* Both managers serve the front; the late one then waits for that task alone.
LEMMA ServesFrontKeeps ==
  ASSUME BindingConsistent, ServesEarly \/ ServesLate
  PROVE  /\ BindingConsistent'
         /\ Head(queue) \in Req /\ Head(queue) \in Range(queue)
         /\ Range(queue') = Range(queue) \ {Head(queue)}
<1>1. QueueInv /\ ServeFront
  BY DEF BindingConsistent, ServesEarly, ServesLate
<1>2. queue \in Seq(Req) /\ queue # <<>> /\ cursor \in Req \cup {Nil} /\ manager = "top"
  BY <1>1 DEF QueueInv, TypeOK, ServeFront
<1>3. /\ 1 \in 1 .. Len(queue) /\ Head(queue) = queue[1] /\ Tail(queue) = RemoveAt(queue, 1)
      /\ queue[1] \in Req
  <2>1. /\ Len(queue) \in Nat \ {0} /\ Head(queue) = queue[1]
        /\ Tail(queue) = RemoveAt(queue, 1)
    BY <1>2, RemoveEnds
  <2>2. QED BY <1>2, <2>1, ElementOfSeq
<1>4. manager' \in {"top", "scan", "await"} /\ cursor' \in Req \cup {Nil}
  BY <1>2, <1>3 DEF ServesEarly, ServesLate
<1>5. /\ QueueInv' /\ Range(queue') = Range(queue) \ {queue[1]}
      /\ queue[1] \in Range(queue)
  BY <1>1, <1>3, <1>4, ServeKeeps DEF ServeFront
<1>6. UNCHANGED bindVars /\ overtaken' \subseteq Req /\ awaitTimer' \in 0 .. AwaitTimeout
  <2>1. AwaitTimeout \in 0 .. AwaitTimeout
    BY BindingAssumption
  <2>2. UNCHANGED bindVars /\ overtaken' = overtaken
    BY <1>1 DEF ServeFront
  <2>3. awaitTimer' = awaitTimer \/ awaitTimer' = AwaitTimeout
    BY DEF ServesEarly, ServesLate
  <2>4. QED BY <2>1, <2>2, <2>3 DEF BindingConsistent, BindingTypeOK
<1>7. BindingTypeOK' /\ BoundHasPod'
  BY <1>5, <1>6, PolicyUntouched
<1>8. ContextHasChannel' /\ ClosedWhenCalled' /\ HookClosesOnce'
  BY <1>1, ChannelsUntouched DEF ServeFront, bindVars
<1>9. ScheduledOneByOne' /\ AwaitsTask'
  <2>1. /\ \A q \in Req \ {queue[1]} : serve'[q] = serve[q]
        /\ UNCHANGED <<schedulingDone, overtaken, late>>
    BY <1>1, <1>3 DEF ServeFront, Spawn, QueueInv, TypeOK, bindVars
  <2>2. CASE ServesEarly
    BY <1>2, <2>1, <2>2 DEF ServesEarly, ScheduledOneByOne, AwaitsTask
  <2>3. CASE ServesLate
    BY <1>2, <1>3, <2>1, <2>3 DEF ServesLate, BindingConsistent, ScheduledOneByOne, AwaitsTask
  <2>4. QED BY <2>2, <2>3
<1>10. QED BY <1>3, <1>5, <1>7, <1>8, <1>9 DEF BindingConsistent

\* The late manager goes on when the channel of its task is closed or 20 s are over.
LEMMA AwaitKeeps ==
  ASSUME BindingConsistent, AwaitScheduled \/ AwaitTimesOut
  PROVE  BindingConsistent'
<1>1. /\ manager = "await" /\ manager' = "top"
      /\ UNCHANGED <<queue, cursor, maxQueueActualLen, unitVars, taskVars, done, panic>>
      /\ UNCHANGED <<awaitTimer, bindVars>>
  BY DEF AwaitScheduled, AwaitTimesOut
<1>2. QueueInv'
  BY <1>1 DEF BindingConsistent, QueueInv, TypeOK, NoLostWakeup, QueuedOnce, IdleUntouched,
              ClosedMeansOver, WaiterIsOwedClose, QueueBounded
<1>3. \/ schedulingDone[cursor] = "closed" /\ overtaken' = overtaken
      \/ overtaken' = overtaken \cup {cursor}
  BY DEF AwaitScheduled, AwaitTimesOut
<1>4. cursor \in Req
  BY <1>1 DEF BindingConsistent, AwaitsTask
<1>5. BindingTypeOK' /\ BoundHasPod'
  BY <1>1, <1>2, <1>3, <1>4, PolicyUntouched DEF BindingConsistent, BindingTypeOK
<1>6. ContextHasChannel' /\ ClosedWhenCalled' /\ HookClosesOnce' /\ AwaitsTask'
  BY <1>1, ChannelsUntouched DEF AwaitsTask, bindVars
<1>7. ScheduledOneByOne'
  BY <1>1, <1>3 DEF BindingConsistent, ScheduledOneByOne, bindVars
<1>8. QED BY <1>2, <1>5, <1>6, <1>7 DEF BindingConsistent

\* The policy binds a task to a pod of the tracker list; nothing of the queue moves.
LEMMA PolicyKeeps ==
  ASSUME BindingConsistent, NEW r \in Req,
         DrawsPods(r) \/ ChoosesPod(r) \/ SendsToPod(r) \/ PodReports(r)
  PROVE  BindingConsistent' /\ UNCHANGED vars
<1>1. UNCHANGED <<vars, late, awaitTimer, overtaken>>
  BY DEF DrawsPods, ChoosesPod, SendsToPod, PodReports
<1>2. QueueInv'
  BY <1>1, StutterKeeps DEF BindingConsistent
<1>3. /\ try \in [Req -> {"none", "spinning", "chosen", "called", "sent"}]
      /\ pick \in [Req -> SUBSET Pod] /\ dest \in [Req -> Pod \cup {Nil}]
      /\ recorded \subseteq {q \in Req : dest[q] # Nil}
  BY DEF BindingConsistent, BindingTypeOK
<1>4. BindingTypeOK' /\ BoundHasPod'
  <2>1. CASE DrawsPods(r)
    <3>1. PICK two \in TwoOf(Pod) : pick' = [pick EXCEPT ![r] = two]
      BY <2>1 DEF DrawsPods
    <3>2. two \in SUBSET Pod
      BY <3>1 DEF TwoOf
    <3>3. pick' \in [Req -> SUBSET Pod]
      BY <1>3, <3>1, <3>2
    <3>4. QED
      BY <1>1, <1>2, <1>3, <2>1, <3>3
      DEF DrawsPods, BindingConsistent, BindingTypeOK, QueueInv, BoundHasPod
  <2>2. CASE ChoosesPod(r)
    <3>1. PICK p \in pick[r] : dest' = [dest EXCEPT ![r] = p]
      BY <2>2 DEF ChoosesPod
    <3>2. p \in Pod /\ p # Nil
      BY <1>3, <3>1, BindingAssumption
    <3>3. /\ dest' \in [Req -> Pod \cup {Nil}] /\ dest'[r] # Nil
          /\ \A q \in Req : dest[q] # Nil => dest'[q] # Nil
      BY <1>3, <3>1, <3>2
    <3>4. QED
      BY <1>1, <1>2, <1>3, <2>2, <3>3
      DEF ChoosesPod, BindingConsistent, BindingTypeOK, QueueInv, BoundHasPod
  <2>3. CASE SendsToPod(r)
    <3>1. recorded' = recorded \cup {r} /\ dest[r] # Nil /\ dest' = dest
      BY <2>3 DEF SendsToPod, BindingConsistent, BoundHasPod
    <3>2. recorded' \subseteq {q \in Req : dest'[q] # Nil}
      BY <1>3, <3>1
    <3>3. QED
      BY <1>1, <1>2, <1>3, <2>3, <3>2
      DEF SendsToPod, BindingConsistent, BindingTypeOK, QueueInv, BoundHasPod
  <2>4. CASE PodReports(r)
    BY <1>1, <1>2, <1>3, <2>4
    DEF PodReports, BindingConsistent, BindingTypeOK, QueueInv, BoundHasPod
  <2>5. QED BY <2>1, <2>2, <2>3, <2>4
<1>5. ContextHasChannel' /\ ClosedWhenCalled' /\ HookClosesOnce'
  <2>1. \A q \in Req : try[q] \in {"called", "sent"} => try'[q] \in {"called", "sent"}
    BY <1>3 DEF DrawsPods, ChoosesPod, SendsToPod, PodReports
  <2>2. QED BY <1>1, <2>1, ChannelsUntouched DEF vars
<1>6. AwaitsTask' /\ ScheduledOneByOne'
  BY <1>1 DEF vars, BindingConsistent, AwaitsTask, ScheduledOneByOne
<1>7. QED BY <1>1, <1>2, <1>4, <1>5, <1>6 DEF BindingConsistent

\* The hook finds the channel that AddReq0 made, also after serveRequest gave up.
LEMMA CallsFunctionKeeps ==
  ASSUME BindingConsistent, NEW r \in Req, CallsFunction(r)
  PROVE  /\ BindingConsistent'
         /\ FunctionCalled(r) \/ UNCHANGED <<queue, handler, serve>>
<1>1. /\ try[r] = "chosen" /\ try' = [try EXCEPT ![r] = "called"]
      /\ UNCHANGED <<late, awaitTimer, pick, dest, recorded, overtaken>>
      /\ UNCHANGED <<queue, manager, cursor, handler>>
      /\ serve[r] \in {"running", "ended"}
  BY DEF CallsFunction, FunctionCalled
<1>2. schedulingDone \in [Req -> {"nil", "open", "closed"}] /\ serve \in [Req ->
        {"none", "spawned", "running", "proxying", "ended"}]
  BY DEF BindingConsistent, QueueInv, TypeOK
<1>3. schedulingDone[r] = "open"
  BY <1>1, <1>2 DEF BindingConsistent, QueueInv, IdleUntouched, ContextHasChannel, ClosedWhenCalled
<1>4. /\ schedulingDone' = [schedulingDone EXCEPT ![r] = "closed"]
      /\ UNCHANGED panic
      /\ \A q \in Req : serve[q] = "none" <=> serve'[q] = "none"
  <2>1. CASE FunctionCalled(r)
    BY <1>2, <1>3, <2>1, BindingAssumption DEF FunctionCalled, ClosesChannel
  <2>2. CASE ~FunctionCalled(r)
    BY <1>2, <1>3, <2>2 DEF CallsFunction, ClosesChannel
  <2>3. QED BY <2>1, <2>2
<1>5. QueueInv'
  <2>1. CASE FunctionCalled(r)
    BY <2>1, FunctionCalledKeeps DEF BindingConsistent
  <2>2. CASE ~FunctionCalled(r)
    <3>1. UNCHANGED <<queueVars, rate, timer, taskVars, done, panic>>
      BY <1>4, <2>2 DEF CallsFunction
    <3>2. schedulingDone' \in [Req -> {"nil", "open", "closed"}]
      BY <1>2, <1>4
    <3>3. QED
      BY <3>1, <3>2 DEF BindingConsistent, QueueInv, TypeOK, NoLostWakeup, QueuedOnce,
         IdleUntouched, ClosedMeansOver, WaiterIsOwedClose, QueueBounded
  <2>3. QED BY <2>1, <2>2
<1>6. BindingTypeOK' /\ BoundHasPod'
  BY <1>1, <1>5 DEF BindingConsistent, BindingTypeOK, QueueInv, BoundHasPod
<1>7. ContextHasChannel' /\ ClosedWhenCalled' /\ HookClosesOnce' /\ AwaitsTask'
  BY <1>1, <1>2, <1>4 DEF BindingConsistent, BindingTypeOK, ContextHasChannel,
                          ClosedWhenCalled, HookClosesOnce, AwaitsTask
<1>8. ScheduledOneByOne'
  BY <1>1, <1>2, <1>4 DEF BindingConsistent, ScheduledOneByOne
<1>9. FunctionCalled(r) \/ UNCHANGED <<queue, handler, serve>>
  BY DEF CallsFunction
<1>10. QED BY <1>5, <1>6, <1>7, <1>8, <1>9 DEF BindingConsistent

\* The goroutines of serveRequest and of the HandlerFunc, and the clock.
LEMMA BindingGoroutinesKeep ==
  ASSUME BindingConsistent, NEW r \in Req,
         \/ (ServeStarts(r) \/ HandlerFunc(r)) /\ UNCHANGED <<awaitTimer, bindVars, overtaken>>
         \/ ServeEnds(r)
  PROVE  BindingConsistent'
<1>1. /\ ServeStarts(r) \/ HandlerFunc(r) \/ ServeReturns(r) \/ ServeReturnsLate(r)
      /\ UNCHANGED <<awaitTimer, bindVars, overtaken>>
  BY DEF ServeEnds
<1>2. QueueInv'
  BY <1>1, ServeStartsKeeps, ServeReturnsKeeps, ServeReturnsLateKeeps, HandlerReceivesDoneKeeps,
     HandlerTimesOutKeeps DEF BindingConsistent, HandlerFunc
<1>3. BindingTypeOK' /\ BoundHasPod'
  BY <1>1, <1>2, PolicyUntouched DEF BindingConsistent, BindingTypeOK
<1>4. /\ serve \in [Req -> {"none", "spawned", "running", "proxying", "ended"}]
      /\ DOMAIN handler = Req
  BY DEF BindingConsistent, QueueInv, TypeOK
<1>5. /\ UNCHANGED <<manager, cursor, schedulingDone>>
      /\ panic' \in {panic, "close of closed channel"}
  BY <1>1, <1>4 DEF ServeStarts, ServeReturns, ServeReturnsLate, HandlerFunc,
                    HandlerReceivesDone, HandlerTimesOut
<1>6. \A q \in Req : serve'[q] # "none" => serve[q] # "none"
  BY <1>1, <1>4 DEF ServeStarts, ServeReturns, ServeReturnsLate, HandlerFunc,
                    HandlerReceivesDone, HandlerTimesOut
<1>7. \A q \in Req : handler'[q] # "idle" => handler[q] # "idle"
  BY <1>1, <1>4 DEF ServeStarts, ServeReturns, ServeReturnsLate, HandlerFunc,
                    HandlerReceivesDone, HandlerTimesOut
<1>8. ContextHasChannel' /\ ClosedWhenCalled' /\ HookClosesOnce' /\ AwaitsTask'
  BY <1>1, <1>5, <1>7, ChannelsUntouched DEF BindingConsistent, AwaitsTask, bindVars
<1>9. ScheduledOneByOne'
  BY <1>1, <1>5, <1>6 DEF BindingConsistent, ScheduledOneByOne, bindVars
<1>10. QED BY <1>2, <1>3, <1>8, <1>9 DEF BindingConsistent

\* queue.go:93: the clock, with the 20 s of the late manager, keeps it.
LEMMA BindingTickKeeps ==
  ASSUME BindingConsistent, BindingTick
  PROVE  BindingConsistent'
<1>1. QueueInv'
  BY ElapseKeeps DEF BindingConsistent, BindingTick
<1>2. awaitTimer' \in 0 .. AwaitTimeout
  BY BindingAssumption DEF BindingConsistent, BindingTypeOK, BindingTick, Countdown
<1>3. BindingTypeOK' /\ BoundHasPod'
  BY <1>1, <1>2, PolicyUntouched DEF BindingTick, BindingConsistent, BindingTypeOK
<1>4. ContextHasChannel' /\ ClosedWhenCalled' /\ HookClosesOnce'
  BY ChannelsUntouched DEF BindingTick, Elapse, bindVars
<1>5. AwaitsTask' /\ ScheduledOneByOne'
  BY DEF BindingTick, Elapse, BindingConsistent, AwaitsTask, ScheduledOneByOne, bindVars
<1>6. QED BY <1>1, <1>3, <1>4, <1>5 DEF BindingConsistent

\* queue.go:82: so does the manager that waits on an empty queue.
LEMMA BindingManagerWaitsKeeps ==
  ASSUME BindingConsistent, ManagerWaits, UNCHANGED <<awaitTimer, bindVars, overtaken>>
  PROVE  BindingConsistent'
<1>1. QueueInv'
  BY ManagerWaitsKeeps DEF BindingConsistent
<1>2. BindingTypeOK' /\ BoundHasPod'
  BY <1>1, PolicyUntouched DEF BindingConsistent, BindingTypeOK
<1>3. ContextHasChannel' /\ ClosedWhenCalled' /\ HookClosesOnce'
  BY ChannelsUntouched DEF ManagerWaits, bindVars
<1>4. AwaitsTask' /\ ScheduledOneByOne'
  BY DEF ManagerWaits, BindingConsistent, AwaitsTask, ScheduledOneByOne, bindVars
<1>5. QED BY <1>1, <1>2, <1>3, <1>4 DEF BindingConsistent

------------------------------------------------------------------------------
(* The invariants. *)

\* Every step of the binding queues keeps it.
LEMMA BindingStepConsistent == BindingConsistent /\ [BindingNext]_allVars => BindingConsistent'
<1> SUFFICES ASSUME BindingConsistent, [BindingNext]_allVars PROVE BindingConsistent'
  OBVIOUS
<1>1. ASSUME NEW r \in Req, AddReq0(r) PROVE BindingConsistent'
  BY <1>1, AddReq0Keeps
<1>2. CASE ManageBinding
  BY <1>2, ServesFrontKeeps, AwaitKeeps, BindingManagerWaitsKeeps DEF ManageBinding
<1>3. ASSUME NEW r \in Req, ServeBinding(r) PROVE BindingConsistent'
  BY <1>3, PolicyKeeps, CallsFunctionKeeps, BindingGoroutinesKeep DEF ServeBinding
<1>4. ASSUME NEW r \in Req, HandlerFunc(r) /\ UNCHANGED <<awaitTimer, bindVars, overtaken>>
      PROVE  BindingConsistent'
  BY <1>4, BindingGoroutinesKeep
<1>5. CASE BindingTick \/ UNCHANGED allVars
  BY <1>5, BindingTickKeeps, BindingStutterKeeps
<1>6. QED BY <1>1, <1>2, <1>3, <1>4, <1>5 DEF BindingNext

\* The invariant of the early- and late-binding queue, with what makes it inductive.
THEOREM BindingAlwaysConsistent == BindingSpec => []BindingConsistent
<1>1. QED BY InitBinding, BindingStepConsistent, PTL DEF BindingSpec

\* queue.go:48-112, lb_policy.go:160-201: the variables keep their types; in particular
\* every task that a pod's record counts has a pod.
THEOREM BindingTypeCorrect == BindingSpec => []BindingTypeOK
<1>1. BindingConsistent => BindingTypeOK
  BY DEF BindingConsistent
<1>2. QED BY <1>1, BindingAlwaysConsistent, PTL

\* queue.go:79: under late binding a task is between the queue and a pod only while the
\* manager waits for it, or after its 20 s.
THEOREM LateSchedulesOneByOne == BindingSpec => []ScheduledOneByOne
<1>1. BindingConsistent => ScheduledOneByOne
  BY DEF BindingConsistent
<1>2. QED BY <1>1, BindingAlwaysConsistent, PTL

\* handler.go:126: the late-binding hook finds an open channel whenever it runs, never none
\* and never one that it has closed before.
THEOREM HookFindsChannel == BindingSpec => []HookClosesOnce
<1>1. BindingConsistent => HookClosesOnce
  BY DEF BindingConsistent
<1>2. QED BY <1>1, BindingAlwaysConsistent, PTL

------------------------------------------------------------------------------
(* The refinement. *)

\* handler.go:281 and queue.go:48-112: to its clients the queue of early and late
\* binding serves a task at most once and answers only what is over.
THEOREM BindingImplementsLifecycle == BindingSpec => ImplementsLifecycle
<1>1. ASSUME BindingConsistent, BindingConsistent', [BindingNext]_allVars
      PROVE  [Lifecycle!Next]_(Lifecycle!vars)
  <2>0. QueueInv /\ QueueInv' /\ queue \in Seq(Req)
    BY <1>1 DEF BindingConsistent, QueueInv, TypeOK
  <2>1. ASSUME NEW r \in Req, AddReq0(r) PROVE Lifecycle!Next
    <3>1. /\ queue' = queue \/ Range(queue') = Range(queue) \cup {r}
          /\ UNCHANGED serve /\ \E x \in Rates : Arrive(r, x)
      BY <1>1, <2>1, AddReq0Keeps
    <3>2. PICK x \in Rates : Arrive(r, x)
      BY <3>1
    <3>3. serve[r] = "none"
      BY <2>0, <3>2 DEF Arrive, QueueInv, IdleUntouched
    <3>4. /\ \A q \in Req \ {r} : serve'[q] = serve[q] /\ (q \in Range(queue') <=> q \in Range(queue))
          /\ serve'[r] \in {"none", "spawned"}
      BY <3>1, <3>3
    <3>5. Lifecycle!Submit(r)
      BY <2>0, <3>2, <3>4, Submits
    <3>6. QED BY <3>5 DEF Lifecycle!Next
  <2>2. CASE ServesEarly \/ ServesLate
    <3>1. /\ Head(queue) \in Req /\ Head(queue) \in Range(queue)
          /\ Range(queue') = Range(queue) \ {Head(queue)}
      BY <1>1, <2>2, ServesFrontKeeps
    <3>2. PICK c \in Req : c = Head(queue)
      BY <3>1
    <3>3. c \in Range(queue) /\ Range(queue') = Range(queue) \ {c} /\ Spawn(c) /\ UNCHANGED handler
      BY <2>2, <3>1, <3>2 DEF ServesEarly, ServesLate, ServeFront
    <3>4. Lifecycle!Dispatch(c)
      BY <2>0, <3>3, Dispatches
    <3>5. QED BY <3>4 DEF Lifecycle!Next
  <2>3. CASE UNCHANGED <<queue, handler, serve>>
    BY <2>0, <2>3, Invisible
  <2>4. ASSUME NEW r \in Req, ServeRequest(r) PROVE [Lifecycle!Next]_(Lifecycle!vars)
    BY <2>0, <2>4, ServeFinishes DEF Lifecycle!Next
  <2>5. ASSUME NEW r \in Req, HandlerFunc(r) PROVE Lifecycle!Next
    BY <2>0, <2>5, HandlerAnswers DEF Lifecycle!Next
  <2>6. ASSUME NEW r \in Req, ServeBinding(r)
        PROVE  ServeRequest(r) \/ UNCHANGED <<queue, handler, serve>>
    BY <1>1, <2>6, PolicyKeeps, CallsFunctionKeeps
    DEF ServeBinding, ServeEnds, ServeRequest, vars
  <2>7. AwaitScheduled \/ AwaitTimesOut \/ ManagerWaits \/ BindingTick \/ UNCHANGED allVars
        => UNCHANGED <<queue, handler, serve>>
    BY DEF AwaitScheduled, AwaitTimesOut, ManagerWaits, BindingTick, Elapse, allVars, vars
  <2>8. QED
    BY <1>1, <2>1, <2>2, <2>3, <2>4, <2>5, <2>6, <2>7 DEF BindingNext, ManageBinding
<1>2. BindingInit => Init
  BY DEF BindingInit
<1>3. QED
  BY <1>1, <1>2, InitLifecycle, BindingAlwaysConsistent, PTL
  DEF BindingSpec, ImplementsLifecycle, Lifecycle!Spec

==============================================================================
