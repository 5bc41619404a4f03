------------------------ MODULE PreemptiveQueueProofs ------------------------
(***************************************************************************)
(* Machine-checked proofs about the preemption experiments, for every set  *)
(* of requests, every queue capacity and all timeouts: PreemptiveQueue,    *)
(* which is experiments 3 and 4, and SimplePreempt, experiments 1 and 2.   *)
(***************************************************************************)
EXTENDS SimplePreempt, TaskQueueProofs

------------------------------------------------------------------------------
(* The inductive invariant Consistent. *)

USE DEF queueVars, unitVars, taskVars, Queued, Serving

\* The list element the manager holds, and its predecessor.
LEMMA CursorPosition ==
  ASSUME TypeOK, QueuedOnce, cursor \in Range(queue)
  PROVE  /\ Position(cursor) \in 1 .. Len(queue)
         /\ queue[Position(cursor)] = cursor
         /\ Range(queue) \subseteq Req
         /\ Prev(cursor) # Nil => Prev(cursor) \in Range(queue) \ {cursor}
<1>1. /\ queue \in Seq(Req)
      /\ \A i \in 1 .. Len(queue) : queue[i] \in Req
      /\ DOMAIN queue = 1 .. Len(queue) /\ Len(queue) \in Nat
  BY LenProperties, ElementOfSeq DEF TypeOK
<1>2. \E i \in 1 .. Len(queue) : queue[i] = cursor
  BY <1>1 DEF Range
<1>3. /\ Position(cursor) \in 1 .. Len(queue)
      /\ queue[Position(cursor)] = cursor
  BY <1>2 DEF Position
<1>4. ASSUME Prev(cursor) # Nil
      PROVE  Prev(cursor) \in Range(queue) \ {cursor}
  <2> DEFINE p == Position(cursor)
  <2>1. p - 1 \in 1 .. Len(queue) /\ Prev(cursor) = queue[p - 1]
    BY <1>1, <1>3, <1>4 DEF Prev
  <2>2. queue[p - 1] # queue[p]
    BY <1>1, <1>3, <2>1 DEF QueuedOnce, IsInjective
  <2>3. QED BY <1>1, <1>3, <2>1, <2>2 DEF Range
<1>5. Range(queue) \subseteq Req
  BY <1>1 DEF Range
<1>6. QED BY <1>3, <1>4, <1>5

\* The empty system satisfies it.
LEMMA InitConsistent == Init => Consistent
<1>1. Init => CursorInQueue /\ NoHookChannel
  BY DEF Init, CursorInQueue, NoHookChannel
<1>2. QED BY <1>1, InitQueueInv DEF Consistent

\* The goroutines of a task and of its HandlerFunc keep it.
LEMMA GoroutinesKeep ==
  ASSUME Consistent, NEW r \in Req, ServeRequest(r) \/ HandlerFunc(r)
  PROVE  Consistent'
<1>1. QueueInv'
  BY ServeStartsKeeps, FunctionCalledKeeps, ServeReturnsKeeps, ServeReturnsLateKeeps,
     HandlerReceivesDoneKeeps, HandlerTimesOutKeeps DEF Consistent, ServeRequest, HandlerFunc
<1>2. CursorInQueue'
  BY DEF Consistent, CursorInQueue, ServeRequest, ServeStarts, FunctionCalled, ServeReturns,
         ServeReturnsLate, HandlerFunc, HandlerReceivesDone, HandlerTimesOut
<1>3. NoHookChannel'
  <2>1. CASE FunctionCalled(r)
    BY <2>1 DEF Consistent, QueueInv, TypeOK, NoHookChannel, FunctionCalled, ClosesChannel
  <2>2. CASE UNCHANGED schedulingDone
    BY <2>2 DEF Consistent, NoHookChannel
  <2>3. QED
    BY <2>1, <2>2 DEF ServeRequest, ServeStarts, ServeReturns, ServeReturnsLate, HandlerFunc,
                      HandlerReceivesDone, HandlerTimesOut
<1>4. QED BY <1>1, <1>2, <1>3 DEF Consistent

\* The pass moves over an element whose timer runs.
LEMMA PassSkipsKeeps ==
  ASSUME Consistent, PassSkips
  PROVE  Consistent'
<1>1. /\ Range(queue) \subseteq Req
      /\ Prev(cursor) # Nil => Prev(cursor) \in Range(queue)
  BY CursorPosition DEF Consistent, QueueInv, CursorInQueue, PassSkips
<1>2. TypeOK'
  BY <1>1 DEF Consistent, QueueInv, TypeOK, PassSkips, Advance
<1>3. NoLostWakeup' /\ CursorInQueue' /\ NoHookChannel'
  BY <1>1 DEF Consistent, NoLostWakeup, CursorInQueue, NoHookChannel, PassSkips, Advance
<1>4. /\ QueuedOnce' /\ IdleUntouched' /\ ClosedMeansOver' /\ WaiterIsOwedClose'
      /\ QueueBounded'
  BY DEF Consistent, QueueInv, QueuedOnce, IdleUntouched, ClosedMeansOver, WaiterIsOwedClose,
         QueueBounded, PassSkips
<1>5. QED BY <1>2, <1>3, <1>4 DEF Consistent, QueueInv

\* A pass begins at the back of the queue.
LEMMA PassBeginsKeeps ==
  ASSUME Consistent, PassBegins
  PROVE  Consistent'
<1>1. Last(queue) = queue[Len(queue)] /\ Len(queue) \in Nat \ {0}
  BY RemoveEnds DEF Consistent, QueueInv, TypeOK, PassBegins
<1>2. Last(queue) \in Range(queue) /\ Last(queue) \in Req
  <2>1. queue \in Seq(Req) /\ DOMAIN queue = 1 .. Len(queue)
    BY LenProperties DEF Consistent, QueueInv, TypeOK
  <2>2. queue[Len(queue)] \in Req /\ queue[Len(queue)] \in Range(queue)
    BY <1>1, <2>1, ElementOfSeq DEF Range
  <2>3. QED BY <1>1, <2>2
<1>3. TypeOK'
  BY <1>2 DEF Consistent, QueueInv, TypeOK, PassBegins
<1>4. NoLostWakeup' /\ CursorInQueue' /\ NoHookChannel'
  BY <1>2 DEF Consistent, NoLostWakeup, CursorInQueue, NoHookChannel, PassBegins
<1>5. /\ QueuedOnce' /\ IdleUntouched' /\ ClosedMeansOver' /\ WaiterIsOwedClose'
      /\ QueueBounded'
  BY DEF Consistent, QueueInv, QueuedOnce, IdleUntouched, ClosedMeansOver, WaiterIsOwedClose,
         QueueBounded, PassBegins
<1>6. QED BY <1>3, <1>4, <1>5 DEF Consistent, QueueInv

\* The pass removes an element whose timer has fired and starts its goroutine.
LEMMA PassServesKeeps ==
  ASSUME Consistent, PassServes
  PROVE  /\ Consistent'
         /\ cursor \in Req /\ cursor \in Range(queue)
         /\ Range(queue') = Range(queue) \ {cursor}
<1>1. /\ Position(cursor) \in 1 .. Len(queue)
      /\ queue[Position(cursor)] = cursor
      /\ Range(queue) \subseteq Req
      /\ Prev(cursor) # Nil => Prev(cursor) \in Range(queue) \ {cursor}
  BY CursorPosition DEF Consistent, QueueInv, CursorInQueue, PassServes
<1>2. /\ QueueInv' /\ cursor \in Req /\ cursor \in Range(queue)
      /\ Range(queue') = Range(queue) \ {cursor}
  <2>1. /\ queue' = RemoveAt(queue, Position(cursor)) /\ Spawn(queue[Position(cursor)])
        /\ manager' \in {"top", "scan", "await"}
        /\ UNCHANGED <<maxQueueActualLen, unitVars, handler, handlerTimer, serveTimer, done, panic>>
    BY <1>1 DEF PassServes, Advance
  <2>2. cursor' \in Req \cup {Nil}
    BY <1>1 DEF PassServes, Advance
  <2>3. QED BY <1>1, <2>1, <2>2, ServeKeeps DEF Consistent
<1>3. CursorInQueue' /\ NoHookChannel'
  BY <1>1, <1>2 DEF Consistent, CursorInQueue, NoHookChannel, PassServes, Advance
<1>4. QED BY <1>2, <1>3 DEF Consistent

\* Every step of the manager keeps it.
LEMMA ManageQueueKeeps ==
  ASSUME Consistent, ManageQueue
  PROVE  Consistent'
<1>1. CASE ManagerWaits
  BY <1>1, ManagerWaitsKeeps DEF Consistent, CursorInQueue, NoHookChannel, ManagerWaits
<1>2. QED BY <1>1, PassBeginsKeeps, PassServesKeeps, PassSkipsKeeps DEF ManageQueue

\* Time changes nothing but the timers.
LEMMA ClockKeeps ==
  ASSUME Consistent, Elapse
  PROVE  Consistent'
BY ElapseKeeps DEF Consistent, CursorInQueue, NoHookChannel, Elapse

\* Every step of AddReq keeps it.
LEMMA AddReqKeeps ==
  ASSUME Consistent, NEW r \in Req, AddReq(r)
  PROVE  Consistent'
<1>1. PICK x \in Rates : AddReqRejects(r, x) \/ AddReqPreempts(r, x) \/ AddReqQueues(r, x)
  BY DEF AddReq
<1>2. maxQueueActualLen' \in Nat
  <2>1. Len(queue) \in Nat /\ maxQueueActualLen \in Nat
    BY LenProperties DEF Consistent, QueueInv, TypeOK
  <2>2. QED BY <1>1, <2>1 DEF AddReqRejects, AddReqPreempts, AddReqQueues, RecordLength
<1>3. schedulingDone' = schedulingDone /\ schedulingDone \in [Req -> {"nil", "open", "closed"}]
  BY <1>1 DEF AddReqRejects, AddReqPreempts, AddReqQueues, Consistent, QueueInv, TypeOK
<1>4. CASE AddReqRejects(r, x)
  <2>1. QueueInv'
    BY <1>2, <1>3, <1>4, RejectKeeps DEF AddReqRejects, Consistent
  <2>2. QED
    BY <1>3, <1>4, <2>1 DEF AddReqRejects, Reject, Consistent, CursorInQueue, NoHookChannel
<1>5. CASE AddReqPreempts(r, x)
  <2>1. QueueInv'
    BY <1>2, <1>5, PreemptKeeps DEF AddReqPreempts, Consistent
  <2>2. QED
    BY <1>3, <1>5, <2>1 DEF AddReqPreempts, Consistent, CursorInQueue, NoHookChannel
<1>6. CASE AddReqQueues(r, x)
  <2>1. timer' \in [Req -> 0 .. MaxWait]
    <3>1. PICK w \in 1 .. MaxWait : timer' = [timer EXCEPT ![r] = w]
      BY <1>6 DEF AddReqQueues
    <3>2. timer \in [Req -> 0 .. MaxWait]
      BY DEF Consistent, QueueInv, TypeOK
    <3>3. w \in 0 .. MaxWait
      BY ConstantsAssumption
    <3>4. QED BY <3>1, <3>2, <3>3
  <2>2. QueueInv' /\ Range(queue') = Range(queue) \cup {r}
    BY <1>2, <1>3, <1>6, <2>1, QueueKeeps DEF AddReqQueues, Consistent
  <2>3. QED
    BY <1>3, <1>6, <2>2 DEF AddReqQueues, Signal, Consistent, CursorInQueue, NoHookChannel
<1>7. QED BY <1>1, <1>4, <1>5, <1>6

\* Every step of the queue, its manager, its goroutines and the clock keeps it.
LEMMA StepConsistent == Consistent /\ [Next]_vars => Consistent'
<1> SUFFICES ASSUME Consistent, [Next]_vars PROVE Consistent'
  OBVIOUS
<1>1. ASSUME NEW r \in Req, AddReq(r) \/ ServeRequest(r) \/ HandlerFunc(r) PROVE Consistent'
  BY <1>1, AddReqKeeps, GoroutinesKeep
<1>2. CASE ManageQueue \/ Tick
  BY <1>2, ManageQueueKeeps, ClockKeeps DEF Tick
<1>3. CASE UNCHANGED vars
  BY <1>3, StutterKeeps DEF vars, Consistent, CursorInQueue, NoHookChannel
<1>4. QED BY <1>1, <1>2, <1>3 DEF Next

------------------------------------------------------------------------------
(* The theorems *)

\* Every state of every execution is Consistent.
THEOREM ConsistentAlways == Spec => []Consistent
<1>1. QED BY InitConsistent, StepConsistent, PTL DEF Spec

\* queue.go: the variables keep their types.
THEOREM TypeCorrect == Spec => []TypeOK
<1>1. Consistent => TypeOK
  BY DEF Consistent, QueueInv
<1>2. QED BY <1>1, ConsistentAlways, PTL

\* queue.go:193: the manager sleeps only on an empty queue, whatever the order of
\* Wait, Signal and unlock.
THEOREM WakeupsNeverLost == Spec => []NoLostWakeup
<1>1. Consistent => NoLostWakeup
  BY DEF Consistent, QueueInv
<1>2. QED BY <1>1, ConsistentAlways, PTL

\* queue.go:199-209: the element the manager kept across the unlock is never stale.
THEOREM CursorNeverStale == Spec => []CursorInQueue
<1>1. Consistent => CursorInQueue
  BY DEF Consistent, QueueInv
<1>2. QED BY <1>1, ConsistentAlways, PTL

\* queue.go: no task is queued twice, or queued while it is served or was served.
THEOREM QueuedAtMostOnce == Spec => []QueuedOnce
<1>1. Consistent => QueuedOnce
  BY DEF Consistent, QueueInv
<1>2. QED BY <1>1, ConsistentAlways, PTL

\* handler.go:281: no HandlerFunc waits for a close that nobody owes it.
THEOREM WaitersAreOwedClose == Spec => []WaiterIsOwedClose
<1>1. Consistent => WaiterIsOwedClose
  BY DEF Consistent, QueueInv
<1>2. QED BY <1>1, ConsistentAlways, PTL

\* queue.go:159: the check under the mutex bounds the queue.
THEOREM QueueNeverOverflows == Spec => []QueueBounded
<1>1. Consistent => QueueBounded
  BY DEF Consistent, QueueInv
<1>2. QED BY <1>1, ConsistentAlways, PTL

------------------------------------------------------------------------------
(* The timeouts of the real-world service: the HandlerFunc's 320 s exceed the  *)
(* longest wait in the queue plus serveRequest's 300 s.                        *)

\* A timer is a number of ticks.
LEMMA TimerType ==
  ASSUME TypeOK, NEW r \in Req
  PROVE  timer[r] \in Nat /\ handlerTimer[r] \in Nat /\ serveTimer[r] \in Nat
<1>1. timer[r] \in 0 .. MaxWait /\ handlerTimer[r] \in 0 .. HandlerTimeout /\ serveTimer[r] \in 0 .. ServeTimeout
  BY DEF TypeOK
<1>2. QED BY <1>1

\* The empty system has no timer that could be late.
LEMMA InitDeadlines == Init => Deadlines
<1> SUFFICES ASSUME Init PROVE Deadlines
  OBVIOUS
<1>1. Range(queue) = {}
  BY LenProperties DEF Init, Range
<1>2. QED BY <1>1 DEF Init, Deadlines

\* An arrival starts with the full timeout, longer than what its task may need.
LEMMA AddReqDeadlines ==
  ASSUME RealWorldDeadlines, Consistent, Deadlines, NEW r \in Req, AddReq(r)
  PROVE  Deadlines'
<1> USE DEF Arrive
<1>1. r \notin Range(queue) /\ serve[r] = "none" /\ done[r] = "open"
  BY DEF AddReq, AddReqRejects, AddReqPreempts, AddReqQueues, Consistent, QueueInv, IdleUntouched
<1>2. PICK x \in Rates : AddReqRejects(r, x) \/ AddReqPreempts(r, x) \/ AddReqQueues(r, x)
  BY DEF AddReq
<1>3. CASE AddReqRejects(r, x)
  BY <1>1, <1>3, ConstantsAssumption DEF Consistent, QueueInv, TypeOK, Deadlines, AddReqRejects, Reject
<1>4. CASE AddReqPreempts(r, x)
  <2>1. HandlerTimeout > ServeTimeout
    BY ConstantsAssumption DEF RealWorldDeadlines
  <2>2. QED BY <1>1, <1>4, <2>1 DEF Consistent, QueueInv, TypeOK, Deadlines, AddReqPreempts, Spawn
<1>5. CASE AddReqQueues(r, x)
  <2>1. Range(queue') = Range(queue) \cup {r}
    BY <1>5, PushBack DEF AddReqQueues, Consistent, QueueInv, TypeOK
  <2>2. HandlerTimeout > timer'[r] + ServeTimeout
    BY <1>5, ConstantsAssumption DEF AddReqQueues, Consistent, QueueInv, TypeOK, RealWorldDeadlines
  <2>3. \A q \in Req \ {r} : timer'[q] = timer[q] /\ handlerTimer'[q] = handlerTimer[q]
    BY <1>5 DEF AddReqQueues, Consistent, QueueInv, TypeOK
  <2>4. QED
    BY <1>1, <1>5, <2>1, <2>2, <2>3 DEF Consistent, QueueInv, TypeOK, Deadlines, AddReqQueues
<1>6. QED BY <1>2, <1>3, <1>4, <1>5

\* The manager starts a task with what is left of its HandlerFunc's timeout.
LEMMA PassServesDeadlines ==
  ASSUME Consistent, Deadlines, PassServes
  PROVE  Deadlines'
<1>1. /\ Position(cursor) \in 1 .. Len(queue)
      /\ queue[Position(cursor)] = cursor
      /\ cursor \in Range(queue) /\ Range(queue) \subseteq Req
  BY CursorPosition DEF Consistent, QueueInv, CursorInQueue, PassServes
<1>2. Range(queue') = Range(queue) \ {cursor}
  BY <1>1, RemoveFromInjective DEF Consistent, QueueInv, TypeOK, QueuedOnce, PassServes
<1>3. handler[cursor] = "select" /\ done[cursor] = "open" /\ handlerTimer[cursor] > ServeTimeout
  BY <1>1, ConstantsAssumption DEF Deadlines, PassServes
<1>4. QED
  BY <1>1, <1>2, <1>3 DEF Consistent, QueueInv, TypeOK, Deadlines, PassServes, Spawn

\* serveRequest answers while its timer runs, so the HandlerFunc's still does.
LEMMA ServeDeadlines ==
  ASSUME Consistent, Deadlines, NEW r \in Req, ServeRequest(r)
  PROVE  Deadlines'
<1>1. CASE ServeStarts(r)
  BY <1>1, ConstantsAssumption DEF Consistent, QueueInv, TypeOK, Deadlines, ServeStarts
<1>2. CASE FunctionCalled(r)
  BY <1>2 DEF Consistent, QueueInv, TypeOK, Deadlines, FunctionCalled, ClosesChannel
<1>3. CASE ServeReturns(r)
  <2>1. handlerTimer[r] > 0 /\ r \notin Range(queue)
    <3>1. handlerTimer[r] > serveTimer[r] /\ serveTimer[r] > 0
      BY <1>3 DEF Deadlines, ServeReturns
    <3>2. r \notin Range(queue)
      BY <1>3 DEF Consistent, QueueInv, QueuedOnce, ServeReturns
    <3>3. QED BY <3>1, <3>2, TimerType DEF Consistent, QueueInv
  <2>2. QED BY <1>3, <2>1 DEF Consistent, QueueInv, TypeOK, Deadlines, ServeReturns
<1>4. CASE ServeReturnsLate(r)
  BY <1>4 DEF Consistent, QueueInv, TypeOK, Deadlines, ServeReturnsLate
<1>5. QED BY <1>1, <1>2, <1>3, <1>4 DEF ServeRequest

\* A HandlerFunc leaves its select only when nobody will close its channel.
LEMMA HandlerDeadlines ==
  ASSUME Consistent, Deadlines, NEW r \in Req, HandlerFunc(r)
  PROVE  Deadlines'
<1>1. CASE HandlerReceivesDone(r)
  BY <1>1 DEF Consistent, QueueInv, TypeOK, Deadlines, HandlerReceivesDone
<1>2. CASE HandlerTimesOut(r)
  <2>1. /\ r \notin Range(queue) /\ serve[r] # "spawned"
        /\ ~(serve[r] \in {"running", "proxying"} /\ serveTimer[r] > 0)
    BY <1>2, ConstantsAssumption DEF Consistent, QueueInv, TypeOK, Deadlines, HandlerTimesOut
  <2>2. QED BY <1>2, <2>1 DEF Consistent, QueueInv, TypeOK, Deadlines, HandlerTimesOut
<1>3. QED BY <1>1, <1>2 DEF HandlerFunc

\* A tick advances all the timers of a task together.
LEMMA TickDeadlines ==
  ASSUME RealWorldDeadlines, Consistent, Deadlines, Tick
  PROVE  Deadlines'
<1> SUFFICES ASSUME NEW r \in Req
             PROVE  /\ Queued(r) =>
                         handler[r] = "select" /\ done[r] = "open" /\ handlerTimer'[r] > timer'[r] + ServeTimeout
                    /\ serve[r] # "spawned"
                    /\ serve[r] \in {"running", "proxying"} /\ serveTimer'[r] > 0 =>
                         handler[r] = "select" /\ done[r] = "open" /\ handlerTimer'[r] > serveTimer'[r]
                    /\ ~(handler[r] = "select" /\ done[r] = "closed")
  BY DEF Deadlines, Tick, Elapse
<1>1. timer[r] \in Nat /\ handlerTimer[r] \in Nat /\ serveTimer[r] \in Nat
  BY TimerType DEF Consistent, QueueInv
<1>2. ~Overdue(r)
  BY DEF RealWorldDeadlines, Tick, Elapse
<1>3. /\ Queued(r) => timer[r] > 0
      /\ serve[r] # "spawned"
      /\ ~(handler[r] = "select" /\ done[r] = "closed")
  BY <1>1, <1>2 DEF Overdue, RealWorldDeadlines, Tick
<1>4. ASSUME Queued(r)
      PROVE  handler[r] = "select" /\ done[r] = "open" /\ handlerTimer'[r] > timer'[r] + ServeTimeout
  BY <1>1, <1>3, <1>4, ConstantsAssumption DEF Deadlines, Tick, Elapse, Countdown
<1>5. ASSUME serve[r] \in {"running", "proxying"}, serveTimer'[r] > 0
      PROVE  handler[r] = "select" /\ done[r] = "open" /\ handlerTimer'[r] > serveTimer'[r]
  BY <1>1, <1>5 DEF Deadlines, Tick, Elapse, Countdown
<1>6. QED BY <1>3, <1>4, <1>5

\* Every step keeps the deadlines.
LEMMA StepDeadlines ==
  ASSUME RealWorldDeadlines
  PROVE  Consistent /\ Deadlines /\ [Next]_vars => Deadlines'
<1> SUFFICES ASSUME Consistent, Deadlines, [Next]_vars PROVE Deadlines'
  OBVIOUS
<1>1. ASSUME NEW r \in Req, AddReq(r) \/ ServeRequest(r) \/ HandlerFunc(r) PROVE Deadlines'
  BY <1>1, AddReqDeadlines, ServeDeadlines, HandlerDeadlines
<1>2. CASE ManagerWaits \/ PassBegins \/ PassSkips
  BY <1>2 DEF Deadlines, ManagerWaits, PassBegins, PassSkips
<1>3. CASE PassServes
  BY <1>3, PassServesDeadlines
<1>4. CASE Tick
  BY <1>4, TickDeadlines
<1>5. CASE UNCHANGED vars
  BY <1>5 DEF vars, Deadlines
<1>6. QED BY <1>1, <1>2, <1>3, <1>4, <1>5 DEF Next, ManageQueue

\* queue.go:18: with these timeouts a task never outlives the HandlerFunc whose
\* ResponseWriter and context it uses, unless serveRequest gave up on it.
THEOREM RealWorldContextOutlivesTask ==
  ASSUME RealWorldDeadlines
  PROVE  Spec => []ContextOutlivesTask
<1>1. Consistent /\ Deadlines => ContextOutlivesTask
  BY TimerType DEF Consistent, QueueInv, Deadlines, ContextOutlivesTask
<1>2. QED BY <1>1, ConsistentAlways, InitDeadlines, StepDeadlines, PTL DEF Spec

\* queue.go:223: with these timeouts no done channel is ever closed twice.
THEOREM RealWorldNoDoubleClose ==
  ASSUME RealWorldDeadlines
  PROVE  Spec => []NoDoubleClose
<1>1. Init => NoDoubleClose
  BY DEF Init, NoDoubleClose
<1>2. ASSUME Consistent, Deadlines, NoDoubleClose, [Next]_vars
      PROVE  NoDoubleClose'
  <2>1. ASSUME NEW r \in Req, AddReq(r) PROVE NoDoubleClose'
    BY <1>2, <2>1
    DEF Consistent, QueueInv, TypeOK, NoDoubleClose, AddReq, AddReqRejects, AddReqPreempts, AddReqQueues, Arrive
  <2>2. ASSUME NEW r \in Req, ServeReturns(r) PROVE NoDoubleClose'
    BY <1>2, <2>2 DEF Deadlines, NoDoubleClose, ServeReturns
  <2>3. ASSUME NEW r \in Req, FunctionCalled(r) PROVE NoDoubleClose'
    BY <1>2, <2>3 DEF Consistent, QueueInv, NoHookChannel, NoDoubleClose, FunctionCalled, ClosesChannel
  <2>4. ASSUME NEW r \in Req, ServeStarts(r) \/ ServeReturnsLate(r)
        PROVE NoDoubleClose'
    BY <1>2, <2>4 DEF NoDoubleClose, ServeStarts, ServeReturnsLate
  <2>5. ASSUME NEW r \in Req, HandlerReceivesDone(r) PROVE NoDoubleClose'
    BY <1>2, <2>5 DEF Consistent, QueueInv, TypeOK, NoDoubleClose, HandlerReceivesDone
  <2>6. ASSUME NEW r \in Req, HandlerTimesOut(r) PROVE NoDoubleClose'
    <3>1. done[r] = "open"
      BY <1>2, <2>6 DEF Consistent, QueueInv, TypeOK, Deadlines, HandlerTimesOut
    <3>2. QED BY <1>2, <2>6, <3>1 DEF Consistent, QueueInv, TypeOK, NoDoubleClose, HandlerTimesOut
  <2>7. CASE ManageQueue \/ Tick
    BY <1>2, <2>7
    DEF NoDoubleClose, ManageQueue, ManagerWaits, PassBegins, PassServes, PassSkips, Tick, Elapse
  <2>8. CASE UNCHANGED vars
    BY <1>2, <2>8 DEF vars, NoDoubleClose
  <2>9. QED
    BY <1>2, <2>1, <2>2, <2>3, <2>4, <2>5, <2>6, <2>7, <2>8 DEF Next, ServeRequest, HandlerFunc
<1>3. QED
  BY <1>1, <1>2, ConsistentAlways, InitDeadlines, StepDeadlines, PTL DEF Spec

------------------------------------------------------------------------------
(* The queue implements TaskLifecycle. *)

\* An arrival submits its task.
LEMMA AddReqSubmits ==
  ASSUME Consistent, Consistent', NEW r \in Req, AddReq(r)
  PROVE  Lifecycle!Submit(r)
<1>1. PICK x \in Rates : AddReqRejects(r, x) \/ AddReqPreempts(r, x) \/ AddReqQueues(r, x)
  BY DEF AddReq
<1>2. Arrive(r, x)
  BY <1>1 DEF AddReqRejects, AddReqPreempts, AddReqQueues
<1>3. serve[r] = "none"
  BY <1>2 DEF Arrive, Consistent, QueueInv, IdleUntouched
<1>4. queue \in Seq(Req) /\ DOMAIN serve = Req
  BY DEF Consistent, QueueInv, TypeOK
<1>5. queue' = queue \/ Range(queue') = Range(queue) \cup {r}
  <2>1. Range(Append(queue, r)) = Range(queue) \cup {r}
    BY <1>4, PushBack
  <2>2. QED BY <1>1, <2>1 DEF AddReqRejects, AddReqPreempts, AddReqQueues, Reject
<1>6. /\ \A q \in Req \ {r} : serve'[q] = serve[q]
      /\ serve'[r] \in {"none", "spawned"}
  BY <1>1, <1>3, <1>4 DEF AddReqRejects, AddReqPreempts, AddReqQueues, Reject, Spawn
<1>7. \A q \in Req \ {r} : q \in Range(queue') <=> q \in Range(queue)
  BY <1>5
<1>8. QED BY <1>2, <1>6, <1>7, Submits DEF Consistent

\* The manager dispatches a queued task, or does what no client can see.
LEMMA ManageQueueDispatches ==
  ASSUME Consistent, Consistent', ManageQueue
  PROVE  (\E r \in Req : Lifecycle!Dispatch(r)) \/ UNCHANGED Lifecycle!vars
<1>1. CASE PassServes
  <2>1. cursor \in Req /\ cursor \in Range(queue) /\ Range(queue') = Range(queue) \ {cursor}
    BY <1>1, PassServesKeeps
  <2>2. PICK c \in Req : c = cursor
    BY <2>1
  <2>3. c \in Range(queue) /\ Range(queue') = Range(queue) \ {c} /\ Spawn(c) /\ UNCHANGED handler
    BY <1>1, <2>1, <2>2 DEF PassServes
  <2>4. Lifecycle!Dispatch(c)
    BY <2>3, Dispatches DEF Consistent
  <2>5. QED BY <2>4
<1>2. CASE ManagerWaits \/ PassBegins \/ PassSkips
  BY <1>2, Invisible DEF Consistent, ManagerWaits, PassBegins, PassSkips
<1>3. QED BY <1>1, <1>2 DEF ManageQueue

\* queue.go, handler.go: whatever the interleaving, the queue behaves as TaskLifecycle.
THEOREM QueueImplementsLifecycle == Spec => ImplementsLifecycle
<1>1. ASSUME Consistent, Consistent', [Next]_vars PROVE [Lifecycle!Next]_(Lifecycle!vars)
  <2>1. ASSUME NEW r \in Req, AddReq(r) PROVE Lifecycle!Next
    BY <1>1, <2>1, AddReqSubmits DEF Lifecycle!Next
  <2>2. ASSUME NEW r \in Req, ServeRequest(r) PROVE [Lifecycle!Next]_(Lifecycle!vars)
    BY <1>1, <2>2, ServeFinishes DEF Consistent, Lifecycle!Next
  <2>3. ASSUME NEW r \in Req, HandlerFunc(r) PROVE Lifecycle!Next
    BY <1>1, <2>3, HandlerAnswers DEF Consistent, Lifecycle!Next
  <2>4. CASE ManageQueue
    BY <1>1, <2>4, ManageQueueDispatches DEF Lifecycle!Next
  <2>5. CASE Tick \/ UNCHANGED vars
    BY <1>1, <2>5, Invisible DEF Consistent, Tick, Elapse, vars
  <2>6. QED BY <1>1, <2>1, <2>2, <2>3, <2>4, <2>5 DEF Next
<1>2. QED
  BY <1>1, InitLifecycle, ConsistentAlways, PTL DEF Spec, ImplementsLifecycle, Lifecycle!Spec

------------------------------------------------------------------------------
(* Experiments 1 and 2: Consistent holds of them as well. *)

\* Every step of AddReq12 keeps it.
LEMMA AddReq12Keeps ==
  ASSUME Consistent, NEW r \in Req, AddReq12(r)
  PROVE  Consistent'
<1>1. PICK x \in Rates :
        AddReq12Rejects(r, x) \/ AddReq12Preempts(r, x) \/ AddReq12Queues(r, x)
  BY DEF AddReq12
<1>2. /\ maxQueueActualLen' \in Nat /\ schedulingDone' = schedulingDone
      /\ schedulingDone \in [Req -> {"nil", "open", "closed"}]
  BY <1>1 DEF AddReq12Rejects, AddReq12Preempts, AddReq12Queues, Consistent, QueueInv, TypeOK
<1>3. CASE AddReq12Rejects(r, x)
  <2>1. QueueInv'
    BY <1>2, <1>3, RejectKeeps DEF AddReq12Rejects, Consistent
  <2>2. QED
    BY <1>2, <1>3, <2>1 DEF AddReq12Rejects, Reject, Consistent, CursorInQueue, NoHookChannel
<1>4. CASE AddReq12Preempts(r, x)
  <2>1. QueueInv'
    BY <1>2, <1>4, PreemptKeeps DEF AddReq12Preempts, Consistent
  <2>2. QED
    BY <1>2, <1>4, <2>1 DEF AddReq12Preempts, Consistent, CursorInQueue, NoHookChannel
<1>5. CASE AddReq12Queues(r, x)
  <2>1. timer' \in [Req -> 0 .. MaxWait]
    <3>1. PICK w \in 0 .. MaxWait : timer' = [timer EXCEPT ![r] = w]
      BY <1>5 DEF AddReq12Queues
    <3>2. timer \in [Req -> 0 .. MaxWait]
      BY DEF Consistent, QueueInv, TypeOK
    <3>3. QED BY <3>1, <3>2
  <2>2. QueueInv' /\ Range(queue') = Range(queue) \cup {r}
    BY <1>2, <1>5, <2>1, QueueKeeps DEF AddReq12Queues, Consistent
  <2>3. QED
    BY <1>2, <1>5, <2>2 DEF AddReq12Queues, Signal, Consistent, CursorInQueue, NoHookChannel
<1>6. QED BY <1>1, <1>3, <1>4, <1>5

\* ManageQueue1 takes the task at the back.
LEMMA ServesBackKeeps ==
  ASSUME Consistent, ServesBack
  PROVE  /\ Consistent'
         /\ Last(queue) \in Req /\ Last(queue) \in Range(queue)
         /\ Range(queue') = Range(queue) \ {Last(queue)}
<1>1. queue \in Seq(Req) /\ queue # <<>> /\ cursor \in Req \cup {Nil}
  BY DEF Consistent, QueueInv, TypeOK, ServesBack
<1>2. /\ Len(queue) \in 1 .. Len(queue) /\ Last(queue) = queue[Len(queue)]
      /\ Front(queue) = RemoveAt(queue, Len(queue))
  BY <1>1, RemoveEnds
<1>3. QueueInv /\ manager = "top" /\ UNCHANGED manager
  BY DEF Consistent, ServesBack
<1>4. /\ QueueInv' /\ Last(queue) \in Req /\ Last(queue) \in Range(queue)
      /\ Range(queue') = Range(queue) \ {Last(queue)}
  BY <1>1, <1>2, <1>3, ServeKeeps DEF ServesBack
<1>5. CursorInQueue' /\ NoHookChannel'
  BY <1>3 DEF Consistent, CursorInQueue, NoHookChannel, ServesBack
<1>6. QED BY <1>4, <1>5 DEF Consistent

\* Every step keeps it.
LEMMA SimpleStepConsistent == Consistent /\ [SimpleNext]_simpleVars => Consistent'
<1> SUFFICES ASSUME Consistent, [SimpleNext]_simpleVars PROVE Consistent'
  OBVIOUS
<1>1. ASSUME NEW r \in Req, AddReq12(r) \/ ServeRequest(r) \/ HandlerFunc(r) PROVE Consistent'
  BY <1>1, AddReq12Keeps, GoroutinesKeep
<1>2. CASE ManageQueue1
  BY <1>2, ServesBackKeeps, ManageQueueKeeps DEF ManageQueue1, ManageQueue
<1>3. CASE ManageQueue \/ Tick
  BY <1>3, ManageQueueKeeps, ClockKeeps DEF Tick
<1>4. CASE UNCHANGED vars
  BY <1>4, StutterKeeps DEF vars, Consistent, CursorInQueue, NoHookChannel
<1>5. QED BY <1>1, <1>2, <1>3, <1>4 DEF SimpleNext, simpleVars

\* queue.go:115-140: the queue of experiments 1 and 2 keeps what that of 3 and 4 keeps.
THEOREM SimpleConsistentAlways == SimpleSpec => []Consistent
<1>1. SimpleInit => Consistent
  BY InitConsistent DEF SimpleInit
<1>2. QED BY <1>1, SimpleStepConsistent, PTL DEF SimpleSpec

\* A request that arrives brings its rate, and no other step changes one.
LEMMA StepRatesKnown == Consistent /\ RatesKnown /\ [SimpleNext]_simpleVars => RatesKnown'
<1> SUFFICES ASSUME Consistent, RatesKnown, [SimpleNext]_simpleVars PROVE RatesKnown'
  OBVIOUS
<1>1. DOMAIN handler = Req /\ DOMAIN rate = Req
  BY DEF Consistent, QueueInv, TypeOK
<1>2. ASSUME NEW r \in Req, AddReq12(r) PROVE RatesKnown'
  <2>1. PICK x \in Rates : Arrive(r, x)
    BY <1>2 DEF AddReq12, AddReq12Rejects, AddReq12Preempts, AddReq12Queues
  <2>2. QED BY <1>1, <2>1 DEF Arrive, RatesKnown
<1>3. ASSUME NEW r \in Req, HandlerFunc(r) PROVE RatesKnown'
  BY <1>1, <1>3 DEF HandlerFunc, HandlerReceivesDone, HandlerTimesOut, RatesKnown
<1>4. CASE UNCHANGED <<handler, rate>>
  BY <1>4 DEF RatesKnown
<1>5. QED
  BY <1>2, <1>3, <1>4 DEF SimpleNext, simpleVars, vars, ServeRequest, ServeStarts, FunctionCalled,
     ServeReturns, ServeReturnsLate, ManageQueue1, ServesBack, ManageQueue, ManagerWaits,
     PassBegins, PassServes, PassSkips, Tick, Elapse

\* The lengths of queued tasks are numbers.
LEMMA QueuedRates ==
  ASSUME Consistent, RatesKnown
  PROVE  /\ queue \in Seq(Req) /\ Len(queue) \in Nat /\ DOMAIN queue = 1 .. Len(queue)
         /\ queue # <<>> => Len(queue) # 0 /\ Head(queue) = queue[1]
         /\ \A i \in 1 .. Len(queue) : queue[i] \in Req /\ rate[queue[i]] \in Nat
<1>1. queue \in Seq(Req) /\ Len(queue) \in Nat /\ DOMAIN queue = 1 .. Len(queue)
  BY LenProperties DEF Consistent, QueueInv, TypeOK
<1>2. queue # <<>> => Len(queue) # 0 /\ Head(queue) = queue[1]
  BY <1>1, RemoveEnds
<1>3. ASSUME NEW i \in 1 .. Len(queue)
      PROVE  queue[i] \in Req /\ rate[queue[i]] \in Nat
  <2>1. queue[i] \in Req /\ queue[i] \in Range(queue)
    BY <1>1, ElementOfSeq DEF Range
  <2>2. handler[queue[i]] # "idle"
    BY <2>1 DEF Consistent, QueueInv, QueuedOnce
  <2>3. QED BY <2>1, <2>2, SimpleAssumption DEF RatesKnown
<1>4. QED BY <1>1, <1>2, <1>3

\* AddReq12 appends a task that is not shorter than the front.
LEMMA AddReq12KeepsFront ==
  ASSUME SimpleConsistent, NEW r \in Req, AddReq12(r), UNCHANGED experiment
  PROVE  FrontIsShortest'
<1> SUFFICES ASSUME experiment = 1, NEW i \in 1 .. Len(queue')
             PROVE  rate'[Head(queue')] <= rate'[queue'[i]]
  BY DEF FrontIsShortest
<1>1. PICK x \in Rates :
        AddReq12Rejects(r, x) \/ AddReq12Preempts(r, x) \/ AddReq12Queues(r, x)
  BY DEF AddReq12
<1>2. /\ queue \in Seq(Req) /\ Len(queue) \in Nat /\ DOMAIN queue = 1 .. Len(queue)
      /\ queue # <<>> => Len(queue) # 0 /\ Head(queue) = queue[1]
      /\ \A k \in 1 .. Len(queue) : queue[k] \in Req /\ rate[queue[k]] \in Nat
  BY QueuedRates DEF SimpleConsistent
<1>3. Arrive(r, x) /\ r \notin Range(queue) /\ DOMAIN rate = Req /\ x \in Nat
  <2>1. Arrive(r, x)
    BY <1>1 DEF AddReq12Rejects, AddReq12Preempts, AddReq12Queues
  <2>2. QED
    BY <2>1, SimpleAssumption DEF Arrive, SimpleConsistent, Consistent, QueueInv, TypeOK, IdleUntouched
<1>4. rate'[r] = x /\ \A k \in 1 .. Len(queue) : rate'[queue[k]] = rate[queue[k]]
  <2>1. \A k \in 1 .. Len(queue) : queue[k] # r
    BY <1>2, <1>3 DEF Range
  <2>2. QED BY <1>2, <1>3, <2>1 DEF Arrive
<1>5. \A k \in 1 .. Len(queue) : rate[Head(queue)] <= rate[queue[k]]
  BY DEF SimpleConsistent, FrontIsShortest
<1>6. CASE queue' = queue
  <2>1. queue # <<>>
    BY <1>2, <1>6
  <2>2. QED BY <1>2, <1>4, <1>5, <1>6, <2>1
<1>7. CASE AddReq12Queues(r, x)
  <2>1. /\ Len(queue') = Len(queue) + 1
        /\ \A k \in 1 .. Len(queue) : queue'[k] = queue[k]
        /\ queue'[Len(queue) + 1] = r
        /\ Head(queue') = queue'[1]
    <3>1. queue' = Append(queue, r)
      BY <1>7 DEF AddReq12Queues
    <3>2. queue' \in Seq(Req) /\ queue' # <<>>
      BY <1>2, <3>1, AppendProperties
    <3>3. QED BY <1>2, <3>1, <3>2, AppendProperties, RemoveEnds
  <2>2. CASE queue = <<>>
    <3>1. Len(queue) = 0
      BY <2>2
    <3>2. queue'[i] = r /\ Head(queue') = r
      BY <2>1, <3>1
    <3>3. QED BY <1>3, <1>4, <3>2
  <2>3. CASE queue # <<>>
    <3>1. Head(queue') = queue[1] /\ rate'[queue[1]] = rate[queue[1]] /\ rate[queue[1]] \in Nat
      BY <1>2, <1>4, <2>1, <2>3
    <3>2. rate[queue[1]] <= x
      BY <1>2, <1>3, <1>7, <2>3, <3>1 DEF AddReq12Queues, ShorterThanFront
    <3>3. CASE i = Len(queue) + 1
      BY <1>4, <2>1, <3>1, <3>2, <3>3
    <3>4. CASE i # Len(queue) + 1
      <4>1. i \in 1 .. Len(queue)
        BY <1>2, <2>1, <3>4
      <4>2. QED BY <1>2, <1>4, <1>5, <2>1, <2>3, <3>1, <4>1
    <3>5. QED BY <3>3, <3>4
  <2>4. QED BY <2>2, <2>3
<1>8. QED BY <1>1, <1>6, <1>7 DEF AddReq12Rejects, AddReq12Preempts, Reject

\* ManageQueue1 takes the back and leaves the front where it is.
LEMMA ServesBackKeepsFront ==
  ASSUME SimpleConsistent, ServesBack, UNCHANGED experiment
  PROVE  FrontIsShortest'
<1> SUFFICES ASSUME experiment = 1, NEW i \in 1 .. Len(queue')
             PROVE  rate'[Head(queue')] <= rate'[queue'[i]]
  BY DEF FrontIsShortest
<1>1. queue \in Seq(Req) /\ queue # <<>>
  BY DEF ServesBack, SimpleConsistent, Consistent, QueueInv, TypeOK
<1>2. /\ Len(queue) \in Nat \ {0} /\ Head(queue) = queue[1]
      /\ queue' = RemoveAt(queue, Len(queue))
  BY <1>1, RemoveEnds DEF ServesBack
<1>3. /\ queue' \in Seq(Req) /\ Len(queue') = Len(queue) - 1
      /\ \A j \in 1 .. Len(queue) - 1 : queue'[j] = queue[j]
  BY <1>1, <1>2, RemoveElement
<1>4. queue' # <<>>
  BY <1>3, EmptySeq
<1>5. Head(queue') = queue'[1]
  BY <1>3, <1>4, RemoveEnds
<1>6. Head(queue') = Head(queue) /\ queue'[i] = queue[i] /\ i \in 1 .. Len(queue)
  BY <1>2, <1>3, <1>5
<1>7. QED BY <1>6 DEF SimpleConsistent, FrontIsShortest, ServesBack

\* queue.go:115-125, 137: in experiment 1 the front is the shortest queued task at all
\* times, whatever arrives between two tasks of ManageQueue1.
THEOREM FrontAlwaysShortest == SimpleSpec => []FrontIsShortest
<1>1. SimpleInit => SimpleConsistent
  <2>1. SimpleInit => RatesKnown /\ FrontIsShortest
    BY EmptySeq DEF SimpleInit, Init, RatesKnown, FrontIsShortest
  <2>2. QED BY <2>1, InitConsistent DEF SimpleInit, SimpleConsistent
<1>2. SimpleConsistent /\ [SimpleNext]_simpleVars => SimpleConsistent'
  <2> SUFFICES ASSUME SimpleConsistent, [SimpleNext]_simpleVars PROVE SimpleConsistent'
    OBVIOUS
  <2>1. Consistent' /\ RatesKnown'
    BY SimpleStepConsistent, StepRatesKnown DEF SimpleConsistent
  <2>2. ASSUME NEW r \in Req, AddReq12(r), UNCHANGED experiment PROVE FrontIsShortest'
    BY <2>2, AddReq12KeepsFront
  <2>3. ASSUME ServesBack /\ UNCHANGED experiment PROVE FrontIsShortest'
    BY <2>3, ServesBackKeepsFront
  <2>4. ASSUME experiment = 2 /\ UNCHANGED experiment PROVE FrontIsShortest'
    BY <2>4 DEF FrontIsShortest
  <2>5. ASSUME UNCHANGED <<queue, rate, experiment>> PROVE FrontIsShortest'
    BY <2>5 DEF SimpleConsistent, FrontIsShortest
  <2>6. FrontIsShortest'
    <3>1. ASSUME NEW r \in Req, ServeRequest(r) \/ HandlerFunc(r) PROVE UNCHANGED <<queue, rate>>
      BY <3>1 DEF ServeRequest, ServeStarts, FunctionCalled, ServeReturns, ServeReturnsLate,
                  HandlerFunc, HandlerReceivesDone, HandlerTimesOut
    <3>2. ManagerWaits \/ Tick => UNCHANGED <<queue, rate>>
      BY DEF ManagerWaits, Tick, Elapse
    <3>3. QED
      BY <2>2, <2>3, <2>4, <2>5, <3>1, <3>2 DEF SimpleNext, simpleVars, vars, ManageQueue1
  <2>7. QED BY <2>1, <2>6 DEF SimpleConsistent
<1>3. SimpleConsistent => FrontIsShortest
  BY DEF SimpleConsistent
<1>4. QED BY <1>1, <1>2, <1>3, PTL DEF SimpleSpec

\* handler.go:281 and queue.go:115-140: to its clients the queue of experiments 1 and 2
\* behaves as that of 3 and 4 does.
THEOREM SimpleImplementsLifecycle == SimpleSpec => ImplementsLifecycle
<1>1. ASSUME Consistent, Consistent', [SimpleNext]_simpleVars
      PROVE  [Lifecycle!Next]_(Lifecycle!vars)
  <2>1. ASSUME NEW r \in Req, AddReq12(r) PROVE Lifecycle!Next
    <3>1. PICK x \in Rates :
            AddReq12Rejects(r, x) \/ AddReq12Preempts(r, x) \/ AddReq12Queues(r, x)
      BY <2>1 DEF AddReq12
    <3>2. Arrive(r, x)
      BY <3>1 DEF AddReq12Rejects, AddReq12Preempts, AddReq12Queues
    <3>3. queue \in Seq(Req) /\ DOMAIN serve = Req /\ serve[r] = "none"
      BY <1>1, <3>2 DEF Arrive, Consistent, QueueInv, TypeOK, IdleUntouched
    <3>4. queue' = queue \/ Range(queue') = Range(queue) \cup {r}
      <4>1. Range(Append(queue, r)) = Range(queue) \cup {r}
        BY <3>3, PushBack
      <4>2. QED BY <3>1, <4>1 DEF AddReq12Rejects, AddReq12Preempts, AddReq12Queues, Reject
    <3>5. /\ \A q \in Req \ {r} : serve'[q] = serve[q]
          /\ serve'[r] \in {"none", "spawned"}
      BY <3>1, <3>3 DEF AddReq12Rejects, AddReq12Preempts, AddReq12Queues, Reject, Spawn
    <3>6. \A q \in Req \ {r} : q \in Range(queue') <=> q \in Range(queue)
      BY <3>4
    <3>7. Lifecycle!Submit(r)
      BY <1>1, <3>2, <3>5, <3>6, Submits DEF Consistent
    <3>8. QED BY <3>7 DEF Lifecycle!Next
  <2>2. ASSUME NEW r \in Req, ServeRequest(r) PROVE [Lifecycle!Next]_(Lifecycle!vars)
    BY <1>1, <2>2, ServeFinishes DEF Consistent, Lifecycle!Next
  <2>3. ASSUME NEW r \in Req, HandlerFunc(r) PROVE Lifecycle!Next
    BY <1>1, <2>3, HandlerAnswers DEF Consistent, Lifecycle!Next
  <2>4. CASE ServesBack
    <3>1. /\ Last(queue) \in Req /\ Last(queue) \in Range(queue)
          /\ Range(queue') = Range(queue) \ {Last(queue)}
      BY <1>1, <2>4, ServesBackKeeps
    <3>2. PICK c \in Req : c = Last(queue)
      BY <3>1
    <3>3. c \in Range(queue) /\ Range(queue') = Range(queue) \ {c} /\ Spawn(c) /\ UNCHANGED handler
      BY <2>4, <3>1, <3>2 DEF ServesBack
    <3>4. Lifecycle!Dispatch(c)
      BY <1>1, <3>3, Dispatches DEF Consistent
    <3>5. QED BY <3>4 DEF Lifecycle!Next
  <2>5. CASE ManageQueue
    BY <1>1, <2>5, ManageQueueDispatches DEF Lifecycle!Next
  <2>6. CASE Tick \/ UNCHANGED vars
    BY <1>1, <2>6, Invisible DEF Consistent, Tick, Elapse, vars
  <2>7. QED
    BY <1>1, <2>1, <2>2, <2>3, <2>4, <2>5, <2>6
    DEF SimpleNext, simpleVars, ManageQueue1, ManageQueue
<1>2. SimpleInit => Init
  BY DEF SimpleInit
<1>3. QED
  BY <1>1, <1>2, InitLifecycle, SimpleConsistentAlways, PTL
  DEF SimpleSpec, ImplementsLifecycle, Lifecycle!Spec

==============================================================================
