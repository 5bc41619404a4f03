--------------------------- MODULE PreemptiveQueue ---------------------------
(***************************************************************************)
(* The queue of experiments 3 and 4, the one main.go and handler.go use:   *)
(* AddReq serves short tasks at once and gives every other one a timer;    *)
(* ManageQueue polls the queue from back to front and serves the tasks     *)
(* whose timer has fired.  It releases QueueMutex between two elements,    *)
(* so AddReq interleaves with a pass.                                      *)
(***************************************************************************)
EXTENDS TaskQueue, Workload

------------------------------------------------------------------------------
(* AddReq(h, w, r, done) *)

\* MaxQueueActualLen is updated from the length before the insertion.
RecordLength ==
  maxQueueActualLen' = IF Len(queue) > maxQueueActualLen THEN Len(queue)
                                                         ELSE maxQueueActualLen

AddReqRejects(r, x) ==
  /\ Arrive(r, x)
  /\ RecordLength
  /\ Reject(r)
  /\ UNCHANGED schedulingDone

\* Mutant of AddReqPreempts: no return after the preemption.
AddReqPreemptsAndQueues(r, x) ==
  /\ Arrive(r, x)
  /\ RecordLength
  /\ ~QueueFull
  /\ Preempts(x)
  /\ Spawn(r)
  /\ queue' = Append(queue, r)
  /\ Signal
  /\ UNCHANGED <<cursor, timer, schedulingDone, done>>

AddReqPreempts(r, x) ==
  /\ Arrive(r, x)
  /\ RecordLength
  /\ ~QueueFull
  /\ Preempts(x)
  /\ Spawn(r)
  /\ UNCHANGED <<queue, manager, cursor, timer, schedulingDone, done>>

\* Mutant of AddReqQueues: the waiting time is not capped.
AddReqQueuesUncapped(r, x) ==
  /\ Arrive(r, x)
  /\ RecordLength
  /\ ~QueueFull
  /\ ~Preempts(x)
  /\ \E w \in 1 .. MaxWait + HandlerTimeout : timer' = [timer EXCEPT ![r] = w]
  /\ queue' = Append(queue, r)
  /\ Signal
  /\ UNCHANGED <<cursor, schedulingDone, done, serve>>

\* The waiting time is a positive real formula capped at 4 s: any length in ticks.
AddReqQueues(r, x) ==
  /\ Arrive(r, x)
  /\ RecordLength
  /\ ~QueueFull
  /\ ~Preempts(x)
  /\ \E w \in 1 .. MaxWait : timer' = [timer EXCEPT ![r] = w]
  /\ queue' = Append(queue, r)
  /\ Signal
  /\ UNCHANGED <<cursor, schedulingDone, done, serve>>

AddReq(r) == \E x \in Rates : AddReqRejects(r, x) \/ AddReqPreempts(r, x) \/ AddReqQueues(r, x)

------------------------------------------------------------------------------
(* ManageQueue() *)

Position(e) == CHOOSE i \in 1 .. Len(queue) : queue[i] = e

\* e.Prev()
Prev(e) == IF Position(e) = 1 THEN Nil ELSE queue[Position(e) - 1]

\* Mutant of Advance: the pass stays at its element.
AdvanceNot == UNCHANGED <<cursor, manager>>

\* The next element of the pass, or the top of the outer loop after the front.
Advance ==
  /\ cursor' = Prev(cursor)
  /\ manager' = IF Prev(cursor) = Nil THEN "top" ELSE "scan"

PassBegins ==
  /\ panic = "none"
  /\ manager = "top"
  /\ queue # <<>>
  /\ manager' = "scan"
  /\ cursor' = Last(queue)
  /\ UNCHANGED <<queue, maxQueueActualLen, unitVars, taskVars, done, panic>>

\* <-u.Timer.C is ready: Queue.Remove(e); go serveRequest(u)
PassServes ==
  /\ panic = "none"
  /\ manager = "scan"
  /\ timer[cursor] = 0
  /\ queue' = RemoveAt(queue, Position(cursor))
  /\ Spawn(cursor)
  /\ Advance
  /\ UNCHANGED <<maxQueueActualLen, unitVars, handler, handlerTimer, serveTimer, done, panic>>

PassSkips ==
  /\ panic = "none"
  /\ manager = "scan"
  /\ timer[cursor] > 0
  /\ Advance
  /\ UNCHANGED <<queue, maxQueueActualLen, unitVars, taskVars, done, panic>>

ManageQueue == ManagerWaits \/ PassBegins \/ PassServes \/ PassSkips

------------------------------------------------------------------------------

\* Time passes; on a prompt machine not before the manager has polled a fired timer.
Tick ==
  /\ TimersRun
  /\ Prompt => \A r \in Req : Queued(r) => timer[r] > 0
  /\ Elapse

Next ==
  \/ \E r \in Req : AddReq(r) \/ ServeRequest(r) \/ HandlerFunc(r)
  \/ ManageQueue
  \/ Tick

Spec == Init /\ [][Next]_vars

------------------------------------------------------------------------------
(* Safety *)

\* queue.go:199-203: the list element the manager keeps across the unlock is
\* still in the list when it locks again, so Prev and Remove act on the list.
CursorInQueue == manager = "scan" => cursor \in Range(queue)

(* Liveness *)

\* queue.go:188: every queued task is served once its timer fires, whatever
\* arrives meanwhile, unless the process dies.
QueuedIsServed == \A r \in Req : Queued(r) ~> (~Queued(r) \/ panic # "none")

(* What the proofs need beside the properties above *)

\* AddReq stores no schedulingDone channel in any context.
NoHookChannel == \A r \in Req : schedulingDone[r] = "nil"

Consistent == QueueInv /\ CursorInQueue /\ NoHookChannel

\* The timeouts of the real-world service, 320 s > 4 s + 300 s, on a machine that
\* schedules goroutines promptly.
RealWorldDeadlines == Prompt /\ HandlerTimeout > MaxWait + ServeTimeout

\* Whoever will close done runs out before the HandlerFunc does.
Deadlines ==
  \A r \in Req :
    /\ Queued(r) =>
         handler[r] = "select" /\ done[r] = "open" /\ handlerTimer[r] > timer[r] + ServeTimeout
    /\ serve[r] = "spawned" =>
         handler[r] = "select" /\ done[r] = "open" /\ handlerTimer[r] > ServeTimeout
    /\ serve[r] \in {"running", "proxying"} /\ serveTimer[r] > 0 =>
         handler[r] = "select" /\ done[r] = "open" /\ handlerTimer[r] > serveTimer[r]
    /\ handler[r] = "select" /\ done[r] = "closed" => handlerTimer[r] > 0

==============================================================================
