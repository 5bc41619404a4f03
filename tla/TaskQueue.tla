------------------------------ MODULE TaskQueue ------------------------------
(***************************************************************************)
(* What every binding experiment of queue.go shares: the queue of          *)
(* SchedulingUnits with its mutex and condition variable, the goroutine    *)
(* serveRequest, and the HandlerFunc of handler.go that waits for its      *)
(* task.  The experiments differ in AddReq* and ManageQueue*; they are     *)
(* modules that extend this one.                                           *)
(*                                                                         *)
(* A critical section of QueueMutex is one step.  A member of Req stands   *)
(* for one call of AddReq* together with its SchedulingUnit: an HTTP       *)
(* request, or one task of a real-world sequence.                          *)
(*                                                                         *)
(* Time is counted in ticks.  A running timer is the number of ticks left  *)
(* until it fires; a fired one is 0.                                       *)
(***************************************************************************)
EXTENDS Integers, Sequences, SequencesExt

CONSTANTS
  Req,                  \* the requests
  Nil,                  \* Go's nil
  NoRate,               \* the X-Rate of a request that has not arrived
  Rates,                \* the task lengths that arrive
  MaxQueueize,          \* capacity of the queue
  MaxWait,              \* bound on the waiting time of a queued task, in ticks
  ServeTimeout,         \* ticks of the timer of serveRequest (300 s)
  HandlerTimeout,       \* ticks of the HandlerFunc's time.After (320 s or 120 s)
  ClosesSchedulingDone, \* is the late-binding hook in activationHandler compiled in?
  Prompt                \* does time pass only when no goroutine is overdue?

ASSUME ConstantsAssumption ==
  /\ Nil \notin Req
  /\ NoRate \notin Rates
  /\ MaxQueueize \in Nat
  /\ MaxWait \in Nat \ {0}
  /\ ServeTimeout \in Nat \ {0}
  /\ HandlerTimeout \in Nat \ {0}
  /\ ClosesSchedulingDone \in BOOLEAN
  /\ Prompt \in BOOLEAN

VARIABLES
  queue,              \* Queue: the queued requests, front first
  manager,            \* where the goroutine of ManageQueue* is
  cursor,             \* its list element e, read under the mutex and kept after unlock
  maxQueueActualLen,  \* MaxQueueActualLen
  rate,               \* the X-Rate header of each request
  timer,              \* u.Timer
  schedulingDone,     \* the channel stored in the request's context, if any
  done,               \* u.Done
  handler,            \* the HandlerFunc goroutine of each request
  handlerTimer,       \* its time.After
  serve,              \* the serveRequest goroutine of each request
  serveTimer,         \* its 300 s timer
  panic               \* an unrecovered panic ends the process

queueVars  == <<queue, manager, cursor, maxQueueActualLen>>
unitVars   == <<rate, timer, schedulingDone>>
taskVars   == <<handler, handlerTimer, serve, serveTimer>>
vars == <<queueVars, unitVars, taskVars, done, panic>>

------------------------------------------------------------------------------

Queued(r)  == r \in Range(queue)
Serving(r) == serve[r] \in {"spawned", "running", "proxying"}

TypeOK ==
  /\ queue \in Seq(Req)
  /\ manager \in {"top", "wait", "scan", "await"}
  /\ cursor \in Req \cup {Nil}
  /\ maxQueueActualLen \in Nat
  /\ rate \in [Req -> Rates \cup {NoRate}]
  /\ timer \in [Req -> 0 .. MaxWait]
  /\ schedulingDone \in [Req -> {"nil", "open", "closed"}]
  /\ done \in [Req -> {"open", "closed"}]
  /\ handler \in [Req -> {"idle", "select", "completed", "timedOut", "aborted"}]
  /\ handlerTimer \in [Req -> 0 .. HandlerTimeout]
  /\ serve \in [Req -> {"none", "spawned", "running", "proxying", "ended"}]
  /\ serveTimer \in [Req -> 0 .. ServeTimeout]
  /\ panic \in {"none", "close of nil channel", "close of closed channel", "hook ran twice"}

Init ==
  /\ queue = <<>>
  /\ manager = "top"
  /\ cursor = Nil
  /\ maxQueueActualLen = 0
  /\ rate = [r \in Req |-> NoRate]
  /\ timer = [r \in Req |-> 0]
  /\ schedulingDone = [r \in Req |-> "nil"]
  /\ done = [r \in Req |-> "open"]
  /\ handler = [r \in Req |-> "idle"]
  /\ handlerTimer = [r \in Req |-> 0]
  /\ serve = [r \in Req |-> "none"]
  /\ serveTimer = [r \in Req |-> 0]
  /\ panic = "none"

------------------------------------------------------------------------------
(* Pieces of AddReq* and ManageQueue*. *)

\* go serveRequest(u)
Spawn(r) == serve' = [serve EXCEPT ![r] = "spawned"]

\* Mutant of Signal: the signal is missing.
SignalMissing == UNCHANGED manager

\* QueueCond.Signal(): wakes the manager if it sleeps, and is lost otherwise.
Signal == manager' = IF manager = "wait" THEN "top" ELSE manager

\* The HandlerFunc of request r, of task length x, calls AddReq* and then blocks
\* in its select.
Arrive(r, x) ==
  /\ panic = "none"
  /\ handler[r] = "idle"
  /\ handler' = [handler EXCEPT ![r] = "select"]
  /\ handlerTimer' = [handlerTimer EXCEPT ![r] = HandlerTimeout]
  /\ rate' = [rate EXCEPT ![r] = x]
  /\ UNCHANGED <<serveTimer, panic>>

QueueFull == Len(queue) >= MaxQueueize

\* Mutant of Reject: the task is dropped without closing its channel.
RejectSilently(r) == QueueFull /\ UNCHANGED <<queue, manager, cursor, timer, serve, done>>

\* "The queue is full": AddReq* closes the done channel and drops the task.
Reject(r) ==
  /\ QueueFull
  /\ done' = [done EXCEPT ![r] = "closed"]
  /\ UNCHANGED <<queue, manager, cursor, timer, serve>>

\* Queue.Len() == 0 under the mutex: QueueCond.Wait()
ManagerWaits ==
  /\ panic = "none"
  /\ manager = "top"
  /\ queue = <<>>
  /\ manager' = "wait"
  /\ UNCHANGED <<queue, cursor, maxQueueActualLen, unitVars, taskVars, done, panic>>

------------------------------------------------------------------------------
(* serveRequest(u) *)

\* The goroutine starts: timer := time.NewTimer(300 s), then Handler.ServeHTTP.
ServeStarts(r) ==
  /\ panic = "none"
  /\ serve[r] = "spawned"
  /\ serve' = [serve EXCEPT ![r] = "running"]
  /\ serveTimer' = [serveTimer EXCEPT ![r] = ServeTimeout]
  /\ UNCHANGED <<queueVars, unitVars, handler, handlerTimer, done, panic>>

\* close(schedulingDone) by the late-binding hook, whatever the channel is; the second
\* close of it is told apart from that of a done channel.
ClosesChannel(r) ==
  /\ schedulingDone' = [schedulingDone EXCEPT ![r] = IF @ = "nil" THEN "nil" ELSE "closed"]
  /\ panic' = IF schedulingDone[r] = "nil" THEN "close of nil channel"
              ELSE IF schedulingDone[r] = "closed" THEN "hook ran twice" ELSE panic

\* Inside ServeHTTP the throttler found a destination and calls the function
\* that activationHandler passed to Try, which with the hook first closes the
\* schedulingDone channel of the context.
FunctionCalled(r) ==
  /\ panic = "none"
  /\ serve[r] = "running"
  /\ serve' = [serve EXCEPT ![r] = "proxying"]
  /\ IF ClosesSchedulingDone THEN ClosesChannel(r) ELSE UNCHANGED <<schedulingDone, panic>>
  /\ UNCHANGED <<queueVars, rate, timer, handler, handlerTimer, serveTimer, done>>

\* ServeHTTP returns (a response, a Try error or the revision's timeout) before
\* the 300 s timer fires: serveRequest closes u.Done.
ServeReturns(r) ==
  /\ panic = "none"
  /\ serve[r] \in {"running", "proxying"}
  /\ serveTimer[r] > 0
  /\ serve' = [serve EXCEPT ![r] = "ended"]
  /\ done' = [done EXCEPT ![r] = "closed"]
  /\ panic' = IF done[r] = "open" THEN panic ELSE "close of closed channel"
  /\ UNCHANGED <<queueVars, unitVars, handler, handlerTimer, serveTimer>>

\* Mutant of ServeReturnsLate: the channel is closed whatever the 300 s timer says.
ServeReturnsLateCloses(r) ==
  /\ panic = "none"
  /\ serve[r] \in {"running", "proxying"}
  /\ serveTimer[r] = 0
  /\ serve' = [serve EXCEPT ![r] = "ended"]
  /\ done' = [done EXCEPT ![r] = "closed"]
  /\ panic' = IF done[r] = "open" THEN panic ELSE "close of closed channel"
  /\ UNCHANGED <<queueVars, unitVars, handler, handlerTimer, serveTimer>>

\* It returns after: the close is left to the HandlerFunc's own timeout.
ServeReturnsLate(r) ==
  /\ panic = "none"
  /\ serve[r] \in {"running", "proxying"}
  /\ serveTimer[r] = 0
  /\ serve' = [serve EXCEPT ![r] = "ended"]
  /\ UNCHANGED <<queueVars, unitVars, handler, handlerTimer, serveTimer, done, panic>>

ServeRequest(r) ==
  \/ ServeStarts(r)
  \/ FunctionCalled(r)
  \/ ServeReturns(r)
  \/ ServeReturnsLate(r)

------------------------------------------------------------------------------
(* The select of the HandlerFunc *)

\* Mutant of HandlerReceivesDone: the HandlerFunc does not wait for the channel.
HandlerReturnsAtOnce(r) ==
  /\ panic = "none"
  /\ handler[r] = "select"
  /\ handler' = [handler EXCEPT ![r] = "completed"]
  /\ UNCHANGED <<queueVars, unitVars, handlerTimer, serve, serveTimer, done, panic>>

HandlerReceivesDone(r) ==
  /\ panic = "none"
  /\ handler[r] = "select"
  /\ done[r] = "closed"
  /\ handler' = [handler EXCEPT ![r] = "completed"]
  /\ UNCHANGED <<queueVars, unitVars, handlerTimer, serve, serveTimer, done, panic>>

\* Mutant of HandlerTimesOut: the timeout leaves a running task alone.
HandlerOutwaits(r) ==
  /\ panic = "none"
  /\ handler[r] = "select"
  /\ handlerTimer[r] = 0
  /\ ~Serving(r)
  /\ handler' = [handler EXCEPT ![r] = IF done[r] = "open" THEN "timedOut" ELSE "aborted"]
  /\ done' = [done EXCEPT ![r] = "closed"]
  /\ UNCHANGED <<queueVars, unitVars, handlerTimer, serve, serveTimer, panic>>

\* When both cases of the select are ready Go picks either one.  A panic in
\* this goroutine is recovered by net/http, which drops the connection.
HandlerTimesOut(r) ==
  /\ panic = "none"
  /\ handler[r] = "select"
  /\ handlerTimer[r] = 0
  /\ handler' = [handler EXCEPT ![r] = IF done[r] = "open" THEN "timedOut" ELSE "aborted"]
  /\ done' = [done EXCEPT ![r] = "closed"]
  /\ UNCHANGED <<queueVars, unitVars, handlerTimer, serve, serveTimer, panic>>

HandlerFunc(r) == HandlerReceivesDone(r) \/ HandlerTimesOut(r)

------------------------------------------------------------------------------
(* Time *)

Countdown(n) == IF n > 0 THEN n - 1 ELSE 0

\* The timers that run: u.Timer of a queued unit, the HandlerFunc's until it
\* leaves its select, serveRequest's until ServeHTTP returns.
TimersRun ==
  \E r \in Req :
    \/ Queued(r) /\ timer[r] > 0
    \/ handler[r] = "select" /\ handlerTimer[r] > 0
    \/ serve[r] \in {"running", "proxying"} /\ serveTimer[r] > 0

\* A goroutine that has something to do and has not been scheduled to do it.
Overdue(r) ==
  \/ serve[r] = "spawned"
  \/ handler[r] = "select" /\ (done[r] = "closed" \/ handlerTimer[r] = 0)

\* The timers of every request advance by a tick.
Elapse ==
  /\ panic = "none"
  /\ Prompt => \A r \in Req : ~Overdue(r)
  /\ timer' = [r \in Req |-> IF Queued(r) THEN Countdown(timer[r]) ELSE timer[r]]
  /\ handlerTimer' = [r \in Req |-> IF handler[r] = "select" THEN Countdown(handlerTimer[r])
                                                            ELSE handlerTimer[r]]
  /\ serveTimer' = [r \in Req |-> IF serve[r] \in {"running", "proxying"}
                                  THEN Countdown(serveTimer[r]) ELSE serveTimer[r]]
  /\ UNCHANGED <<queueVars, rate, schedulingDone, done, handler, serve, panic>>

------------------------------------------------------------------------------
(* Properties of every experiment *)

\* queue.go: the manager sleeps on QueueCond only while the queue is empty, so
\* the Signal of AddReq is never lost although it is sent without a waiter most
\* of the time.
NoLostWakeup == manager = "wait" => queue = <<>>

\* queue.go: a unit is in the queue at most once and never while its goroutine
\* has been started, so no task is served twice and none is served and queued.
QueuedOnce ==
  /\ IsInjective(queue)
  /\ \A r \in Req : Queued(r) => handler[r] # "idle" /\ serve[r] = "none"

\* handler.go:281: a HandlerFunc that waits on an open channel is owed a close:
\* its unit is queued or being served, or serveRequest gave up on its 300 s timer
\* and left the close to the HandlerFunc's own timeout.
WaiterIsOwedClose ==
  \A r \in Req : handler[r] = "select" /\ done[r] = "open" =>
    Queued(r) \/ Serving(r) \/ (serve[r] = "ended" /\ serveTimer[r] = 0)

\* queue.go:33: the queue never grows beyond MaxQueueize.
QueueBounded == Len(queue) <= MaxQueueize

\* queue.go:223 "let the HandlerFunc's timeout close the channel, to avoid closing
\* it twice": no goroutine, recovered or not, closes a done channel twice.
NoDoubleClose ==
  /\ panic # "close of closed channel"
  /\ \A r \in Req : handler[r] # "aborted"

\* queue.go:18: the HandlerFunc outlives the task it waits for (its request context
\* ends with it), unless serveRequest has already given up on the task.
ContextOutlivesTask ==
  \A r \in Req : Serving(r) /\ handler[r] # "select" =>
    serve[r] # "spawned" /\ serveTimer[r] = 0

(* What the proofs need beside them *)

\* A request that has not arrived has left no trace.
IdleUntouched ==
  \A r \in Req : handler[r] = "idle" => ~Queued(r) /\ serve[r] = "none" /\ done[r] = "open"

\* While a HandlerFunc waits, its channel is closed only once its task is over.
ClosedMeansOver ==
  \A r \in Req : handler[r] = "select" /\ done[r] = "closed" => ~Queued(r) /\ ~Serving(r)

\* What every experiment's AddReq* and ManageQueue* keep.
QueueInv ==
  /\ TypeOK
  /\ NoLostWakeup
  /\ QueuedOnce
  /\ IdleUntouched
  /\ ClosedMeansOver
  /\ WaiterIsOwedClose
  /\ QueueBounded

------------------------------------------------------------------------------
(* What the clients see of the queue *)

Task(r) ==
  CASE Queued(r)            -> "queued"
    [] Serving(r)           -> "running"
    [] serve[r] = "ended"   -> "finished"
    [] handler[r] = "idle"  -> "absent"
    [] OTHER                -> "rejected"

Client(r) ==
  CASE handler[r] = "idle"      -> "idle"
    [] handler[r] = "select"    -> "waiting"
    [] handler[r] = "completed" -> "answered"
    [] OTHER                    -> "gaveUp"

\* The queue implements TaskLifecycle: handler.go and queue.go together serve a
\* task at most once and answer it only when it is over.
Lifecycle == INSTANCE TaskLifecycle WITH
  task <- [r \in Req |-> Task(r)], client <- [r \in Req |-> Client(r)]

ImplementsLifecycle == Lifecycle!Spec

==============================================================================
