----------------------------- MODULE BindingQueue -----------------------------
(***************************************************************************)
(* The queue of the early- and late-binding experiments: AddReq0 puts      *)
(* every task in the queue, with a schedulingDone channel in its context;  *)
(* ManageQueueEarly serves from the front without pause, and               *)
(* ManageQueueLate waits, after each task, until the load balancer has     *)
(* chosen a pod for it or 20 s have passed.                                *)
(*                                                                         *)
(* acquireDest and proxyRequest are modelled here step by step, because    *)
(* the pod is chosen, the channel closed and the pod's record updated      *)
(* without a common lock.  requestStatic is abstracted to the tasks        *)
(* recorded on each pod: a pod is idle iff it has none (RequestStatic).    *)
(***************************************************************************)
EXTENDS TaskQueue, FiniteSets

CONSTANTS
  Pod,           \* the assigned trackers
  AwaitTimeout   \* ticks of the 20 s of ManageQueueLate

ASSUME BindingAssumption ==
  /\ AwaitTimeout \in Nat \ {0}
  /\ ClosesSchedulingDone
  /\ IsFiniteSet(Pod) /\ Pod # {} /\ Nil \notin Pod

VARIABLES
  late,         \* which manager and policy are compiled in: late or early binding
  awaitTimer,   \* the time.After of ManageQueueLate
  try,          \* the goroutine of throttler.Try of each task
  pick,         \* the two pods that the policy picked for it
  dest,         \* the pod it is sent to
  recorded,     \* the tasks that requestStatic counts, each on its dest
  overtaken     \* history: the tasks whose 20 s ran out before they were scheduled

bindVars == <<late, try, pick, dest, recorded>>
allVars  == <<vars, awaitTimer, bindVars, overtaken>>

BindingTypeOK ==
  /\ TypeOK
  /\ late \in BOOLEAN
  /\ awaitTimer \in 0 .. AwaitTimeout
  /\ try \in [Req -> {"none", "spinning", "chosen", "called", "sent"}]
  /\ pick \in [Req -> SUBSET Pod]
  /\ dest \in [Req -> Pod \cup {Nil}]
  /\ recorded \subseteq {r \in Req : dest[r] # Nil}
  /\ overtaken \subseteq Req

BindingInit ==
  /\ Init
  /\ late \in BOOLEAN
  /\ awaitTimer = 0
  /\ try = [r \in Req |-> "none"]
  /\ pick = [r \in Req |-> {}]
  /\ dest = [r \in Req |-> Nil]
  /\ recorded = {}
  /\ overtaken = {}

------------------------------------------------------------------------------
(* AddReq0(h, w, r, done) *)

AddReq0Rejects(r, x) ==
  /\ Arrive(r, x)
  /\ Reject(r)
  /\ schedulingDone' = [schedulingDone EXCEPT ![r] = "open"]
  /\ UNCHANGED maxQueueActualLen

\* Here MaxQueueActualLen is updated after the check, still before the insertion.
AddReq0Queues(r, x) ==
  /\ Arrive(r, x)
  /\ ~QueueFull
  /\ schedulingDone' = [schedulingDone EXCEPT ![r] = "open"]
  /\ maxQueueActualLen' = IF Len(queue) > maxQueueActualLen THEN Len(queue)
                                                            ELSE maxQueueActualLen
  /\ queue' = Append(queue, r)
  /\ Signal
  /\ UNCHANGED <<cursor, timer, done, serve>>

AddReq0(r) ==
  /\ \E x \in Rates : AddReq0Rejects(r, x) \/ AddReq0Queues(r, x)
  /\ UNCHANGED <<awaitTimer, bindVars, overtaken>>

------------------------------------------------------------------------------
(* ManageQueueEarly(), ManageQueueLate() *)

\* Remove the front; go serveRequest(u)
ServeFront ==
  /\ panic = "none"
  /\ manager = "top"
  /\ queue # <<>>
  /\ queue' = Tail(queue)
  /\ Spawn(Head(queue))
  /\ UNCHANGED <<maxQueueActualLen, unitVars, handler, handlerTimer, serveTimer, done, panic>>
  /\ UNCHANGED <<bindVars, overtaken>>

ServesEarly ==
  /\ ~late
  /\ ServeFront
  /\ UNCHANGED <<manager, cursor, awaitTimer>>

ServesLate ==
  /\ late
  /\ ServeFront
  /\ manager' = "await"
  /\ cursor' = Head(queue)
  /\ awaitTimer' = AwaitTimeout

\* Mutant of AwaitScheduled: the manager does not wait for the channel.
AwaitNothing ==
  /\ panic = "none"
  /\ manager = "await"
  /\ manager' = "top"
  /\ UNCHANGED <<queue, cursor, maxQueueActualLen, unitVars, taskVars, done, panic>>
  /\ UNCHANGED <<awaitTimer, bindVars, overtaken>>

AwaitScheduled ==
  /\ panic = "none"
  /\ manager = "await"
  /\ schedulingDone[cursor] = "closed"
  /\ manager' = "top"
  /\ UNCHANGED <<queue, cursor, maxQueueActualLen, unitVars, taskVars, done, panic>>
  /\ UNCHANGED <<awaitTimer, bindVars, overtaken>>

\* Mutant of AwaitTimesOut: the 20 s count only for a task that is over.
AwaitOutwaits ==
  /\ panic = "none"
  /\ manager = "await"
  /\ awaitTimer = 0
  /\ ~Serving(cursor)
  /\ manager' = "top"
  /\ overtaken' = overtaken \cup {cursor}
  /\ UNCHANGED <<queue, cursor, maxQueueActualLen, unitVars, taskVars, done, panic>>
  /\ UNCHANGED <<awaitTimer, bindVars>>

AwaitTimesOut ==
  /\ panic = "none"
  /\ manager = "await"
  /\ awaitTimer = 0
  /\ manager' = "top"
  /\ overtaken' = overtaken \cup {cursor}
  /\ UNCHANGED <<queue, cursor, maxQueueActualLen, unitVars, taskVars, done, panic>>
  /\ UNCHANGED <<awaitTimer, bindVars>>

ManageBinding ==
  \/ ManagerWaits /\ UNCHANGED <<awaitTimer, bindVars, overtaken>>
  \/ ServesEarly
  \/ ServesLate
  \/ AwaitScheduled
  \/ AwaitTimesOut

------------------------------------------------------------------------------
(* serveRequest(u), down to the pod *)

OnPod(p) == {r \in recorded : dest[r] = p}

\* A member of S and another one, or the only one.
TwoOf(S) == IF Cardinality(S) = 1 THEN {S} ELSE {two \in SUBSET S : Cardinality(two) = 2}

\* The policy draws two different pods and keeps to them.
DrawsPods(r) ==
  /\ panic = "none"
  /\ serve[r] = "running"
  /\ try[r] = "none"
  /\ try' = [try EXCEPT ![r] = "spinning"]
  /\ \E two \in TwoOf(Pod) : pick' = [pick EXCEPT ![r] = two]
  /\ UNCHANGED <<vars, late, awaitTimer, dest, recorded, overtaken>>

\* Late binding spins until one of the two is idle; with a single pod there is
\* no choice and no check.  Early binding takes the less loaded of the two,
\* which may be either.
ChoosesPod(r) ==
  /\ panic = "none"
  /\ try[r] = "spinning"
  /\ \E p \in pick[r] :
       /\ late /\ Cardinality(pick[r]) = 2 => OnPod(p) = {}
       /\ dest' = [dest EXCEPT ![r] = p]
  /\ try' = [try EXCEPT ![r] = "chosen"]
  /\ UNCHANGED <<vars, late, awaitTimer, pick, recorded, overtaken>>

\* Mutant of CallsFunction: Try calls the function again.
CallsFunctionAgain(r) ==
  /\ try[r] \in {"chosen", "called"}
  /\ try' = [try EXCEPT ![r] = "called"]
  /\ \/ FunctionCalled(r)
     \/ /\ panic = "none"
        /\ serve[r] = "ended"
        /\ ClosesChannel(r)
        /\ UNCHANGED <<queueVars, rate, timer, taskVars, done>>
  /\ UNCHANGED <<late, awaitTimer, pick, dest, recorded, overtaken>>

\* The function that activationHandler passed to Try: it closes schedulingDone.
\* Once the timeout handler has made ServeHTTP return, Try goes on in a goroutine
\* that nobody waits for.
CallsFunction(r) ==
  /\ try[r] = "chosen"
  /\ try' = [try EXCEPT ![r] = "called"]
  /\ \/ FunctionCalled(r)
     \/ /\ panic = "none"
        /\ serve[r] = "ended"
        /\ ClosesChannel(r)
        /\ UNCHANGED <<queueVars, rate, timer, taskVars, done>>
  /\ UNCHANGED <<late, awaitTimer, pick, dest, recorded, overtaken>>

\* Mutant of SendsToPod: the task is counted before a pod is chosen.
SendsUnchosen(r) ==
  /\ panic = "none"
  /\ try[r] = "spinning"
  /\ try' = [try EXCEPT ![r] = "sent"]
  /\ recorded' = recorded \cup {r}
  /\ UNCHANGED <<vars, late, awaitTimer, pick, dest, overtaken>>

\* proxyRequest: AddReqToRS, then the request goes to the pod.
SendsToPod(r) ==
  /\ panic = "none"
  /\ try[r] = "called"
  /\ try' = [try EXCEPT ![r] = "sent"]
  /\ recorded' = recorded \cup {r}
  /\ UNCHANGED <<vars, late, awaitTimer, pick, dest, overtaken>>

\* The pod has executed the task and posts to /store: DelReqFromRS.
PodReports(r) ==
  /\ panic = "none"
  /\ r \in recorded
  /\ recorded' = recorded \ {r}
  /\ UNCHANGED <<vars, late, awaitTimer, try, pick, dest, overtaken>>

\* ServeHTTP returns with an error of Try before a pod is drawn, with the pod's
\* answer, or with the timeout handler's answer at any time.
ServeEnds(r) ==
  /\ ServeReturns(r) \/ ServeReturnsLate(r)
  /\ UNCHANGED <<awaitTimer, bindVars, overtaken>>

ServeBinding(r) ==
  \/ ServeStarts(r) /\ UNCHANGED <<awaitTimer, bindVars, overtaken>>
  \/ DrawsPods(r)
  \/ ChoosesPod(r)
  \/ CallsFunction(r)
  \/ SendsToPod(r)
  \/ PodReports(r)
  \/ ServeEnds(r)

------------------------------------------------------------------------------

\* A goroutine of the experiment that has something to do and has not done it.
BindingOverdue ==
  \/ manager = "top" /\ queue # <<>>
  \/ manager = "await" /\ (schedulingDone[cursor] = "closed" \/ awaitTimer = 0)
  \/ \E r \in Req : try[r] \in {"chosen", "called"}

BindingTick ==
  /\ TimersRun \/ (manager = "await" /\ awaitTimer > 0)
  /\ Prompt => ~BindingOverdue
  /\ Elapse
  /\ awaitTimer' = IF manager = "await" THEN Countdown(awaitTimer) ELSE awaitTimer
  /\ UNCHANGED <<bindVars, overtaken>>

BindingNext ==
  \/ \E r \in Req : AddReq0(r)
  \/ ManageBinding
  \/ \E r \in Req : ServeBinding(r)
  \/ \E r \in Req : HandlerFunc(r) /\ UNCHANGED <<awaitTimer, bindVars, overtaken>>
  \/ BindingTick

BindingSpec == BindingInit /\ [][BindingNext]_allVars

\* Goroutines are scheduled and clocks advance; no pod need ever answer, so a
\* policy may spin for ever.
BindingFairSpec ==
  /\ BindingSpec
  /\ WF_allVars(ManageBinding)
  /\ WF_allVars(BindingTick)
  /\ \A r \in Req :
       /\ WF_allVars(HandlerFunc(r) /\ UNCHANGED <<awaitTimer, bindVars, overtaken>>)
       /\ WF_allVars(ServeStarts(r) /\ UNCHANGED <<awaitTimer, bindVars, overtaken>>)
       /\ WF_allVars(CallsFunction(r) \/ SendsToPod(r))

------------------------------------------------------------------------------
(* Properties *)

\* queue.go:79 "wait for schedulingDone (or 20 s), then take the next task": only
\* the task that the manager waits for, and those whose 20 s ran out, are between
\* the queue and a pod.
ScheduledOneByOne ==
  late => \A r \in Req : serve[r] # "none" /\ schedulingDone[r] = "open" =>
            r \in overtaken \/ (manager = "await" /\ cursor = r)

\* queue.go:92: no unscheduled task holds up the queue for more than its 20 s, and
\* early binding never stops: every queued task is taken out, whatever its pod does.
QueuedIsTaken == \A r \in Req : Queued(r) ~> (~Queued(r) \/ panic # "none")

\* handler.go:126 "for late binding, close the schedulingDone channel stored in
\* the context": the hook, which closes what it finds and may run after serveRequest has
\* given up, finds a channel, and finds each one once.
HookClosesOnce == panic \notin {"close of nil channel", "hook ran twice"}

\* lb_policy.go:172 "late binding: pick two at random, send to the one that becomes
\* idle first": of several pods none gets a task while it holds another one, unless
\* a task ran out of its 20 s.
LateBindsToIdle ==
  late /\ Cardinality(Pod) > 1 /\ overtaken = {} => \A p \in Pod : Cardinality(OnPod(p)) <= 1

(* What the proofs need beside them *)

\* A task that the policy has bound has a pod.
BoundHasPod == \A r \in Req : try[r] \in {"chosen", "called", "sent"} => dest[r] # Nil

\* AddReq0 has put a channel into the context of every request that has arrived.
ContextHasChannel == \A r \in Req : handler[r] # "idle" => schedulingDone[r] # "nil"

\* Only the function that Try calls closes a channel, once it has been bound.
ClosedWhenCalled ==
  \A r \in Req : schedulingDone[r] = "closed" => try[r] \in {"called", "sent"}

\* The late manager waits for a task.
AwaitsTask == manager = "await" => cursor \in Req

BindingConsistent ==
  /\ QueueInv
  /\ AwaitsTask
  /\ BindingTypeOK
  /\ BoundHasPod
  /\ ContextHasChannel
  /\ ClosedWhenCalled
  /\ HookClosesOnce
  /\ ScheduledOneByOne

==============================================================================
