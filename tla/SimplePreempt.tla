---------------------------- MODULE SimplePreempt ----------------------------
(***************************************************************************)
(* The queue of experiments 1 and 2: AddReq12 serves a task at once if it  *)
(* is shorter than the one at the front and queues it otherwise.           *)
(* Experiment 1 drains the queue with ManageQueue1, one task every         *)
(* 2000/Lambda ms; experiment 2 with the ManageQueue of PreemptiveQueue,   *)
(* each task after MaxWaitingTime.                                         *)
(***************************************************************************)
EXTENDS PreemptiveQueue

ASSUME SimpleAssumption == Rates \subseteq Nat

VARIABLE experiment   \* the experiment that main.go is built for, 1 or 2

simpleVars == <<vars, experiment>>

SimpleInit == Init /\ experiment \in {1, 2}

------------------------------------------------------------------------------
(* AddReq12(h, w, r, done) *)

AddReq12Rejects(r, x) ==
  /\ Arrive(r, x)
  /\ Reject(r)
  /\ UNCHANGED <<maxQueueActualLen, schedulingDone>>

ShorterThanFront(x) == queue # <<>> /\ x < rate[Head(queue)]

AddReq12Preempts(r, x) ==
  /\ Arrive(r, x)
  /\ ~QueueFull
  /\ ShorterThanFront(x)
  /\ Spawn(r)
  /\ UNCHANGED <<queue, manager, cursor, maxQueueActualLen, timer, schedulingDone, done>>

\* Every task gets a timer of MaxWaitingTime, created before the mutex is taken:
\* any part of it may be over by now.
AddReq12Queues(r, x) ==
  /\ Arrive(r, x)
  /\ ~QueueFull
  /\ ~ShorterThanFront(x)
  /\ \E w \in 0 .. MaxWait : timer' = [timer EXCEPT ![r] = w]
  /\ queue' = Append(queue, r)
  /\ Signal
  /\ UNCHANGED <<cursor, maxQueueActualLen, schedulingDone, done, serve>>

AddReq12(r) ==
  \E x \in Rates : AddReq12Rejects(r, x) \/ AddReq12Preempts(r, x) \/ AddReq12Queues(r, x)

------------------------------------------------------------------------------
(* ManageQueue1(): the sleep after each task is a delay like any other. *)

\* Mutant of ServesBack: the task at the front is taken.
ServesHead ==
  /\ panic = "none"
  /\ manager = "top"
  /\ queue # <<>>
  /\ queue' = Tail(queue)
  /\ Spawn(Head(queue))
  /\ UNCHANGED <<manager, cursor, maxQueueActualLen, unitVars>>
  /\ UNCHANGED <<handler, handlerTimer, serveTimer, done, panic>>

ServesBack ==
  /\ panic = "none"
  /\ manager = "top"
  /\ queue # <<>>
  /\ queue' = Front(queue)
  /\ Spawn(Last(queue))
  /\ UNCHANGED <<manager, cursor, maxQueueActualLen, unitVars>>
  /\ UNCHANGED <<handler, handlerTimer, serveTimer, done, panic>>

ManageQueue1 == ManagerWaits \/ ServesBack

SimpleNext ==
  /\ \/ \E r \in Req : AddReq12(r) \/ ServeRequest(r) \/ HandlerFunc(r)
     \/ experiment = 1 /\ ManageQueue1
     \/ experiment = 2 /\ ManageQueue
     \/ Tick
  /\ UNCHANGED experiment

SimpleSpec == SimpleInit /\ [][SimpleNext]_simpleVars

------------------------------------------------------------------------------
(* Properties *)

\* queue.go:115-125, 137: in experiment 1 the front is the shortest queued task,
\* although only the front is compared: a task that AddReq12 serves at once is
\* shorter than every task that waits.
FrontIsShortest ==
  experiment = 1 => \A i \in 1 .. Len(queue) : rate[Head(queue)] <= rate[queue[i]]

(* What the proofs need beside it *)

\* The task of a request that has arrived has a length.
RatesKnown == \A r \in Req : handler[r] # "idle" => rate[r] \in Rates

SimpleConsistent == Consistent /\ RatesKnown /\ FrontIsShortest

==============================================================================
