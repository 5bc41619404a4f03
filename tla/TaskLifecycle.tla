---------------------------- MODULE TaskLifecycle ----------------------------
(***************************************************************************)
(* What the queue of queue.go promises to the HandlerFuncs of handler.go,  *)
(* whatever the order in which it serves them: every submitted task is     *)
(* queued, run at once or rejected; it runs at most once; and its client   *)
(* is answered at most once, through the done channel only when the task   *)
(* has finished or was rejected, and otherwise by giving up.               *)
(***************************************************************************)
CONSTANT Req

VARIABLES
  task,     \* the task of each request
  client    \* the HandlerFunc that waits for it

vars == <<task, client>>

Init ==
  /\ task = [r \in Req |-> "absent"]
  /\ client = [r \in Req |-> "idle"]

Submit(r) ==
  /\ client[r] = "idle"
  /\ client' = [client EXCEPT ![r] = "waiting"]
  /\ \E t \in {"queued", "running", "rejected"} : task' = [task EXCEPT ![r] = t]

Dispatch(r) ==
  /\ task[r] = "queued"
  /\ task' = [task EXCEPT ![r] = "running"]
  /\ UNCHANGED client

Finish(r) ==
  /\ task[r] = "running"
  /\ task' = [task EXCEPT ![r] = "finished"]
  /\ UNCHANGED client

Answer(r) ==
  /\ client[r] = "waiting"
  /\ task[r] \in {"finished", "rejected"}
  /\ client' = [client EXCEPT ![r] = "answered"]
  /\ UNCHANGED task

GiveUp(r) ==
  /\ client[r] = "waiting"
  /\ client' = [client EXCEPT ![r] = "gaveUp"]
  /\ UNCHANGED task

Next == \E r \in Req : Submit(r) \/ Dispatch(r) \/ Finish(r) \/ Answer(r) \/ GiveUp(r)

Spec == Init /\ [][Next]_vars

==============================================================================
