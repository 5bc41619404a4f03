---------------------------- MODULE RequestStatic ----------------------------
(***************************************************************************)
(* requestStatic of shared.go: what the activator believes is running on   *)
(* each pod.  AddReqToRS counts a task when it is sent, DelReqFromRS       *)
(* discounts it when the pod posts its report to /store.  Here the pod of  *)
(* a task is any pod; Routing has the policies that choose it.             *)
(*                                                                         *)
(* Choosing a pod, counting the task and receiving the report are separate *)
(* steps of different goroutines.  The counts live in memory: a restarted  *)
(* activator begins with none while the pods go on executing.              *)
(***************************************************************************)
EXTENDS Integers, FiniteSets, Workload

CONSTANTS
  Req,              \* the tasks
  Pod,              \* the pods
  Nil,              \* no pod
  Rates,            \* Rates[r]: the lengths that task r may have
  ReportsRate,      \* does the third word of a report hold the task's rate?
  ReportsMayBeLost, \* may a task be counted and never reported?
  MaxRestarts       \* bound on the restarts of the activator

ASSUME RSAssumption ==
  /\ IsFiniteSet(Req)
  /\ Nil \notin Pod
  /\ Rates \in [Req -> SUBSET Nat]
  /\ ReportsRate \in BOOLEAN /\ ReportsMayBeLost \in BOOLEAN
  /\ MaxRestarts \in Nat

VARIABLES
  known,      \* the keys of Data
  reqs,       \* PodInfo.reqs, zero for an absent key
  ratesum,    \* PodInfo.ratesum
  jobnum,     \* PodInfo.jobnum
  phase,      \* where each task is
  rate,       \* its X-Rate
  dest,       \* the pod chosen for it
  restarts    \* the number of restarts so far

rsVars == <<known, reqs, ratesum, jobnum>>
vars   == <<rsVars, phase, rate, dest, restarts>>

Group == 0 .. 9

TypeOK ==
  /\ known \subseteq Pod
  /\ reqs \in [Pod -> [Group -> Nat]]
  /\ ratesum \in [Pod -> Int]
  /\ jobnum \in [Pod -> Int]
  /\ phase \in [Req -> {"new", "looking", "chosen", "executing", "reported", "unreported", "dropped"}]
  /\ rate \in [Req -> Nat]
  /\ dest \in [Req -> Pod \cup {Nil}]
  /\ restarts \in 0 .. MaxRestarts

Init ==
  /\ known = {}
  /\ reqs = [p \in Pod |-> [g \in Group |-> 0]]
  /\ ratesum = [p \in Pod |-> 0]
  /\ jobnum = [p \in Pod |-> 0]
  /\ phase = [r \in Req |-> "new"]
  /\ rate = [r \in Req |-> 0]
  /\ dest = [r \in Req |-> Nil]
  /\ restarts = 0

------------------------------------------------------------------------------
(* acquireDest, whatever the policy *)

\* A task begins to look for a pod.
Arrives(r) ==
  /\ phase[r] = "new"
  /\ phase' = [phase EXCEPT ![r] = "looking"]
  /\ \E x \in Rates[r] : rate' = [rate EXCEPT ![r] = x]
  /\ UNCHANGED <<rsVars, dest, restarts>>

Choose(r, p) ==
  /\ phase[r] = "looking"
  /\ phase' = [phase EXCEPT ![r] = "chosen"]
  /\ dest' = [dest EXCEPT ![r] = p]
  /\ UNCHANGED <<rsVars, rate, restarts>>

------------------------------------------------------------------------------
(* The counts, under the lock *)

\* A task of group -1 is not counted.
AddReqToRS(p, x) ==
  LET g == GetGroupIndex(x) IN
  /\ known' = known \cup {p}
  /\ reqs' = IF g = -1 THEN reqs ELSE [reqs EXCEPT ![p][g] = @ + 1]
  /\ ratesum' = IF g = -1 THEN ratesum ELSE [ratesum EXCEPT ![p] = @ + x]
  /\ jobnum' = IF g = -1 THEN jobnum ELSE [jobnum EXCEPT ![p] = @ + 1]

\* Mutant of Discounts: the count is not checked.
DiscountsUnchecked(p, x) == p \in known /\ GetGroupIndex(x) # -1

\* Mutant of Discounts: the last task of a group is never discounted.
DiscountsAboveOne(p, x) ==
  LET g == GetGroupIndex(x) IN p \in known /\ g # -1 /\ reqs[p][g] > 1

\* A report for an unknown pod, or for a group without tasks, changes nothing.
Discounts(p, x) ==
  LET g == GetGroupIndex(x) IN p \in known /\ g # -1 /\ reqs[p][g] > 0

\* Mutant of DelReqFromRS: the sum of the lengths is left alone.
DelReqKeepsRatesum(p, x) ==
  LET g == GetGroupIndex(x) IN
  /\ reqs' = IF Discounts(p, x) THEN [reqs EXCEPT ![p][g] = @ - 1] ELSE reqs
  /\ jobnum' = IF Discounts(p, x) THEN [jobnum EXCEPT ![p] = @ - 1] ELSE jobnum
  /\ UNCHANGED <<known, ratesum>>

DelReqFromRS(p, x) ==
  LET g == GetGroupIndex(x) IN
  /\ reqs' = IF Discounts(p, x) THEN [reqs EXCEPT ![p][g] = @ - 1] ELSE reqs
  /\ ratesum' = IF Discounts(p, x) THEN [ratesum EXCEPT ![p] = @ - x] ELSE ratesum
  /\ jobnum' = IF Discounts(p, x) THEN [jobnum EXCEPT ![p] = @ - 1] ELSE jobnum
  /\ UNCHANGED known

\* proxyRequest: the task is counted and sent.
Send(r) ==
  /\ phase[r] = "chosen"
  /\ phase' = [phase EXCEPT ![r] = "executing"]
  /\ AddReqToRS(dest[r], rate[r])
  /\ UNCHANGED <<rate, dest, restarts>>

\* The rate that /store parses: Atoi of the third word is 0 unless it is a whole number.
ReportedRate(r) == IF ReportsRate THEN rate[r] ELSE 0

\* The pod has executed the task and posts to /store.
Report(r) ==
  /\ phase[r] = "executing"
  /\ phase' = [phase EXCEPT ![r] = "reported"]
  /\ DelReqFromRS(dest[r], ReportedRate(r))
  /\ UNCHANGED <<rate, dest, restarts>>

\* The task ends and no report arrives: the pod was not reached or was killed, or
\* the post failed.
EndUnreported(r) ==
  /\ ReportsMayBeLost
  /\ phase[r] = "executing"
  /\ phase' = [phase EXCEPT ![r] = "unreported"]
  /\ UNCHANGED <<rsVars, rate, dest, restarts>>

\* The activator dies and starts again: a panic of serveRequest, the runtime's
\* "concurrent map read and map write", which the unlocked policies can cause, or
\* Kubernetes.
Restart ==
  /\ restarts < MaxRestarts
  /\ restarts' = restarts + 1
  /\ known' = {}
  /\ reqs' = [p \in Pod |-> [g \in Group |-> 0]]
  /\ ratesum' = [p \in Pod |-> 0]
  /\ jobnum' = [p \in Pod |-> 0]
  /\ phase' = [r \in Req |-> IF phase[r] \in {"looking", "chosen"} THEN "dropped" ELSE phase[r]]
  /\ UNCHANGED <<rate, dest>>

Next ==
  \/ \E r \in Req :
       Arrives(r) \/ (\E p \in Pod : Choose(r, p)) \/ Send(r) \/ Report(r) \/ EndUnreported(r)
  \/ Restart

Spec == Init /\ [][Next]_vars

------------------------------------------------------------------------------
(* Properties *)

\* The tasks of pod p that were sent and have not been discounted.
Outstanding(p) == {r \in Req : dest[r] = p /\ phase[r] \in {"executing", "unreported"}}

InGroup(p, g) == {r \in Outstanding(p) : GetGroupIndex(rate[r]) = g}

Counted(p) == {r \in Outstanding(p) : GetGroupIndex(rate[r]) # -1}

\* shared.go:96-141: as long as the activator lives, the counts of a pod are those
\* of the tasks it was sent and has not reported.
CountsOutstanding ==
  restarts = 0 =>
    \A p \in Pod :
      /\ \A g \in Group : reqs[p][g] = Cardinality(InGroup(p, g))
      /\ jobnum[p] = Cardinality(Counted(p))

\* shared.go:116: so is the sum of their lengths, on which the policies decide.
RatesumOutstanding ==
  restarts = 0 =>
    \A p \in Pod : ratesum[p] = MapThenSumSet(LAMBDA r : rate[r], Counted(p))

(* What the proofs of the two need beside them *)

\* A chosen task has a pod, and its pod is known once it was sent.
SentToPod ==
  \A r \in Req : phase[r] \notin {"new", "looking", "dropped"} => dest[r] \in Pod

SentIsKnown ==
  restarts = 0 => \A r \in Req : phase[r] \in {"executing", "unreported"} => dest[r] \in known

Accurate == TypeOK /\ SentToPod /\ SentIsKnown /\ CountsOutstanding /\ RatesumOutstanding

==============================================================================
