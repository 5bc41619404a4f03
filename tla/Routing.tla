------------------------------- MODULE Routing -------------------------------
(***************************************************************************)
(* How a task finds its pod: acquireDest of throttler.go holds the read    *)
(* lock of the revision throttler while a policy of lb_policy.go chooses   *)
(* one of the assigned trackers by the counts of requestStatic, and the    *)
(* late policies hold it until a pod is idle.  Meanwhile the goroutine of  *)
(* Throttler.run applies updates, each under the write lock twice; like    *)
(* every Go RWMutex it lets in no new reader once a writer waits.          *)
(*                                                                         *)
(* The breaker is open and the pods are reached directly; RevisionThrottler*)
(* has the other cases.                                                    *)
(***************************************************************************)
EXTENDS RequestStatic

CONSTANTS
  Updates,     \* the lists of trackers that are assigned
  MaxUpdates   \* bound on the updates

ASSUME RoutingAssumption ==
  /\ Pod \subseteq Nat
  /\ Updates \subseteq (SUBSET Pod) \ {{}} /\ \A targets \in Updates : IsFiniteSet(targets)
  /\ MaxUpdates \in Nat

VARIABLES
  policy,     \* the policy that is compiled in
  idx,        \* the idx of a round robin policy
  pair,       \* the two trackers that a policy has drawn
  assigned,   \* assignedTrackers
  listed,     \* the trackers of the update that is being applied
  updater,    \* the goroutine of Throttler.run; "publish" and "assign" wait for the lock
  updates     \* the number of updates so far

updaterVars == <<assigned, listed, updater, updates>>
routingVars == <<vars, policy, idx, pair, updaterVars>>

EarlyPolicies == {"simpleRandomChoice2Policy", "simpleRandomChoice2Policy by jobs"}
LatePolicy == "lateRandomChoice2Policy"
RoundRobinPolicies == {"pureRoundRobinPolicy", "newRoundRobinPolicy"}

NoPair == <<Nil, Nil>>

RoutingTypeOK ==
  /\ TypeOK
  /\ policy \in EarlyPolicies \cup {LatePolicy} \cup RoundRobinPolicies
  /\ idx \in Nat
  /\ pair \in [Req -> (Pod \cup {Nil}) \X (Pod \cup {Nil})]
  /\ assigned \in Updates /\ listed \in Updates
  /\ updater \in {"idle", "publish", "published", "assign"}
  /\ updates \in 0 .. MaxUpdates

\* A first update has been applied.
RoutingInit ==
  /\ Init
  /\ policy \in EarlyPolicies \cup {LatePolicy} \cup RoundRobinPolicies
  /\ idx = 0
  /\ pair = [r \in Req |-> NoPair]
  /\ assigned \in Updates /\ listed = assigned
  /\ updater = "idle" /\ updates = 0

------------------------------------------------------------------------------
(* What the policies read of requestStatic, without its lock *)

CheckPodBusy(p) == ratesum[p] # 0

ChoosePodByRate(p, q) == IF ratesum[p] > ratesum[q] THEN q ELSE p

ChoosePodByNumOfJobs(p, q) == IF jobnum[p] > jobnum[q] THEN q ELSE p

\* The empty string of ChooseIdlePod is Nil.
ChooseIdlePod(p, q) == IF ~CheckPodBusy(p) THEN p ELSE IF ~CheckPodBusy(q) THEN q ELSE Nil

------------------------------------------------------------------------------
(* The policies *)

\* Two different trackers, or the only one twice.
Drawn(targets) == {d \in targets \X targets : d[1] # d[2] \/ targets = {d[1]}}

simpleRandomChoice2Policy(r, p) ==
  /\ policy \in EarlyPolicies
  /\ p = IF policy = "simpleRandomChoice2Policy" THEN ChoosePodByRate(pair[r][1], pair[r][2])
         ELSE ChoosePodByNumOfJobs(pair[r][1], pair[r][2])
  /\ UNCHANGED idx

\* It looks until one of the two is idle; a single pod is not looked at.
lateRandomChoice2Policy(r, p) ==
  /\ policy = LatePolicy
  /\ p = IF pair[r][1] = pair[r][2] THEN pair[r][1] ELSE ChooseIdlePod(pair[r][1], pair[r][2])
  /\ UNCHANGED idx

\* The trackers are sorted by address.
Target(i) ==
  CHOOSE p \in assigned : Cardinality({q \in assigned : q < p}) = i % Cardinality(assigned)

\* idx, or 0 if the number of trackers has shrunk.
Start == IF idx >= Cardinality(assigned) THEN 0 ELSE idx

\* Mutant of pureRoundRobinPolicy: the index stays.
pureFirstPolicy(p) == policy = "pureRoundRobinPolicy" /\ p = Target(Start) /\ UNCHANGED idx

pureRoundRobinPolicy(p) ==
  /\ policy = "pureRoundRobinPolicy"
  /\ p = Target(Start)
  /\ idx' = (Start + 1) % Cardinality(assigned)

\* It goes round until a pod is idle.
newRoundRobinPolicy(p) ==
  /\ policy = "newRoundRobinPolicy"
  /\ \E i \in 0 .. Cardinality(assigned) - 1 :
       /\ p = Target(Start + i)
       /\ ~CheckPodBusy(p)
       /\ \A j \in 0 .. i - 1 : CheckPodBusy(Target(Start + j))
       /\ idx' = (Start + i + 1) % Cardinality(assigned)

------------------------------------------------------------------------------
(* acquireDest *)

\* The updater has called Lock and waits for the readers.
WriterWaits == updater \in {"publish", "assign"}

\* Mutant of NoReaders: the writer does not wait.
ReadersIgnored == WriterWaits

NoReaders == WriterWaits /\ \A r \in Req : phase[r] # "looking"

\* rt.mux.RLock() returns, and a policy of two choices draws them.
BeginsToLook(r) ==
  /\ ~WriterWaits
  /\ Arrives(r)
  /\ \E d \in IF policy \in RoundRobinPolicies THEN {NoPair} ELSE Drawn(assigned) :
       pair' = [pair EXCEPT ![r] = d]
  /\ UNCHANGED <<policy, idx, updaterVars>>

\* The policy returns a tracker and the read lock is released.
AcquiresDest(r) ==
  /\ \E p \in (assigned \cup {pair[r][1], pair[r][2]}) \ {Nil} :
       /\ Choose(r, p)
       /\ \/ simpleRandomChoice2Policy(r, p)
          \/ lateRandomChoice2Policy(r, p)
          \/ pureRoundRobinPolicy(p)
          \/ newRoundRobinPolicy(p)
  /\ pair' = [pair EXCEPT ![r] = NoPair]
  /\ UNCHANGED <<policy, updaterVars>>

TaskSteps(r) ==
  /\ Send(r) \/ Report(r) \/ EndUnreported(r)
  /\ UNCHANGED <<policy, idx, pair, updaterVars>>

------------------------------------------------------------------------------
(* handleUpdate *)

UpdateArrives ==
  /\ updater = "idle"
  /\ updates < MaxUpdates
  /\ updates' = updates + 1
  /\ \E targets \in Updates : listed' = targets
  /\ updater' = "publish"
  /\ UNCHANGED <<vars, policy, idx, pair, assigned>>

\* updateThrottlerState writes the trackers, which no policy reads, and unlocks.
Publishes ==
  /\ updater = "publish"
  /\ NoReaders
  /\ updater' = "published"
  /\ UNCHANGED <<vars, policy, idx, pair, assigned, listed, updates>>

\* updateCapacity calls Lock again.
LocksAgain ==
  /\ updater = "published"
  /\ updater' = "assign"
  /\ UNCHANGED <<vars, policy, idx, pair, assigned, listed, updates>>

Assigns ==
  /\ updater = "assign"
  /\ NoReaders
  /\ updater' = "idle"
  /\ assigned' = listed
  /\ UNCHANGED <<vars, policy, idx, pair, listed, updates>>

handleUpdate == Publishes \/ LocksAgain \/ Assigns

\* The restarted activator, too, has applied an update before it admits a task.
RoutingRestart ==
  /\ Restart
  /\ idx' = 0
  /\ pair' = [r \in Req |-> NoPair]
  /\ updater' = "idle"
  /\ assigned' \in Updates /\ listed' = assigned'
  /\ UNCHANGED <<policy, updates>>

RoutingNext ==
  \/ \E r \in Req : BeginsToLook(r) \/ AcquiresDest(r) \/ TaskSteps(r)
  \/ UpdateArrives
  \/ handleUpdate
  \/ RoutingRestart

RoutingSpec == RoutingInit /\ [][RoutingNext]_routingVars

\* The policies keep looking, goroutines run, and pods finish what they were sent.
RoutingFairSpec ==
  /\ RoutingSpec
  /\ WF_routingVars(handleUpdate)
  /\ \A r \in Req : WF_routingVars(BeginsToLook(r) \/ AcquiresDest(r) \/ TaskSteps(r))

------------------------------------------------------------------------------
(* Properties *)

\* Every report arrives, and the activator has not restarted.
Undisturbed == restarts = 0 /\ \A r \in Req : phase[r] # "unreported"

\* lb_policy.go:32 "while podTrackers themselves can change during this call, the list
\* and pointers therein are immutable": no update changes the list while a policy looks.
TargetsArePinned ==
  \A r \in Req : phase[r] = "looking" =>
    pair[r] = NoPair \/ {pair[r][1], pair[r][2]} \subseteq assigned

\* lb_policy.go:108 "send to targets[idx], then idx + 1": as long as the list stays, no
\* pod is sent two tasks more than another one, in whatever order the tasks come.
RoundRobinIsEven ==
  policy = "pureRoundRobinPolicy" /\ updates = 0 /\ restarts = 0 =>
    \A p, q \in assigned :
      Cardinality({r \in Req : dest[r] = p}) <= Cardinality({r \in Req : dest[r] = q}) + 1

\* lb_policy.go:172 "pick two at random and send to the one that becomes idle
\* first": every policy finds a pod for every task, also for those that an update
\* keeps out of the lock, because pods that have reported everything are idle again.
EveryTaskIsBound ==
  <>((\A r \in Req : phase[r] \notin {"new", "looking"}) \/ ~Undisturbed)

\* throttler.go:296-337: an update ends although policies spin under the read lock that
\* it waits for: those that hold it find a pod.
UpdateEnds == updater # "idle" ~> (updater = "idle" \/ ~Undisturbed)
(* What the proofs need beside them *)

\* A task gets its pod once.
ChosenOnce == \A r \in Req : phase[r] \in {"new", "looking"} => dest[r] = Nil

SentTo(p) == {r \in Req : dest[r] = p}

\* Is p before the index, in the order of the addresses?
Passed(p) == Cardinality({q \in assigned : q < p}) < idx

\* The pods that this round has passed were sent one task more than the others.
RoundsAreEven ==
  policy = "pureRoundRobinPolicy" /\ updates = 0 /\ restarts = 0 =>
    /\ updater = "idle"
    /\ idx < Cardinality(assigned)
    /\ \A p, q \in assigned :
         Cardinality(SentTo(p)) + (IF Passed(q) THEN 1 ELSE 0) =
           Cardinality(SentTo(q)) + (IF Passed(p) THEN 1 ELSE 0)

RoutingInv == RoutingTypeOK /\ SentToPod /\ TargetsArePinned /\ ChosenOnce /\ RoundsAreEven

==============================================================================
