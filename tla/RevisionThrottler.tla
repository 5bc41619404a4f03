-------------------------- MODULE RevisionThrottler --------------------------
(***************************************************************************)
(* The revisionThrottler of throttler.go: requests pass the breaker of the *)
(* revision, choose a pod under the read lock and call their function;     *)
(* meanwhile the goroutine of Throttler.run applies the updates of the     *)
(* backends and of the activators, one at a time: it publishes the         *)
(* trackers, then assigns its slice of them, then sets the capacity of the *)
(* breaker, each under a lock of its own, and requests run in between.     *)
(*                                                                         *)
(* A pod is represented by a podTracker, with a breaker of its own if its  *)
(* concurrency is limited; a tracker is used again while its pod stays     *)
(* listed, and a pod that comes back gets a new one.  Breakers are         *)
(* knative's queue.Breaker, semaphores whose capacity can be changed.  An  *)
(* address is a number.                                                    *)
(***************************************************************************)
EXTENDS Slicing

CONSTANTS
  Req,                    \* the requests
  Pod,                    \* the addresses of the pods
  ClusterIP,              \* the address of the private service
  Nil,                    \* no address
  Updates,                \* the revisionDestsUpdates that arrive: [dests, viaClusterIP]
  Endpoints,              \* the sets of healthy activators that arrive, by their addresses
  SelfIP,                 \* the address of this activator
  MaxUpdates,             \* bound on the updates of either kind
  Setups,                 \* containerConcurrency and the policy that is compiled in
  RevisionMaxConcurrency  \* revisionMaxConcurrency

\* A podTracker: the address, and the update that made it, which tells it from others
\* of the same address.
Tracker == [dest : Pod, made : 1 .. MaxUpdates]

ASSUME ThrottlerAssumption ==
  /\ IsFiniteSet(Req)
  /\ Pod \subseteq Nat /\ IsFiniteSet(Pod)
  /\ ClusterIP \notin Pod \cup Tracker /\ Nil \notin Pod \cup Tracker \cup {ClusterIP}
  /\ Updates \subseteq [dests : SUBSET Pod, viaClusterIP : BOOLEAN]
  /\ Endpoints \subseteq SUBSET Nat /\ \A eps \in Endpoints : IsFiniteSet(eps)
  /\ SelfIP \in Nat
  /\ MaxUpdates \in Nat
  /\ Setups \subseteq Nat \X {"simpleRandomChoice2Policy", "firstAvailableLBPolicy"}
  /\ RevisionMaxConcurrency \in Nat \ {0}

VARIABLES
  containerConcurrency,
  lbPolicy,
  podTrackers,      \* podTrackers, their order being that of the addresses
  clusterIP,        \* is there a clusterIPTracker?
  assigned,         \* assignedTrackers
  numActivators,    \* numActivators
  activatorIndex,   \* activatorIndex, -1 while unknown
  backendCount,     \* backendCount
  capacity,         \* the capacity of the breaker
  updater,          \* the goroutine of Throttler.run: the next step of updateCapacity;
                    \* in "lock" it has called Lock
  backends,         \* its argument backendCount
  numTrackers,      \* its local numTrackers
  updates,          \* the number of updates so far
  direct,           \* history: has every update of backends listed a pod to reach directly?
  dropped,          \* history: the pods that lost their trackers
  call,             \* where each request is in try
  dest,             \* the tracker it acquired
  untried,          \* the targets that firstAvailableLBPolicy has not tried for it
  panic             \* an unrecovered panic ends the process

setup == <<containerConcurrency, lbPolicy>>
throttlerVars == <<podTrackers, clusterIP, assigned, numActivators, activatorIndex, backendCount>>
updaterVars   == <<updater, backends, numTrackers, updates, direct, dropped>>
vars == <<setup, throttlerVars, capacity, updaterVars, call, dest, untried, panic>>

TypeOK ==
  /\ <<containerConcurrency, lbPolicy>> \in Setups
  /\ podTrackers \subseteq Tracker
  /\ clusterIP \in BOOLEAN
  /\ assigned \subseteq Tracker
  /\ numActivators \in {0} \cup {Cardinality(eps) : eps \in Endpoints}
  /\ activatorIndex \in {-1} \cup {inferIndex(eps, SelfIP) : eps \in Endpoints}
  /\ backendCount \in 0 .. Cardinality(Pod)
  /\ capacity \in 0 .. RevisionMaxConcurrency
  /\ updater \in {"idle", "assign", "lock", "capacity"}
  /\ backends \in 0 .. Cardinality(Pod)
  /\ numTrackers \in 0 .. Cardinality(Pod)
  /\ updates \in 0 .. MaxUpdates
  /\ direct \in BOOLEAN /\ dropped \subseteq Pod
  /\ call \in [Req -> {"idle", "waiting", "admitted", "scanning", "acquired", "calling", "returned"}]
  /\ dest \in [Req -> Tracker \cup {ClusterIP, Nil}]
  /\ untried \in [Req -> SUBSET Tracker]
  /\ panic \in BOOLEAN

Init ==
  /\ \E s \in Setups : containerConcurrency = s[1] /\ lbPolicy = s[2]
  /\ podTrackers = {} /\ clusterIP = FALSE /\ assigned = {}
  /\ numActivators = 0 /\ activatorIndex = -1 /\ backendCount = 0
  /\ capacity = 0
  /\ updater = "idle" /\ backends = 0 /\ numTrackers = 0 /\ updates = 0
  /\ direct = TRUE /\ dropped = {}
  /\ call = [r \in Req |-> "idle"]
  /\ dest = [r \in Req |-> Nil]
  /\ untried = [r \in Req |-> {}]
  /\ panic = FALSE

------------------------------------------------------------------------------
(* try(ctx, function) *)

\* The requests that hold a slot of the breaker.
InBreaker == {r \in Req : call[r] \in {"admitted", "scanning", "acquired", "calling"}}

TryStarts(r) ==
  /\ ~panic
  /\ call[r] = "idle"
  /\ call' = [call EXCEPT ![r] = "waiting"]
  /\ UNCHANGED <<setup, throttlerVars, capacity, updaterVars, dest, untried, panic>>

\* breaker.Maybe obtains a slot.
Admitted(r) ==
  /\ ~panic
  /\ call[r] = "waiting"
  /\ Cardinality(InBreaker) < capacity
  /\ call' = [call EXCEPT ![r] = "admitted"]
  /\ UNCHANGED <<setup, throttlerVars, capacity, updaterVars, dest, untried, panic>>

\* breaker.Maybe returns ctx.Err().
GivesUp(r) ==
  /\ ~panic
  /\ call[r] = "waiting"
  /\ call' = [call EXCEPT ![r] = "returned"]
  /\ UNCHANGED <<setup, throttlerVars, capacity, updaterVars, dest, untried, panic>>

Address(d) == IF d \in {ClusterIP, Nil} THEN d ELSE d.dest

\* Any target: which two are drawn is random, and which of them has the smaller ratesum
\* depends on counts that are not part of this module (Routing has them).  Without a
\* target rand.Intn(0) panics.
simpleRandomChoice2Policy(r, targets) ==
  IF targets = {}
  THEN /\ panic' = TRUE
       /\ UNCHANGED <<call, dest, untried>>
  ELSE /\ \E t \in targets : dest' = [dest EXCEPT ![r] = t]
       /\ call' = [call EXCEPT ![r] = "acquired"]
       /\ UNCHANGED <<untried, panic>>

\* acquireDest: RLock returns, which it does not while a writer waits.
AcquiresDest(r) ==
  /\ ~panic
  /\ call[r] = "admitted"
  /\ updater # "lock"
  /\ IF clusterIP THEN /\ dest' = [dest EXCEPT ![r] = ClusterIP]
                       /\ call' = [call EXCEPT ![r] = "acquired"]
                       /\ UNCHANGED <<untried, panic>>
     ELSE \/ /\ lbPolicy = "simpleRandomChoice2Policy"
             /\ simpleRandomChoice2Policy(r, assigned)
          \/ /\ lbPolicy = "firstAvailableLBPolicy"
             /\ call' = [call EXCEPT ![r] = "scanning"]
             /\ untried' = [untried EXCEPT ![r] = assigned]
             /\ UNCHANGED <<dest, panic>>
  /\ UNCHANGED <<setup, throttlerVars, capacity, updaterVars>>

\* The slots that are taken of the breaker of tracker t, until cb releases them.
Taken(t) == {r \in Req : dest[r] = t /\ call[r] \in {"acquired", "calling"}}

\* The first target that is left, under the read lock: its slot is reserved, or the
\* scan goes on to the next one.  Without a limit a tracker has no breaker.
Reserve(r) ==
  /\ ~panic
  /\ call[r] = "scanning"
  /\ \E t \in untried[r] :
       /\ \A u \in untried[r] : t.dest <= u.dest
       /\ IF containerConcurrency = 0 \/ Cardinality(Taken(t)) < containerConcurrency
          THEN /\ dest' = [dest EXCEPT ![r] = t]
               /\ call' = [call EXCEPT ![r] = "acquired"]
               /\ untried' = [untried EXCEPT ![r] = {}]
          ELSE /\ untried' = [untried EXCEPT ![r] = @ \ {t}]
               /\ UNCHANGED <<call, dest>>
  /\ UNCHANGED <<setup, throttlerVars, capacity, updaterVars, panic>>

\* Mutant of Reenqueues: the request is not put back.
ReenqueuesNot(r) == FALSE

\* The policy returns (noop, nil): the request leaves the breaker and enters it again.
Reenqueues(r) ==
  /\ ~panic
  /\ call[r] = "scanning"
  /\ untried[r] = {}
  /\ call' = [call EXCEPT ![r] = "waiting"]
  /\ UNCHANGED <<setup, throttlerVars, capacity, updaterVars, dest, untried, panic>>

\* The function begins: proxyRequest counts the task on its pod and sends it.
CallsFunction(r) ==
  /\ ~panic
  /\ call[r] = "acquired"
  /\ call' = [call EXCEPT ![r] = "calling"]
  /\ UNCHANGED <<setup, throttlerVars, capacity, updaterVars, dest, untried, panic>>

\* The pod has reported and answered, the function returns, the slot is released.
FunctionReturns(r) ==
  /\ ~panic
  /\ call[r] = "calling"
  /\ call' = [call EXCEPT ![r] = "returned"]
  /\ dest' = [dest EXCEPT ![r] = Nil]
  /\ UNCHANGED <<setup, throttlerVars, capacity, updaterVars, untried, panic>>

Try(r) ==
  \/ TryStarts(r)
  \/ Admitted(r)
  \/ GivesUp(r)
  \/ AcquiresDest(r) \/ Reserve(r) \/ Reenqueues(r)
  \/ CallsFunction(r)
  \/ FunctionReturns(r)

------------------------------------------------------------------------------
(* updateCapacity(backendCount) *)

minOneOrValue(num) == IF num > 1 THEN num ELSE 1

\* A scan keeps the read lock.
NoReaders == \A r \in Req : call[r] # "scanning"

\* Mutant of calculateCapacity: no maximum.
capacityUnclamped(backendNum, trackers, activators) ==
  IF trackers > 0 THEN containerConcurrency * trackers
  ELSE IF backendNum = 0 THEN 0
  ELSE minOneOrValue((containerConcurrency * backendNum) \div minOneOrValue(activators))

calculateCapacity(backendNum, trackers, activators) ==
  LET shared == containerConcurrency * backendNum
      target == IF trackers > 0 THEN containerConcurrency * trackers
                ELSE IF shared > 0 THEN minOneOrValue(shared \div minOneOrValue(activators))
                ELSE 0
  IN  IF backendNum > 0 /\ (containerConcurrency = 0 \/ target > RevisionMaxConcurrency)
      THEN RevisionMaxConcurrency
      ELSE target

\* The pods that belong to the activator of this index.
Slice(index) ==
  ToSet(assignSlice(Sorted({t.dest : t \in podTrackers}), index, numActivators))

\* With unlimited concurrency every activator uses every pod.
MySlice ==
  IF containerConcurrency = 0 THEN podTrackers
  ELSE LET mine == Slice(activatorIndex) IN {t \in podTrackers : t.dest \in mine}

\* updateCapacity calls Lock, unless the cluster IP is used.
CallsLock ==
  /\ ~panic
  /\ updater = "assign"
  /\ updater' = IF clusterIP THEN "capacity" ELSE "lock"
  /\ numTrackers' = IF clusterIP THEN 0 ELSE numTrackers
  /\ UNCHANGED <<setup, throttlerVars, capacity, backends, updates, direct, dropped>>
  /\ UNCHANGED <<call, dest, untried, panic>>

\* Mutant of AssignTrackers: the new slice is added to the old one.
AddTrackers ==
  /\ ~panic
  /\ updater = "lock"
  /\ NoReaders
  /\ updater' = "capacity"
  /\ assigned' = assigned \cup MySlice
  /\ numTrackers' = Cardinality(MySlice)
  /\ UNCHANGED <<setup, podTrackers, clusterIP, numActivators, activatorIndex, backendCount>>
  /\ UNCHANGED <<capacity, backends, updates, direct, dropped, call, dest, untried, panic>>

\* The assigned trackers are written under the lock.
AssignTrackers ==
  /\ ~panic
  /\ updater = "lock"
  /\ NoReaders
  /\ updater' = "capacity"
  /\ assigned' = MySlice
  /\ numTrackers' = Cardinality(MySlice)
  /\ UNCHANGED <<setup, podTrackers, clusterIP, numActivators, activatorIndex, backendCount>>
  /\ UNCHANGED <<capacity, backends, updates, direct, dropped, call, dest, untried, panic>>

\* breaker.UpdateConcurrency(capacity)
UpdateConcurrency ==
  /\ ~panic
  /\ updater = "capacity"
  /\ updater' = "idle"
  /\ backendCount' = backends
  /\ capacity' = calculateCapacity(backends, numTrackers, numActivators)
  /\ UNCHANGED <<setup, podTrackers, clusterIP, assigned, numActivators, activatorIndex>>
  /\ UNCHANGED <<backends, numTrackers, updates, direct, dropped, call, dest, untried, panic>>

updateCapacity == CallsLock \/ AssignTrackers \/ UpdateConcurrency

\* An update is received, of backends or of activators.
UpdateArrives ==
  /\ ~panic
  /\ updater = "idle"
  /\ updates < MaxUpdates
  /\ updates' = updates + 1

\* The trackers are published under the lock; then updateCapacity(backendNum) runs.
updateThrottlerState(backendNum, trackers, viaClusterIP) ==
  /\ NoReaders
  /\ podTrackers' = trackers
  /\ clusterIP' = viaClusterIP
  /\ backends' = IF viaClusterIP \/ trackers # {} THEN backendNum ELSE 0
  /\ updater' = "assign"

\* Mutant of TrackersOf: every pod gets a new tracker.
TrackersAnew(dests) == [dest : dests, made : {updates'}]

\* The trackers of listed pods: the existing ones, and new ones for the others.
TrackersOf(dests) ==
  LET reused == {t \in podTrackers : t.dest \in dests}
  IN  reused \cup [dest : dests \ {t.dest : t \in reused}, made : {updates'}]

\* What the runs' properties need to know of the past.
Remember(update) ==
  /\ direct' = (direct /\ update.dests # {} /\ ~update.viaClusterIP)
  /\ dropped' = dropped \cup
       {t.dest : t \in {u \in podTrackers : update.viaClusterIP \/ u.dest \notin update.dests}}

\* Mutant of handleUpdate: the capacity is set before the trackers are assigned.
handleUpdateCapacityFirst(update) ==
  /\ UpdateArrives
  /\ Remember(update)
  /\ updateThrottlerState(Cardinality(update.dests),
                          IF update.viaClusterIP THEN {} ELSE TrackersOf(update.dests),
                          update.viaClusterIP)
  /\ capacity' = calculateCapacity(backends', Cardinality(podTrackers'), numActivators)
  /\ UNCHANGED <<setup, assigned, numActivators, activatorIndex, backendCount>>
  /\ UNCHANGED <<numTrackers, call, dest, untried, panic>>

handleUpdate(update) ==
  /\ UpdateArrives
  /\ Remember(update)
  /\ updateThrottlerState(Cardinality(update.dests),
                          IF update.viaClusterIP THEN {} ELSE TrackersOf(update.dests),
                          update.viaClusterIP)
  /\ UNCHANGED <<setup, assigned, numActivators, activatorIndex, backendCount>>
  /\ UNCHANGED <<capacity, numTrackers, call, dest, untried, panic>>

\* Mutant of handlePubEpsUpdate: the slice is not assigned anew.
notePubEpsUpdate(eps) ==
  /\ UpdateArrives
  /\ SelfIP \in eps
  /\ numActivators' = Cardinality(eps)
  /\ activatorIndex' = inferIndex(eps, SelfIP)
  /\ UNCHANGED <<setup, podTrackers, clusterIP, assigned, backendCount, updater, backends>>
  /\ UNCHANGED <<capacity, numTrackers, direct, dropped, call, dest, untried, panic>>

\* An update without this activator changes nothing, nor does one that leaves its place.
handlePubEpsUpdate(eps) ==
  /\ UpdateArrives
  /\ LET newNA == Cardinality(eps)
         newAI == inferIndex(eps, SelfIP)
     IN  /\ newAI # -1
         /\ numActivators # newNA \/ activatorIndex # newAI
         /\ numActivators' = newNA
         /\ activatorIndex' = newAI
  /\ backends' = backendCount
  /\ updater' = "assign"
  /\ UNCHANGED <<setup, podTrackers, clusterIP, assigned, backendCount>>
  /\ UNCHANGED <<capacity, numTrackers, direct, dropped, call, dest, untried, panic>>

run ==
  \/ \E update \in Updates : handleUpdate(update)
  \/ \E eps \in Endpoints : handlePubEpsUpdate(eps)
  \/ updateCapacity

Next == run \/ \E r \in Req : Try(r)

Spec == Init /\ [][Next]_vars

\* Requests and the updates that have begun go on, and functions return: the
\* handler chain ends each of them by a timeout.
FairSpec ==
  /\ Spec
  /\ WF_vars(updateCapacity)
  /\ \A r \in Req : WF_vars(Admitted(r) \/ AcquiresDest(r) \/ Reserve(r) \/ Reenqueues(r)
                                \/ CallsFunction(r) \/ FunctionReturns(r))

------------------------------------------------------------------------------
(* Properties *)

\* lb_policy.go:30 "(noop, nil) if no such target can be currently acquired": a request
\* that has passed the breaker may find no tracker, and no policy panics over it.
RequestsFindATracker == ~panic

\* throttler.go:344 "capacity is updated after the trackers, else a request falls
\* through before a tracker is added": while a revision is reached directly and has
\* always had a pod, no admitted request finds an empty list.
DirectFindsATracker == direct => ~panic

\* throttler.go:302, 657 and 255: between two updates the assigned trackers are this
\* activator's slice of the pods of the last one, and the breaker admits what those
\* pods can take, nothing only when there is no backend.
Settled ==
  updater = "idle" =>
    /\ ~clusterIP => assigned = MySlice
    /\ LET slots == containerConcurrency * Cardinality(assigned) IN
       ~clusterIP /\ containerConcurrency > 0 =>
         capacity = IF slots > RevisionMaxConcurrency THEN RevisionMaxConcurrency ELSE slots
    /\ capacity = 0 <=> backendCount = 0

\* throttler.go:384-400 and 660: the activators of an endpoints list, who never talk to
\* each other but find their own place in it, leave no pod out, share none if there are
\* enough, and no activator or pod has two more than another.
SlicesPartition ==
  \A eps \in Endpoints :
    LET pods     == {t.dest : t \in podTrackers}
        slice    == [a \in eps |-> Slice(inferIndex(eps, a))]
        Users(p) == {a \in eps : p \in slice[a]}
    IN  numActivators > 0 /\ Cardinality(eps) = numActivators =>
          /\ UNION {slice[a] : a \in eps} = pods
          /\ 1 < Cardinality(pods) =>
               /\ numActivators <= Cardinality(pods) => \A p \in pods : Cardinality(Users(p)) = 1
               /\ \A a, b \in eps : Cardinality(slice[a]) <= Cardinality(slice[b]) + 1
               /\ \A p, q \in pods : Cardinality(Users(p)) <= Cardinality(Users(q)) + 1

\* throttler.go:245 "we already reserved a guaranteed spot": with firstAvailableLBPolicy
\* no pod that stayed listed gets more requests than it takes, however updates and
\* requests interleave.
PodsNotOverbooked ==
  lbPolicy = "firstAvailableLBPolicy" /\ containerConcurrency > 0 =>
    \A p \in Pod \ dropped :
      Cardinality({r \in Req : Address(dest[r]) = p /\ call[r] \in {"acquired", "calling"}})
        <= containerConcurrency

\* throttler.go:425-456: once an update is applied no request chooses a pod that it
\* no longer lists, nor a tracker that was replaced, nor the cluster IP when it does not
\* name one.
NoStaleDest ==
  [][\A r \in Req :
       call[r] # "acquired" /\ call'[r] = "acquired" /\ updater \notin {"assign", "lock"} =>
         IF clusterIP THEN dest'[r] = ClusterIP ELSE dest'[r] \in podTrackers]_vars

\* throttler.go:526 "waits for capacity and then executes function", and 231 "retrying
\* infinitely": a request returns, however often it is put back, while the revision has
\* a backend.
RequestReturns ==
  \A r \in Req :
    call[r] = "waiting" ~> (call[r] = "returned" \/ panic \/ (podTrackers = {} /\ ~clusterIP))

(* What the proofs need beside them *)

PlaceKnown ==
  \/ numActivators = 0 /\ activatorIndex = -1
  \/ activatorIndex \in 0 .. numActivators - 1

\* A listed pod has one tracker, and none is kept while the cluster IP is used.
TrackerPerPod ==
  /\ \A t, u \in podTrackers : t.dest = u.dest => t = u
  /\ clusterIP => podTrackers = {}

\* The backends of the update that is being applied, or that was the last one.
BackendsCounted ==
  LET known == IF updater = "idle" THEN backendCount ELSE backends
  IN  ~clusterIP => (podTrackers = {} <=> known = 0)

\* The slice is assigned before the capacity is set, and stays until the next update.
SliceApplied ==
  /\ updater \in {"idle", "capacity"} /\ ~clusterIP => assigned = MySlice
  /\ updater = "capacity" => numTrackers = IF clusterIP THEN 0 ELSE Cardinality(MySlice)

\* The read lock: a scan goes through trackers that are assigned.
ScansAssigned == \A r \in Req : call[r] = "scanning" => ~clusterIP /\ untried[r] \subseteq assigned

\* While every update lists a pod, nobody passes the breaker before a tracker is assigned.
AssignedBeforeAdmitted ==
  direct => /\ ~clusterIP /\ ~panic
            /\ assigned # {} => podTrackers # {}
            /\ assigned = {} => capacity = 0 /\ InBreaker = {}

\* A tracker that is assigned or in use is listed, or its pod was dropped.
ListedOrDropped ==
  /\ \A t \in assigned : t \in podTrackers \/ t.dest \in dropped
  /\ \A r \in Req : dest[r] \in Tracker => dest[r] \in podTrackers \/ dest[r].dest \in dropped

\* firstAvailableLBPolicy takes no slot that a tracker does not have.
SlotsKept ==
  lbPolicy = "firstAvailableLBPolicy" /\ containerConcurrency > 0 =>
    \A t \in Tracker : Cardinality(Taken(t)) <= containerConcurrency

ThrottlerInv ==
  /\ TypeOK
  /\ PlaceKnown
  /\ TrackerPerPod
  /\ BackendsCounted
  /\ SliceApplied
  /\ Settled
  /\ ScansAssigned
  /\ AssignedBeforeAdmitted
  /\ ListedOrDropped
  /\ SlotsKept

==============================================================================
