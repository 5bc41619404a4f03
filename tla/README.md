# Verification of the knative-redis-bench activator

The repository modifies the activator of Knative serving (`src/modified-knative-file/`)
so that it queues serverless tasks itself, and compares scheduling policies on two
benchmark services (`src/slb-simplified/`). This directory holds TLA+ modules translated
from that code, the TLC runs that check them on small instances, and TLAPS proofs of the
facts that hold for every instance. `PROJECT.json` lists, for every definition, the lines
it models.

## 1. The system

A client posts a task to the activator. Its *HandlerFunc* (`handler.go:201-289`) makes a
`done` channel, hands the request to `AddReq` (`queue.go:147`) and waits in a `select` for
`done` or for its own timeout. A single goroutine, the *manager* (`ManageQueue`,
`queue.go:190`, started at `main.go:244`), takes tasks out of the queue and starts
`serveRequest` for each. `serveRequest` runs the handler chain: `activationHandler.ServeHTTP`
calls `Throttler.Try`, which finds the revision's throttler, passes its breaker, lets a
load balancing policy choose a pod and calls a function that counts the task in
`requestStatic` and proxies it to the pod. The pod executes the task and posts a report to
the activator's `/store`, which discounts it.

| Component | State | Operations | Interacts with |
|---|---|---|---|
| Queue, `queue.go` | `Queue` and its mutex and condition variable, each unit's timer and `done`, `MaxQueueActualLen` | `AddReq`, `AddReq12`, `AddReq0`; `ManageQueue`, `ManageQueue1`, `ManageQueueEarly`, `ManageQueueLate`; `serveRequest` | HandlerFuncs (through `done`), throttler (through `ServeHTTP` and `schedulingDone`) |
| HTTP handlers, `handler.go` | one goroutine per request, its timeout; for a real-world sequence its length, its position, its pauses | HandlerFuncs, `ServeHTTP`, `proxyRequest` | queue, throttler, `requestStatic` |
| `requestStatic`, `shared.go` and `/store` in `main.go` | tasks per pod: count by length group, sum of lengths, number | `AddReqToRS`, `DelReqFromRS`, `ChoosePodByRate`, `ChooseIdlePod` | `proxyRequest` adds, the pods' reports subtract, the policies read without the lock |
| Policies, `lb_policy.go` | an index (round robin) | `simpleRandomChoice2Policy` (compiled in), `lateRandomChoice2Policy` (its alternative), five more that the code keeps for its experiments | throttler, `requestStatic` |
| Revision throttler, `throttler.go` | trackers, assigned slice, cluster IP, numbers of activators and backends, breaker | `try`, `acquireDest`, `updateCapacity`, `handleUpdate`, `handlePubEpsUpdate` | requests; `Throttler.run` feeds the updates |
| Slicing, `throttler.go` | none | `inferIndex`, `pickIndices`, `assignSlice` | all activators must agree |
| Throttler map, `throttler.go` | `revisionThrottlers` | `getOrCreateRevisionThrottler`, `revisionUpdated`, `revisionDeleted` | requests, informer |
| Infinite breaker, `throttler.go` | `concurrency`, `broadcast` | `Maybe`, `UpdateConcurrency` | revision throttler |
| Workload, `real_world_support.go`, `shared.go` | tables | `GetGroupIndex`, random draws | queue, `requestStatic` |
| Pods, `slb-simplified/` | none shared | execute and report | `/store` |
| Process, `main.go` | serving, draining, closing | SIGTERM, a sleep, `Shutdown` of the servers, exit | HandlerFuncs (which it waits for), the queue and its goroutines (which it does not) |
| Statistics, deployment | | | commented out, or wiring |

What is hard here, and tested nowhere in the repository:

- **Interleaving.** `ManageQueue` releases the mutex between two list elements and keeps
  the element; `AddReq` runs in between. `infiniteBreaker.Maybe` reads the concurrency
  without the lock. A throttler update takes three critical sections.
- **Two closers of one channel.** `serveRequest` and the HandlerFunc both close `done`,
  each on a timer of its own, and nothing but the lengths of the timers keeps them apart.
- **Order.** A pod is chosen, `schedulingDone` closed and the task counted in that order,
  without a common lock.
- **Locks.** The late policies spin under the throttler's read lock, for which updates wait,
  and new readers wait behind them.
- **Loss.** Pods may not report; the activator may restart with empty counts; files that
  fill the tables of random numbers may be missing; the process ends while goroutines that
  `main` does not know of still run.
- **Progress.** Pods need not answer; the late policies spin; requests that find no free
  pod are put back "infinitely" (`throttler.go:231`).

`PROJECT.json` lists these as hazards, each at its line.

## 2. The modules

| Module | Models | Correspondence |
|---|---|---|
| `TaskQueue` | what all experiments share: `serveRequest`, the HandlerFunc's `select`, `Signal` and `Wait`, timers, the `schedulingDone` hook | a critical section is one step; `serve[r]` and `handler[r]` are the program counters of the two goroutines of a task; a timer is the number of ticks it has left |
| `Workload` | `GetGroupIndex` and the condition for preemption in `AddReq` | pure; exact integers |
| `PreemptiveQueue` | `AddReq` and `ManageQueue` (experiments 3 and 4) | `cursor` is the list element `e` that is kept across the unlock |
| `SimplePreempt` | `AddReq12` with `ManageQueue1` (experiment 1) or `ManageQueue` (2) | `experiment` is fixed at start, as it is by the code that is commented in |
| `BindingQueue` | `AddReq0`, `ManageQueueEarly`, `ManageQueueLate`, and under `serveRequest` the draw, the choice, the hook, the record and the report | `late` is fixed at start; `requestStatic` is the set of tasks recorded on each pod |
| `TaskLifecycle` | abstract: what the queue promises its clients | implemented by `PreemptiveQueue`, `SimplePreempt` and `BindingQueue` (`ImplementsLifecycle`) |
| `RealWorld` | the HandlerFunc of a real-world sequence on top of `PreemptiveQueue`, the random draws with missing tables, and `main` from SIGTERM to exit | `at[s]` is the program counter of a sequence, `submitted[s]` its `seq`; a row of a table is a key and a probability out of `Scale` |
| `RequestStatic` | the counts of `shared.go`, `/store`, lost reports, restarts; any pod may be chosen | choosing, sending and reporting are separate steps |
| `Routing` | five policies that choose by those counts under the read lock of the throttler, against updates that take the write lock twice | `policy` is fixed at start, as it is by the code that is commented in; `updater` in `publish` or `assign` has called `Lock` and waits; it lets no new reader in |
| `Slicing` | the three functions that slice the pods: an activator's index among the others, the positions of an index, the trackers there | operators on sorted sequences; an address is a number |
| `RevisionThrottler` | `try` with its retries, the breakers of revision and pods, two policies, against the updates of `Throttler.run` | `updater` is the place between two critical sections of an update; a tracker is the address and the update that made it; `firstAvailableLBPolicy` reserves step by step, for other requests return meanwhile; `simpleRandomChoice2Policy` may choose any assigned tracker, since the counts by which it compares two are in `Routing`; an update of the activators is the set of their addresses, in which this one finds its index |
| `ThrottlerMap` | `getOrCreateRevisionThrottler` against the informer | two looks are two steps; a revision can be created again under its name |
| `InfiniteBreaker` | `Maybe` against `UpdateConcurrency` | the atomic swap and the write of the channel are two steps under the lock |

`PreemptiveQueue`, `BindingQueue` extend `TaskQueue`; `SimplePreempt` and `RealWorld` extend
`PreemptiveQueue`; `Routing` extends `RequestStatic`; `RevisionThrottler` extends `Slicing`.
What composes components is thus `RealWorld` (handler, queue, process), `BindingQueue`
(queue, hook, policy, pods) and `Routing` (policies, counts, throttler's lock). Each `MC*` module gives the
constants of a specification small values. Operators whose comment begins "Mutant of"
are deliberately wrong variants of the definition that follows them, used to confirm that
each property notices such a mistake.

## 3. The runs

| Run | Checks | Bounds |
|---|---|---|
| `preemptive_anytime` | type, `NoLostWakeup`, `CursorInQueue`, `QueuedOnce`, `WaiterIsOwedClose`, `ImplementsLifecycle`, with goroutines late by any amount | 3 requests, queue of 2, one length served at once and one queued |
| `real_world` | `NoDoubleClose`, `ContextOutlivesTask`, `TasksInOrder`, `ExitLosesNoTask`, `QueuedIsServed`, `SequenceReturns`, `DrainEnds` with timeouts ordered as the real-world service has them, 320 > 4 + 300 s | 2 sequences, of at most two tasks and of one; queue of 1; 3 > 1 + 1 ticks; a pause of a tick; the tables of lengths and of intervals may be missing |
| `preemptive_alu` | `NoDoubleClose` is violated with the order of the ALU service, 120 < 300 s | 2 requests |
| `simple` | `FrontIsShortest` for experiment 1, with experiment 2 beside it | 4 requests of 2 lengths, queue of 3 |
| `binding` | type, `ScheduledOneByOne`, `HookClosesOnce`, `ImplementsLifecycle`, `QueuedIsTaken` for early and late binding | 2 requests, 2 pods, queue of 1 |
| `binding_race` | `LateBindsToIdle` is violated | 2 requests, 2 pods |
| `routing` | type with counts that never become negative, `CountsOutstanding`, `RatesumOutstanding`, `TargetsArePinned`, `RoundRobinIsEven`, `EveryTaskIsBound`, `UpdateEnds` for each of five policies | 3 tasks of 3 lengths (one without a group), 2 pods, 1 update, 1 restart |
| `alu_report` | `RatesumOutstanding` is violated by the reports of the ALU pods | the same without update and restart |
| `throttler` | type, `Settled`, `DirectFindsATracker`, `SlicesPartition`, `PodsNotOverbooked`, `NoStaleDest`, `RequestReturns` | 2 requests, up to 5 pods, 2 or 3 activators or others only, 3 updates of any kind; unlimited pods, or one request per pod with either policy |
| `throttler_zero` | `RequestsFindATracker` is violated | 1 request, 2 updates |
| `throttler_map` | `NoDeadThrottler`, `OneThrottler`, `BacklogIsReady` | 3 goroutines, 3 incarnations |
| `breaker` | type, `BroadcastClosedOnce`, `WaitsOnTheBroadcast`, `WaitersAreReleased` | 3 requests, 5 updates |

Why the bounds suffice. With three requests and a queue of two, one request is in the
manager's hand while another one is queued and a third one arrives, at a full queue too.
Two sequences have at most two tasks in flight, so a queue of one is what fills up in
`real_world`; a sequence of two tasks has a predecessor and a successor, a pause and an end
without one. A tick is the shortest time in which the relevant timers differ: only the
order of the timeouts matters to the properties, and the proofs below cover all lengths.
Two pods are what a policy compares; two requests at two pods are what the races need, the
third one waits behind a writer. Three updates of a throttler let every kind (pods, none,
cluster IP, activators) follow every other one on a non-empty state; five pods for three
activators leave two remnants. `Slicing` has no run of its own: `SlicesPartition` evaluates
the slices of all activators, at the indices that they infer, in every state of the throttler.

Named bounds: `MaxUpdates`, `MaxRestarts`, `MaxIncarnations` and `MaxThrottlers` only end
the behaviours, and `MaxThrottlers` is never reached; `MaxPause` and `MaxWait` bound times;
`Len(TaskOf[s])` bounds the length that a sequence may draw. `CHECK_DEADLOCK FALSE` is set
everywhere because each request of an instance is used once, after which the system rests.

Time. `Prompt = FALSE` lets time pass whatever is pending: goroutines are as late as the
scheduler pleases. `Prompt = TRUE` lets a timer tick only when no goroutine that could
run has been left standing: the assumption that runs with a guarantee on timeouts need.
It still does not oblige a pod to answer, nor order steps that happen at the same time.

Fairness. Weak fairness is assumed for goroutines that can run (the manager, the start of
`serveRequest`, the steps of a HandlerFunc, of `main` after SIGTERM and of a begun update)
and for clocks: Go's scheduler is preemptive and fair. None is assumed for clients, pods or
the Kubernetes API, with two exceptions: in `throttler` a function that was called returns,
because the handler chain ends every request by a timeout; and in `routing` a task that was
sent ends, reported or not. `EveryTaskIsBound` and `UpdateEnds` excuse themselves when a
report is lost or the activator restarts, since the late policies then spin for ever, as
the code does. `SequenceReturns` and `DrainEnds` excuse a sequence whose interval is drawn
from a missing table with no deviation, which hangs in the code too.

## 4. Where code and comments disagree

Runs that end in a counterexample:

- `preemptive_alu`: the ALU HandlerFunc closes `done` after 120 s, `serveRequest` closes
  it again if the task ends before 300 s. The second close is in a goroutine that nothing
  recovers. The comment at `queue.go:223` says the arrangement avoids closing twice, which
  is true of the real-world service only (section 5).
- `binding_race`: `schedulingDone` is closed before the task is counted, so the next task
  may be sent to the same, seemingly idle pod; `lb_policy.go:172` promises an idle one.
- `throttler_zero`: `simpleRandomChoice2Policy` calls `rand.Intn(0)` for a request that
  passed the breaker before the revision was scaled to zero; `lb_policy.go:30` and
  `throttler.go:240` say that the policy returns nil and the request is put back. The same
  happens between two steps of a change from the cluster IP to pods.
  `DirectFindsATracker` shows that it happens only then.

- `alu_report`: `/store` takes the third word of a report for the rate (`main.go:223`). The
  ALU pods put a time with a decimal point there (`alu.py:61`), `Atoi` yields 0, and the sum
  of lengths by which the policies choose is never reduced, which `shared.go:121` says it is.
  The late policies then find no idle pod. All other runs about the counts assume
  `ReportsRate`, as the real-world pods do (`__main__.py:76`).

Seen while modelling, plain from the lines and without a run of their own:

- As committed, `handler.go:128` closes the `schedulingDone` of the context, which `AddReq`
  never puts there: the first task that reaches a pod closes a nil channel. The hook is a
  constant of the model (`ClosesSchedulingDone`); the preemptive runs leave it out, the
  binding runs have it, and `HookClosesOnce` holds where `AddReq0` is used. The theorems about
  the queue (section 5) hold for either value of the constant.
- A task rejected by a full queue is answered through `done` like an executed one
  (`queue.go:161`); `TaskLifecycle` allows for it.
- `MaxQueueActualLen` is compared before the insertion and misses the last one.
- `ManageQueue1` takes the back of the queue; its comment says the head.
- `GetGroupIndex` is -1 from 30000 on: `AddReq` serves such a task at once and the counts
  omit it, so such a task makes no pod busy. `GetRandZipf` yields up to 30001.
- The manifests set `containerConcurrency` as an annotation (`alu-service.yaml:10`,
  `real-world-service.yaml:10`), where nothing reads it: the revisions have the default, 0,
  that is, no limit. `throttler` has both cases.
- The drain shuts down the servers of the map at `main.go:307` only; the TLS server is not
  in it, and connections of h2c are hijacked, so `Shutdown` does not wait for them.
  `ExitLosesNoTask` is about http1.
- A pod that leaves the list and comes back has a new tracker with full capacity while the
  old one's requests still run; `PodsNotOverbooked` is about pods that stay.
- A policy's mutex is of its closure, which `acquireDest` makes anew for each call; only
  a policy kept in `rt.lbPolicy`, as a round robin must be, has one for all requests.
- With late binding the 20 s per predecessor add up without bound, so no choice of
  timeouts keeps the two closes of `done` apart.

## 5. What is proved

All for any number of requests and pods, any queue capacity, any timeouts and any number of
updates within the named assumptions of the modules, which TLC evaluates in the runs. Every
invariant and every action property that a passing run checks is the subject of a theorem,
and so are the refinements; where a run and a theorem name the same definition, the run shows
it on a small instance. Each inductive invariant was given to TLC before it was proved.

| Module | Theorems | By |
|---|---|---|
| `TaskQueueProofs` | none, lemmas that all experiments use | `QueueInv` |
| `PreemptiveQueueProofs` | `TypeCorrect`, `WakeupsNeverLost`, `CursorNeverStale`, `QueuedAtMostOnce`, `WaitersAreOwedClose`, `QueueNeverOverflows`, `QueueImplementsLifecycle` | `Consistent` |
| | `RealWorldContextOutlivesTask`, `RealWorldNoDoubleClose` | `Deadlines` |
| | `FrontAlwaysShortest`, `SimpleImplementsLifecycle` | `SimpleConsistent` |
| `BindingQueueProofs` | `BindingTypeCorrect`, `LateSchedulesOneByOne`, `HookFindsChannel`, `BindingImplementsLifecycle` | `BindingConsistent` |
| `RealWorldProofs` | `ServiceRunsTheQueue` | `Sequential` |
| | `SequencesKeepTheirOrder`, `DrainLosesNoTask` | `Deadlines` |
| `RoutingProofs` | `CountsTypeCorrect`, `CountsExact`, `RatesumExact` | `Accurate` |
| | `ReadLockPinsTargets`, `RoutingUsesTheCounts`, `RoutingCountsExact`, `RoutingRatesumExact` | `Pinned` |
| | `RoutingTypeCorrect`, `RoundRobinStaysEven` | `RoutingInv` |
| `RevisionThrottlerProofs` | `ThrottlerTypeCorrect`, `UpdatesSettle`, `DirectNeverPanics`, `SlicesAlwaysPartition`, `NoPodOverbooked`, `NoDestIsStale` | `ThrottlerInv` |
| `ThrottlerMapProofs` | `DeadThrottlersGo`, `OneForAll`, `BacklogSetUp` | `MapInv` |
| `InfiniteBreakerProofs` | `BreakerTypeCorrect`, `ClosedOnce`, `NoStrandedWaiter` | `BreakerInv` |

**The queues.** `QueueInv` is what every `AddReq*` and `ManageQueue*` keep: type,
`NoLostWakeup`, `QueuedOnce`, `WaiterIsOwedClose`, `QueueBounded` and two facts that make
them inductive. `IdleUntouched`: a request that has not arrived is in no data structure, so
`AddReq` inserts a new element. `ClosedMeansOver`: while a HandlerFunc waits on a closed
channel its task is over, so a timed-out close does not take an owed one away.
`TaskQueueProofs` proves once that the pieces of the queues keep it, and that they are
steps of `TaskLifecycle`; the list lemmas (`PushBack`, `RemoveElement`,
`RemoveFromInjective`) say what `container/list` does to a list without duplicates.

- `PreemptiveQueueProofs` adds `CursorInQueue`, for removing the cursor leaves its
  predecessor in the list, which is why `ManageQueue` may release the mutex, and
  `NoHookChannel`: contexts of `AddReq` hold no channel. With `RealWorldDeadlines` (a prompt
  machine and `HandlerTimeout > MaxWait + ServeTimeout`) `Deadlines` holds as well: whoever
  will close `done` has less time left than the HandlerFunc. So 320 s is enough, and 305 s
  would be.
- For `SimplePreempt` the same invariant holds of both experiments. In experiment 1
  `FrontIsShortest` and `RatesKnown` are inductive beside it: a task shorter than the front
  is not queued at all, and the manager takes the back, the front only when it is alone.
- `BindingConsistent` adds that the late manager awaits a task, that whoever has been bound
  has a pod, that `AddReq0` gave every context a channel (`ContextHasChannel`), and that a
  channel is closed only when `Try` has called its function (`ClosedWhenCalled`); then the hook
  finds each of them open, also when it runs in the goroutine that `Try` leaves behind
  (`HookClosesOnce`).

`RealWorldProofs`, from `RealWorldAssumption` in addition: the invariant `Sequential` says
that a sequence is past all its tasks but the one it waits for, that no task arrives by
another way, and that the process ends drained. With it every step of the service is a step
of the queue or none, hence `ServiceRunsTheQueue` (`RealWorldSpec => Spec`), which carries
all theorems above over to the service. Under `RealWorldDeadlines`, `Deadlines` adds that
whoever is past a task leaves nothing of it behind: `SequencesKeepTheirOrder` and
`DrainLosesNoTask`.

**Counts and routing.** `CountsTypeCorrect` needs no assumption on reports. `Accurate`, under
`ReportsRate`, says that every sent task has a known pod and that counts and sums are those
of the outstanding tasks. A sum over a set is a fold in the order of `CHOOSE`, so adding or
removing one task is not a step of the fold: the lemmas `TotalPicks` and `TotalRemoves` show,
by induction over the subsets of a finite set (from the library's well-founded order of
them), that the total does not depend on the order. `Pinned` (what a task has drawn stays
assigned, because the list is written when nobody looks) makes every step of routing one of
`RequestStatic`, whatever the policy. `RoundsAreEven` is what makes `RoundRobinIsEven`
inductive: the pods before the index have been sent exactly one task more than the others.

**The throttler.** `ThrottlerInv` follows an update through its steps. `BackendsCounted`: the
trackers are empty iff the update's backends are 0. `SliceApplied`: the slice is assigned
before the capacity is set and stays until the next update; with the two, `Settled` holds
when the last step is done. `AssignedBeforeAdmitted`: while every update has listed a pod,
an empty assignment goes with a capacity of 0 and an empty breaker (`DirectNeverPanics`).
`TrackerPerPod`, `ListedOrDropped` and `SlotsKept` say that a pod that stayed listed has one
tracker, which every request bound to it used, and which gave no slot twice
(`NoPodOverbooked`). `ScansAssigned`: a scan under the read lock goes through assigned
trackers. `NoDestIsStale` is an action property, from the same invariant before the step.
`SlicesAlwaysPartition` is arithmetic on positions: `pickIndices` of all activators together
cover `1 .. n`, each position once when there are pods enough, and the remnants go to one
activator each (`SlicesDividePods`); `RankBijective` and `SortedBijective` show that the
activators sort the same pods into the same sequence, and `IndexBijective` that each of them
infers an index of its own, so that what holds of all indices holds of all activators
(`ActivatorsDividePods`).

**The throttler map.** The events of a name alternate, so each has a place in one order
(`Ordinal`) and what is still to be delivered is the end of it (`EventsInOrder`). Hence a
revision without a throttler has its own creation still to come (`CreationAhead`), and the
deletions that may remove its throttler come before that creation.

**The breaker.** `BreakerInv`: between updates the channel is closed iff there is capacity,
and every older channel is closed.

Assumptions worth naming: `ReportsRate` where the counts and sums are exact (the ALU pods
break it, section 4), `RealWorldDeadlines` where double closes are excluded (the ALU
service breaks it), `ClosesSchedulingDone` and non-empty `Pod` in `BindingAssumption`,
finite sets of requests and pods, and that `Nil` and `ClusterIP`, which stand for nil and
for a string, are no pods nor trackers.

Only model-checked: the liveness properties `QueuedIsServed`, `SequenceReturns`, `DrainEnds`,
`QueuedIsTaken`, `EveryTaskIsBound`, `UpdateEnds`, `RequestReturns` and `WaitersAreReleased`,
for fairness and ENABLED are out of the prover's reach, and the four runs that end in a
counterexample. `QueueBounded`, `RealWorldTypeOK` (within `Sequential`) and the `TypeOK` of
`ThrottlerMap` (within `MapInv`) are proved and not listed in a run.

## 6. What is not modelled

- Proxying, headers, tracing, logging, the bodies of the answers; the distribution of the
  random draws (every outcome of positive probability instead); the real formula of the
  waiting time (any length up to its cap of 4 s).
- `randomLBPolicy` (no state) and `randomChoice2Policy` with the weights of its trackers,
  which no line selects. The depth of the breaker's own queue, which the workload does not
  fill. The infinite breaker is a component of its own: the constructor that would use it
  is commented out (`throttler.go:180-192`).
- A policy's scan of the counts of several pods is one step.
- Informer events that are merged: `ThrottlerMap` delivers a creation and a deletion for every
  revision, in turn. When client-go lists the revisions anew after it lost its watch, a
  deletion and a creation under the same name may arrive as one update, which
  `revisionDeleted` does not see; the throttler of the first revision would then stay.
- In `PreemptiveQueue`, the goroutine that `Try` leaves behind when the timeout handler
  answers for it; `BindingQueue` has it.
- `http.ErrAbortHandler`, which the reverse proxy raises when a client has gone.
- The torn read of a Go map: the policies read `requestStatic` without its lock. The reads
  are single steps, and the runtime's fatal error is one cause of `Restart`.
- `AddJobToGlobalVar` and the execution time averages: every call is commented out.
  `GetRandExecTime` and `GetRandPowerLaw`, which nothing calls.
- `main.go` beyond `/store` and the drain, the manifests, the plots.

## 7. Plan

Order of work, the most important first; 1-10 are done.

1. `TaskQueue`, `PreemptiveQueue`, `TaskLifecycle`; type, safety, refinement; proofs.
2. `BindingQueue`, composed with the policies and the hook.
3. `RequestStatic`; proof of the counts.
4. `Slicing`, `RevisionThrottler`, `ThrottlerMap`, `InfiniteBreaker`; proof of the breaker.
5. `SimplePreempt`.
6. `Routing`: the policies under the throttler's read-write lock; proof that it uses the
   counts as `RequestStatic` says.
7. `RealWorld`: the sequences and the drain; proof that it runs the queue.
8. Reports of the ALU service (`alu_report`).
9. The breakers of the pods and `reenqueue` in `RevisionThrottler`.
10. Proofs of all invariants and action properties of the runs: `FrontIsShortest`, the
    binding queues and their refinement, `RatesumOutstanding` and `RoundRobinIsEven`, the
    revision throttler with the slices, the throttler map.
11. Further proofs, where they say more than the runs do: that the breaker of the revision
    never admits more than the capacity that was last set, plus what a lower capacity leaves
    behind; how far the counts of a pod can be off after a restart; an abstract breaker that
    the infinite breaker implements.
