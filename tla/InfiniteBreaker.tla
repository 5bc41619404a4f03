--------------------------- MODULE InfiniteBreaker ---------------------------
(***************************************************************************)
(* The infiniteBreaker of throttler.go: Maybe lets every request through   *)
(* while the concurrency is 1 and otherwise makes it wait on the broadcast *)
(* channel, which UpdateConcurrency closes when capacity appears and       *)
(* replaces when it disappears.  Maybe reads the concurrency without the   *)
(* lock, and then the channel under it.                                    *)
(*                                                                         *)
(* Channels are numbered in the order of their creation.                   *)
(***************************************************************************)
EXTENDS Integers

CONSTANTS
  Req,         \* the requests
  MaxUpdates   \* bound on the calls of UpdateConcurrency

ASSUME BreakerAssumption == MaxUpdates \in Nat

VARIABLES
  concurrency,   \* concurrency, 0 or 1
  broadcast,     \* the channel in the broadcast field
  closed,        \* the closed channels
  updater,       \* the goroutine in UpdateConcurrency
  updates,       \* the number of its calls so far
  maybe,         \* where each request is in Maybe
  ch,            \* the channel each request waits on
  panic          \* the panic of UpdateConcurrency, if any

updateVars == <<broadcast, closed, updater, updates, panic>>
vars == <<concurrency, updateVars, maybe, ch>>

Channel == 0 .. MaxUpdates

TypeOK ==
  /\ concurrency \in {0, 1}
  /\ broadcast \in Channel
  /\ closed \subseteq Channel
  /\ updater \in {"idle", "scaledUp", "scaledDown"}
  /\ updates \in 0 .. MaxUpdates
  /\ maybe \in [Req -> {"idle", "checked", "select", "thunk", "cancelled"}]
  /\ ch \in [Req -> Channel]
  /\ panic \in {"none", "close of closed channel"}

Init ==
  /\ concurrency = 0
  /\ broadcast = 0
  /\ closed = {}
  /\ updater = "idle"
  /\ updates = 0
  /\ maybe = [r \in Req |-> "idle"]
  /\ ch = [r \in Req |-> 0]
  /\ panic = "none"

------------------------------------------------------------------------------
(* UpdateConcurrency(cc) *)

\* Mutant of zeroOrOne: the capacity is taken as it is.
anyCapacity(x) == x

zeroOrOne(x) == IF x = 0 THEN 0 ELSE 1

\* Mutant of Swap: an update that changes nothing counts as a scaling event.
SwapAlways(rcc) ==
  /\ updater = "idle"
  /\ updates < MaxUpdates
  /\ updates' = updates + 1
  /\ concurrency' = rcc
  /\ updater' = IF rcc = 0 THEN "scaledDown" ELSE "scaledUp"
  /\ UNCHANGED <<broadcast, closed, panic, maybe, ch>>

\* The lock is taken and the concurrency swapped; without a change the call is
\* over.
Swap(rcc) ==
  /\ updater = "idle"
  /\ updates < MaxUpdates
  /\ updates' = updates + 1
  /\ concurrency' = rcc
  /\ updater' = IF concurrency = rcc THEN "idle" ELSE IF rcc = 0 THEN "scaledDown" ELSE "scaledUp"
  /\ UNCHANGED <<broadcast, closed, panic, maybe, ch>>

ReplaceBroadcast ==
  /\ updater = "scaledDown"
  /\ updater' = "idle"
  /\ broadcast' = broadcast + 1
  /\ UNCHANGED <<concurrency, closed, updates, panic, maybe, ch>>

CloseBroadcast ==
  /\ updater = "scaledUp"
  /\ updater' = "idle"
  /\ closed' = closed \cup {broadcast}
  /\ panic' = IF broadcast \in closed THEN "close of closed channel" ELSE panic
  /\ UNCHANGED <<concurrency, broadcast, updates, maybe, ch>>

\* The capacities 0, 1 and 2 stand for all.
UpdateConcurrency ==
  \/ \E cc \in 0 .. 2 : Swap(zeroOrOne(cc))
  \/ ReplaceBroadcast
  \/ CloseBroadcast

------------------------------------------------------------------------------
(* Maybe(ctx, thunk) *)

\* Capacity() is read without the lock.
ChecksCapacity(r) ==
  /\ maybe[r] = "idle"
  /\ maybe' = [maybe EXCEPT ![r] = IF concurrency > 0 THEN "thunk" ELSE "checked"]
  /\ UNCHANGED <<concurrency, updateVars, ch>>

\* The read lock is free when no update is under way.
GetsChannel(r) ==
  /\ maybe[r] = "checked"
  /\ updater = "idle"
  /\ maybe' = [maybe EXCEPT ![r] = "select"]
  /\ ch' = [ch EXCEPT ![r] = broadcast]
  /\ UNCHANGED <<concurrency, updateVars>>

Released(r) ==
  /\ maybe[r] = "select"
  /\ ch[r] \in closed
  /\ maybe' = [maybe EXCEPT ![r] = "thunk"]
  /\ UNCHANGED <<concurrency, updateVars, ch>>

\* ctx.Done()
Cancelled(r) ==
  /\ maybe[r] = "select"
  /\ maybe' = [maybe EXCEPT ![r] = "cancelled"]
  /\ UNCHANGED <<concurrency, updateVars, ch>>

Maybe(r) == ChecksCapacity(r) \/ GetsChannel(r) \/ Released(r) \/ Cancelled(r)

Next == UpdateConcurrency \/ \E r \in Req : Maybe(r)

Spec == Init /\ [][Next]_vars

\* Goroutines go on; no request need be cancelled.
FairSpec ==
  /\ Spec
  /\ WF_vars(ReplaceBroadcast \/ CloseBroadcast)
  /\ \A r \in Req : WF_vars(GetsChannel(r)) /\ WF_vars(Released(r))

------------------------------------------------------------------------------
(* Properties *)

\* throttler.go:742 "to make sure two scale up events don't stomp on each other's
\* feet": no broadcast channel is closed twice.
BroadcastClosedOnce == panic = "none"

\* throttler.go:768 "to avoid race between Maybe and UpdateConcurrency": a request
\* waits on an open channel only while it is the one that the next scale up closes.
WaitsOnTheBroadcast ==
  \A r \in Req : maybe[r] = "select" /\ ch[r] \notin closed =>
    ch[r] = broadcast /\ (concurrency = 0 \/ updater = "scaledUp")

\* throttler.go:705: once capacity shows up every request that waits goes through,
\* even if the capacity disappears again at once.
WaitersAreReleased ==
  \A r \in Req : (maybe[r] = "select" /\ concurrency = 1) ~> maybe[r] # "select"

(* What the proofs need beside them *)

\* Between updates the broadcast channel is closed iff there is capacity.
ClosedMeansCapacity ==
  /\ closed \subseteq 0 .. broadcast
  /\ 0 .. broadcast - 1 \subseteq closed
  /\ updater = "idle" => (broadcast \in closed <=> concurrency = 1)
  /\ updater = "scaledUp" => broadcast \notin closed /\ concurrency = 1
  /\ updater = "scaledDown" => broadcast \in closed /\ concurrency = 0
  /\ \A r \in Req : ch[r] <= broadcast

\* A channel is created by the second of two calls at the earliest.
ChannelsBounded == broadcast + (IF updater = "scaledDown" THEN 1 ELSE 0) <= updates

BreakerInv == TypeOK /\ ClosedMeansCapacity /\ ChannelsBounded /\ BroadcastClosedOnce

==============================================================================
