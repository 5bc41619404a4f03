------------------------ MODULE InfiniteBreakerProofs ------------------------
(***************************************************************************)
(* For any number of requests and of capacity changes, the infinite        *)
(* breaker closes no channel twice and leaves no request on a channel that *)
(* nobody will close.                                                      *)
(***************************************************************************)
EXTENDS InfiniteBreaker, TLAPS

\* Nobody waits at first.
LEMMA InitBreaker == Init => BreakerInv /\ WaitsOnTheBroadcast
  BY BreakerAssumption
     DEF Init, BreakerInv, TypeOK, ClosedMeansCapacity, ChannelsBounded, BroadcastClosedOnce,
         WaitsOnTheBroadcast, Channel

\* A capacity update keeps the breaker's channel and its concurrency in step.
LEMMA UpdateKeepsBreaker == BreakerInv /\ UpdateConcurrency => BreakerInv'
<1> SUFFICES ASSUME BreakerInv, UpdateConcurrency
             PROVE  BreakerInv'
  OBVIOUS
<1> USE BreakerAssumption
<1>1. ASSUME NEW cc \in 0 .. 2, Swap(zeroOrOne(cc))
      PROVE  BreakerInv'
  BY <1>1 DEF Swap, zeroOrOne, BreakerInv, TypeOK, ClosedMeansCapacity, ChannelsBounded,
              BroadcastClosedOnce, Channel
<1>2. CASE ReplaceBroadcast
  BY <1>2 DEF ReplaceBroadcast, BreakerInv, TypeOK, ClosedMeansCapacity, ChannelsBounded,
              BroadcastClosedOnce, Channel
<1>3. CASE CloseBroadcast
  BY <1>3 DEF CloseBroadcast, BreakerInv, TypeOK, ClosedMeansCapacity, ChannelsBounded,
              BroadcastClosedOnce, Channel
<1>4. QED
  BY <1>1, <1>2, <1>3 DEF UpdateConcurrency

\* The channel is a number, so it is at most itself.
LEMMA BroadcastIsNumber == BreakerInv => broadcast \in Int
<1>1. BreakerInv => broadcast \in 0 .. MaxUpdates
  BY DEF BreakerInv, TypeOK, Channel
<1>2. broadcast \in 0 .. MaxUpdates => broadcast \in Int
  BY BreakerAssumption
<1>3. QED
  BY <1>1, <1>2

\* A step of Maybe changes nothing but the request's own place and channel.
LEMMA MaybeKeepsBreaker ==
  ASSUME NEW r \in Req, BreakerInv, Maybe(r)
  PROVE  BreakerInv'
<1>1. UNCHANGED <<concurrency, updateVars>>
  BY DEF Maybe, ChecksCapacity, GetsChannel, Released, Cancelled
<1>2. maybe' \in [Req -> {"idle", "checked", "select", "thunk", "cancelled"}]
  BY DEF Maybe, ChecksCapacity, GetsChannel, Released, Cancelled, BreakerInv, TypeOK
<1>3. ch' \in [Req -> Channel] /\ \A q \in Req : ch'[q] <= broadcast
  <2>1. CASE GetsChannel(r)
    <3>1. ch' \in [Req -> Channel]
      BY <2>1 DEF GetsChannel, BreakerInv, TypeOK
    <3>2. ch'[r] = broadcast /\ \A q \in Req \ {r} : ch'[q] = ch[q]
      BY <2>1 DEF GetsChannel, BreakerInv, TypeOK
    <3>3. broadcast \in Int
      BY BroadcastIsNumber
    <3>4. QED
      BY <3>1, <3>2, <3>3 DEF BreakerInv, ClosedMeansCapacity
  <2>2. CASE UNCHANGED ch
    BY <2>2 DEF BreakerInv, TypeOK, ClosedMeansCapacity
  <2>3. QED
    BY <2>1, <2>2 DEF Maybe, ChecksCapacity, Released, Cancelled
<1>4. QED
  BY <1>1, <1>2, <1>3
     DEF updateVars, BreakerInv, TypeOK, ClosedMeansCapacity, ChannelsBounded, BroadcastClosedOnce

\* A request that waits on an open channel is on the broadcast channel: the channel
\* is replaced only when it is closed.
LEMMA UpdateKeepsWaiters ==
  BreakerInv /\ WaitsOnTheBroadcast /\ UpdateConcurrency => WaitsOnTheBroadcast'
<1> SUFFICES ASSUME BreakerInv, WaitsOnTheBroadcast, UpdateConcurrency,
                    NEW r \in Req, maybe'[r] = "select", ch'[r] \notin closed'
             PROVE  ch'[r] = broadcast' /\ (concurrency' = 0 \/ updater' = "scaledUp")
  BY DEF WaitsOnTheBroadcast
<1>1. UNCHANGED <<maybe, ch>> /\ closed \subseteq closed'
  BY DEF UpdateConcurrency, Swap, ReplaceBroadcast, CloseBroadcast
<1>2. ch[r] = broadcast /\ broadcast \notin closed
  BY <1>1 DEF WaitsOnTheBroadcast
<1>3. ASSUME NEW cc \in 0 .. 2, Swap(zeroOrOne(cc))
      PROVE  ch'[r] = broadcast' /\ (concurrency' = 0 \/ updater' = "scaledUp")
  BY <1>1, <1>2, <1>3 DEF Swap, zeroOrOne, BreakerInv, ClosedMeansCapacity, TypeOK
<1>4. CASE ReplaceBroadcast
  BY <1>2, <1>4 DEF ReplaceBroadcast, BreakerInv, ClosedMeansCapacity
<1>5. CASE CloseBroadcast
  BY <1>1, <1>2, <1>5 DEF CloseBroadcast
<1>6. QED
  BY <1>3, <1>4, <1>5 DEF UpdateConcurrency

\* A request that begins to wait takes the channel while no update is under way.
LEMMA MaybeKeepsWaiters ==
  ASSUME NEW r \in Req, BreakerInv, WaitsOnTheBroadcast, Maybe(r)
  PROVE  WaitsOnTheBroadcast'
<1>1. UNCHANGED <<concurrency, broadcast, closed, updater>>
  BY DEF Maybe, ChecksCapacity, GetsChannel, Released, Cancelled, updateVars
<1>2. CASE GetsChannel(r)
  <2>1. updater = "idle" /\ \A q \in Req \ {r} : maybe'[q] = maybe[q] /\ ch'[q] = ch[q]
    BY <1>2 DEF GetsChannel, BreakerInv, TypeOK
  <2>2. ch'[r] = broadcast
    BY <1>2 DEF GetsChannel, BreakerInv, TypeOK
  <2>3. broadcast \notin closed => concurrency = 0
    BY <2>1 DEF BreakerInv, ClosedMeansCapacity, TypeOK
  <2>4. QED
    BY <1>1, <2>1, <2>2, <2>3 DEF WaitsOnTheBroadcast
<1>3. CASE ChecksCapacity(r) \/ Released(r) \/ Cancelled(r)
  <2>1. ch' = ch /\ \A q \in Req : maybe'[q] = "select" => maybe[q] = "select"
    BY <1>3 DEF ChecksCapacity, Released, Cancelled, BreakerInv, TypeOK
  <2>2. QED
    BY <1>1, <2>1 DEF WaitsOnTheBroadcast
<1>4. QED
  BY <1>2, <1>3 DEF Maybe

\* The breaker's channel, its concurrency and the waiting requests stay in step.
THEOREM BreakerConsistent == Spec => [](BreakerInv /\ WaitsOnTheBroadcast)
<1>1. Init => BreakerInv /\ WaitsOnTheBroadcast
  BY InitBreaker
<1>2. BreakerInv /\ WaitsOnTheBroadcast /\ [Next]_vars => (BreakerInv /\ WaitsOnTheBroadcast)'
  <2> SUFFICES ASSUME BreakerInv, WaitsOnTheBroadcast, [Next]_vars
               PROVE  (BreakerInv /\ WaitsOnTheBroadcast)'
    OBVIOUS
  <2>1. CASE UpdateConcurrency
    BY <2>1, UpdateKeepsBreaker, UpdateKeepsWaiters
  <2>2. ASSUME NEW r \in Req, Maybe(r)
        PROVE  (BreakerInv /\ WaitsOnTheBroadcast)'
    BY <2>2, MaybeKeepsBreaker, MaybeKeepsWaiters
  <2>3. CASE UNCHANGED vars
    BY <2>3 DEF vars, updateVars, BreakerInv, TypeOK, ClosedMeansCapacity, ChannelsBounded,
                BroadcastClosedOnce, WaitsOnTheBroadcast
  <2>4. QED
    BY <2>1, <2>2, <2>3 DEF Next
<1>3. QED
  BY <1>1, <1>2, PTL DEF Spec

\* throttler.go:705-760: the variables keep their types; a channel is created only by a
\* second call of UpdateConcurrency, so there are never more channels than calls.
THEOREM BreakerTypeCorrect == Spec => []TypeOK
<1>1. BreakerInv /\ WaitsOnTheBroadcast => TypeOK
  BY DEF BreakerInv
<1>2. QED
  BY <1>1, BreakerConsistent, PTL

\* throttler.go:742: no broadcast channel is closed twice.
THEOREM ClosedOnce == Spec => []BroadcastClosedOnce
<1>1. BreakerInv /\ WaitsOnTheBroadcast => BroadcastClosedOnce
  BY DEF BreakerInv
<1>2. QED
  BY <1>1, BreakerConsistent, PTL

\* throttler.go:768: no request waits on a channel that the next scale up leaves open.
THEOREM NoStrandedWaiter == Spec => []WaitsOnTheBroadcast
  BY BreakerConsistent, PTL

==============================================================================
