--------------------------- MODULE TaskQueueProofs ---------------------------
(***************************************************************************)
(* Machine-checked lemmas about what the experiments share: the list       *)
(* operations of the queue, the pieces of AddReq* and ManageQueue*, the    *)
(* goroutines of serveRequest and of the HandlerFunc, and the clock keep   *)
(* QueueInv, and they are steps of TaskLifecycle.                          *)
(***************************************************************************)
EXTENDS TaskQueue, SequenceTheorems, TLAPS

------------------------------------------------------------------------------
(* The list operations of the queue. *)

\* container/list's PushBack: the new element is last, the others keep their place.
LEMMA PushBack ==
  ASSUME NEW S, NEW q \in Seq(S), NEW e \in S
  PROVE  /\ Append(q, e) \in Seq(S)
         /\ Len(Append(q, e)) = Len(q) + 1
         /\ \A i \in 1 .. Len(q) : Append(q, e)[i] = q[i]
         /\ Append(q, e)[Len(q) + 1] = e
         /\ Range(Append(q, e)) = Range(q) \cup {e}
<1>1. /\ Append(q, e) \in Seq(S)
      /\ Len(Append(q, e)) = Len(q) + 1
      /\ \A i \in 1 .. Len(q) : Append(q, e)[i] = q[i]
      /\ Append(q, e)[Len(q) + 1] = e
  BY AppendProperties
<1>2. Range(Append(q, e)) = {Append(q, e)[i] : i \in 1 .. Len(q) + 1}
  BY <1>1, LenProperties DEF Range
<1>3. Range(q) = {q[i] : i \in 1 .. Len(q)}
  BY LenProperties DEF Range
<1>4. Len(q) \in Nat
  BY LenProperties
<1>5. QED BY <1>1, <1>2, <1>3, <1>4

\* container/list's Remove of the i-th element.
LEMMA RemoveElement ==
  ASSUME NEW S, NEW q \in Seq(S), NEW i \in 1 .. Len(q)
  PROVE  /\ RemoveAt(q, i) \in Seq(S)
         /\ Len(RemoveAt(q, i)) = Len(q) - 1
         /\ \A j \in 1 .. Len(q) - 1 :
              RemoveAt(q, i)[j] = IF j < i THEN q[j] ELSE q[j + 1]
<1> DEFINE a == SubSeq(q, 1, i - 1)
           b == SubSeq(q, i + 1, Len(q))
<1>0. Len(q) \in Nat /\ i \in Int /\ \A k \in 1 .. Len(q) : q[k] \in S
  BY LenProperties, ElementOfSeq
<1>1. /\ a \in Seq(S)
      /\ Len(a) = i - 1
      /\ \A j \in 1 .. i - 1 : a[j] = q[j]
  <2>1. \A k \in 1 .. i - 1 : q[k] \in S
    BY <1>0
  <2>2. 1 \in Int /\ i - 1 \in Int
    BY <1>0
  <2>3. /\ a \in Seq(S)
        /\ Len(a) = IF 1 <= i - 1 THEN (i - 1) - 1 + 1 ELSE 0
        /\ \A j \in 1 .. (i - 1) - 1 + 1 : a[j] = q[1 + j - 1]
    BY <2>1, <2>2, SubSeqProperties
  <2>4. QED BY <2>3, <1>0
<1>2. /\ b \in Seq(S)
      /\ Len(b) = Len(q) - i
      /\ \A j \in 1 .. Len(q) - i : b[j] = q[i + j]
  <2>1. \A k \in i + 1 .. Len(q) : q[k] \in S
    BY <1>0
  <2>2. i + 1 \in Int /\ Len(q) \in Int
    BY <1>0
  <2>3. /\ b \in Seq(S)
        /\ Len(b) = IF i + 1 <= Len(q) THEN Len(q) - (i + 1) + 1 ELSE 0
        /\ \A j \in 1 .. Len(q) - (i + 1) + 1 : b[j] = q[(i + 1) + j - 1]
    BY <2>1, <2>2, SubSeqProperties
  <2>4. QED BY <2>3, <1>0
<1>3. /\ a \o b \in Seq(S)
      /\ Len(a \o b) = Len(a) + Len(b)
      /\ \A j \in 1 .. Len(a) + Len(b) :
           (a \o b)[j] = IF j <= Len(a) THEN a[j] ELSE b[j - Len(a)]
  BY <1>1, <1>2, ConcatProperties
<1>4. RemoveAt(q, i) = a \o b
  BY DEF RemoveAt
<1> HIDE DEF a, b
<1>5. ASSUME NEW j \in 1 .. Len(q) - 1
      PROVE  RemoveAt(q, i)[j] = IF j < i THEN q[j] ELSE q[j + 1]
  <2>1. CASE j < i
    BY <2>1, <1>0, <1>1, <1>2, <1>3, <1>4
  <2>2. CASE ~(j < i)
    <3>1. j - Len(a) \in 1 .. Len(q) - i
      BY <2>2, <1>0, <1>1
    <3>2. b[j - Len(a)] = q[i + (j - (i - 1))]
      BY <3>1, <1>1, <1>2
    <3>3. i + (j - (i - 1)) = j + 1
      BY <1>0
    <3>4. (a \o b)[j] = b[j - Len(a)]
      BY <2>2, <1>0, <1>1, <1>2, <1>3
    <3>5. QED BY <2>2, <3>2, <3>3, <3>4, <1>4
  <2>3. QED BY <2>1, <2>2
<1>6. QED BY <1>0, <1>1, <1>2, <1>3, <1>4, <1>5

\* Removing an element from a queue without duplicates removes it, and nothing else.
LEMMA RemoveFromInjective ==
  ASSUME NEW S, NEW q \in Seq(S), IsInjective(q), NEW i \in 1 .. Len(q)
  PROVE  /\ IsInjective(RemoveAt(q, i))
         /\ Range(RemoveAt(q, i)) = Range(q) \ {q[i]}
<1> DEFINE p == RemoveAt(q, i)
<1>1. /\ p \in Seq(S)
      /\ Len(p) = Len(q) - 1
      /\ \A j \in 1 .. Len(q) - 1 : p[j] = IF j < i THEN q[j] ELSE q[j + 1]
  BY RemoveElement
<1>2. /\ Len(q) \in Nat /\ i \in Int
      /\ DOMAIN q = 1 .. Len(q) /\ DOMAIN p = 1 .. Len(q) - 1
  BY <1>1, LenProperties
<1>3. \A a, b \in 1 .. Len(q) : q[a] = q[b] => a = b
  BY <1>2 DEF IsInjective
<1> HIDE DEF p
<1>4. \A a, b \in 1 .. Len(q) - 1 : p[a] = p[b] => a = b
  <2> SUFFICES ASSUME NEW a \in 1 .. Len(q) - 1, NEW b \in 1 .. Len(q) - 1, p[a] = p[b]
               PROVE  a = b
    OBVIOUS
  <2> DEFINE at(x) == IF x < i THEN x ELSE x + 1
  <2>1. p[a] = q[at(a)] /\ p[b] = q[at(b)]
    BY <1>1
  <2>2. at(a) \in 1 .. Len(q) /\ at(b) \in 1 .. Len(q)
    BY <1>2
  <2>3. at(a) = at(b)
    BY <1>3, <2>1, <2>2
  <2>4. QED BY <2>3, <1>2
<1>5. IsInjective(p)
  BY <1>2, <1>4 DEF IsInjective
<1>6. Range(p) \subseteq Range(q) \ {q[i]}
  <2> SUFFICES ASSUME NEW a \in 1 .. Len(q) - 1
               PROVE  p[a] \in Range(q) \ {q[i]}
    BY <1>2 DEF Range
  <2> DEFINE k == IF a < i THEN a ELSE a + 1
  <2>1. p[a] = q[k] /\ k \in 1 .. Len(q) /\ k # i
    BY <1>1, <1>2
  <2>2. QED BY <2>1, <1>2, <1>3 DEF Range
<1>7. Range(q) \ {q[i]} \subseteq Range(p)
  <2> SUFFICES ASSUME NEW a \in 1 .. Len(q), a # i
               PROVE  q[a] \in Range(p)
    BY <1>2 DEF Range
  <2> DEFINE k == IF a < i THEN a ELSE a - 1
  <2>1. k \in 1 .. Len(q) - 1 /\ p[k] = q[a]
    BY <1>1, <1>2
  <2>2. QED BY <2>1, <1>2 DEF Range
<1>8. QED BY <1>5, <1>6, <1>7 DEF p

\* Appending a new element to a queue without duplicates makes none.
LEMMA PushIntoInjective ==
  ASSUME NEW S, NEW q \in Seq(S), IsInjective(q), NEW e \in S, e \notin Range(q)
  PROVE  IsInjective(Append(q, e))
<1>1. /\ Append(q, e) \in Seq(S)
      /\ Len(Append(q, e)) = Len(q) + 1
      /\ \A i \in 1 .. Len(q) : Append(q, e)[i] = q[i]
      /\ Append(q, e)[Len(q) + 1] = e
  BY PushBack
<1>2. /\ Len(q) \in Nat
      /\ DOMAIN q = 1 .. Len(q) /\ DOMAIN Append(q, e) = 1 .. Len(q) + 1
  BY <1>1, LenProperties
<1>3. \A i \in 1 .. Len(q) : q[i] # e
  BY <1>2 DEF Range
<1>4. \A i, j \in 1 .. Len(q) : q[i] = q[j] => i = j
  BY <1>2 DEF IsInjective
<1>5. \A i, j \in 1 .. Len(q) + 1 : Append(q, e)[i] = Append(q, e)[j] => i = j
  BY <1>1, <1>2, <1>3, <1>4
<1>6. QED BY <1>2, <1>5 DEF IsInjective

\* The front and the back are removed like any other element.
LEMMA RemoveEnds ==
  ASSUME NEW S, NEW q \in Seq(S), q # <<>>
  PROVE  /\ Len(q) \in Nat \ {0}
         /\ Head(q) = q[1] /\ Tail(q) = RemoveAt(q, 1)
         /\ Last(q) = q[Len(q)] /\ Front(q) = RemoveAt(q, Len(q))
<1>1. Len(q) \in Nat \ {0}
  BY EmptySeq
<1>2. SubSeq(q, 1, 0) = <<>> /\ SubSeq(q, Len(q) + 1, Len(q)) = <<>>
  BY <1>1, SubSeqEmpty
<1>3. Tail(q) = SubSeq(q, 2, Len(q)) /\ Tail(q) \in Seq(S)
  BY TailIsSubSeq, HeadTailProperties
<1>4. Tail(q) = RemoveAt(q, 1)
  <2>1. <<>> \o Tail(q) = Tail(q)
    BY <1>3, ConcatEmptySeq
  <2>2. QED BY <1>2, <1>3, <2>1 DEF RemoveAt
<1>5. Front(q) = RemoveAt(q, Len(q))
  <2>1. \A i \in 1 .. Len(q) - 1 : q[i] \in S
    BY <1>1, ElementOfSeq
  <2>2. SubSeq(q, 1, Len(q) - 1) \in Seq(S)
    BY <1>1, <2>1, SubSeqProperties
  <2>3. SubSeq(q, 1, Len(q) - 1) \o <<>> = SubSeq(q, 1, Len(q) - 1)
    BY <2>2, ConcatEmptySeq
  <2>4. QED BY <1>2, <2>3 DEF RemoveAt, Front
<1>6. QED BY <1>1, <1>4, <1>5 DEF Last

------------------------------------------------------------------------------
(* The inductive invariant QueueInv. *)

USE DEF queueVars, unitVars, taskVars, Queued, Serving

\* The empty system satisfies it.
LEMMA InitQueueInv == Init => QueueInv
<1> SUFFICES ASSUME Init PROVE QueueInv
  OBVIOUS
<1>1. queue \in Seq(Req) /\ Len(queue) = 0 /\ Range(queue) = {} /\ IsInjective(queue)
  BY EmptySeq, LenProperties DEF Init, Range, IsInjective
<1>2. TypeOK
  BY <1>1, ConstantsAssumption DEF Init, TypeOK
<1>3. QED
  BY <1>1, <1>2, ConstantsAssumption
  DEF Init, QueueInv, NoLostWakeup, QueuedOnce, IdleUntouched, ClosedMeansOver,
      WaiterIsOwedClose, QueueBounded

\* A stuttering step.
LEMMA StutterKeeps == QueueInv /\ UNCHANGED vars => QueueInv'
  BY DEF vars, QueueInv, TypeOK, NoLostWakeup, QueuedOnce, IdleUntouched, ClosedMeansOver,
         WaiterIsOwedClose, QueueBounded

\* serveRequest starts its timer.
LEMMA ServeStartsKeeps ==
  ASSUME QueueInv, NEW r \in Req, ServeStarts(r)
  PROVE  QueueInv'
<1>1. TypeOK'
  BY ConstantsAssumption DEF QueueInv, TypeOK, ServeStarts
<1>2. QueuedOnce'
  BY DEF QueueInv, TypeOK, QueuedOnce, ServeStarts
<1>3. IdleUntouched'
  BY DEF QueueInv, TypeOK, IdleUntouched, QueuedOnce, ServeStarts
<1>4. ClosedMeansOver'
  BY DEF QueueInv, TypeOK, ClosedMeansOver, QueuedOnce, ServeStarts
<1>5. WaiterIsOwedClose'
  BY DEF QueueInv, TypeOK, WaiterIsOwedClose, QueuedOnce, ServeStarts
<1>6. QueueBounded' /\ NoLostWakeup'
  BY DEF QueueInv, QueueBounded, NoLostWakeup, ServeStarts
<1>7. QED BY <1>1, <1>2, <1>3, <1>4, <1>5, <1>6 DEF QueueInv

\* The throttler calls back, with the late-binding hook or without it.
LEMMA FunctionCalledKeeps ==
  ASSUME QueueInv, NEW r \in Req, FunctionCalled(r)
  PROVE  QueueInv'
<1>1. TypeOK'
  BY ConstantsAssumption DEF QueueInv, TypeOK, FunctionCalled, ClosesChannel
<1>2. QueuedOnce'
  BY DEF QueueInv, TypeOK, QueuedOnce, FunctionCalled, ClosesChannel
<1>3. IdleUntouched'
  BY DEF QueueInv, TypeOK, IdleUntouched, QueuedOnce, FunctionCalled, ClosesChannel
<1>4. ClosedMeansOver'
  BY DEF QueueInv, TypeOK, ClosedMeansOver, QueuedOnce, FunctionCalled, ClosesChannel
<1>5. WaiterIsOwedClose'
  BY DEF QueueInv, TypeOK, WaiterIsOwedClose, QueuedOnce, FunctionCalled, ClosesChannel
<1>6. QueueBounded' /\ NoLostWakeup'
  BY DEF QueueInv, QueueBounded, NoLostWakeup, FunctionCalled, ClosesChannel
<1>7. QED BY <1>1, <1>2, <1>3, <1>4, <1>5, <1>6 DEF QueueInv

\* serveRequest closes done.
LEMMA ServeReturnsKeeps ==
  ASSUME QueueInv, NEW r \in Req, ServeReturns(r)
  PROVE  QueueInv'
<1>1. TypeOK'
  BY ConstantsAssumption DEF QueueInv, TypeOK, ServeReturns
<1>2. QueuedOnce'
  BY DEF QueueInv, TypeOK, QueuedOnce, ServeReturns
<1>3. IdleUntouched'
  BY DEF QueueInv, TypeOK, IdleUntouched, QueuedOnce, ServeReturns
<1>4. ClosedMeansOver'
  BY DEF QueueInv, TypeOK, ClosedMeansOver, QueuedOnce, ServeReturns
<1>5. WaiterIsOwedClose'
  BY DEF QueueInv, TypeOK, WaiterIsOwedClose, QueuedOnce, ServeReturns
<1>6. QueueBounded' /\ NoLostWakeup'
  BY DEF QueueInv, QueueBounded, NoLostWakeup, ServeReturns
<1>7. QED BY <1>1, <1>2, <1>3, <1>4, <1>5, <1>6 DEF QueueInv

\* serveRequest leaves the close to the HandlerFunc.
LEMMA ServeReturnsLateKeeps ==
  ASSUME QueueInv, NEW r \in Req, ServeReturnsLate(r)
  PROVE  QueueInv'
<1>1. TypeOK'
  BY ConstantsAssumption DEF QueueInv, TypeOK, ServeReturnsLate
<1>2. QueuedOnce'
  BY DEF QueueInv, TypeOK, QueuedOnce, ServeReturnsLate
<1>3. IdleUntouched'
  BY DEF QueueInv, TypeOK, IdleUntouched, QueuedOnce, ServeReturnsLate
<1>4. ClosedMeansOver'
  BY DEF QueueInv, TypeOK, ClosedMeansOver, QueuedOnce, ServeReturnsLate
<1>5. WaiterIsOwedClose'
  BY DEF QueueInv, TypeOK, WaiterIsOwedClose, QueuedOnce, ServeReturnsLate
<1>6. QueueBounded' /\ NoLostWakeup'
  BY DEF QueueInv, QueueBounded, NoLostWakeup, ServeReturnsLate
<1>7. QED BY <1>1, <1>2, <1>3, <1>4, <1>5, <1>6 DEF QueueInv

\* A HandlerFunc is answered.
LEMMA HandlerReceivesDoneKeeps ==
  ASSUME QueueInv, NEW r \in Req, HandlerReceivesDone(r)
  PROVE  QueueInv'
<1>1. TypeOK'
  BY ConstantsAssumption DEF QueueInv, TypeOK, HandlerReceivesDone
<1>2. QueuedOnce'
  BY DEF QueueInv, TypeOK, QueuedOnce, HandlerReceivesDone
<1>3. IdleUntouched'
  BY DEF QueueInv, TypeOK, IdleUntouched, QueuedOnce, HandlerReceivesDone
<1>4. ClosedMeansOver'
  BY DEF QueueInv, TypeOK, ClosedMeansOver, QueuedOnce, HandlerReceivesDone
<1>5. WaiterIsOwedClose'
  BY DEF QueueInv, TypeOK, WaiterIsOwedClose, QueuedOnce, HandlerReceivesDone
<1>6. QueueBounded' /\ NoLostWakeup'
  BY DEF QueueInv, QueueBounded, NoLostWakeup, HandlerReceivesDone
<1>7. QED BY <1>1, <1>2, <1>3, <1>4, <1>5, <1>6 DEF QueueInv

\* A HandlerFunc gives up.
LEMMA HandlerTimesOutKeeps ==
  ASSUME QueueInv, NEW r \in Req, HandlerTimesOut(r)
  PROVE  QueueInv'
<1>1. TypeOK'
  BY ConstantsAssumption DEF QueueInv, TypeOK, HandlerTimesOut
<1>2. QueuedOnce'
  BY DEF QueueInv, TypeOK, QueuedOnce, HandlerTimesOut
<1>3. IdleUntouched'
  BY DEF QueueInv, TypeOK, IdleUntouched, QueuedOnce, HandlerTimesOut
<1>4. ClosedMeansOver'
  BY DEF QueueInv, TypeOK, ClosedMeansOver, QueuedOnce, HandlerTimesOut
<1>5. WaiterIsOwedClose'
  BY DEF QueueInv, TypeOK, WaiterIsOwedClose, QueuedOnce, HandlerTimesOut
<1>6. QueueBounded' /\ NoLostWakeup'
  BY DEF QueueInv, QueueBounded, NoLostWakeup, HandlerTimesOut
<1>7. QED BY <1>1, <1>2, <1>3, <1>4, <1>5, <1>6 DEF QueueInv

\* Time passes.
LEMMA ElapseKeeps ==
  ASSUME QueueInv, Elapse
  PROVE  QueueInv'
<1>1. timer' \in [Req -> 0 .. MaxWait]
  BY ConstantsAssumption DEF QueueInv, TypeOK, Elapse, Countdown
<1>2. handlerTimer' \in [Req -> 0 .. HandlerTimeout]
  <2>1. \A n \in 0 .. HandlerTimeout : Countdown(n) \in 0 .. HandlerTimeout
    BY ConstantsAssumption DEF Countdown
  <2>2. \A r \in Req : handlerTimer[r] \in 0 .. HandlerTimeout
    BY DEF QueueInv, TypeOK
  <2>3. QED BY <2>1, <2>2 DEF Elapse
<1>3. serveTimer' \in [Req -> 0 .. ServeTimeout]
  BY ConstantsAssumption DEF QueueInv, TypeOK, Elapse, Countdown
<1>4. TypeOK'
  BY <1>1, <1>2, <1>3 DEF QueueInv, TypeOK, Elapse
<1>5. WaiterIsOwedClose'
  BY DEF QueueInv, WaiterIsOwedClose, Elapse, Countdown
<1>6. QueuedOnce' /\ IdleUntouched' /\ ClosedMeansOver' /\ QueueBounded'
  BY DEF QueueInv, QueuedOnce, IdleUntouched, ClosedMeansOver, QueueBounded, Elapse
<1>7. NoLostWakeup'
  BY DEF QueueInv, NoLostWakeup, Elapse
<1>8. QED BY <1>4, <1>5, <1>6, <1>7 DEF QueueInv

\* The manager goes to sleep.
LEMMA ManagerWaitsKeeps ==
  ASSUME QueueInv, ManagerWaits
  PROVE  QueueInv'
<1>1. TypeOK'
  BY ConstantsAssumption DEF QueueInv, TypeOK, ManagerWaits
<1>2. NoLostWakeup'
  BY DEF QueueInv, TypeOK, NoLostWakeup, QueuedOnce, ManagerWaits
<1>3. /\ QueuedOnce' /\ IdleUntouched' /\ ClosedMeansOver' /\ WaiterIsOwedClose'
      /\ QueueBounded'
  BY DEF QueueInv, QueuedOnce, IdleUntouched, ClosedMeansOver, WaiterIsOwedClose, QueueBounded,
         ManagerWaits
<1>4. QED BY <1>1, <1>2, <1>3 DEF QueueInv

\* A request that arrives at a full queue.
LEMMA RejectKeeps ==
  ASSUME QueueInv, NEW r \in Req, NEW x \in Rates, Arrive(r, x), Reject(r),
         schedulingDone' \in [Req -> {"nil", "open", "closed"}], maxQueueActualLen' \in Nat
  PROVE  QueueInv'
<1> USE DEF Arrive, Reject
<1>1. TypeOK'
  <2>1. handlerTimer' \in [Req -> 0 .. HandlerTimeout]
    BY ConstantsAssumption DEF QueueInv, TypeOK
  <2>2. QED BY <2>1 DEF QueueInv, TypeOK
<1>2. QueuedOnce' /\ IdleUntouched'
  BY DEF QueueInv, TypeOK, QueuedOnce, IdleUntouched
<1>3. ClosedMeansOver'
  BY DEF QueueInv, TypeOK, IdleUntouched, ClosedMeansOver
<1>4. WaiterIsOwedClose'
  BY DEF QueueInv, TypeOK, WaiterIsOwedClose
<1>5. QueueBounded' /\ NoLostWakeup'
  BY DEF QueueInv, QueueBounded, NoLostWakeup
<1>6. QED BY <1>1, <1>2, <1>3, <1>4, <1>5 DEF QueueInv

\* A task that is served at once.
LEMMA PreemptKeeps ==
  ASSUME QueueInv, NEW r \in Req, NEW x \in Rates, Arrive(r, x), Spawn(r),
         UNCHANGED <<queue, manager, cursor, timer, schedulingDone, done>>,
         maxQueueActualLen' \in Nat
  PROVE  QueueInv'
<1> USE DEF Arrive, Spawn
<1>1. TypeOK'
  <2>1. handlerTimer' \in [Req -> 0 .. HandlerTimeout]
    BY ConstantsAssumption DEF QueueInv, TypeOK
  <2>2. QED BY <2>1 DEF QueueInv, TypeOK
<1>2. QueuedOnce' /\ IdleUntouched'
  BY DEF QueueInv, TypeOK, QueuedOnce, IdleUntouched
<1>3. ClosedMeansOver'
  BY DEF QueueInv, TypeOK, IdleUntouched, ClosedMeansOver
<1>4. WaiterIsOwedClose'
  BY DEF QueueInv, TypeOK, WaiterIsOwedClose
<1>5. QueueBounded' /\ NoLostWakeup'
  BY DEF QueueInv, QueueBounded, NoLostWakeup
<1>6. QED BY <1>1, <1>2, <1>3, <1>4, <1>5 DEF QueueInv

\* A task that is pushed, with a timer or without one.
LEMMA QueueKeeps ==
  ASSUME QueueInv, NEW r \in Req, NEW x \in Rates, Arrive(r, x), ~QueueFull,
         queue' = Append(queue, r), Signal, UNCHANGED <<cursor, done, serve>>,
         timer' \in [Req -> 0 .. MaxWait],
         schedulingDone' \in [Req -> {"nil", "open", "closed"}], maxQueueActualLen' \in Nat
  PROVE  QueueInv' /\ Range(queue') = Range(queue) \cup {r}
<1> USE DEF Arrive
<1>1. r \notin Range(queue) /\ serve[r] = "none" /\ done[r] = "open"
  BY DEF QueueInv, IdleUntouched
<1>2. /\ queue' \in Seq(Req)
      /\ Len(queue') = Len(queue) + 1
      /\ Range(queue') = Range(queue) \cup {r}
      /\ IsInjective(queue')
  BY <1>1, PushBack, PushIntoInjective DEF QueueInv, TypeOK, QueuedOnce
<1>3. Len(queue) \in Nat
  BY LenProperties DEF QueueInv, TypeOK
<1>4. manager' \in {"top", "scan", "await"}
  BY DEF QueueInv, TypeOK, Signal
<1>5. TypeOK'
  <2>1. handlerTimer' \in [Req -> 0 .. HandlerTimeout]
    BY ConstantsAssumption DEF QueueInv, TypeOK
  <2>2. QED BY <1>2, <1>4, <2>1 DEF QueueInv, TypeOK
<1>6. NoLostWakeup'
  BY <1>4 DEF NoLostWakeup
<1>7. QueuedOnce' /\ IdleUntouched'
  BY <1>1, <1>2 DEF QueueInv, TypeOK, QueuedOnce, IdleUntouched
<1>8. ClosedMeansOver' /\ WaiterIsOwedClose'
  BY <1>1, <1>2 DEF QueueInv, TypeOK, ClosedMeansOver, WaiterIsOwedClose
<1>9. QueueBounded'
  BY <1>2, <1>3, ConstantsAssumption DEF QueueInv, QueueBounded, QueueFull
<1>10. QED BY <1>2, <1>5, <1>6, <1>7, <1>8, <1>9 DEF QueueInv

\* The manager removes the i-th task and starts its goroutine.
LEMMA ServeKeeps ==
  ASSUME QueueInv, NEW i \in 1 .. Len(queue),
         queue' = RemoveAt(queue, i), Spawn(queue[i]),
         manager' \in {"top", "scan", "await"}, cursor' \in Req \cup {Nil},
         UNCHANGED <<maxQueueActualLen, unitVars, handler, handlerTimer, serveTimer, done, panic>>
  PROVE  /\ QueueInv'
         /\ queue[i] \in Req /\ queue[i] \in Range(queue)
         /\ Range(queue') = Range(queue) \ {queue[i]}
<1>1. /\ queue \in Seq(Req) /\ IsInjective(queue)
      /\ Len(queue) \in Nat /\ DOMAIN queue = 1 .. Len(queue)
  BY LenProperties DEF QueueInv, TypeOK, QueuedOnce
<1>2. queue[i] \in Req /\ queue[i] \in Range(queue)
  BY <1>1, ElementOfSeq DEF Range
<1>3. queue' \in Seq(Req) /\ Len(queue') = Len(queue) - 1
  BY <1>1, RemoveElement
<1>4. IsInjective(queue') /\ Range(queue') = Range(queue) \ {queue[i]}
  BY <1>1, RemoveFromInjective
<1>5. TypeOK'
  BY <1>2, <1>3 DEF QueueInv, TypeOK, Spawn
<1>6. QueuedOnce' /\ IdleUntouched'
  BY <1>2, <1>4 DEF QueueInv, TypeOK, QueuedOnce, IdleUntouched, Spawn
<1>7. ClosedMeansOver'
  BY <1>2, <1>4 DEF QueueInv, TypeOK, QueuedOnce, ClosedMeansOver, Spawn
<1>8. WaiterIsOwedClose'
  BY <1>2, <1>4 DEF QueueInv, TypeOK, QueuedOnce, WaiterIsOwedClose, Spawn
<1>9. QueueBounded' /\ NoLostWakeup'
  BY <1>1, <1>3, ConstantsAssumption DEF QueueInv, QueueBounded, NoLostWakeup
<1>10. QED BY <1>2, <1>4, <1>5, <1>6, <1>7, <1>8, <1>9 DEF QueueInv

------------------------------------------------------------------------------
(* The pieces are steps of TaskLifecycle. *)

\* What the refinement mapping says of a request, one case after the other.
LEMMA TaskValue ==
  ASSUME TypeOK, QueuedOnce, IdleUntouched, NEW r \in Req
  PROVE  /\ Task(r) = IF r \in Range(queue) THEN "queued"
                      ELSE IF serve[r] \in {"spawned", "running", "proxying"} THEN "running"
                      ELSE IF serve[r] = "ended" THEN "finished"
                      ELSE IF handler[r] = "idle" THEN "absent" ELSE "rejected"
         /\ Client(r) = IF handler[r] = "idle" THEN "idle"
                        ELSE IF handler[r] = "select" THEN "waiting"
                        ELSE IF handler[r] = "completed" THEN "answered" ELSE "gaveUp"
<1>1. CASE r \in Range(queue)
  BY <1>1 DEF Task, Client, QueuedOnce
<1>2. CASE r \notin Range(queue)
  BY <1>2 DEF Task, Client, IdleUntouched
<1>3. QED BY <1>1, <1>2

\* The same after a step.
LEMMA TaskValueNext ==
  ASSUME TypeOK', QueuedOnce', IdleUntouched', NEW r \in Req
  PROVE  /\ Task(r)' = IF r \in Range(queue') THEN "queued"
                       ELSE IF serve'[r] \in {"spawned", "running", "proxying"} THEN "running"
                       ELSE IF serve'[r] = "ended" THEN "finished"
                       ELSE IF handler'[r] = "idle" THEN "absent" ELSE "rejected"
         /\ Client(r)' = IF handler'[r] = "idle" THEN "idle"
                         ELSE IF handler'[r] = "select" THEN "waiting"
                         ELSE IF handler'[r] = "completed" THEN "answered" ELSE "gaveUp"
<1>1. CASE r \in Range(queue')
  BY <1>1 DEF Task, Client, QueuedOnce
<1>2. CASE r \notin Range(queue')
  BY <1>2 DEF Task, Client, IdleUntouched
<1>3. QED BY <1>1, <1>2

\* A step that concerns one request leaves the image of the others alone.
LEMMA Frame ==
  ASSUME QueueInv, QueueInv', NEW r \in Req,
         \A q \in Req \ {r} : /\ handler'[q] = handler[q]
                              /\ serve'[q] = serve[q]
                              /\ q \in Range(queue') <=> q \in Range(queue)
  PROVE  /\ [q \in Req |-> Task(q)]' = [[q \in Req |-> Task(q)] EXCEPT ![r] = Task(r)']
         /\ [q \in Req |-> Client(q)]' = [[q \in Req |-> Client(q)] EXCEPT ![r] = Client(r)']
<1>1. ASSUME NEW q \in Req \ {r}
      PROVE  Task(q)' = Task(q) /\ Client(q)' = Client(q)
  BY TaskValue, TaskValueNext DEF QueueInv
<1>2. QED BY <1>1

\* A step that changes the image of no request is a stutter of the abstract system.
LEMMA Stutter ==
  ASSUME QueueInv, QueueInv', NEW r \in Req,
         \A q \in Req \ {r} : /\ handler'[q] = handler[q]
                              /\ serve'[q] = serve[q]
                              /\ q \in Range(queue') <=> q \in Range(queue),
         Task(r)' = Task(r), Client(r)' = Client(r)
  PROVE  UNCHANGED Lifecycle!vars
<1>1. /\ [q \in Req |-> Task(q)]' = [[q \in Req |-> Task(q)] EXCEPT ![r] = Task(r)']
      /\ [q \in Req |-> Client(q)]' = [[q \in Req |-> Client(q)] EXCEPT ![r] = Client(r)']
  BY Frame
<1>2. QED BY <1>1 DEF Lifecycle!vars

\* Nothing is queued, served or submitted at first.
LEMMA InitLifecycle == Init => Lifecycle!Init
<1> SUFFICES ASSUME Init PROVE Lifecycle!Init
  OBVIOUS
<1>1. Range(queue) = {}
  BY LenProperties DEF Init, Range
<1>2. QueueInv
  BY InitQueueInv
<1>3. \A r \in Req : Task(r) = "absent" /\ Client(r) = "idle"
  BY <1>1, <1>2, TaskValue DEF QueueInv, Init
<1>4. QED BY <1>3 DEF Lifecycle!Init

\* A step that moves no task and no HandlerFunc is invisible.
LEMMA Invisible ==
  ASSUME QueueInv, QueueInv', UNCHANGED <<queue, handler, serve>>
  PROVE  UNCHANGED Lifecycle!vars
<1>1. \A q \in Req : Task(q)' = Task(q) /\ Client(q)' = Client(q)
  BY TaskValue, TaskValueNext DEF QueueInv
<1>2. QED BY <1>1 DEF Lifecycle!vars

\* An arrival submits its task, which is then queued, served or rejected.
LEMMA Submits ==
  ASSUME QueueInv, QueueInv', NEW r \in Req, NEW x, Arrive(r, x),
         \A q \in Req \ {r} : serve'[q] = serve[q] /\ (q \in Range(queue') <=> q \in Range(queue)),
         serve'[r] \in {"none", "spawned"}
  PROVE  Lifecycle!Submit(r)
<1>1. /\ handler[r] = "idle" /\ handler'[r] = "select"
      /\ \A q \in Req \ {r} : handler'[q] = handler[q]
  BY DEF Arrive, QueueInv, TypeOK
<1>2. Client(r) = "idle" /\ Client(r)' = "waiting"
  BY <1>1, TaskValue, TaskValueNext DEF QueueInv
<1>3. Task(r)' \in {"queued", "running", "rejected"}
  BY <1>1, TaskValueNext DEF QueueInv
<1>4. /\ [q \in Req |-> Task(q)]' = [[q \in Req |-> Task(q)] EXCEPT ![r] = Task(r)']
      /\ [q \in Req |-> Client(q)]' = [[q \in Req |-> Client(q)] EXCEPT ![r] = Client(r)']
  BY <1>1, Frame
<1>5. QED BY <1>2, <1>3, <1>4 DEF Lifecycle!Submit

\* A task that leaves the queue for its goroutine is dispatched.
LEMMA Dispatches ==
  ASSUME QueueInv, QueueInv', NEW r \in Req, r \in Range(queue),
         Range(queue') = Range(queue) \ {r}, Spawn(r), UNCHANGED handler
  PROVE  Lifecycle!Dispatch(r)
<1>1. /\ serve'[r] = "spawned"
      /\ \A q \in Req \ {r} : serve'[q] = serve[q] /\ (q \in Range(queue') <=> q \in Range(queue))
  <2>1. serve'[r] = "spawned" /\ \A q \in Req \ {r} : serve'[q] = serve[q]
    <3>1. DOMAIN serve = Req
      BY DEF QueueInv, TypeOK
    <3>2. QED BY <3>1 DEF Spawn
  <2>2. \A q \in Req \ {r} : q \in Range(queue') <=> q \in Range(queue)
    OBVIOUS
  <2>3. QED BY <2>1, <2>2
<1>2. Task(r) = "queued" /\ Task(r)' = "running" /\ Client(r)' = Client(r)
  BY <1>1, TaskValue, TaskValueNext DEF QueueInv
<1>3. /\ [q \in Req |-> Task(q)]' = [[q \in Req |-> Task(q)] EXCEPT ![r] = Task(r)']
      /\ [q \in Req |-> Client(q)]' = [[q \in Req |-> Client(q)] EXCEPT ![r] = Client(r)']
  BY <1>1, Frame
<1>4. QED BY <1>2, <1>3 DEF Lifecycle!Dispatch

\* serveRequest finishes its task when ServeHTTP returns.
LEMMA ServeFinishes ==
  ASSUME QueueInv, QueueInv', NEW r \in Req, ServeRequest(r)
  PROVE  Lifecycle!Finish(r) \/ UNCHANGED Lifecycle!vars
<1>1. /\ \A q \in Req \ {r} : /\ handler'[q] = handler[q]
                              /\ serve'[q] = serve[q]
                              /\ q \in Range(queue') <=> q \in Range(queue)
      /\ handler'[r] = handler[r] /\ queue' = queue
      /\ serve[r] \in {"spawned", "running", "proxying"}
      /\ serve'[r] \in {"running", "proxying", "ended"}
  <2>1. /\ handler' = handler /\ queue' = queue
        /\ serve[r] \in {"spawned", "running", "proxying"}
        /\ \E v \in {"running", "proxying", "ended"} : serve' = [serve EXCEPT ![r] = v]
    BY DEF ServeRequest, ServeStarts, FunctionCalled, ClosesChannel, ServeReturns, ServeReturnsLate
  <2>2. QED BY <2>1 DEF QueueInv, TypeOK
<1>2. r \notin Range(queue)
  BY <1>1 DEF QueueInv, QueuedOnce
<1>3. Client(r)' = Client(r) /\ Task(r) = "running"
  BY <1>1, <1>2, TaskValue, TaskValueNext DEF QueueInv
<1>4. CASE serve'[r] = "ended"
  <2>1. Task(r)' = "finished"
    BY <1>1, <1>2, <1>4, TaskValueNext DEF QueueInv
  <2>2. /\ [q \in Req |-> Task(q)]' = [[q \in Req |-> Task(q)] EXCEPT ![r] = Task(r)']
        /\ [q \in Req |-> Client(q)]' = [[q \in Req |-> Client(q)] EXCEPT ![r] = Client(r)']
    BY <1>1, Frame
  <2>3. QED BY <1>3, <2>1, <2>2 DEF Lifecycle!Finish
<1>5. CASE serve'[r] # "ended"
  <2>1. Task(r)' = "running"
    BY <1>1, <1>2, <1>5, TaskValueNext DEF QueueInv
  <2>2. QED BY <1>1, <1>3, <2>1, Stutter
<1>6. QED BY <1>4, <1>5

\* A HandlerFunc is answered about a task that is over, or gives up.
LEMMA HandlerAnswers ==
  ASSUME QueueInv, QueueInv', NEW r \in Req, HandlerFunc(r)
  PROVE  Lifecycle!Answer(r) \/ Lifecycle!GiveUp(r)
<1>1. /\ \A q \in Req \ {r} : /\ handler'[q] = handler[q]
                              /\ serve'[q] = serve[q]
                              /\ q \in Range(queue') <=> q \in Range(queue)
      /\ serve'[r] = serve[r] /\ queue' = queue /\ handler[r] = "select"
      /\ handler'[r] \in {"completed", "timedOut", "aborted"}
      /\ handler'[r] = "completed" => done[r] = "closed"
  <2>1. /\ serve' = serve /\ queue' = queue /\ handler[r] = "select"
        /\ \E v \in {"completed", "timedOut", "aborted"} :
             /\ handler' = [handler EXCEPT ![r] = v]
             /\ v = "completed" => done[r] = "closed"
    BY DEF HandlerFunc, HandlerReceivesDone, HandlerTimesOut, queueVars
  <2>2. QED BY <2>1 DEF QueueInv, TypeOK
<1>2. Task(r)' = Task(r) /\ Client(r) = "waiting"
  BY <1>1, TaskValue, TaskValueNext DEF QueueInv
<1>3. /\ [q \in Req |-> Task(q)]' = [[q \in Req |-> Task(q)] EXCEPT ![r] = Task(r)']
      /\ [q \in Req |-> Client(q)]' = [[q \in Req |-> Client(q)] EXCEPT ![r] = Client(r)']
  BY <1>1, Frame
<1>4. UNCHANGED [q \in Req |-> Task(q)]
  BY <1>2, <1>3
<1>5. CASE handler'[r] = "completed"
  <2>1. Client(r)' = "answered"
    BY <1>5, TaskValueNext DEF QueueInv
  <2>2. Task(r) \in {"finished", "rejected"}
    BY <1>1, <1>5, TaskValue DEF QueueInv, TypeOK, ClosedMeansOver
  <2>3. QED BY <1>2, <1>3, <1>4, <2>1, <2>2 DEF Lifecycle!Answer
<1>6. CASE handler'[r] # "completed"
  <2>1. Client(r)' = "gaveUp"
    BY <1>1, <1>6, TaskValueNext DEF QueueInv
  <2>2. QED BY <1>2, <1>3, <1>4, <2>1 DEF Lifecycle!GiveUp
<1>7. QED BY <1>5, <1>6

==============================================================================
