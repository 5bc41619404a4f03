--------------------------- MODULE RealWorldProofs ---------------------------
(***************************************************************************)
(* Machine-checked proofs about RealWorld, for every number and length of  *)
(* sequences, all tables, pauses and timeouts: the service runs the queue  *)
(* as PreemptiveQueue describes it, so that the theorems about the queue   *)
(* hold of it; the tasks of a sequence keep their order; and a process     *)
(* that main lets end has no task left.                                    *)
(***************************************************************************)
EXTENDS RealWorld, PreemptiveQueueProofs

\* AddReq is called once for every task, whose HandlerFunc then waits.
LEMMA AddReqHandler ==
  ASSUME NEW r \in Req, AddReq(r)
  PROVE  handler[r] = "idle" /\ handler' = [handler EXCEPT ![r] = "select"]
BY DEF AddReq, AddReqRejects, AddReqPreempts, AddReqQueues, Arrive

\* The select of a HandlerFunc ends once.
LEMMA SelectEnds ==
  ASSUME NEW r \in Req, HandlerFunc(r)
  PROVE  \E v \in Over : handler' = [handler EXCEPT ![r] = v]
BY DEF HandlerFunc, HandlerReceivesDone, HandlerTimesOut, Over

\* The steps of the manager, of serveRequest and of time leave the HandlerFuncs alone.
LEMMA BackgroundHandler ==
  ASSUME ManageQueue \/ Tick \/ \E r \in Req : ServeRequest(r)
  PROVE  UNCHANGED handler
BY DEF ManageQueue, ManagerWaits, PassBegins, PassServes, PassSkips, Tick, Elapse, taskVars,
       ServeRequest, ServeStarts, FunctionCalled, ServeReturns, ServeReturnsLate

\* real_world_support.go:112-142: a length that is drawn is an integer.
LEMMA DrawsType ==
  ASSUME NEW file, NEW rows \in Seq(Row)
  PROVE  Draws(Table(file, rows)) \subseteq Int
<1> DEFINE t == Table(file, rows)
<1>1. t \in Seq(Row)
  BY EmptySeq DEF Table
<1> HIDE DEF t
<1>2. \A i \in DOMAIN t : t[i] \in Row
  BY <1>1, ElementOfSeq, LenProperties
<1>3. \A i \in DOMAIN t : t[i].key \in Int
  BY <1>2 DEF Row
<1>4. Draws(t) \subseteq Int
  BY <1>3 DEF Draws
<1>5. QED BY <1>4 DEF t

\* The next task of a sequence that may submit one is one of the requests.
LEMMA NextTask ==
  ASSUME Sequential, NEW s \in Sequence, at[s] = "ready"
  PROVE  /\ submitted[s] \in Nat /\ Len(TaskOf[s]) \in Nat
         /\ submitted[s] + 1 \in 1 .. Len(TaskOf[s])
         /\ TaskOf[s][submitted[s] + 1] \in Req
<1>1. TaskOf[s] \in Seq(Req)
  BY RealWorldAssumption
<1>2. submitted[s] \in Nat /\ seqlen[s] \in Int /\ Len(TaskOf[s]) \in Nat
  BY <1>1, LenProperties DEF Sequential, RealWorldTypeOK
<1>3. submitted[s] < seqlen[s] /\ seqlen[s] <= Len(TaskOf[s])
  BY DEF Sequential, InSequence
<1>4. submitted[s] + 1 \in 1 .. Len(TaskOf[s])
  BY <1>2, <1>3
<1>5. QED BY <1>1, <1>2, <1>4, ElementOfSeq

\* So is the one it waits for.
LEMMA CurrentTask ==
  ASSUME Sequential, NEW s \in Sequence, at[s] = "task"
  PROVE  submitted[s] \in 1 .. Len(TaskOf[s]) /\ Current(s) \in Req
<1>1. TaskOf[s] \in Seq(Req)
  BY RealWorldAssumption
<1>2. submitted[s] \in Nat /\ Len(TaskOf[s]) \in Nat
  BY <1>1, LenProperties DEF Sequential, RealWorldTypeOK
<1>3. submitted[s] > 0 /\ submitted[s] <= Len(TaskOf[s])
  BY DEF Sequential, InSequence
<1>4. QED BY <1>1, <1>2, <1>3, ElementOfSeq DEF Current

------------------------------------------------------------------------------
(* The sequences *)

\* No sequence has begun.
LEMMA InitSequential == RealWorldInit => Sequential
<1> SUFFICES ASSUME RealWorldInit PROVE Sequential
  OBVIOUS
<1>1. RealWorldTypeOK
  BY RealWorldAssumption DEF RealWorldInit, RealWorldTypeOK
<1>2. ASSUME NEW s \in Sequence PROVE InSequence(s)
  <2>1. Len(TaskOf[s]) \in Nat
    BY RealWorldAssumption, LenProperties
  <2>2. QED BY <2>1 DEF RealWorldInit, InSequence
<1>3. QED BY <1>1, <1>2 DEF Sequential, RealWorldInit, Init

\* A new sequence has submitted nothing.
LEMMA BeginsSequential ==
  ASSUME Sequential, NEW s \in Sequence, SequenceBegins(s)
  PROVE  Sequential'
<1>1. PICK len \in Draws(Table("chainlenCDF", ChainLens)) :
        /\ len <= Len(TaskOf[s])
        /\ at' = [at EXCEPT ![s] = IF len > 0 THEN "ready" ELSE "returned"]
        /\ seqlen' = [seqlen EXCEPT ![s] = len]
  BY DEF SequenceBegins
<1>2. len \in Int
  BY <1>1, DrawsType, RealWorldAssumption
<1>3. RealWorldTypeOK'
  <2>1. \A b : b = TRUE \/ b = FALSE => b \in BOOLEAN
    OBVIOUS
  <2>2. endless' \in [Sequence -> BOOLEAN]
    BY DEF SequenceBegins, Sequential, RealWorldTypeOK, NeverPositive
  <2>3. QED BY <1>1, <1>2, <2>2 DEF SequenceBegins, Sequential, RealWorldTypeOK
<1>4. ASSUME NEW t \in Sequence PROVE InSequence(t)'
  BY <1>1, <1>2 DEF SequenceBegins, Sequential, RealWorldTypeOK, InSequence, vars, taskVars
<1>5. \A r \in Req : handler'[r] # "idle" => Submitted(r)'
  BY DEF SequenceBegins, Sequential, Submitted, vars, taskVars
<1>6. main' # "exited"
  BY DEF SequenceBegins, Alive
<1>7. QED BY <1>3, <1>4, <1>5, <1>6 DEF Sequential

\* A sequence submits its next task when the last one is past.
LEMMA SubmitsSequential ==
  ASSUME Sequential, TypeOK, NEW s \in Sequence, SubmitsTask(s)
  PROVE  Sequential'
<1> DEFINE n == submitted[s] + 1
           r == TaskOf[s][n]
<1>1. /\ at[s] = "ready" /\ submitted[s] \in Nat /\ Len(TaskOf[s]) \in Nat
      /\ n \in 1 .. Len(TaskOf[s]) /\ r \in Req
  BY NextTask DEF SubmitsTask, MaySubmit
<1>2. /\ at' = [at EXCEPT ![s] = "task"]
      /\ submitted' = [submitted EXCEPT ![s] = n]
      /\ \E w \in 0 .. MaxPause : pause' = [pause EXCEPT ![s] = w]
      /\ AddReq(TaskOf[s][submitted'[s]])
      /\ UNCHANGED <<missing, seqlen, endless, main>>
      /\ main # "exited"
  BY DEF SubmitsTask, Alive
<1>3. submitted'[s] = n
  BY <1>2 DEF Sequential, RealWorldTypeOK
<1>4. handler[r] = "idle" /\ handler' = [handler EXCEPT ![r] = "select"]
  BY <1>1, <1>2, <1>3, AddReqHandler
<1>5. RealWorldTypeOK'
  BY <1>1, <1>2 DEF Sequential, RealWorldTypeOK
<1>6. ASSUME NEW t \in Sequence PROVE InSequence(t)'
  <2>1. /\ TaskOf[t] \in Seq(Req) /\ Len(TaskOf[t]) \in Nat /\ submitted[t] \in Nat
        /\ submitted[t] <= Len(TaskOf[t])
    BY RealWorldAssumption, LenProperties DEF Sequential, RealWorldTypeOK, InSequence
  <2>2. submitted'[t] = IF t = s THEN n ELSE submitted[t]
    BY <1>2 DEF Sequential, RealWorldTypeOK
  <2>3. at'[t] = IF t = s THEN "task" ELSE at[t]
    BY <1>2 DEF Sequential, RealWorldTypeOK
  <2>4. ASSUME NEW i \in 1 .. submitted'[t], i < submitted'[t] \/ at'[t] # "task"
        PROVE  handler'[TaskOf[t][i]] \in Over
    <3>1. i \in 1 .. submitted[t] /\ (i < submitted[t] \/ at[t] # "task")
      BY <1>1, <2>1, <2>2, <2>3, <2>4
    <3>2. handler[TaskOf[t][i]] \in Over
      BY <3>1 DEF Sequential, InSequence
    <3>3. TaskOf[t][i] # r
      BY <1>4, <3>2 DEF Over
    <3>4. TaskOf[t][i] \in Req
      BY <2>1, <3>1, ElementOfSeq
    <3>5. QED BY <1>4, <3>2, <3>3, <3>4 DEF TypeOK
  <2>5. /\ seqlen'[t] <= Len(TaskOf[t])
        /\ at'[t] = "idle" => submitted'[t] = 0
        /\ at'[t] = "ready" => submitted'[t] < seqlen'[t]
    BY <1>2, <2>2, <2>3 DEF Sequential, InSequence
  <2>6. /\ submitted'[t] <= Len(TaskOf[t])
        /\ at'[t] = "task" => submitted'[t] > 0
    BY <1>1, <2>1, <2>2, <2>3 DEF Sequential, InSequence
  <2>7. QED BY <2>4, <2>5, <2>6 DEF InSequence
<1>7. ASSUME NEW q \in Req, handler'[q] # "idle" PROVE Submitted(q)'
  <2>1. CASE q = r
    BY <1>1, <1>3, <2>1 DEF Submitted
  <2>2. CASE q # r
    <3>1. Submitted(q)
      BY <1>4, <1>7, <2>2 DEF Sequential, TypeOK
    <3>2. \A t \in Sequence : submitted[t] \in Nat /\ submitted'[t] >= submitted[t]
      BY <1>1, <1>2 DEF Sequential, RealWorldTypeOK
    <3>3. \A t \in Sequence : submitted'[t] \in Nat
      BY <1>5 DEF RealWorldTypeOK
    <3>4. QED BY <3>1, <3>2, <3>3 DEF Submitted
  <2>3. QED BY <2>1, <2>2
<1>8. QED BY <1>2, <1>5, <1>6, <1>7 DEF Sequential

\* The task that a sequence waits for is past when its select ends.
LEMMA EndsSequential ==
  ASSUME Sequential, TypeOK, NEW s \in Sequence, TaskEnds(s)
  PROVE  Sequential'
<1> DEFINE r == Current(s)
<1>1. submitted[s] \in 1 .. Len(TaskOf[s]) /\ r \in Req
  BY CurrentTask DEF TaskEnds
<1>2. PICK v \in Over : handler' = [handler EXCEPT ![r] = v]
  BY <1>1, SelectEnds DEF TaskEnds
<1>3. PICK place \in {"asleep", "returned"} : at' = [at EXCEPT ![s] = place]
  BY DEF TaskEnds
<1>4. RealWorldTypeOK'
  BY <1>3 DEF TaskEnds, Sequential, RealWorldTypeOK
<1>5. ASSUME NEW t \in Sequence PROVE InSequence(t)'
  <2>1. at'[t] = IF t = s THEN place ELSE at[t]
    BY <1>3 DEF Sequential, RealWorldTypeOK
  <2>2. /\ submitted[t] \in Nat /\ Len(TaskOf[t]) \in Nat /\ submitted[t] <= Len(TaskOf[t])
        /\ UNCHANGED <<submitted, seqlen>>
    BY RealWorldAssumption, LenProperties DEF Sequential, RealWorldTypeOK, InSequence, TaskEnds
  <2>3. ASSUME NEW i \in 1 .. submitted[t], i < submitted[t] \/ at'[t] # "task"
        PROVE  handler'[TaskOf[t][i]] \in Over
    <3>1. CASE TaskOf[t][i] = r
      BY <1>1, <1>2, <3>1 DEF TypeOK
    <3>2. CASE TaskOf[t][i] # r
      <4>0. TaskOf[t][i] \in Req
        BY RealWorldAssumption, <2>2, <2>3, ElementOfSeq
      <4>1. i < submitted[t] \/ at[t] # "task"
        BY <2>1, <2>2, <2>3, <3>2 DEF Current
      <4>2. handler[TaskOf[t][i]] \in Over
        BY <4>1 DEF Sequential, InSequence
      <4>3. QED BY <1>2, <3>2, <4>0, <4>2 DEF TypeOK
    <3>3. QED BY <3>1, <3>2
  <2>4. QED BY <2>1, <2>2, <2>3 DEF Sequential, InSequence
<1>6. ASSUME NEW q \in Req, handler'[q] # "idle" PROVE Submitted(q)'
  <2>1. Submitted(q)
    <3>1. CASE q = r
      BY <1>1, <3>1 DEF Submitted, Current
    <3>2. CASE q # r
      BY <1>2, <1>6, <3>2 DEF Sequential, TypeOK
    <3>3. QED BY <3>1, <3>2
  <2>2. QED BY <2>1 DEF Submitted, TaskEnds
<1>7. main' # "exited"
  BY DEF TaskEnds, Alive
<1>8. QED BY <1>4, <1>5, <1>6, <1>7 DEF Sequential

\* A pause changes nothing but the place of the HandlerFunc.
LEMMA PauseSequential ==
  ASSUME Sequential, NEW s \in Sequence, PauseEnds(s)
  PROVE  Sequential'
<1>1. /\ at[s] = "asleep" /\ main' # "exited"
      /\ at' = [at EXCEPT ![s] = IF submitted[s] < seqlen[s] THEN "ready" ELSE "returned"]
      /\ UNCHANGED <<handler, seqlen, endless, submitted, pause, missing, main>>
  BY DEF PauseEnds, Alive, vars, taskVars
<1>2. RealWorldTypeOK'
  BY <1>1 DEF Sequential, RealWorldTypeOK
<1>3. ASSUME NEW t \in Sequence PROVE InSequence(t)'
  BY <1>1 DEF Sequential, RealWorldTypeOK, InSequence
<1>4. QED BY <1>1, <1>2, <1>3 DEF Sequential, Submitted

\* Neither does what main or the other goroutines do.
LEMMA OtherSequential ==
  ASSUME Sequential, UNCHANGED <<handler, missing, at, seqlen, endless, submitted>>,
         pause' \in [Sequence -> 0 .. MaxPause],
         UNCHANGED main \/ main' \in {"draining", "closing"} \/ (main' = "exited" /\ Drained)
  PROVE  Sequential'
BY DEF Sequential, RealWorldTypeOK, InSequence, Submitted, Drained

\* Every step keeps the sequences.
LEMMA StepSequential ==
  Sequential /\ TypeOK /\ [RealWorldNext]_rwVars => Sequential'
<1> SUFFICES ASSUME Sequential, TypeOK, [RealWorldNext]_rwVars PROVE Sequential'
  OBVIOUS
<1>0. pause \in [Sequence -> 0 .. MaxPause] /\ MaxPause \in Nat
  BY RealWorldAssumption DEF Sequential, RealWorldTypeOK
<1>1. ASSUME NEW s \in Sequence, SequenceBegins(s) \/ SequenceSteps(s) PROVE Sequential'
  BY <1>1, BeginsSequential, SubmitsSequential, EndsSequential, PauseSequential DEF SequenceSteps
<1>2. CASE Background(ManageQueue)
  BY <1>0, <1>2, BackgroundHandler, OtherSequential DEF Background, sequenceVars
<1>3. ASSUME NEW r \in Req, Background(ServeRequest(r)) PROVE Sequential'
  BY <1>0, <1>3, BackgroundHandler, OtherSequential DEF Background, sequenceVars
<1>4. CASE RealWorldTick
  <2>1. UNCHANGED handler
    BY <1>4, BackgroundHandler DEF RealWorldTick, vars, taskVars
  <2>2. pause' \in [Sequence -> 0 .. MaxPause]
    BY <1>0, <1>4 DEF RealWorldTick, Asleep
  <2>3. QED BY <1>4, <2>1, <2>2, OtherSequential DEF RealWorldTick
<1>5. CASE Signalled \/ Main \/ UNCHANGED rwVars
  BY <1>0, <1>5, OtherSequential
  DEF Signalled, Main, ShutdownBegins, Exits, rwVars, sequenceVars, vars, taskVars
<1>6. QED BY <1>1, <1>2, <1>3, <1>4, <1>5 DEF RealWorldNext

------------------------------------------------------------------------------
(* The theorems *)

\* What the service does with the queue are steps of the queue.
LEMMA QueueStep ==
  Sequential /\ [RealWorldNext]_rwVars => [Next]_vars
<1> SUFFICES ASSUME Sequential, [RealWorldNext]_rwVars PROVE [Next]_vars
  OBVIOUS
<1>1. ASSUME NEW s \in Sequence, SubmitsTask(s) PROVE Next
  <2>1. submitted'[s] = submitted[s] + 1
    BY <1>1 DEF SubmitsTask, Sequential, RealWorldTypeOK
  <2>2. TaskOf[s][submitted'[s]] \in Req
    BY <1>1, <2>1, NextTask DEF SubmitsTask, MaySubmit
  <2>3. QED BY <1>1, <2>2 DEF SubmitsTask, Next
<1>2. ASSUME NEW s \in Sequence, TaskEnds(s) PROVE Next
  BY <1>2, CurrentTask DEF TaskEnds, Next
<1>3. ASSUME NEW s \in Sequence, SequenceBegins(s) \/ PauseEnds(s) PROVE UNCHANGED vars
  BY <1>3 DEF SequenceBegins, PauseEnds
<1>4. ASSUME Background(ManageQueue) \/ \E r \in Req : Background(ServeRequest(r)) PROVE Next
  BY <1>4 DEF Background, Next
<1>5. CASE RealWorldTick
  BY <1>5 DEF RealWorldTick, Next
<1>6. CASE Signalled \/ Main \/ UNCHANGED rwVars
  BY <1>6 DEF Signalled, Main, ShutdownBegins, Exits, rwVars
<1>7. QED BY <1>1, <1>2, <1>3, <1>4, <1>5, <1>6 DEF RealWorldNext, SequenceSteps

\* main.go:216-367: Sequential and Consistent together are inductive.
LEMMA SequentialAlways == RealWorldSpec => [](Sequential /\ Consistent)
<1>1. RealWorldInit => Sequential /\ Consistent
  BY InitSequential, InitConsistent DEF RealWorldInit
<1>2. Sequential /\ Consistent /\ [RealWorldNext]_rwVars => (Sequential /\ Consistent)'
  <2>1. Consistent => TypeOK
    BY DEF Consistent, QueueInv
  <2>2. QED BY <2>1, StepSequential, QueueStep, StepConsistent
<1>3. QED BY <1>1, <1>2, PTL DEF RealWorldSpec

\* handler.go:225-267: the service runs the queue, its manager and its HandlerFuncs as
\* PreemptiveQueue describes them; what is proved of the queue holds of the service.
THEOREM ServiceRunsTheQueue == RealWorldSpec => Spec
<1>1. RealWorldInit => Init
  BY DEF RealWorldInit
<1>2. QED BY <1>1, SequentialAlways, QueueStep, PTL DEF RealWorldSpec, Spec

\* A task whose HandlerFunc is past it is not queued, nor being served in its 300 s.
LEMMA OverIsDone ==
  ASSUME Consistent, Deadlines, NEW r \in Req, handler[r] \in Over
  PROVE  ~Queued(r) /\ (Serving(r) => serve[r] # "spawned" /\ serveTimer[r] = 0)
<1>1. serveTimer[r] \in Nat
  BY TimerType DEF Consistent, QueueInv
<1>2. QED BY <1>1 DEF Deadlines, Serving, Over

\* handler.go:215: with the timeouts of the service a sequence never has a task queued or
\* being served while a later one has been submitted.
THEOREM SequencesKeepTheirOrder ==
  ASSUME RealWorldDeadlines
  PROVE  RealWorldSpec => []TasksInOrder
<1>1. ASSUME Sequential, Consistent, Deadlines PROVE TasksInOrder
  <2>1. ASSUME NEW s \in Sequence, NEW i \in 1 .. submitted[s] - 1
        PROVE  TaskOf[s][i] \in Req /\ handler[TaskOf[s][i]] \in Over
    <3>1. submitted[s] \in Nat /\ submitted[s] <= Len(TaskOf[s]) /\ TaskOf[s] \in Seq(Req)
      BY <1>1, RealWorldAssumption DEF Sequential, RealWorldTypeOK, InSequence
    <3>2. i \in 1 .. submitted[s] /\ i < submitted[s] /\ i \in 1 .. Len(TaskOf[s])
      BY <3>1, LenProperties
    <3>3. QED BY <1>1, <3>1, <3>2, ElementOfSeq DEF Sequential, InSequence
  <2>2. QED BY <1>1, <2>1, OverIsDone DEF TasksInOrder
<1>2. QED
  BY <1>1, SequentialAlways, ServiceRunsTheQueue, ConsistentAlways, InitDeadlines, StepDeadlines,
     PTL DEF Spec

\* main.go:354: when main lets the process end no task is queued or being served.
THEOREM DrainLosesNoTask ==
  ASSUME RealWorldDeadlines
  PROVE  RealWorldSpec => []ExitLosesNoTask
<1>1. ASSUME Sequential, Consistent, Deadlines PROVE ExitLosesNoTask
  <2> SUFFICES ASSUME main = "exited", NEW r \in Req
               PROVE  ~Queued(r) /\ (Serving(r) => serve[r] # "spawned" /\ serveTimer[r] = 0)
    BY DEF ExitLosesNoTask
  <2>1. CASE handler[r] = "idle"
    BY <1>1, <2>1 DEF Consistent, QueueInv, IdleUntouched, Serving
  <2>2. CASE handler[r] # "idle"
    <3>0. PICK s \in Sequence : \E i \in 1 .. submitted[s] : TaskOf[s][i] = r
      BY <1>1, <2>2 DEF Sequential, Submitted
    <3>1. PICK i \in 1 .. submitted[s] : TaskOf[s][i] = r
      BY <3>0
    <3>2. at[s] # "task"
      BY <1>1 DEF Sequential, Drained
    <3>3. handler[r] \in Over
      BY <1>1, <3>1, <3>2 DEF Sequential, InSequence
    <3>4. QED BY <1>1, <3>3, OverIsDone
  <2>3. QED BY <2>1, <2>2
<1>2. QED
  BY <1>1, SequentialAlways, ServiceRunsTheQueue, ConsistentAlways, InitDeadlines, StepDeadlines,
     PTL DEF Spec

==============================================================================
