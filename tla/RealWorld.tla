------------------------------ MODULE RealWorld ------------------------------
(***************************************************************************)
(* The real-world service on top of the preemptive queue: a POST is a      *)
(* sequence of tasks, which its HandlerFunc submits one after another with *)
(* a random pause in between; on SIGTERM main waits for the HandlerFuncs   *)
(* and lets the process end, whatever other goroutines still do.           *)
(*                                                                         *)
(* Random numbers choose rows of tables that are read from files at start. *)
(* A file that is not there leaves its table empty.                        *)
(***************************************************************************)
EXTENDS PreemptiveQueue

CONSTANTS
  Sequence,   \* the POSTs
  TaskOf,     \* TaskOf[s]: the SchedulingUnits of sequence s in order, a bound on its length
  ChainLens,  \* the rows of chainlenCDF.csv: key and cumulative probability
  Invokes,    \* those of invokesCDF.csv
  CVs,        \* those of CVs.csv
  Scale,      \* rand.Float64 yields one of 0 .. Scale - 1, out of Scale
  MayMiss,    \* the files that may be missing
  MaxPause    \* bound on a pause, in ticks

Row == [key : Int, value : 0 .. Scale]

\* GetRandZipf: the task lengths of the service.
GetRandZipf == 1 .. 30001

ASSUME RealWorldAssumption ==
  /\ Scale \in Nat \ {0} /\ MaxPause \in Nat
  /\ {ChainLens, Invokes, CVs} \subseteq Seq(Row)
  /\ TaskOf \in [Sequence -> Seq(Req)]
  /\ \A s, t \in Sequence : \A i \in DOMAIN TaskOf[s], j \in DOMAIN TaskOf[t] :
       TaskOf[s][i] = TaskOf[t][j] => s = t /\ i = j
  /\ Rates \subseteq GetRandZipf

VARIABLES
  missing,    \* the files that were missing at start
  at,         \* where the HandlerFunc of each sequence is
  seqlen,     \* its seqlen
  endless,    \* will its GetRandIAT never return?
  submitted,  \* the number of its tasks submitted so far
  pause,      \* tmpInterval, then what is left of the sleep, in ticks
  main        \* where main is

sequenceVars == <<at, seqlen, endless, submitted, pause>>
rwVars == <<vars, missing, sequenceVars, main>>

RealWorldTypeOK ==
  /\ missing \subseteq MayMiss
  /\ at \in [Sequence -> {"idle", "ready", "task", "asleep", "returned"}]
  /\ seqlen \in [Sequence -> Int]
  /\ endless \in [Sequence -> BOOLEAN]
  /\ submitted \in [Sequence -> Nat]
  /\ pause \in [Sequence -> 0 .. MaxPause]
  /\ main \in {"serving", "draining", "closing", "exited"}

RealWorldInit ==
  /\ Init
  /\ missing \in SUBSET MayMiss
  /\ at = [s \in Sequence |-> "idle"]
  /\ seqlen = [s \in Sequence |-> 0]
  /\ endless = [s \in Sequence |-> FALSE]
  /\ submitted = [s \in Sequence |-> 0]
  /\ pause = [s \in Sequence |-> 0]
  /\ main = "serving"

------------------------------------------------------------------------------
(* The random draws *)

Table(file, rows) == IF file \in missing THEN <<>> ELSE rows

\* Row i is the first one that is not below the random number.
Hits(rows, rnd, i) == rnd <= rows[i].value /\ \A j \in 1 .. i - 1 : rows[j].value < rnd

\* GetSeqLen, GetRandAvgIAT, GetRandCV: the key of that row, -1 if there is none.
Draws(rows) ==
  {rows[i].key : i \in {k \in DOMAIN rows : \E rnd \in 0 .. Scale - 1 : Hits(rows, rnd, k)}}
    \cup {-1 : rnd \in {x \in 0 .. Scale - 1 : \A row \in Range(rows) : row.value < x}}

\* GetRandIAT draws until it has a positive number from a distribution with this
\* mean and deviation avgIAT * cv.
NeverPositive(avgIAT, cv) == avgIAT <= 0 /\ avgIAT * cv = 0

------------------------------------------------------------------------------
(* The HandlerFunc of a sequence *)

Alive == main # "exited" /\ panic = "none"

Current(s) == TaskOf[s][submitted[s]]

\* No server accepts a request once main closes them.
SequenceBegins(s) ==
  /\ Alive /\ main # "closing"
  /\ at[s] = "idle"
  /\ \E len \in Draws(Table("chainlenCDF", ChainLens)),
        avgIAT \in Draws(Table("invokesCDF", Invokes)), cv \in Draws(Table("CVs", CVs)) :
       /\ len <= Len(TaskOf[s])
       /\ at' = [at EXCEPT ![s] = IF len > 0 THEN "ready" ELSE "returned"]
       /\ seqlen' = [seqlen EXCEPT ![s] = len]
       /\ endless' = [endless EXCEPT ![s] = NeverPositive(avgIAT, cv)]
  /\ UNCHANGED <<vars, missing, submitted, pause, main>>

\* Mutant of MaySubmit: the next task does not wait for the answer of the last one.
MaySubmitEarly(s) == at[s] \in {"ready", "task"} /\ ~endless[s] /\ submitted[s] < seqlen[s]

MaySubmit(s) == at[s] = "ready" /\ ~endless[s]

\* The next task of the sequence goes to AddReq; no pause follows the last one.
SubmitsTask(s) ==
  /\ Alive
  /\ MaySubmit(s)
  /\ at' = [at EXCEPT ![s] = "task"]
  /\ submitted' = [submitted EXCEPT ![s] = @ + 1]
  /\ \E w \in 0 .. MaxPause :
       /\ submitted'[s] = seqlen[s] => w = 0
       /\ pause' = [pause EXCEPT ![s] = w]
  /\ AddReq(TaskOf[s][submitted'[s]])
  /\ UNCHANGED <<missing, seqlen, endless, main>>

\* The select of the task ends and the HandlerFunc sleeps, unless it panicked.
TaskEnds(s) ==
  /\ Alive
  /\ at[s] = "task"
  /\ HandlerFunc(Current(s))
  /\ at' = [at EXCEPT ![s] = IF handler'[Current(s)] = "aborted" THEN "returned" ELSE "asleep"]
  /\ UNCHANGED <<missing, seqlen, endless, submitted, pause, main>>

\* Mutant of PauseEnds: the HandlerFunc looks for tasks beyond the length drawn.
PauseEndsForGood(s) ==
  /\ Alive
  /\ at[s] = "asleep"
  /\ pause[s] = 0
  /\ at' = [at EXCEPT ![s] = IF submitted[s] < Len(TaskOf[s]) THEN "ready" ELSE "asleep"]
  /\ UNCHANGED <<vars, missing, seqlen, endless, submitted, pause, main>>

\* After the last task the results are written and the HandlerFunc returns.
PauseEnds(s) ==
  /\ Alive
  /\ at[s] = "asleep"
  /\ pause[s] = 0
  /\ at' = [at EXCEPT ![s] = IF submitted[s] < seqlen[s] THEN "ready" ELSE "returned"]
  /\ UNCHANGED <<vars, missing, seqlen, endless, submitted, pause, main>>

SequenceSteps(s) == SubmitsTask(s) \/ TaskEnds(s) \/ PauseEnds(s)

------------------------------------------------------------------------------
(* main, and the goroutines that main does not know of *)

Signalled == Alive /\ main = "serving" /\ main' = "draining" /\ UNCHANGED <<vars, missing, sequenceVars>>

\* After a sleep of 45 s, in which requests still arrive, the servers are shut down.
ShutdownBegins ==
  Alive /\ main = "draining" /\ main' = "closing" /\ UNCHANGED <<vars, missing, sequenceVars>>

\* Mutant of Drained: the process does not wait for the HandlerFuncs.
DrainedAtOnce == TRUE

Drained == \A s \in Sequence : at[s] \in {"idle", "returned"}

\* server.Shutdown has returned: the HandlerFuncs have, and main returns.
Exits ==
  /\ Alive
  /\ main = "closing"
  /\ Drained
  /\ main' = "exited"
  /\ UNCHANGED <<vars, missing, sequenceVars>>

Main == ShutdownBegins \/ Exits

\* A step of the manager or of a serveRequest goroutine.
Background(step) ==
  /\ Alive
  /\ step
  /\ UNCHANGED <<missing, sequenceVars, main>>

Asleep(s) == at[s] = "asleep" /\ pause[s] > 0

RealWorldTick ==
  /\ Alive
  /\ Tick \/ (~TimersRun /\ (\E s \in Sequence : Asleep(s)) /\ UNCHANGED vars)
  /\ pause' = [s \in Sequence |-> IF Asleep(s) THEN pause[s] - 1 ELSE pause[s]]
  /\ UNCHANGED <<missing, at, seqlen, endless, submitted, main>>

RealWorldNext ==
  \/ \E s \in Sequence : SequenceBegins(s) \/ SequenceSteps(s)
  \/ Background(ManageQueue) \/ \E r \in Req : Background(ServeRequest(r))
  \/ RealWorldTick
  \/ Signalled
  \/ Main

RealWorldSpec == RealWorldInit /\ [][RealWorldNext]_rwVars

\* The Go scheduler runs every goroutine that can run, and clocks advance.
\* Nothing obliges a pod to answer: no fairness on FunctionCalled, ServeReturns;
\* nor a client to begin a sequence, or Kubernetes to send the signal.
RealWorldFairSpec ==
  /\ RealWorldSpec
  /\ WF_rwVars(Background(ManageQueue))
  /\ \A r \in Req : WF_rwVars(Background(ServeStarts(r)))
  /\ \A s \in Sequence : WF_rwVars(SequenceSteps(s))
  /\ WF_rwVars(RealWorldTick)
  /\ WF_rwVars(Main)

------------------------------------------------------------------------------
(* Properties *)

\* handler.go:215 "the actions of a sequence are executed one after another": when a
\* task has been submitted none of its predecessors is queued, nor being served within
\* its 300 s.
TasksInOrder ==
  \A s \in Sequence : \A i \in 1 .. submitted[s] - 1 :
    LET r == TaskOf[s][i] IN
    ~Queued(r) /\ (Serving(r) => serve[r] # "spawned" /\ serveTimer[r] = 0)

\* main.go:354 "drain outstanding requests": main waits for the HandlerFuncs only, yet
\* when the process ends no task is queued or being served within its 300 s.
ExitLosesNoTask ==
  main = "exited" =>
    \A r \in Req : ~Queued(r) /\ (Serving(r) => serve[r] # "spawned" /\ serveTimer[r] = 0)

\* handler.go:216 "return when all actions are sent": every HandlerFunc returns though
\* no pod need ever answer, unless the intervals' table is missing and it hangs.
SequenceReturns ==
  \A s \in Sequence :
    at[s] \notin {"idle", "returned"} ~> (at[s] = "returned" \/ endless[s] \/ panic # "none")

\* main.go:347-358: and so does main after SIGTERM, although requests still arrive.
DrainEnds ==
  main = "draining" ~> (main = "exited" \/ panic # "none" \/ \E s \in Sequence : endless[s])

(* What the proofs need beside the properties above *)

Over == {"completed", "timedOut", "aborted"}

\* A sequence does not exceed the length that was drawn, and is past all its tasks but
\* the one it waits for.
InSequence(s) ==
  /\ seqlen[s] <= Len(TaskOf[s]) /\ submitted[s] <= Len(TaskOf[s])
  /\ at[s] = "idle" => submitted[s] = 0
  /\ at[s] = "ready" => submitted[s] < seqlen[s]
  /\ at[s] = "task" => submitted[s] > 0
  /\ \A i \in 1 .. submitted[s] : i < submitted[s] \/ at[s] # "task" => handler[TaskOf[s][i]] \in Over

\* No task arrives by another way.
Submitted(r) == \E s \in Sequence : \E i \in 1 .. submitted[s] : TaskOf[s][i] = r

Sequential ==
  /\ RealWorldTypeOK
  /\ \A s \in Sequence : InSequence(s)
  /\ \A r \in Req : handler[r] # "idle" => Submitted(r)
  /\ main = "exited" => Drained

==============================================================================
