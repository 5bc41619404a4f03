------------------------------- MODULE Workload -------------------------------
(***************************************************************************)
(* The constants of shared.go and the pure functions of                    *)
(* real_world_support.go and queue.go that decide how a task is classed    *)
(* from its length.                                                        *)
(***************************************************************************)
EXTENDS Integers, FiniteSetsExt

\* Exclusive upper bounds of the ten length groups (0-based in the code).
JoblenEdge == <<3, 12, 39, 117, 330, 890, 2272, 5569, 13150, 30000>>

Lambda == 10

\* The group of an execution time, -1 if no edge is above it.
GetGroupIndex(execTime) ==
  LET above == {i \in 0 .. 9 : JoblenEdge[i + 1] > execTime}
  IN  IF above = {} THEN -1 ELSE Min(above)

\* The D of AddReq, an integer for every integer rate.
D(rate) == rate - JoblenEdge[2] + 750

\* AddReq serves a task of this length at once instead of queueing it.
Preempts(rate) == GetGroupIndex(rate) <= 1 \/ Lambda * D(rate) < 1000

==============================================================================
