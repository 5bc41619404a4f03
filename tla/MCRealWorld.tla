----------------------------- MODULE MCRealWorld -----------------------------
(* Two real-world sequences, of at most two tasks and of one. *)
EXTENDS RealWorld

CONSTANTS r1, r2, r3, s1, s2

\* A length of group 0 (served at once) and one of group 4 (queued).
OneShortOneLong == {1, 100}

TwoTasksAndOne == (s1 :> <<r1, r2>>) @@ (s2 :> <<r3>>)

row(k, v) == [key |-> k, value |-> v]

OneOrTwo == <<row(1, 1), row(2, 3)>>
AlwaysOne == <<row(1, 3)>>
AlwaysZero == <<row(0, 3)>>
==============================================================================
