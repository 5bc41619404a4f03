-------------------------- MODULE MCPreemptiveQueue --------------------------
(* The preemptive queue on small instances; one cfg per question. *)
EXTENDS PreemptiveQueue

CONSTANTS r1, r2, r3

\* A length of group 0 (served at once) and one of group 4 (queued).
OneShortOneLong == {1, 100}
OnlyLong == {100}
==============================================================================
