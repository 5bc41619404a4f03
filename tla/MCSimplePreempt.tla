---------------------------- MODULE MCSimplePreempt ----------------------------
(* The simple preemption of experiments 1 and 2. *)
EXTENDS SimplePreempt, TLC

CONSTANTS r1, r2, r3, r4

\* Requests are interchangeable.
Symmetry == Permutations({r1, r2, r3, r4})

TwoLengths == {10, 20}
================================================================================
