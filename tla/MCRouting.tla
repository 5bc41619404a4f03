------------------------------ MODULE MCRouting ------------------------------
(* Tasks and updates on small instances; one cfg per question. *)
EXTENDS Routing, TLC

CONSTANTS r1, r2, r3

\* Lengths of the groups 0 and 3, and one that has no group.
MixedLengths == (r1 :> {2}) @@ (r2 :> {100}) @@ (r3 :> {100, 30000})

OneOrBoth == {{1, 2}, {2}}
==============================================================================
