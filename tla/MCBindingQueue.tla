---------------------------- MODULE MCBindingQueue ----------------------------
(* The early- and late-binding queues on small instances; one cfg per question. *)
EXTENDS BindingQueue

CONSTANTS r1, r2, p1, p2

\* AddReq0 looks at no length.
OneLength == {100}
==============================================================================
