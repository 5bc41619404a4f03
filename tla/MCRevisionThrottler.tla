------------------------ MODULE MCRevisionThrottler ------------------------
(* The throttler of a revision on small instances; one cfg per question. *)
EXTENDS RevisionThrottler

CONSTANTS r1, r2

ToPods(dests) == [dests |-> dests, viaClusterIP |-> FALSE]
ToService(dests) == [dests |-> dests, viaClusterIP |-> TRUE]

\* The revision is scaled to zero and back.
ScaledToZero == {ToPods({1, 2}), ToPods({})}
\* The revision is reached directly or through its private service, or has no pod.
AnyUpdate == {ToPods({1}), ToPods({1, 2}), ToPods(1 .. 5), ToPods({}), ToService({1, 2})}

\* The activator 2 is alone.
Alone == {{2}}
\* It is the last of two, the first of three or not among them; until it knows its place
\* it takes itself to be alone.
TwoOrThree == {{1, 2}, {2, 3, 4}, {1}}

\* As deployed, pods take any number of requests.
Unlimited == {<<0, "simpleRandomChoice2Policy">>}
\* Or one request at a time.
AnySetup == Unlimited \cup ({1} \X {"simpleRandomChoice2Policy", "firstAvailableLBPolicy"})
============================================================================
