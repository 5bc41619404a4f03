---------------------------- MODULE MCThrottlerMap ----------------------------
(* The throttler map on small instances. *)
EXTENDS ThrottlerMap

CONSTANTS g1, g2, g3
===============================================================================
