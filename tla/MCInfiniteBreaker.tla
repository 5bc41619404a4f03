-------------------------- MODULE MCInfiniteBreaker --------------------------
(* The infinite breaker on small instances. *)
EXTENDS InfiniteBreaker

CONSTANTS r1, r2, r3
==============================================================================
