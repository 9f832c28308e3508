----------------------------- MODULE MCRateLimiter -----------------------------
(* Instances of RateLimiter for TLC. *)
EXTENDS RateLimiter

CONSTANTS a1, a2, b1, a, b

(* Client a has two tasks, client b one. *)
MCClient == [t \in Tasks |-> IF t = b1 THEN b ELSE a]

=============================================================================
