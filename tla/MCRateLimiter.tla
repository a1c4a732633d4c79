---------------------------- MODULE MCRateLimiter ----------------------------
(* Instances of module RateLimiter for TLC. *)
EXTENDS RateLimiter, TLC

CONSTANTS i1, i2, r1, r2, r3

TwoInstances == {i1, i2}
ThreeRequests == {r1, r2, r3}
Ahead == (i1 :> 0) @@ (i2 :> 1)

Symmetry == Permutations(Requests)
=============================================================================
