---------------------------- MODULE MCMiddleware ----------------------------
(* Middleware on a small instance: two routes with different deadlines,    *)
(* so that a nonce can outlive a sweep, and every value interchangeable.   *)
EXTENDS Middleware, TLC

CONSTANTS r1, r2

MCTimeoutMs == (r1 :> 1) @@ (r2 :> 2)

Symmetry == Permutations(Nonces) \cup Permutations(Slots)
              \cup Permutations(Senders) \cup Permutations(Commitments)
=============================================================================
