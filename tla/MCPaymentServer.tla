-------------------------- MODULE MCPaymentServer ---------------------------
(* PaymentServer on small instances: a cheap route and a dear one, or one  *)
(* route only.                                                             *)
EXTENDS PaymentServer, TLC

CONSTANTS r1, r2, k1

MCTimeoutMs == [rt \in Routes |-> 1]
MCLongTimeoutMs == [rt \in Routes |-> 2]
MCPrice == [rt \in Routes |-> IF rt = r1 THEN 1 ELSE 2]
MCAsset == [rt \in Routes |-> k1]

Symmetry == Permutations(Nonces) \cup Permutations(Slots)
              \cup Permutations(Commitments) \cup Permutations(TxHashes \ Malformed)
=============================================================================
