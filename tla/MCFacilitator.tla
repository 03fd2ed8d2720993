--------------------------- MODULE MCFacilitator ----------------------------
(* The scheme, alone or with its prepare phase, on a small instance.  One  *)
(* caller passes a nonce and its deadline, as the middleware does; one     *)
(* passes no options, as the scheme allows.                                *)
EXTENDS Preparation, TLC

CONSTANT n1

MCOptions ==
  {[nonce |-> n1, createdAt |-> 0, timeoutMs |-> 1],
   [nonce |-> None, createdAt |-> None, timeoutMs |-> None]}

Symmetry == Permutations(Commitments) \cup Permutations(TxHashes)
              \cup Permutations(Addresses) \cup Permutations(Slots)
=============================================================================
