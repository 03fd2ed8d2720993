----------------------------- MODULE PaidAccess -----------------------------
(***************************************************************************)
(* What the payment server promises.  A payer pays a commitment once on    *)
(* chain; the payment can be redeemed for one request to a route whose     *)
(* price it covers, and never again.                                       *)
(***************************************************************************)
EXTENDS Naturals, Sequences

CONSTANTS
  Commitments,  \* what a payer completes to pay
  Routes,       \* what a payment is redeemed for
  Price,        \* route -> the amount it costs
  None          \* not paid

VARIABLES
  paid,      \* commitment -> the amount that completed it, or None
  redeemed   \* commitment -> the routes served for it, in order

vars == <<paid, redeemed>>

Init ==
  /\ paid = [c \in Commitments |-> None]
  /\ redeemed = [c \in Commitments |-> <<>>]

\* A transaction completes the commitments of S.
Pay(S) ==
  /\ \A c \in S : paid[c] = None
  /\ \A c \in Commitments : paid'[c] # paid[c] => c \in S /\ paid'[c] \in Nat
  /\ DOMAIN paid' = Commitments
  /\ UNCHANGED redeemed

Redeem(c, rt) ==
  /\ paid[c] # None
  /\ paid[c] >= Price[rt]
  /\ redeemed[c] = <<>>
  /\ redeemed' = [redeemed EXCEPT ![c] = <<rt>>]
  /\ UNCHANGED paid

Next ==
  \/ \E S \in SUBSET Commitments : Pay(S)
  \/ \E c \in Commitments, rt \in Routes : Redeem(c, rt)

Spec == Init /\ [][Next]_vars
=============================================================================
