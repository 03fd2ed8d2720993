----------------------------- MODULE MCFunding ------------------------------
(* Small instances of Funding, and the amounts its bridge reads and shows. *)
EXTENDS Funding, Amounts

\* parsePrice makes of any text the largest amount that is not above it, and
\* reads back what formatAmount and trimAmount write.
ASSUME AmountsAssumption ==
  \A decimals \in 0..3 :
    /\ \A whole \in 0..2, places \in 0..3 : \A digits \in 0..(10^places - 1) :
         LET text == [whole |-> whole, digits |-> digits, places |-> places]
             n == ParsePrice(text, decimals)
         IN  AtMost(n, text, decimals) /\ ~AtMost(n + 1, text, decimals)
    /\ \A n \in 0..2000 :
         /\ ParsePrice(FormatAmount(n, decimals), decimals) = n
         /\ ParsePrice(FormatTokenAmount(n, decimals), decimals) = n
=============================================================================
