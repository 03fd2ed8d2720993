------------------------------ MODULE Amounts -------------------------------
(***************************************************************************)
(* Amounts as people write them and as tokens count them: parsePrice and   *)
(* formatAmount of packages/core/src/utils.ts, with parseAmount            *)
(* (packages/agent/src/policy.ts), through which every limit of the agent  *)
(* goes, and trimAmount (packages/agent/src/x402.ts), through which every  *)
(* price it shows goes.                                                    *)
(*                                                                         *)
(* A text is a plain decimal: 1.05 is [whole |-> 1, digits |-> 5,          *)
(* places |-> 2], and has no point when it has no places.  An amount is a  *)
(* number of base units of a token that has some number of decimals.       *)
(***************************************************************************)
EXTENDS Naturals, FiniteSetsExt

\* 10 ** n.
Pow10[n \in Nat] == IF n = 0 THEN 1 ELSE 10 * Pow10[n - 1]

Text == [whole : Nat, digits : Nat, places : Nat]

\* The fraction, padded at its end or cut to the token's decimals.
FractionalPart(text, decimals) ==
  IF text.places <= decimals
  THEN text.digits * Pow10[decimals - text.places]
  ELSE text.digits \div Pow10[text.places - decimals]

ParsePrice(text, decimals) ==
  text.whole * Pow10[decimals] + FractionalPart(text, decimals)

\* parseAmount refuses what parsePrice would cut.
TooFine(text, decimals) == text.places > decimals

\* A mutant: the decimals of the token are forgotten.
ParseAmountOfSix(text, decimals) == ParsePrice(text, 6)

ParseAmount(text, decimals) == ParsePrice(text, decimals)

\* A mutant: the fraction is not padded.
FormatAmountUnpadded(n, decimals) ==
  LET fraction == n % Pow10[decimals]
  IN  [whole |-> n \div Pow10[decimals], digits |-> fraction,
       places |-> Min({k \in 1..(decimals + 1) : fraction < Pow10[k]})]

\* A token without decimals still gets a point and a zero.
FormatAmount(n, decimals) ==
  [whole |-> n \div Pow10[decimals], digits |-> n % Pow10[decimals],
   places |-> Max({1, decimals})]

\* Zeros at the end go, and the point with the last of them.
TrimAmount(text) ==
  LET places == Min({k \in 0..text.places : text.digits % Pow10[text.places - k] = 0})
  IN  [text EXCEPT !.digits = @ \div Pow10[text.places - places], !.places = places]

FormatTokenAmount(n, decimals) == TrimAmount(FormatAmount(n, decimals))

\* n base units are at most what the text says: the meaning of a text, without
\* rounding.  No code computes it.
AtMost(n, text, decimals) ==
  n * Pow10[text.places] <= (text.whole * Pow10[text.places] + text.digits) * Pow10[decimals]
=============================================================================
