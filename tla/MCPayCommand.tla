---------------------------- MODULE MCPayCommand ----------------------------
(***************************************************************************)
(* Small instances of PayCommand: the token usdc, the merchant accounts    *)
(* alice and bob, and a network the agent is on (here) and one it is not   *)
(* on (there).                                                             *)
(***************************************************************************)
EXTENDS PayCommand, TLC

Req(network, asset, amount, payTo) ==
  [network |-> network, asset |-> asset, amount |-> amount, payTo |-> payTo]

\* Limits: 1.05 and 1, and 0.125, which is finer than a token of 2 decimals.
MaxText == [whole |-> 1, digits |-> 5, places |-> 2]
DailyText == [whole |-> 1, digits |-> 0, places |-> 0]
FineText == [whole |-> 0, digits |-> 125, places |-> 3]

\* Prices at the daily limit (1), at the limit of the call, which only a quote below
\* zero makes room for (1.05 after -0.05), and above it (1.10), a second merchant
\* account, and the same price on another network.
Prices == {-5, 100, 105, 110}

Quotes ==
  {Req("here", "usdc", n, "alice") : n \in Prices} \cup
  {Req("here", "usdc", 100, "bob"), Req("there", "usdc", 100, "alice")}

QuoteChallenges ==
  {<<Req("here", "usdc", n, "alice")>> : n \in Prices} \cup
  {<<Req("there", "usdc", 100, "alice"), Req("here", "usdc", 100, "alice")>>}

\* One price: for the instance with more processes.
OnePrice == {Req("here", "usdc", 100, "alice")}
OnePriceChallenges == {<<r>> : r \in OnePrice}

Limit(maxAmount, payTo) == [maxAmount |-> maxAmount, expectAsset |-> Unset, expectPayTo |-> payTo]
OneLimit == {Limit(MaxText, "alice")}
TwoLimits == {Limit(text, "alice") : text \in {MaxText, FineText}}

Symmetry == Permutations(Payments)
=============================================================================
