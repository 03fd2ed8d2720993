---------------------------- MODULE SpendLedger ----------------------------
(***************************************************************************)
(* The agent's spend policy and payment ledger (packages/agent/src/        *)
(* policy.ts).  The ledger file payments.jsonl is append-only and a later  *)
(* line of a payment supersedes the earlier ones field by field, so what   *)
(* readLedger returns, and all any reader sees, is one merged entry for    *)
(* each payment: that is the state kept here.  Every line carries its own  *)
(* time, so a follow-up line also moves the entry's place in the 24 hour   *)
(* window.  Amounts are base units of tokens with equal decimals; limits   *)
(* are texts (module Amounts).                                             *)
(***************************************************************************)
EXTENDS Integers, FiniteSets, FiniteSetsExt, Amounts

CONSTANTS
  Payments,       \* the ids of pay invocations, one process each
  Assets,         \* the tokens of the agent's registry
  Network,        \* the agent's CAIP-2 network
  Decimals,       \* token.decimals
  MaxPerPayment,  \* policy.maxPerPayment
  DailyLimit,     \* policy.dailyLimit
  Day,            \* the length of the rolling window
  Unset,            \* an expectation that is not set
  NoEntry         \* a payment the ledger does not know

\* BigInt(10 ** decimals) is the power itself for as long as a double holds it.
ASSUME LedgerAssumption ==
  /\ IsFiniteSet(Payments)
  /\ Decimals \in 0..22 /\ Day \in Nat \ {0}
  /\ MaxPerPayment \in Text /\ DailyLimit \in Text

VARIABLES
  ledger,   \* ledger[p]: what readLedger returns for payment p
  clock

Statuses == {"pending", "paid", "failed", "uncertain"}

\* A mutant: the line has no time of its own.
AppendUntimed(p, req) ==
  ledger' = [ledger EXCEPT ![p] = [status |-> "pending", asset |-> req.asset, amount |-> req.amount,
                                   payTo |-> req.payTo]]

\* appendLedger with the full record, the first line of a payment.
AppendPending(p, req) ==
  ledger' = [ledger EXCEPT ![p] = [status |-> "pending", asset |-> req.asset, amount |-> req.amount,
                                   payTo |-> req.payTo, at |-> clock]]

\* appendLedger with a status only: the other fields stay, the time does not.
AppendStatus(p, s) ==
  ledger' = [ledger EXCEPT ![p] = [@ EXCEPT !.status = s, !.at = clock]]

Recorded(p) == ledger[p] # NoEntry

\* Everything but a failed payment counts: pending, paid and uncertain.
Counts(p) == Recorded(p) /\ ledger[p].status # "failed"

\* The sum of the amounts of some entries.
Total(entries, some) == MapThenSumSet(LAMBDA p : entries[p].amount, some)

\* The entries of the rolling window.
InWindow(asset) ==
  {p \in Payments : /\ Counts(p)
                    /\ ledger[p].asset = asset
                    /\ clock - ledger[p].at < Day}

SpentLast24h(asset) == Total(ledger, InWindow(asset))

\* A limit in base units.
Units(text) == ParseAmount(text, Decimals)

\* The PolicyError conditions: of the merchant and its token, of the payment
\* alone, and of the window.
Expected(req, lim) ==
  /\ req.asset \in Assets
  /\ req.network = Network
  /\ lim.expectAsset \in {Unset, req.asset}
  /\ lim.expectPayTo \in {Unset, req.payTo}

\* The UsageError of a limit that is finer than the token.
Readable(lim) ==
  \A text \in {lim.maxAmount, MaxPerPayment, DailyLimit} : ~TooFine(text, Decimals)

Allowed(req, lim) ==
  /\ Expected(req, lim)
  /\ Readable(lim)
  /\ req.amount <= Units(lim.maxAmount)
  /\ req.amount <= Units(MaxPerPayment)

\* What a refused checkPayment throws.
RefusalCode(req, lim) ==
  IF Expected(req, lim) /\ ~Readable(lim) THEN "usage" ELSE "policy_rejected"

\* A mutant: the limit is reached only by what was spent before.
CheckSpentBefore(req, lim) ==
  Allowed(req, lim) /\ SpentLast24h(req.asset) <= Units(DailyLimit)

\* A mutant: a payment that is not settled does not count yet.
CheckPaidOnly(req, lim) ==
  /\ Allowed(req, lim)
  /\ req.amount + Total(ledger, {p \in Payments : Recorded(p) /\ ledger[p].status = "paid"})
       <= Units(DailyLimit)

CheckPayment(req, lim) ==
  /\ Allowed(req, lim)
  /\ SpentLast24h(req.asset) + req.amount <= Units(DailyLimit)
=============================================================================
