----------------------------- MODULE PayCommand -----------------------------
(***************************************************************************)
(* `aztec-x402 pay` (packages/agent/src/commands/pay.ts) with the client   *)
(* it drives: wrapFetchWithPayment (packages/client), ExactAztecClient-    *)
(* Scheme (packages/mechanism), RealClientAztecSigner, and the crash       *)
(* handlers of main.ts and cli.ts.                                         *)
(*                                                                         *)
(* Every invocation is a process of its own with its own id; the processes *)
(* share the ledger file.  Inside a process the code between two awaits    *)
(* runs without interruption, but the ledger is read and then appended to  *)
(* by separate system calls, so another process may come between the two.  *)
(***************************************************************************)
EXTENDS SpendLedger, Sequences

CONSTANTS
  CallLimits,     \* what the agent passes: --max-amount, --expect-asset, --expect-pay-to
  Requirements,   \* the payment requirements merchants may quote
  Challenges,     \* first 402s: the sequences of their accepts of scheme "exact"
  None,           \* nothing yet, or nothing
  MaxLive,        \* bound: pay processes alive at once
  MaxTime         \* bound: the clock

\* What is printed: an error.code, or how the command ended well.
Codes == {"free", "paid", "not_x402", "no_matching_option", "usage", "policy_rejected", "no_wallet", "node_unreachable",
          "prepare_failed", "prover_failed", "payment_uncertain", "not_delivered", "unexpected"}

\* An entry of the ledger: the approved requirement, its status and its time.
LedgerEntry ==
  [status : Statuses, asset : {r.asset : r \in Requirements}, amount : {r.amount : r \in Requirements},
   payTo : {r.payTo : r \in Requirements}, at : Nat]

\* A quote is any text that BigInt reads, with a sign or without (it throws on the
\* others before anything is recorded), and a limit is a plain decimal: parseAmount
\* refuses any other text.
ASSUME PayAssumption ==
  /\ \A r \in Requirements : r.amount \in Int
  /\ \A lim \in CallLimits : lim.maxAmount \in Text
  /\ Challenges \subseteq Seq(Requirements) \ {<<>>}
  /\ MaxLive \in Nat \ {0} /\ MaxTime \in Nat
  /\ None \notin Codes \cup {"sent", "mined", "dropped"}
  /\ NoEntry \notin LedgerEntry

VARIABLES
  pc,         \* where each invocation is
  limits,     \* the per-call limits it was started with
  challenge,  \* the first 402 it received
  terms,      \* the requirement its transfer is made for, and whether it names a commitment
  inflight,   \* its inflight.ts `current` is set
  answer,     \* the error.code (or "free", "paid") it has printed
  tx          \* its transfer on chain

vars == <<ledger, clock, pc, limits, challenge, terms, inflight, answer, tx>>

PCs == {"new", "requesting", "opening", "preparing", "approved", "proving", "waiting", "retrying", "ended"}

Live(p) == pc[p] \notin {"new", "ended"}

Init ==
  /\ ledger = [p \in Payments |-> NoEntry]
  /\ clock = 0
  /\ pc = [p \in Payments |-> "new"]
  /\ limits = [p \in Payments |-> None]
  /\ challenge = [p \in Payments |-> None]
  /\ terms = [p \in Payments |-> None]
  /\ inflight = [p \in Payments |-> FALSE]
  /\ answer = [p \in Payments |-> None]
  /\ tx = [p \in Payments |-> None]

(***************************************************************************)
(* Helpers                                                                 *)
(***************************************************************************)
\* The one JSON document: what is printed first stands (hasPrinted).
Report(p, code) == answer' = [answer EXCEPT ![p] = IF @ = None THEN code ELSE @]

Finish(p, code) == pc' = [pc EXCEPT ![p] = "ended"] /\ Report(p, code)

Goto(p, next) == pc' = [pc EXCEPT ![p] = next] /\ UNCHANGED answer

\* The accept this command approves: the first on the agent's network.
Options(accepts) == {i \in DOMAIN accepts : accepts[i].network = Network}
SelectRequirement(accepts) == accepts[Min(Options(accepts))]

\* The accept the client pays: the first of the scheme, on any network.
Matching(p) == Head(challenge[p])

\* A mutant: the amount may change between the two answers.
SameTermsButAmount(a, b) ==
  a.asset = b.asset /\ a.payTo = b.payTo /\ a.network = b.network

SameTerms(a, b) ==
  a.amount = b.amount /\ a.asset = b.asset /\ a.payTo = b.payTo /\ a.network = b.network

\* A mutant: the payment is not cleared when createPaymentPayload returns.
KeepInflight(p) == UNCHANGED inflight

\* The finally block, and the last act of reportError.
ClearInflight(p) == inflight' = [inflight EXCEPT ![p] = FALSE]

\* Entry of the guarded createPaymentPayload, up to its second policy check
\* (the first one has read the limits, so this one throws no UsageError).
Guard(p, prepared, hasCommitment) ==
  IF /\ SameTerms(prepared, SelectRequirement(challenge[p]))
     /\ CheckPayment(prepared, limits[p])
  THEN /\ Goto(p, "approved")
       /\ terms' = [terms EXCEPT ![p] = [req |-> prepared, commitment |-> hasCommitment]]
  ELSE Finish(p, "policy_rejected") /\ UNCHANGED terms

(***************************************************************************)
(* Before any money moves                                                  *)
(***************************************************************************)
Start(p, lim) ==
  /\ pc[p] = "new"
  /\ Cardinality({q \in Payments : Live(q)}) < MaxLive
  /\ limits' = [limits EXCEPT ![p] = lim]
  /\ Goto(p, "requesting")
  /\ UNCHANGED <<ledger, clock, challenge, terms, inflight, tx>>

\* The URL is free, or its 402 is not one the agent understands.
NoChallenge(p) ==
  /\ pc[p] = "requesting"
  /\ \E code \in {"free", "not_x402"} : Finish(p, code)
  /\ UNCHANGED <<ledger, clock, limits, challenge, terms, inflight, tx>>

\* The first 402, and the policy check before the merchant is asked to prepare.
Challenged(p, accepts) ==
  /\ pc[p] = "requesting"
  /\ challenge' = [challenge EXCEPT ![p] = accepts]
  /\ \/ Options(accepts) = {} /\ Finish(p, "no_matching_option")
     \/ /\ Options(accepts) # {}
        /\ IF CheckPayment(SelectRequirement(accepts), limits[p])
           THEN Goto(p, "opening")
           ELSE Finish(p, RefusalCode(SelectRequirement(accepts), limits[p]))
  /\ UNCHANGED <<ledger, clock, limits, terms, inflight, tx>>

\* The wallet opens in minutes or not at all; then the client asks for a commitment.
OpenSession(p) ==
  /\ pc[p] = "opening"
  /\ \/ Goto(p, "preparing")
     \/ \E code \in {"no_wallet", "node_unreachable"} : Finish(p, code)
  /\ UNCHANGED <<ledger, clock, limits, challenge, terms, inflight, tx>>

\* A commitment: its terms must be those of the accept the client parsed.
Prepared(p, req) ==
  /\ pc[p] = "preparing"
  /\ IF SameTerms(Matching(p), req)
     THEN Guard(p, req, TRUE)
     ELSE Finish(p, "policy_rejected") /\ UNCHANGED terms
  /\ UNCHANGED <<ledger, clock, limits, challenge, inflight, tx>>

\* Any other answer falls through: the client goes on with the accept of the first
\* 402, whose extra may name a commitment of its own.
Unprepared(p) ==
  /\ pc[p] = "preparing"
  /\ \E hasCommitment \in BOOLEAN : Guard(p, Matching(p), hasCommitment)
  /\ UNCHANGED <<ledger, clock, limits, challenge, inflight, tx>>

\* No nonce in the accept to prepare with, or the request itself fails.
PrepareFails(p) ==
  /\ pc[p] = "preparing"
  /\ \E code \in {"prepare_failed", "unexpected"} : Finish(p, code)
  /\ UNCHANGED <<ledger, clock, limits, challenge, terms, inflight, tx>>

(***************************************************************************)
(* The transfer                                                            *)
(***************************************************************************)
RecordPending(p) ==
  /\ pc[p] = "approved"
  /\ AppendPending(p, SelectRequirement(challenge[p]))
  /\ inflight' = [inflight EXCEPT ![p] = TRUE]
  /\ Goto(p, "proving")
  /\ UNCHANGED <<clock, limits, challenge, terms, tx>>

\* The accept the client pays names a commitment: without one nothing is simulated.
HasCommitment(p) == terms[p].commitment

\* Simulated, proven and handed to the node: from here on it may be mined.  What
\* the wallet makes of a transfer below zero is left open: it may take it or fail.
SendTx(p) ==
  /\ pc[p] = "proving" /\ HasCommitment(p)
  /\ answer[p] # "prover_failed"
  /\ tx' = [tx EXCEPT ![p] = "sent"]
  /\ Goto(p, "waiting")
  /\ UNCHANGED <<ledger, clock, limits, challenge, terms, inflight>>

Confirmed(p) ==
  /\ pc[p] = "waiting" /\ tx[p] = "mined"
  /\ AppendStatus(p, "paid")
  /\ ClearInflight(p)
  /\ Goto(p, "retrying")
  /\ UNCHANGED <<clock, limits, challenge, terms, tx>>

\* The errors of the transfer; proving precedes sending.
Errors == {"prover", "timeout", "other"}
MayRaise(p, error) == error = "prover" => pc[p] = "proving"

\* A mutant: a payment that may have been sent stays pending.
SettledWhenSure == [prover |-> "failed", timeout |-> "pending", other |-> "failed"]

\* A mutant: every error says that nothing was sent.
SettledAsFailed == [prover |-> "failed", timeout |-> "failed", other |-> "failed"]

\* How an error settles the entry: a timeout can hit after the tx was sent.
SettledAs == [prover |-> "failed", timeout |-> "uncertain", other |-> "failed"]

\* A mutant: any failure passes for one of the prover.
CodeOfProver == [prover |-> "prover_failed", timeout |-> "payment_uncertain", other |-> "prover_failed"]

\* What is printed for it.
CodeOf == [prover |-> "prover_failed", timeout |-> "payment_uncertain", other |-> "unexpected"]

\* createPaymentPayload rejects: a missing commitment, a failed simulation or
\* proof, a lost answer of sendTx, a wait that failed or ran out of time.
Rejected(p, error) ==
  /\ pc[p] \in {"proving", "waiting"}
  /\ MayRaise(p, error)
  /\ ~HasCommitment(p) => error = "other"
  /\ AppendStatus(p, SettledAs[error])
  /\ ClearInflight(p)
  /\ Finish(p, CodeOf[error])
  /\ UNCHANGED <<clock, limits, challenge, terms, tx>>

(***************************************************************************)
(* The request with the proof of payment                                   *)
(***************************************************************************)
\* The content arrives, and saving it may still fail.
Delivered(p) ==
  /\ pc[p] = "retrying"
  /\ \E code \in {"paid", "unexpected"} : Finish(p, code)
  /\ UNCHANGED <<ledger, clock, limits, challenge, terms, inflight, tx>>

NotDelivered(p) ==
  /\ pc[p] = "retrying"
  /\ AppendStatus(p, "paid")
  /\ Finish(p, "not_delivered")
  /\ UNCHANGED <<clock, limits, challenge, terms, inflight, tx>>

(***************************************************************************)
(* Errors outside the await chain, and crashes                             *)
(***************************************************************************)
\* uncaughtException or unhandledRejection: report, then leave the process once
\* the output is flushed.  The command itself is still running until then.
Escaped(p, error) ==
  /\ Live(p) /\ answer[p] = None
  /\ MayRaise(p, error)
  /\ IF inflight[p]
     THEN AppendStatus(p, IF error = "prover" THEN "failed" ELSE "uncertain")
     ELSE UNCHANGED ledger
  /\ ClearInflight(p)
  /\ Report(p, IF error = "prover" THEN "prover_failed" ELSE "unexpected")
  /\ UNCHANGED <<clock, pc, limits, challenge, terms, tx>>

Exit(p) ==
  /\ Live(p) /\ answer[p] # None
  /\ pc' = [pc EXCEPT ![p] = "ended"]
  /\ UNCHANGED <<ledger, clock, limits, challenge, terms, inflight, answer, tx>>

\* The process is killed, or the machine goes down: memory is lost, the file stays.
Kill(p) ==
  /\ Live(p)
  /\ pc' = [pc EXCEPT ![p] = "ended"]
  /\ inflight' = [inflight EXCEPT ![p] = FALSE]
  /\ UNCHANGED <<ledger, clock, limits, challenge, terms, answer, tx>>

(***************************************************************************)
(* The chain and the clock                                                 *)
(***************************************************************************)
Include(p) ==
  /\ tx[p] = "sent"
  /\ \E fate \in {"mined", "dropped"} : tx' = [tx EXCEPT ![p] = fate]
  /\ UNCHANGED <<ledger, clock, pc, limits, challenge, terms, inflight, answer>>

Tick ==
  /\ clock < MaxTime
  /\ clock' = clock + 1
  /\ UNCHANGED <<ledger, pc, limits, challenge, terms, inflight, answer, tx>>

Step(p) ==
  \/ \E lim \in CallLimits : Start(p, lim)
  \/ NoChallenge(p)
  \/ \E accepts \in Challenges : Challenged(p, accepts)
  \/ OpenSession(p)
  \/ \E req \in Requirements : Prepared(p, req)
  \/ Unprepared(p)
  \/ PrepareFails(p)
  \/ RecordPending(p)
  \/ SendTx(p)
  \/ Confirmed(p)
  \/ \E error \in Errors : Rejected(p, error)
  \/ Delivered(p)
  \/ NotDelivered(p)
  \/ Exit(p)

Next ==
  \/ \E p \in Payments : Step(p) \/ Kill(p) \/ Include(p)
  \/ \E p \in Payments, error \in {"prover", "other"} : Escaped(p, error)
  \/ Tick

Spec == Init /\ [][Next]_vars

\* The prover, the node and the merchant answer or fail, and the wait is timed.
Fairness ==
  \A p \in Payments : WF_vars(Step(p) /\ pc[p] # "new") /\ WF_vars(Include(p))

FairSpec == Spec /\ Fairness

(***************************************************************************)
(* Properties                                                              *)
(***************************************************************************)
\* Every variable keeps its type.
TypeOK ==
  /\ ledger \in [Payments -> LedgerEntry \cup {NoEntry}]
  /\ clock \in Nat
  /\ pc \in [Payments -> PCs]
  /\ limits \in [Payments -> CallLimits \cup {None}]
  /\ challenge \in [Payments -> Challenges \cup {None}]
  /\ terms \in [Payments -> [req : Requirements, commitment : BOOLEAN] \cup {None}]
  /\ inflight \in [Payments -> BOOLEAN]
  /\ answer \in [Payments -> Codes \cup {None}]
  /\ tx \in [Payments -> {"sent", "mined", "dropped", None}]

\* The entries that were ever taken off a token's total: quotes below zero.
Rebates(a) == {p \in Payments : Recorded(p) /\ ledger[p].asset = a /\ ledger[p].amount < 0}

\* What leaves the wallet in a rolling day, for each token, is the daily limit and
\* no more, but for two things.  Each further pay command that runs at the same
\* time may add one payment: its second check reads the ledger before the others
\* have appended (the skill asks for one command at a time).  And quotes below
\* zero, which the check does not refuse, make room for as much as they ever
\* took off, also after they have left the window or failed (policy.ts:113-145).
WithinDailyLimit ==
  \A a \in Assets :
    Total(ledger, {p \in InWindow(a) : ledger[p].amount >= 0})
      <= Units(DailyLimit) + (MaxLive - 1) * Units(MaxPerPayment) - Total(ledger, Rebates(a))

\* Whatever was handed to the node is what was approved: the ledger knows the
\* payment, with the amount, token and merchant of the transfer, and they are
\* those of the 402 this command checked, within the limits of this call.
SentAsApproved ==
  \A p \in Payments : tx[p] # None =>
    LET quote == SelectRequirement(challenge[p])
    IN  /\ Recorded(p)
        /\ ledger[p].amount = terms[p].req.amount
        /\ ledger[p].asset = terms[p].req.asset
        /\ ledger[p].payTo = terms[p].req.payTo
        /\ SameTerms(terms[p].req, quote)
        /\ Allowed(quote, limits[p])

\* Nothing is ever handed to the node above a limit as it was typed: no
\* conversion of --max-amount or of policy.maxPerPayment rounds it up or takes
\* it for another token's (policy.ts:116-150, utils.ts:22-40).
PaysNoMoreThanTyped ==
  \A p \in Payments : tx[p] # None =>
    \A text \in {limits[p].maxAmount, MaxPerPayment} :
      AtMost(terms[p].req.amount, text, Decimals)

\* The price that inspect and a refusal show is, typed as a limit, exactly the
\* price: an agent that raises --max-amount to what it was told can pay, and
\* allows not one unit more (policy.ts:117-129, x402.ts:81-88, utils.ts:49-59).
\* A limit has no sign, so this is about prices from zero on.
ShownPriceIsAccepted ==
  \A p \in Payments : challenge[p] # None =>
    \A i \in {j \in DOMAIN challenge[p] : challenge[p][j].amount >= 0} :
      LET shown == FormatTokenAmount(challenge[p][i].amount, Decimals)
      IN  /\ ~TooFine(shown, Decimals)
          /\ Units(shown) = challenge[p][i].amount

\* The error table of the skill (troubleshooting.md): what a code says about
\* whether money moved is true, also when the process was about to exit.
NothingMoved == Codes \ {"paid", "not_delivered", "payment_uncertain", "unexpected"}

AnswerTellsWhetherMoneyMoved ==
  \A p \in Payments :
    /\ answer[p] \in NothingMoved => tx[p] = None
    /\ answer[p] \in {"paid", "not_delivered"} => tx[p] = "mined"

\* A crash mid-payment never frees up budget: a transfer that moved money counts,
\* whether the process was killed, is about to exit or gave up waiting; only
\* the entry of a payment reported as "unexpected" may say failed.
CrashKeepsBudget ==
  \A p \in Payments : tx[p] = "mined" /\ answer[p] # "unexpected" => Counts(p)

\* An entry that says paid is right, and is never taken back.
PaidIsFinal ==
  [][\A p \in Payments :
       /\ Recorded(p)' /\ ledger'[p].status = "paid" => tx'[p] = "mined"
       /\ Recorded(p) /\ ledger[p].status = "paid" => ledger'[p].status = "paid"]_vars

\* A pending entry is settled, unless its process is killed first.  (A process
\* that has already reported an escaped error may still record one as it exits.)
Pending(p) == Recorded(p) /\ ledger[p].status = "pending"

PendingSettles ==
  \A p \in Payments :
    Pending(p) /\ answer[p] = None ~> ~Pending(p) \/ (pc[p] = "ended" /\ answer[p] = None)

\* "A prover failure means no tx; anything else may have sent one": an entry
\* says failed only when no money moved.
FailedMeansNotSent ==
  \A p \in Payments : Recorded(p) /\ ledger[p].status = "failed" => tx[p] # "mined"

=============================================================================
