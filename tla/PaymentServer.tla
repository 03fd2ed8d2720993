--------------------------- MODULE PaymentServer ----------------------------
(***************************************************************************)
(* The payment server of packages/demo/src/aztec/real-server.ts: the       *)
(* middleware, in front of the facilitator scheme, in front of the signer  *)
(* that reads the chain, all in one process.                               *)
(*                                                                         *)
(* A call from the middleware into the scheme runs to the scheme's own     *)
(* await within the same turn, so such a step is the conjunction of one    *)
(* action of each component.  A promise that is resolved resumes its       *)
(* caller in a later turn, and other handlers can run between.             *)
(***************************************************************************)
EXTENDS Naturals, Sequences, FiniteSets

CONSTANTS Nonces, Senders, Commitments, TxHashes, Malformed, Tokens, Values,
          Routes, Slots, None, TimeoutMs, Price, Asset, Token, MaxTime, MaxBatch,
          NextMayThrow, MaxThrows, NodeFaults

ASSUME RouteAssumption ==
  /\ Price \in [Routes -> Nat]
  /\ Asset \in [Routes -> Tokens]

ASSUME ChainAssumption ==
  /\ Values \subseteq Nat
  /\ MaxBatch \in Nat
  /\ NodeFaults \in BOOLEAN
  /\ Malformed \subseteq TxHashes
  /\ None \notin Nat
  /\ None \notin [tx : TxHashes, value : Nat]

VARIABLES
  now,
  pendingPayments, slot, challenged, served, ended,
  pendingCommitments, inFlightTxHashes, consumedTxHashes, call, bound, judged,
  tx, log, lookup,
  redeemed,  \* observation: the routes served for a commitment, in order
  owed       \* observation: is what the handler was given owed to its payer?

Payments == [senderAddress : Senders, txHash : TxHashes \cup {None}]

PrepareOptions ==
  [nonce : Nonces, createdAt : 0..MaxTime,
   timeoutMs : {TimeoutMs[rt] : rt \in Routes}]

MW == INSTANCE Middleware WITH HasPrepare <- TRUE
FA == INSTANCE Facilitator WITH
        Addresses <- Senders, Amounts <- {Price[rt] : rt \in Routes},
        Options <- PrepareOptions, DefaultTimeout <- 0
SG == INSTANCE Signer

(* None is told apart from every value the server keeps.                   *)
ASSUME NoneAssumption ==
  /\ None \notin Nonces \cup Senders \cup Commitments \cup TxHashes \cup Routes
  /\ None \notin MW!Entry /\ None \notin FA!PendingCommitment

(* Times are counted from the start of the server.                         *)
ASSUME TimeAssumption ==
  /\ MaxTime \in Nat /\ MaxThrows \in Nat
  /\ TimeoutMs \in [Routes -> Nat]

mwState == <<pendingPayments, slot, challenged, served, ended>>
faState == <<pendingCommitments, inFlightTxHashes, consumedTxHashes, call,
             bound, judged>>
sgState == <<tx, log, lookup>>
ledger == <<redeemed, owed>>
vars == <<now, mwState, faState, sgState, ledger>>

\* The requirements a handler passes on: the route's terms, and the nonce
\* and commitment of the entry once it is prepared (applyPreparedExtra).
RequirementsOf(rt, n, c) ==
  [asset |-> Asset[rt], amount |-> Price[rt],
   nonce |-> IF c = None THEN None ELSE n, commitment |-> c]

\* What a payer who presents p is owed: the payment is on chain in the
\* transaction presented, it was made by the payer the nonce was prepared
\* for, in the token of the route, and covers its price; and the transaction
\* was not used to settle another payment (readme.md:110: a hash is used
\* once, although a transaction may pay two commitments).
Owed(n, p, rt) ==
  LET c == pendingPayments[n].commitment IN
  /\ c # None
  /\ log[c] # None
  /\ log[c].tx = p.txHash
  /\ log[c].value >= Price[rt]
  /\ bound[c].senderAddress = p.senderAddress
  /\ bound[c].tokenAddress = Asset[rt] /\ Asset[rt] = Token
  /\ p.txHash \notin consumedTxHashes

Init ==
  /\ MW!Init /\ FA!Init /\ SG!Init
  /\ redeemed = [c \in Commitments |-> <<>>]
  /\ owed = [h \in Slots |-> FALSE]

-----------------------------------------------------------------------------

\* Requests answered in one turn, without the facilitator.
Challenge(n, rt) ==
  MW!Challenge(n, rt) /\ UNCHANGED <<faState, sgState, ledger>>

DropExpired(n) ==
  MW!DropExpired(n) /\ UNCHANGED <<faState, sgState, ledger>>

\* Phase 2: the middleware calls preparePayment, the signer sends the
\* transaction, the scheme records the commitment, the handler answers.
PrepareBegins(h, n, s, rt) ==
  /\ MW!PrepareBegins(h, n, s, rt)
  /\ FA!PrepareBegins(h, Asset[rt], s,
       [nonce |-> n, createdAt |-> pendingPayments[n].createdAt,
        timeoutMs |-> pendingPayments[n].timeoutMs])
  /\ UNCHANGED <<sgState, ledger>>

SignerPrepares(h, c) ==
  /\ IF c = None THEN FA!PrepareFails(h) ELSE FA!PrepareSucceeds(h, c)
  /\ UNCHANGED <<mwState, sgState, ledger>>

PrepareEnds(h) ==
  /\ call[h].pc = "prepared"
  /\ MW!PrepareEnds(h, call[h].commitment)
  /\ FA!Return(h)
  /\ UNCHANGED <<sgState, ledger>>

\* Phase 3: the handler takes the nonce and calls verify.
PayBegins(h, n, p, rt) ==
  /\ MW!PayBegins(h, n, p, rt)
  /\ LET q == RequirementsOf(rt, n, pendingPayments[n].commitment) IN
     \/ (FA!VerifyRefused(h, p, q) \/ FA!VerifyBusy(h, p, q)) /\ UNCHANGED sgState
     \/ /\ FA!VerifyBegins(h, p, q)
        /\ SG!LookupBegins(h, p.txHash, q.asset, q.amount, q.commitment)
  /\ owed' = [owed EXCEPT ![h] = Owed(n, p, rt)]
  /\ UNCHANGED redeemed

\* The node reads for the signer.
SignerReads(h) ==
  /\ \/ SG!ReceiptRead(h)
     \/ \E answer \in {"valid", "invalid", "retryable"} : SG!NodeAnswers(h, answer)
  /\ UNCHANGED <<now, mwState, faState, ledger>>

\* A node that lags denies the payment, and nothing is owed on its word.
SignerMisled(h) ==
  /\ SG!NodeLags(h)
  /\ owed' = [owed EXCEPT ![h] = FALSE]
  /\ UNCHANGED <<now, mwState, faState, redeemed>>

\* The node's answer arrives: verifyPayment returns, and verify does.
SignerAnswers(h) ==
  /\ \E answer \in {"valid", "invalid", "retryable"} :
       SG!LookupEnds(h, answer) /\ FA!VerifyEnds(h, answer)
  /\ UNCHANGED <<mwState, ledger>>

VerifyTimesOut(h) ==
  /\ FA!VerifyTimesOut(h)
  /\ SG!Abandon(h)
  /\ UNCHANGED <<mwState, ledger>>

\* verify returned: the handler settles in the same turn, or answers.
VerifyEnds(h) ==
  /\ \/ call[h].pc = "valid" /\ MW!VerifyEnds(h, "valid") /\ FA!Settle(h)
     \/ call[h].pc = "failed" /\ MW!VerifyEnds(h, call[h].outcome) /\ FA!Return(h)
  /\ owed' = [owed EXCEPT ![h] = FALSE]
  /\ UNCHANGED <<sgState, redeemed>>

\* settle returned: the request is served.
SettleEnds(h) ==
  /\ MW!SettleEnds(h, "success") \/ MW!SettleEnds(h, "nextThrows")
  /\ redeemed' = [redeemed EXCEPT
                    ![slot[h].entry.commitment] = Append(@, slot[h].route)]
  /\ UNCHANGED <<faState, sgState, owed>>

Restart ==
  /\ MW!Restart
  /\ FA!Restart
  /\ SG!Crash
  /\ owed' = [h \in Slots |-> FALSE]
  /\ UNCHANGED redeemed

Tick == MW!Tick /\ FA!Tick /\ UNCHANGED <<sgState, ledger>>

\* The payers and the chain.
Chain ==
  /\ \/ \E t \in TxHashes, pays \in [Commitments -> Values \cup {None}] :
          SG!Submit(t, {c \in Commitments : bound[c] # None}, pays)
     \/ \E t \in TxHashes : SG!Mine(t) \/ SG!DropTx(t)
  /\ UNCHANGED <<now, mwState, faState, ledger>>

\* The steps of a server process that stays up.
Running ==
  \/ \E n \in Nonces, rt \in Routes : Challenge(n, rt)
  \/ \E n \in Nonces : DropExpired(n)
  \/ \E h \in Slots, n \in Nonces, s \in Senders, rt \in Routes :
       PrepareBegins(h, n, s, rt)
  \/ \E h \in Slots, c \in Commitments \cup {None} : SignerPrepares(h, c)
  \/ \E h \in Slots, n \in Nonces, p \in Payments, rt \in Routes :
       PayBegins(h, n, p, rt)
  \/ \E h \in Slots :
       \/ PrepareEnds(h)
       \/ SignerReads(h)
       \/ SignerMisled(h)
       \/ SignerAnswers(h)
       \/ VerifyTimesOut(h)
       \/ VerifyEnds(h)
       \/ SettleEnds(h)
  \/ Tick
  \/ Chain

Next == Running \/ Restart

Spec == Init /\ [][Next]_vars

(***************************************************************************)
(* Fairness.  The event loop runs the continuation of a settled promise    *)
(* and the callback of a timer that is due, and the clock moves.  Nothing  *)
(* makes preparePayment end: the 240 s of facilitator-signer.ts:252 bound  *)
(* its last wait only; simulating, proving and sending                     *)
(* (pxe-wallet.ts:80-190) and the await of middleware.ts:121 have no       *)
(* timeout.  Nothing makes an RPC of verifyPayment answer either: that is  *)
(* assumed only where a property needs it.                                 *)
(***************************************************************************)
LoopFairness ==
  /\ WF_vars(Tick)
  /\ \A h \in Slots :
       /\ WF_vars(PrepareEnds(h))
       /\ WF_vars(VerifyTimesOut(h))
       /\ WF_vars(VerifyEnds(h))
       /\ WF_vars(SettleEnds(h))

RpcFairness ==
  \A h \in Slots : WF_vars(SignerReads(h)) /\ WF_vars(SignerAnswers(h))

\* The payer of an unserved payment presents it again and again.
PayerFairness ==
  \A n \in Nonces, p \in Payments, rt \in Routes :
    SF_vars(\E h \in Slots : PayBegins(h, n, p, rt))

UpSpec == Init /\ [][Running]_vars /\ LoopFairness
AnsweringSpec == UpSpec /\ RpcFairness
RetryingSpec == AnsweringSpec /\ PayerFairness

-----------------------------------------------------------------------------
(* Properties.                                                             *)

\* The server as its payers see it: a payment is redeemed at most once, for
\* a route whose price it covers, and only after it was made on chain.
Paid == [c \in Commitments |-> IF log[c] = None THEN None ELSE log[c].value]
PA == INSTANCE PaidAccess WITH paid <- Paid
ImplementsPaidAccess == PA!Spec

\* Every request served is accounted for by one redeemed payment, prepared
\* for the nonce it was served under, even when next() throws and puts the
\* nonce back or the process restarts (middleware.ts:189-233,
\* scheme.ts:280-285).
ServedIsRedeemed ==
  \A n \in Nonces : served[n] > 0 =>
    /\ served[n] = 1
    /\ \E c \in Commitments :
         bound[c] # None /\ bound[c].nonce = n /\ Len(redeemed[c]) = 1

\* Both maps agree: the commitment of an entry that anyone holds was
\* prepared for that nonce and that sender, and with the same deadline.
EntryMatchesCommitment ==
  \A n \in Nonces : \A e \in MW!Entries(n) :
    e.commitment # None =>
      bound[e.commitment] =
        [senderAddress |-> e.senderAddress,
         tokenAddress |-> bound[e.commitment].tokenAddress,
         nonce |-> n, expiresAt |-> e.createdAt + e.timeoutMs]

\* A nonce that is put back for a retry leads to a commitment that the
\* scheme still has: the two layers keep and drop a payment together, and
\* agree on its last instant (middleware.ts:184, 200-202, 233 and
\* scheme.ts:203, 376).
RetryFindsCommitment ==
  \A n \in Nonces :
    LET e == pendingPayments[n] IN
    e # None =>
      (e.commitment # None /\ ~MW!Expired(e)
         => pendingCommitments[e.commitment] # None)

\* docs/commitment-pattern-findings.md:51: "transient RPC/PXE failures do not
\* consume the local nonce/commitment immediately, so the client can retry
\* the same proof".  A payment that is owed when it is presented is never
\* finally refused, neither in the first turn nor after the signer was asked,
\* although RPCs fail, other payments share its transaction, and sweeps and
\* timers run meanwhile (scheme.ts:217-330).  The exceptions are in Owed, and
\* a node that lags behind the chain (SignerMisled).
PaidIsNotRefused == \A h \in Slots : owed[h] => call[h] # FA!Failed("invalid")

\* A verification whose timer is due only after the clock of the model stops.
BeyondTheClock(h) == call[h].pc = "verifying" /\ call[h].deadline > MaxTime

\* A payment that is owed when it is presented is settled, and with
\* RequestsAnswered served, or given back to the payer for a retry: another
\* verification holds its transaction, or the node did not answer before the
\* timer (scheme.ts:291-316, middleware.ts:194-231).
PaidGetsServed ==
  \A h \in Slots :
    owed[h] ~> \/ slot[h].pc = "settling"
               \/ call[h] = FA!Failed("retryable")
               \/ BeyondTheClock(h)

\* The handler awaits the signer's prepareCommitment, which may never end.
AwaitsSigner(h) == call[h].pc = "preparing"

\* Every request is answered although the node may never answer a
\* verification, except one that awaits prepareCommitment (scheme.ts:289-300,
\* middleware.ts:121-146 and 193-241).
RequestsAnswered ==
  \A h \in Slots :
    MW!Busy(h) /\ ~AwaitsSigner(h) ~> (~MW!Busy(h) \/ BeyondTheClock(h))

\* readme.md:112: "a stalled verify cannot lock a payer out of their own
\* payment".  A payment that is owed when it is presented is served in the
\* end, the payer retrying as long as it takes.
PresentedIsServed ==
  \A h \in Slots, n \in Nonces : owed[h] /\ slot[h].nonce = n ~> served[n] > 0

=============================================================================
