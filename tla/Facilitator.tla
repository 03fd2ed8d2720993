---------------------------- MODULE Facilitator -----------------------------
(***************************************************************************)
(* ExactAztecFacilitatorScheme                                             *)
(* (packages/mechanism/src/exact/facilitator/scheme.ts): the commitments   *)
(* it issued, the transactions it is verifying and those it settled.       *)
(*                                                                         *)
(* preparePayment and verify await the signer, so each is a call with a    *)
(* turn before and a turn after that await; settle has no await and is one *)
(* turn.  The signer may answer anything, late, or never.  The caller      *)
(* settles, if at all, what was just found valid, as the middleware does.  *)
(***************************************************************************)
EXTENDS Naturals

CONSTANTS
  Commitments,     \* commitments the token contract can draw; drawn once
  TxHashes,        \* transaction hashes a payer can present
  Addresses,       \* payer addresses, up to letter case (normalizeAddress)
  Tokens,          \* token addresses, up to letter case
  Amounts,         \* prices
  Nonces,          \* nonces of the callers
  Options,         \* the PreparePaymentOptions the callers pass
  Slots,           \* bound on the calls in progress
  None,            \* undefined
  DefaultTimeout,  \* DEFAULT_COMMITMENT_TIMEOUT_MS, in ticks
  MaxTime          \* bound on the clock

PreparePaymentOptions ==
  [nonce : Nonces \cup {None}, createdAt : Nat \cup {None},
   timeoutMs : Nat \cup {None}]

PendingCommitment ==
  [senderAddress : Addresses, tokenAddress : Tokens,
   nonce : Nonces \cup {None}, expiresAt : Nat]

\* A payload without txHash stands for each one validatePayload refuses.
Payload == [senderAddress : Addresses, txHash : TxHashes \cup {None}]

\* The parts of PaymentRequirements, extra included, that verify reads.
Requirements ==
  [asset : Tokens, amount : Amounts, nonce : Nonces \cup {None},
   commitment : Commitments \cup {None}]

ASSUME NoneAssumption ==
  /\ None \notin Commitments \cup TxHashes \cup Nonces
  /\ None \notin Nat
  /\ None \notin PendingCommitment

ASSUME TimeAssumption ==
  /\ MaxTime \in Nat
  /\ DefaultTimeout \in Nat
  /\ Options \subseteq PreparePaymentOptions

VARIABLES
  now,                \* Date.now()
  pendingCommitments, \* Map: commitment -> PendingCommitment
  inFlightTxHashes,   \* Map: txHash -> expiry of the mark
  consumedTxHashes,   \* Set of settled txHashes
  call,               \* the calls awaiting the signer or their caller
  bound,              \* observation: what a commitment was prepared for
  judged              \* observation: commitments finally refused or settled

scheme == <<pendingCommitments, inFlightTxHashes, consumedTxHashes>>
observed == <<bound, judged>>
vars == <<now, scheme, call, observed>>

Idle == [pc |-> "idle"]
Preparing(token, completer, o) ==
  [pc |-> "preparing", tokenAddress |-> token, senderAddress |-> completer,
   options |-> o]
Verifying(p, q, deadline) ==
  [pc |-> "verifying", payload |-> p, requirements |-> q,
   deadline |-> deadline]
Prepared(c) == [pc |-> "prepared", commitment |-> c]
Valid(p, q) == [pc |-> "valid", payload |-> p, requirements |-> q]
Failed(outcome) == [pc |-> "failed", outcome |-> outcome]

-----------------------------------------------------------------------------
(* Helpers.                                                                *)

\* A mutant: the sweep drops a commitment in its last instant.
ExpiredEarly(expiresAt) == now >= expiresAt

\* `now > expiresAt`, for commitments and for in-flight marks.
Expired(expiresAt) == now > expiresAt

\* sweepExpiredCommitments, on both maps.
SweptCommitments ==
  [c \in Commitments |->
     IF pendingCommitments[c] # None /\ Expired(pendingCommitments[c].expiresAt)
       THEN None ELSE pendingCommitments[c]]
SweptInFlight ==
  [t \in TxHashes |->
     IF inFlightTxHashes[t] # None /\ Expired(inFlightTxHashes[t])
       THEN None ELSE inFlightTxHashes[t]]

\* A mutant: the defaults are not applied.
ExpiresAtWithoutDefaults(o) == o.timeoutMs

\* createdAt + timeoutMs, defaults included.
ExpiresAt(o) ==
  (IF o.createdAt = None THEN now ELSE o.createdAt)
    + (IF o.timeoutMs = None THEN DefaultTimeout ELSE o.timeoutMs)

\* A mutant: the nonce of the prepare phase is not compared.
IssuedForAnyNonce(p, q) ==
  LET pending == SweptCommitments[q.commitment] IN
  /\ q.commitment # None
  /\ pending # None
  /\ pending.senderAddress = p.senderAddress
  /\ pending.tokenAddress = q.asset

\* Checks 3 of verify: the commitment was issued here, has not expired and
\* was prepared for this sender, token and nonce.
IssuedFor(p, q) ==
  /\ q.commitment # None
  /\ LET pending == SweptCommitments[q.commitment] IN
     /\ pending # None
     /\ pending.senderAddress = p.senderAddress
     /\ pending.tokenAddress = q.asset
     /\ pending.nonce \in {None, q.nonce}

\* Math.max(1, expiresAt - now) ms after now.
TimerDeadline(expiresAt) == IF expiresAt > now THEN expiresAt ELSE now + 1

\* A mutant: a failure the caller may retry drops the commitment too.
ConsumeOnEveryFailure(pendings, q, retryable) ==
  [c \in Commitments |-> IF c = q.commitment THEN None ELSE pendings[c]]

\* A mutant: no failure drops the commitment.
KeepOnEveryFailure(pendings, q, retryable) == pendings

\* What `fail` leaves of the commitments: a final failure drops the one the
\* requirements name, a retryable one drops none.
AfterFailure(pendings, q, retryable) ==
  [c \in Commitments |->
     IF c = q.commitment /\ ~retryable THEN None ELSE pendings[c]]

\* A mutant: the mark is left in place when verify ends.
KeepMark(t) == inFlightTxHashes

\* The `finally` of verify: the mark on the hash goes, whoever set it.
Unmark(t) == [inFlightTxHashes EXCEPT ![t] = None]

Judge(q) ==
  judged' = judged \cup {c \in Commitments : c = q.commitment /\ bound[c] # None}

-----------------------------------------------------------------------------

Init ==
  /\ now = 0
  /\ pendingCommitments = [c \in Commitments |-> None]
  /\ inFlightTxHashes = [t \in TxHashes |-> None]
  /\ consumedTxHashes = {}
  /\ call = [h \in Slots |-> Idle]
  /\ bound = [c \in Commitments |-> None]
  /\ judged = {}

\* preparePayment up to the await of the signer.  The caller's createdAt is
\* an instant in the past.
PrepareBegins(h, token, completer, o) ==
  /\ call[h].pc = "idle"
  /\ o.createdAt # None => o.createdAt <= now
  /\ pendingCommitments' = SweptCommitments
  /\ inFlightTxHashes' = SweptInFlight
  /\ call' = [call EXCEPT ![h] = Preparing(token, completer, o)]
  /\ UNCHANGED <<now, consumedTxHashes, observed>>

\* The signer returns a commitment that the contract never drew before.
PrepareSucceeds(h, c) ==
  /\ call[h].pc = "preparing"
  /\ bound[c] = None
  /\ LET pending == [senderAddress |-> call[h].senderAddress,
                     tokenAddress |-> call[h].tokenAddress,
                     nonce |-> call[h].options.nonce,
                     expiresAt |-> ExpiresAt(call[h].options)]
     IN /\ pendingCommitments' = [pendingCommitments EXCEPT ![c] = pending]
        /\ bound' = [bound EXCEPT ![c] = pending]
  /\ call' = [call EXCEPT ![h] = Prepared(c)]
  /\ UNCHANGED <<now, inFlightTxHashes, consumedTxHashes, judged>>

\* The signer throws, or returns a value that is no commitment.
PrepareFails(h) ==
  /\ call[h].pc = "preparing"
  /\ call' = [call EXCEPT ![h] = Prepared(None)]
  /\ UNCHANGED <<now, scheme, observed>>

\* verify, refused in its first turn: the payload is malformed, the hash was
\* settled, or (the hash being free) the commitment does not fit.
VerifyRefused(h, p, q) ==
  /\ call[h].pc = "idle"
  /\ \/ p.txHash = None
     \/ p.txHash \in consumedTxHashes
     \/ /\ p.txHash # None
        /\ SweptInFlight[p.txHash] = None
        /\ ~IssuedFor(p, q)
  /\ pendingCommitments' = AfterFailure(SweptCommitments, q, FALSE)
  /\ inFlightTxHashes' = SweptInFlight
  /\ call' = [call EXCEPT ![h] = Failed("invalid")]
  /\ Judge(q)
  /\ UNCHANGED <<now, consumedTxHashes, bound>>

\* verify, sent away in its first turn: the hash is being verified.
VerifyBusy(h, p, q) ==
  /\ call[h].pc = "idle"
  /\ p.txHash # None
  /\ p.txHash \notin consumedTxHashes
  /\ SweptInFlight[p.txHash] # None
  /\ pendingCommitments' = AfterFailure(SweptCommitments, q, TRUE)
  /\ inFlightTxHashes' = SweptInFlight
  /\ call' = [call EXCEPT ![h] = Failed("retryable")]
  /\ UNCHANGED <<now, consumedTxHashes, observed>>

\* verify up to the await of the signer: the hash is marked in flight.
VerifyBegins(h, p, q) ==
  /\ call[h].pc = "idle"
  /\ p.txHash # None
  /\ p.txHash \notin consumedTxHashes
  /\ SweptInFlight[p.txHash] = None
  /\ IssuedFor(p, q)
  /\ LET expiresAt == SweptCommitments[q.commitment].expiresAt IN
     /\ inFlightTxHashes' = [SweptInFlight EXCEPT ![p.txHash] = expiresAt]
     /\ call' = [call EXCEPT ![h] = Verifying(p, q, TimerDeadline(expiresAt))]
  /\ pendingCommitments' = SweptCommitments
  /\ UNCHANGED <<now, consumedTxHashes, observed>>

\* What verify returns once its await ends with `outcome`.
VerifyEnds(h, outcome) ==
  LET p == call[h].payload
      q == call[h].requirements
  IN
  /\ call[h].pc = "verifying"
  /\ inFlightTxHashes' = Unmark(p.txHash)
  /\ \/ /\ outcome = "valid"
        /\ call' = [call EXCEPT ![h] = Valid(p, q)]
        /\ UNCHANGED <<pendingCommitments, judged>>
     \/ /\ outcome = "invalid"
        /\ call' = [call EXCEPT ![h] = Failed("invalid")]
        /\ pendingCommitments' = AfterFailure(pendingCommitments, q, FALSE)
        /\ Judge(q)
     \/ /\ outcome = "retryable"
        /\ call' = [call EXCEPT ![h] = Failed("retryable")]
        /\ pendingCommitments' = AfterFailure(pendingCommitments, q, TRUE)
        /\ UNCHANGED judged
  /\ UNCHANGED <<now, consumedTxHashes, bound>>

\* The signer found the payment, refused it, failed in a way that
\* isRetryableVerificationError recognises, or threw.
SignerAnswers(h) ==
  \E outcome \in {"valid", "invalid", "retryable"} : VerifyEnds(h, outcome)

\* A mutant: the signer is awaited without withTimeout.
NeverTimesOut(h) == FALSE /\ VerifyEnds(h, "retryable")

\* withTimeout rejects; a later answer of the signer is ignored.
VerifyTimesOut(h) ==
  /\ call[h].pc = "verifying"
  /\ now >= call[h].deadline
  /\ VerifyEnds(h, "retryable")

\* A mutant: settle acknowledges without recording anything.
SettleNothing(h) ==
  /\ call[h].pc = "valid"
  /\ call' = [call EXCEPT ![h] = Idle]
  /\ UNCHANGED <<now, scheme, observed>>

\* settle, on the payload and the requirements just found valid.
Settle(h) ==
  LET t == call[h].payload.txHash
      c == call[h].requirements.commitment
  IN
  /\ call[h].pc = "valid"
  /\ pendingCommitments' = [pendingCommitments EXCEPT ![c] = None]
  /\ consumedTxHashes' = consumedTxHashes \cup {t}
  /\ call' = [call EXCEPT ![h] = Idle]
  /\ judged' = judged \cup {c}
  /\ UNCHANGED <<now, inFlightTxHashes, bound>>

\* The caller receives the answer and does not settle.
Return(h) ==
  /\ call[h].pc \in {"prepared", "valid", "failed"}
  /\ call' = [call EXCEPT ![h] = Idle]
  /\ UNCHANGED <<now, scheme, observed>>

\* The process restarts: the scheme keeps nothing.
Restart ==
  /\ pendingCommitments' = [c \in Commitments |-> None]
  /\ inFlightTxHashes' = [t \in TxHashes |-> None]
  /\ consumedTxHashes' = {}
  /\ call' = [h \in Slots |-> Idle]
  /\ judged' = {c \in Commitments : bound[c] # None}
  /\ UNCHANGED <<now, bound>>

Tick ==
  /\ now < MaxTime
  /\ now' = now + 1
  /\ UNCHANGED <<scheme, call, observed>>

Next ==
  \/ \E h \in Slots, token \in Tokens, a \in Addresses, o \in Options :
       PrepareBegins(h, token, a, o)
  \/ \E h \in Slots, c \in Commitments : PrepareSucceeds(h, c)
  \/ \E h \in Slots : PrepareFails(h)
  \/ \E h \in Slots, p \in Payload, q \in Requirements :
       \/ VerifyRefused(h, p, q)
       \/ VerifyBusy(h, p, q)
       \/ VerifyBegins(h, p, q)
  \/ \E h \in Slots :
       SignerAnswers(h) \/ VerifyTimesOut(h) \/ Settle(h) \/ Return(h)
  \/ Restart
  \/ Tick

Spec == Init /\ [][Next]_vars

-----------------------------------------------------------------------------
(* Properties.                                                             *)

\* Every variable has its type (scheme.ts:96-99 and the closures of the
\* calls).
TypeOK ==
  /\ now \in Nat
  /\ pendingCommitments \in [Commitments -> PendingCommitment \cup {None}]
  /\ inFlightTxHashes \in [TxHashes -> Nat \cup {None}]
  /\ consumedTxHashes \subseteq TxHashes
  /\ \A h \in Slots :
       \/ call[h] = Idle
       \/ \E k \in Tokens, a \in Addresses, o \in Options :
            call[h] = Preparing(k, a, o)
       \/ \E c \in Commitments \cup {None} : call[h] = Prepared(c)
       \/ \E o \in {"invalid", "retryable"} : call[h] = Failed(o)
       \/ /\ call[h].pc \in {"verifying", "valid"}
          /\ call[h].payload \in Payload
          /\ call[h].requirements \in Requirements
          /\ call[h].pc = "verifying" => call[h].deadline \in Nat
  /\ bound \in [Commitments -> PendingCommitment \cup {None}]
  /\ judged \subseteq Commitments

Verifies(h, t) == call[h].pc = "verifying" /\ call[h].payload.txHash = t

\* A hash is marked in flight only while a verification of it runs, through
\* timeouts, sweeps and marks removed by another call: no mark outlives its
\* call and turns a payer away (scheme.ts:287, 325-327, 381-385).
NoLeakedMark ==
  \A t \in TxHashes :
    inFlightTxHashes[t] # None => \E h \in Slots : Verifies(h, t)

\* Until its deadline a commitment stays redeemable unless it was settled or
\* finally refused: retryable failures, timeouts, busy hashes and sweeps
\* started by other payments never lose it (scheme.ts:196-212, 302-324, 376).
LiveUntilJudged ==
  \A c \in Commitments :
    bound[c] # None /\ c \notin judged /\ ~(now > bound[c].expiresAt) =>
      pendingCommitments[c] = bound[c]

\* What is found valid or settled was prepared by this scheme for that
\* sender, token and nonce, although the pending entry may be dropped while
\* the signer is awaited (scheme.ts:251-285 against 302-316 and 338-344).
ValidMeansPrepared ==
  \A h \in Slots :
    call[h].pc = "valid" =>
      LET p == call[h].payload
          q == call[h].requirements
      IN /\ q.commitment # None
         /\ bound[q.commitment] # None
         /\ bound[q.commitment].senderAddress = p.senderAddress
         /\ bound[q.commitment].tokenAddress = q.asset
         /\ bound[q.commitment].nonce \in {None, q.nonce}

\* A commitment that was settled, or finally refused, is never redeemable
\* again, whatever calls were under way (scheme.ts:203, 340).
JudgedStaysOut ==
  \A c \in judged : pendingCommitments[c] = None

=============================================================================
