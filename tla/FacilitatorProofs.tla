------------------------- MODULE FacilitatorProofs --------------------------
(* Proofs about Facilitator and Preparation, for any number of calls,      *)
(* commitments and transactions, and a signer that answers anything.       *)
EXTENDS Preparation, TLAPS

CallsAreSlots == call = [h \in Slots |-> call[h]]

(* An entry is what was prepared, and what was judged was prepared.        *)
Entries ==
  /\ \A c \in Commitments : pendingCommitments[c] \in {None, bound[c]}
  /\ \A c \in judged : bound[c] # None

(* These parameters were prepared for, and name a transaction.             *)
PreparedFor(p, q) ==
  /\ p.txHash # None
  /\ q.commitment # None
  /\ bound[q.commitment] # None
  /\ bound[q.commitment].senderAddress = p.senderAddress
  /\ bound[q.commitment].tokenAddress = q.asset
  /\ bound[q.commitment].nonce \in {None, q.nonce}

(* A verification that passed the first checks stays within its bounds.    *)
Checked ==
  \A h \in Slots : call[h].pc \in {"verifying", "valid"} =>
    PreparedFor(call[h].payload, call[h].requirements)

Inv ==
  /\ TypeOK /\ CallsAreSlots /\ Entries /\ Checked
  /\ NoLeakedMark /\ LiveUntilJudged /\ JudgedStaysOut

(* What a call is: the part of the type invariant about one call.          *)
CallType(x) ==
  \/ x = Idle
  \/ \E k \in Tokens, a \in Addresses, o \in Options : x = Preparing(k, a, o)
  \/ \E c \in Commitments \cup {None} : x = Prepared(c)
  \/ \E o \in {"invalid", "retryable"} : x = Failed(o)
  \/ /\ x.pc \in {"verifying", "valid"}
     /\ x.payload \in Payload
     /\ x.requirements \in Requirements
     /\ x.pc = "verifying" => x.deadline \in Nat

(* What a call holds, by its place.                                        *)
LEMMA CallCases ==
  ASSUME NEW x, CallType(x)
  PROVE  /\ x.pc = "preparing" =>
              x.tokenAddress \in Tokens /\ x.senderAddress \in Addresses /\ x.options \in Options
         /\ x.pc \in {"verifying", "valid"} => x.payload \in Payload /\ x.requirements \in Requirements
<1>1. CASE x = Idle
  BY <1>1 DEF Idle
<1>2. CASE \E k \in Tokens, a \in Addresses, o \in Options : x = Preparing(k, a, o)
  BY <1>2 DEF Preparing
<1>3. CASE \E c \in Commitments \cup {None} : x = Prepared(c)
  BY <1>3 DEF Prepared
<1>4. CASE \E o \in {"invalid", "retryable"} : x = Failed(o)
  BY <1>4 DEF Failed
<1>5. CASE /\ x.pc \in {"verifying", "valid"}
           /\ x.payload \in Payload
           /\ x.requirements \in Requirements
  BY <1>5
<1> QED
  BY <1>1, <1>2, <1>3, <1>4, <1>5 DEF CallType

LEMMA CallTypes ==
  ASSUME TypeOK
  PROVE  \A h \in Slots : CallType(call[h])
BY DEF TypeOK, CallType

(* The maps after a sweep.                                                 *)
LEMMA SweptTypes ==
  ASSUME TypeOK
  PROVE  /\ SweptCommitments \in [Commitments -> PendingCommitment \cup {None}]
         /\ SweptInFlight \in [TxHashes -> Nat \cup {None}]
         /\ \A c \in Commitments : SweptCommitments[c] \in {None, pendingCommitments[c]}
         /\ \A c \in Commitments :
              SweptCommitments[c] # pendingCommitments[c] =>
                now > pendingCommitments[c].expiresAt
         /\ \A t \in TxHashes : SweptInFlight[t] \in {None, inFlightTxHashes[t]}
BY DEF TypeOK, SweptCommitments, SweptInFlight, Expired

LEMMA ExpiresAtType ==
  ASSUME TypeOK, NEW o \in Options
  PROVE  ExpiresAt(o) \in Nat
BY TimeAssumption DEF ExpiresAt, TypeOK, PreparePaymentOptions

LEMMA InitInv == Init => Inv
BY NoneAssumption DEF Init, Inv, TypeOK, CallsAreSlots, Entries, Checked, NoLeakedMark,
   LiveUntilJudged, JudgedStaysOut, Idle

-----------------------------------------------------------------------------
(* A turn of one call: what it may do to the maps and the calls.           *)

(* A call that moves, and that verifies only what was prepared.            *)
LEMMA CallMoves ==
  ASSUME Inv, NEW h \in Slots, NEW x, call' = [call EXCEPT ![h] = x], CallType(x),
         x.pc \in {"verifying", "valid"} => PreparedFor(x.payload, x.requirements),
         \A c \in Commitments : bound[c] # None => bound'[c] = bound[c]
  PROVE  /\ CallsAreSlots'
         /\ Checked'
         /\ \A g \in Slots : CallType(call'[g])
<1>1. /\ DOMAIN call = Slots /\ call'[h] = x
      /\ \A g \in Slots : g # h => call'[g] = call[g]
  BY DEF Inv, CallsAreSlots
<1>2. CallsAreSlots'
  BY <1>1 DEF Inv, CallsAreSlots
<1>3. \A g \in Slots : CallType(call'[g])
  BY <1>1 DEF Inv, TypeOK, CallType
<1>4. ASSUME NEW g \in Slots, call'[g].pc \in {"verifying", "valid"}
      PROVE  PreparedFor(call[g].payload, call[g].requirements)'
  <2>1. PreparedFor(call'[g].payload, call'[g].requirements)
    BY <1>1, <1>4 DEF Inv, Checked
  <2>2. call'[g].requirements \in Requirements
    BY <1>3, <1>4, CallCases
  <2>3. call'[g].requirements.commitment \in Commitments
    BY <2>1, <2>2 DEF PreparedFor, Requirements
  <2> QED
    BY <2>1, <2>3 DEF PreparedFor
<1> QED
  BY <1>2, <1>3, <1>4 DEF Checked

(* Commitments are dropped when they expire or are judged.                 *)
LEMMA EntriesDrop ==
  ASSUME Inv, now' = now, bound' = bound, judged \subseteq judged',
         judged' \subseteq {c \in Commitments : bound[c] # None},
         pendingCommitments' \in [Commitments -> PendingCommitment \cup {None}],
         \A c \in Commitments :
           \/ pendingCommitments'[c] = pendingCommitments[c] /\ (c \in judged' => c \in judged)
           \/ pendingCommitments'[c] = None /\
                (c \in judged' \/ pendingCommitments[c] = None
                   \/ now > pendingCommitments[c].expiresAt)
  PROVE  Entries' /\ LiveUntilJudged' /\ JudgedStaysOut'
<1>1. Entries'
  BY DEF Inv, Entries
<1>2. JudgedStaysOut'
  BY DEF Inv, JudgedStaysOut, TypeOK
<1>3. ASSUME NEW c \in Commitments, bound'[c] # None, c \notin judged',
             ~(now' > bound'[c].expiresAt)
      PROVE  pendingCommitments'[c] = bound'[c]
  <2>1. pendingCommitments[c] = bound[c]
    BY <1>3 DEF Inv, LiveUntilJudged
  <2> QED
    BY <1>3, <2>1
<1> QED
  BY <1>1, <1>2, <1>3 DEF LiveUntilJudged

(* Marks are only taken away from calls that no longer verify.             *)
LEMMA MarksGo ==
  ASSUME Inv,
         \A t \in TxHashes : inFlightTxHashes'[t] \in {None, inFlightTxHashes[t]},
         \A g \in Slots, t \in TxHashes :
           Verifies(g, t) => call'[g] = call[g] \/ inFlightTxHashes'[t] = None
  PROVE  NoLeakedMark'
<1> SUFFICES ASSUME NEW t \in TxHashes, inFlightTxHashes'[t] # None
             PROVE  \E g \in Slots : call'[g].pc = "verifying" /\ call'[g].payload.txHash = t
  BY DEF NoLeakedMark, Verifies
<1>1. PICK g \in Slots : Verifies(g, t)
  BY DEF Inv, NoLeakedMark
<1>2. call'[g] = call[g]
  BY <1>1
<1> QED
  BY <1>1, <1>2 DEF Verifies

-----------------------------------------------------------------------------
(* The steps.                                                              *)
LEMMA PrepareBeginsInv ==
  ASSUME Inv, NEW h \in Slots, NEW token \in Tokens, NEW a \in Addresses, NEW o \in Options,
         PrepareBegins(h, token, a, o)
  PROVE  Inv'
<1> DEFINE x == Preparing(token, a, o)
<1>1. /\ TypeOK /\ call[h].pc = "idle" /\ call' = [call EXCEPT ![h] = x]
      /\ pendingCommitments' = SweptCommitments /\ inFlightTxHashes' = SweptInFlight
      /\ UNCHANGED <<now, consumedTxHashes, bound, judged>>
  BY DEF PrepareBegins, observed, Inv
<1>2. x.pc = "preparing" /\ CallType(x)
  BY DEF Preparing, CallType
<1>3. CallsAreSlots' /\ Checked' /\ \A g \in Slots : CallType(call'[g])
  BY <1>1, <1>2, CallMoves
<1>4. Entries' /\ LiveUntilJudged' /\ JudgedStaysOut'
  BY <1>1, SweptTypes, EntriesDrop DEF Inv, TypeOK, Entries
<1>5. NoLeakedMark'
  BY <1>1, SweptTypes, MarksGo DEF Inv, CallsAreSlots, Verifies
<1>6. TypeOK'
  BY <1>1, <1>3, SweptTypes DEF TypeOK, CallType
<1> QED
  BY <1>3, <1>4, <1>5, <1>6 DEF Inv

LEMMA PrepareSucceedsInv ==
  ASSUME Inv, NEW h \in Slots, NEW c \in Commitments, PrepareSucceeds(h, c)
  PROVE  Inv'
<1> DEFINE x == Prepared(c)
<1> DEFINE pending == [senderAddress |-> call[h].senderAddress,
                       tokenAddress |-> call[h].tokenAddress,
                       nonce |-> call[h].options.nonce,
                       expiresAt |-> ExpiresAt(call[h].options)]
<1>1. /\ TypeOK /\ call[h].pc = "preparing" /\ call' = [call EXCEPT ![h] = x]
      /\ bound[c] = None /\ bound' = [bound EXCEPT ![c] = pending]
      /\ pendingCommitments' = [pendingCommitments EXCEPT ![c] = pending]
      /\ UNCHANGED <<now, inFlightTxHashes, consumedTxHashes, judged>>
  BY DEF PrepareSucceeds, Inv
<1>2. pending \in PendingCommitment
  BY <1>1, CallTypes, CallCases, ExpiresAtType, TimeAssumption DEF PendingCommitment, PreparePaymentOptions
<1> HIDE DEF pending
<1>3. x.pc = "prepared" /\ CallType(x)
  BY DEF Prepared, CallType
<1>4. CallsAreSlots' /\ Checked' /\ \A g \in Slots : CallType(call'[g])
  BY <1>1, <1>3, CallMoves DEF TypeOK
<1>5. c \notin judged /\ pending # None
  BY <1>1, <1>2, NoneAssumption DEF Inv, Entries
<1>6. Entries' /\ LiveUntilJudged' /\ JudgedStaysOut'
  BY <1>1, <1>5 DEF Inv, Entries, LiveUntilJudged, JudgedStaysOut, TypeOK
<1>7. NoLeakedMark'
  BY <1>1, MarksGo DEF Inv, CallsAreSlots, Verifies
<1>8. TypeOK'
  BY <1>1, <1>2, <1>4 DEF TypeOK, CallType
<1> QED
  BY <1>4, <1>6, <1>7, <1>8 DEF Inv

(* A call that was handed nothing to verify moves on, the maps as they are.*)
LEMMA CallOnlyInv ==
  ASSUME Inv, NEW h \in Slots, call[h].pc # "verifying", NEW x, CallType(x),
         x.pc \notin {"verifying", "valid"}, call' = [call EXCEPT ![h] = x],
         UNCHANGED <<now, scheme, observed>>
  PROVE  Inv'
<1>1. TypeOK /\ UNCHANGED <<now, pendingCommitments, inFlightTxHashes, consumedTxHashes, bound, judged>>
  BY DEF scheme, observed, Inv
<1>2. CallsAreSlots' /\ Checked' /\ \A g \in Slots : CallType(call'[g])
  BY <1>1, CallMoves
<1>3. Entries' /\ LiveUntilJudged' /\ JudgedStaysOut'
  BY <1>1 DEF Inv, Entries, LiveUntilJudged, JudgedStaysOut
<1>4. NoLeakedMark'
  BY <1>1, MarksGo DEF Inv, CallsAreSlots, Verifies
<1>5. TypeOK'
  BY <1>1, <1>2 DEF TypeOK, CallType
<1> QED
  BY <1>2, <1>3, <1>4, <1>5 DEF Inv

LEMMA VerifyRefusedInv ==
  ASSUME Inv, NEW h \in Slots, NEW p \in Payload, NEW q \in Requirements, VerifyRefused(h, p, q)
  PROVE  Inv'
<1> DEFINE x == Failed("invalid")
<1>1. /\ TypeOK /\ call[h].pc = "idle" /\ call' = [call EXCEPT ![h] = x]
      /\ pendingCommitments' = AfterFailure(SweptCommitments, q, FALSE)
      /\ inFlightTxHashes' = SweptInFlight
      /\ judged' = judged \cup {c \in Commitments : c = q.commitment /\ bound[c] # None}
      /\ UNCHANGED <<now, consumedTxHashes, bound>>
  BY DEF VerifyRefused, Inv, Judge
<1>2. x.pc = "failed" /\ CallType(x)
  BY DEF Failed, CallType
<1>3. CallsAreSlots' /\ Checked' /\ \A g \in Slots : CallType(call'[g])
  BY <1>1, <1>2, CallMoves
<1>4. /\ pendingCommitments' \in [Commitments -> PendingCommitment \cup {None}]
      /\ \A c \in Commitments :
           pendingCommitments'[c] = IF c = q.commitment THEN None ELSE SweptCommitments[c]
  BY <1>1, SweptTypes DEF AfterFailure
<1>5. Entries' /\ LiveUntilJudged' /\ JudgedStaysOut'
  BY <1>1, <1>4, SweptTypes, EntriesDrop DEF Inv, TypeOK, Entries
<1>6. NoLeakedMark'
  BY <1>1, SweptTypes, MarksGo DEF Inv, CallsAreSlots, Verifies
<1>7. TypeOK'
  BY <1>1, <1>3, <1>4, SweptTypes DEF TypeOK, CallType
<1> QED
  BY <1>3, <1>5, <1>6, <1>7 DEF Inv

LEMMA VerifyBusyInv ==
  ASSUME Inv, NEW h \in Slots, NEW p \in Payload, NEW q \in Requirements, VerifyBusy(h, p, q)
  PROVE  Inv'
<1> DEFINE x == Failed("retryable")
<1>1. /\ TypeOK /\ call[h].pc = "idle" /\ call' = [call EXCEPT ![h] = x]
      /\ pendingCommitments' = AfterFailure(SweptCommitments, q, TRUE)
      /\ inFlightTxHashes' = SweptInFlight
      /\ UNCHANGED <<now, consumedTxHashes, bound, judged>>
  BY DEF VerifyBusy, Inv, observed
<1>2. x.pc = "failed" /\ CallType(x)
  BY DEF Failed, CallType
<1>3. CallsAreSlots' /\ Checked' /\ \A g \in Slots : CallType(call'[g])
  BY <1>1, <1>2, CallMoves
<1>4. /\ pendingCommitments' \in [Commitments -> PendingCommitment \cup {None}]
      /\ \A c \in Commitments : pendingCommitments'[c] = SweptCommitments[c]
  BY <1>1, SweptTypes DEF AfterFailure
<1>5. Entries' /\ LiveUntilJudged' /\ JudgedStaysOut'
  BY <1>1, <1>4, SweptTypes, EntriesDrop DEF Inv, TypeOK, Entries
<1>6. NoLeakedMark'
  BY <1>1, SweptTypes, MarksGo DEF Inv, CallsAreSlots, Verifies
<1>7. TypeOK'
  BY <1>1, <1>3, <1>4, SweptTypes DEF TypeOK, CallType
<1> QED
  BY <1>3, <1>5, <1>6, <1>7 DEF Inv

LEMMA VerifyBeginsInv ==
  ASSUME Inv, NEW h \in Slots, NEW p \in Payload, NEW q \in Requirements, VerifyBegins(h, p, q)
  PROVE  Inv'
<1> DEFINE expiresAt == SweptCommitments[q.commitment].expiresAt
<1> DEFINE x == Verifying(p, q, TimerDeadline(expiresAt))
<1>1. /\ TypeOK /\ call[h].pc = "idle" /\ call' = [call EXCEPT ![h] = x]
      /\ p.txHash # None /\ SweptInFlight[p.txHash] = None /\ IssuedFor(p, q)
      /\ pendingCommitments' = SweptCommitments
      /\ inFlightTxHashes' = [SweptInFlight EXCEPT ![p.txHash] = expiresAt]
      /\ UNCHANGED <<now, consumedTxHashes, bound, judged>>
  BY DEF VerifyBegins, observed, Inv
<1>2. q.commitment \in Commitments /\ p.txHash \in TxHashes /\ q.commitment # None
  BY <1>1 DEF IssuedFor, Requirements, Payload
<1>3. /\ pendingCommitments[q.commitment] = bound[q.commitment]
      /\ SweptCommitments[q.commitment] = bound[q.commitment]
      /\ bound[q.commitment] # None
  BY <1>1, <1>2, SweptTypes DEF IssuedFor, Inv, Entries
<1>4. PreparedFor(p, q)
  BY <1>1, <1>2, <1>3 DEF IssuedFor, PreparedFor
<1>5. expiresAt \in Nat
  BY <1>1, <1>2, <1>3 DEF TypeOK, PendingCommitment
<1> HIDE DEF expiresAt
<1>6. TimerDeadline(expiresAt) \in Nat
  BY <1>1, <1>5 DEF TimerDeadline, TypeOK
<1>7. /\ x.pc = "verifying" /\ x.payload = p /\ x.requirements = q
      /\ x.deadline = TimerDeadline(expiresAt)
  BY DEF Verifying
<1> HIDE DEF x
<1>8. CallType(x)
  BY <1>6, <1>7 DEF CallType
<1>9. CallsAreSlots' /\ Checked' /\ \A g \in Slots : CallType(call'[g])
  BY <1>1, <1>4, <1>7, <1>8, CallMoves
<1>10. Entries' /\ LiveUntilJudged' /\ JudgedStaysOut'
  BY <1>1, SweptTypes, EntriesDrop DEF Inv, TypeOK, Entries
<1>11. NoLeakedMark'
  <2> SUFFICES ASSUME NEW t \in TxHashes, inFlightTxHashes'[t] # None
               PROVE  \E g \in Slots : call'[g].pc = "verifying" /\ call'[g].payload.txHash = t
    BY DEF NoLeakedMark, Verifies
  <2>1. /\ call'[h] = x /\ \A g \in Slots : g # h => call'[g] = call[g]
    BY <1>1 DEF Inv, CallsAreSlots
  <2>2. CASE t = p.txHash
    BY <2>1, <2>2, <1>7
  <2>3. CASE t # p.txHash
    <3>1. inFlightTxHashes[t] # None
      BY <1>1, <2>3, SweptTypes
    <3>2. PICK g \in Slots : Verifies(g, t)
      BY <3>1 DEF Inv, NoLeakedMark
    <3> QED
      BY <3>2, <2>1, <1>1 DEF Verifies
  <2> QED
    BY <2>2, <2>3
<1>12. TypeOK'
  BY <1>1, <1>2, <1>5, <1>9, SweptTypes DEF TypeOK, CallType
<1> QED
  BY <1>9, <1>10, <1>11, <1>12 DEF Inv

LEMMA VerifyEndsInv ==
  ASSUME Inv, NEW h \in Slots, NEW outcome \in {"valid", "invalid", "retryable"},
         VerifyEnds(h, outcome)
  PROVE  Inv'
<1> DEFINE p == call[h].payload
<1> DEFINE q == call[h].requirements
<1> DEFINE x == IF outcome = "valid" THEN Valid(p, q) ELSE Failed(outcome)
<1>1. /\ TypeOK /\ call[h].pc = "verifying" /\ call' = [call EXCEPT ![h] = x]
      /\ inFlightTxHashes' = [inFlightTxHashes EXCEPT ![p.txHash] = None]
      /\ UNCHANGED <<now, consumedTxHashes, bound>>
  BY DEF VerifyEnds, Unmark, Inv
<1>2. /\ PreparedFor(p, q) /\ p \in Payload /\ q \in Requirements
  BY <1>1, CallTypes, CallCases DEF Inv, Checked
<1>3. p.txHash \in TxHashes
  BY <1>2 DEF PreparedFor, Payload
<1>4. CallType(x) /\ (x.pc \in {"verifying", "valid"} => PreparedFor(x.payload, x.requirements))
  <2>1. CASE outcome = "valid"
    <3>1. Valid(p, q).pc = "valid" /\ Valid(p, q).payload = p /\ Valid(p, q).requirements = q
      BY DEF Valid
    <3> QED
      BY <1>2, <2>1, <3>1 DEF CallType
  <2>2. CASE outcome # "valid"
    <3>1. x = Failed(outcome) /\ x.pc = "failed" /\ outcome \in {"invalid", "retryable"}
      BY <2>2 DEF Failed
    <3> QED
      BY <3>1 DEF CallType
  <2> QED
    BY <2>1, <2>2
<1> HIDE DEF x
<1>5. CallsAreSlots' /\ Checked' /\ \A g \in Slots : CallType(call'[g])
  BY <1>1, <1>4, CallMoves
<1>6. /\ pendingCommitments' \in [Commitments -> PendingCommitment \cup {None}]
      /\ judged \subseteq judged'
      /\ judged' \subseteq {c \in Commitments : bound[c] # None}
      /\ \A c \in Commitments :
           \/ pendingCommitments'[c] = pendingCommitments[c] /\ (c \in judged' => c \in judged)
           \/ pendingCommitments'[c] = None /\ (c \in judged' \/ pendingCommitments[c] = None)
  <2>1. pendingCommitments \in [Commitments -> PendingCommitment \cup {None}]
        /\ judged \subseteq {c \in Commitments : bound[c] # None}
    BY <1>1 DEF TypeOK, Inv, Entries
  <2>2. CASE outcome = "valid"
    BY <2>1, <2>2 DEF VerifyEnds
  <2>3. CASE outcome = "retryable"
    <3>1. /\ pendingCommitments' = AfterFailure(pendingCommitments, q, TRUE)
          /\ judged' = judged
      BY <2>3 DEF VerifyEnds
    <3> QED
      BY <2>1, <3>1 DEF AfterFailure
  <2>4. CASE outcome = "invalid"
    <3>1. /\ pendingCommitments' = AfterFailure(pendingCommitments, q, FALSE)
          /\ judged' = judged \cup {c \in Commitments : c = q.commitment /\ bound[c] # None}
      BY <2>4 DEF VerifyEnds, Judge
    <3> QED
      BY <2>1, <3>1, <1>2 DEF AfterFailure, PreparedFor
  <2> QED
    BY <2>2, <2>3, <2>4
<1>7. Entries' /\ LiveUntilJudged' /\ JudgedStaysOut'
  BY <1>1, <1>6, EntriesDrop
<1>8. NoLeakedMark'
  <2>1. \A t \in TxHashes : inFlightTxHashes'[t] \in {None, inFlightTxHashes[t]}
    BY <1>1 DEF TypeOK
  <2>2. inFlightTxHashes'[p.txHash] = None
    BY <1>1, <1>3 DEF TypeOK
  <2>3. \A g \in Slots : g # h => call'[g] = call[g]
    BY <1>1 DEF Inv, CallsAreSlots
  <2> QED
    BY <2>1, <2>2, <2>3, MarksGo DEF Verifies
<1>9. TypeOK'
  BY <1>1, <1>5, <1>6 DEF TypeOK, CallType
<1> QED
  BY <1>5, <1>7, <1>8, <1>9 DEF Inv

LEMMA SettleInv ==
  ASSUME Inv, NEW h \in Slots, Settle(h)
  PROVE  Inv'
<1> DEFINE t == call[h].payload.txHash
<1> DEFINE c == call[h].requirements.commitment
<1>1. /\ TypeOK /\ call[h].pc = "valid" /\ call' = [call EXCEPT ![h] = Idle]
      /\ pendingCommitments' = [pendingCommitments EXCEPT ![c] = None]
      /\ consumedTxHashes' = consumedTxHashes \cup {t}
      /\ judged' = judged \cup {c}
      /\ UNCHANGED <<now, inFlightTxHashes, bound>>
  BY DEF Settle, Inv
<1>2. /\ PreparedFor(call[h].payload, call[h].requirements)
      /\ call[h].payload \in Payload /\ call[h].requirements \in Requirements
  BY <1>1, CallTypes, CallCases DEF Inv, Checked
<1>3. c \in Commitments /\ t \in TxHashes /\ bound[c] # None
  BY <1>2 DEF PreparedFor, Payload, Requirements
<1> HIDE DEF t, c
<1>4. Idle.pc = "idle" /\ CallType(Idle)
  BY DEF Idle, CallType
<1>5. CallsAreSlots' /\ Checked' /\ \A g \in Slots : CallType(call'[g])
  BY <1>1, <1>4, CallMoves
<1>6. Entries' /\ LiveUntilJudged' /\ JudgedStaysOut'
  BY <1>1, <1>3, EntriesDrop DEF Inv, TypeOK, Entries
<1>7. NoLeakedMark'
  BY <1>1, MarksGo DEF Inv, CallsAreSlots, Verifies
<1>8. TypeOK'
  BY <1>1, <1>3, <1>5 DEF TypeOK, CallType
<1> QED
  BY <1>5, <1>6, <1>7, <1>8 DEF Inv

LEMMA RestartInv ==
  ASSUME Inv, Restart
  PROVE  Inv'
<1>1. /\ TypeOK
      /\ pendingCommitments' = [c \in Commitments |-> None]
      /\ inFlightTxHashes' = [t \in TxHashes |-> None]
      /\ consumedTxHashes' = {} /\ call' = [h \in Slots |-> Idle]
      /\ judged' = {c \in Commitments : bound[c] # None}
      /\ UNCHANGED <<now, bound>>
  BY DEF Restart, Inv
<1>2. TypeOK'
  BY <1>1 DEF TypeOK, Idle
<1> QED
  BY <1>1, <1>2 DEF Inv, CallsAreSlots, Entries, Checked, NoLeakedMark, LiveUntilJudged,
     JudgedStaysOut, Idle

LEMMA TickInv ==
  ASSUME Inv, Tick
  PROVE  Inv'
<1>1. /\ TypeOK /\ now' = now + 1
      /\ UNCHANGED <<pendingCommitments, inFlightTxHashes, consumedTxHashes, call, bound, judged>>
  BY DEF Tick, Inv, scheme, observed
<1>2. TypeOK'
  BY <1>1 DEF TypeOK
<1>3. LiveUntilJudged'
  <2> SUFFICES ASSUME NEW c \in Commitments, bound[c] # None, c \notin judged,
                      ~(now + 1 > bound[c].expiresAt)
               PROVE  pendingCommitments[c] = bound[c]
    BY <1>1 DEF LiveUntilJudged
  <2>1. now \in Nat /\ bound[c].expiresAt \in Nat
    BY <1>1 DEF TypeOK, PendingCommitment
  <2> QED
    BY <2>1 DEF Inv, LiveUntilJudged
<1> QED
  BY <1>1, <1>2, <1>3 DEF Inv, CallsAreSlots, Entries, Checked, PreparedFor, NoLeakedMark,
     Verifies, JudgedStaysOut

LEMMA InvStep == Inv /\ [Next]_vars => Inv'
<1> SUFFICES ASSUME Inv, [Next]_vars PROVE Inv'
  OBVIOUS
<1>1. CASE \E h \in Slots : PrepareFails(h)
  <2>1. PICK h \in Slots : PrepareFails(h)
    BY <1>1
  <2>2. Prepared(None).pc = "prepared" /\ CallType(Prepared(None))
    BY DEF Prepared, CallType
  <2> QED
    BY <2>1, <2>2, CallOnlyInv DEF PrepareFails
<1>2. CASE \E h \in Slots : Return(h)
  <2>1. PICK h \in Slots : Return(h)
    BY <1>2
  <2>2. Idle.pc = "idle" /\ CallType(Idle)
    BY DEF Idle, CallType
  <2> QED
    BY <2>1, <2>2, CallOnlyInv DEF Return
<1>3. CASE \E h \in Slots : SignerAnswers(h) \/ VerifyTimesOut(h)
  BY <1>3, VerifyEndsInv DEF SignerAnswers, VerifyTimesOut
<1>4. CASE UNCHANGED vars
  BY <1>4 DEF vars, scheme, observed, Inv, TypeOK, CallsAreSlots, Entries, Checked,
     PreparedFor, NoLeakedMark, Verifies, LiveUntilJudged, JudgedStaysOut
<1> QED
  BY <1>1, <1>2, <1>3, <1>4, PrepareBeginsInv, PrepareSucceedsInv, VerifyRefusedInv,
     VerifyBusyInv, VerifyBeginsInv, SettleInv, RestartInv, TickInv DEF Next

-----------------------------------------------------------------------------
LEMMA Invariance == Spec => []Inv
BY InitInv, InvStep, PTL DEF Spec

(* The maps of the scheme and the calls under way keep their types, for    *)
(* any number of each (scheme.ts:96-99).                                   *)
THEOREM FacilitatorTypeCorrect == Spec => []TypeOK
<1>1. Inv => TypeOK
  BY DEF Inv
<1> QED
  BY <1>1, Invariance, PTL

(* No mark on a transaction outlives the verification that set it, so none *)
(* turns a payer away for good (scheme.ts:287, 325-327, 381-385).          *)
THEOREM MarksAreReleased == Spec => []NoLeakedMark
<1>1. Inv => NoLeakedMark
  BY DEF Inv
<1> QED
  BY <1>1, Invariance, PTL

(* What other calls do, until its deadline a commitment can be redeemed    *)
(* unless it was judged (scheme.ts:196-212, 302-324, 376).                 *)
THEOREM CommitmentsStayLive == Spec => []LiveUntilJudged
<1>1. Inv => LiveUntilJudged
  BY DEF Inv
<1> QED
  BY <1>1, Invariance, PTL

(* Whatever the signer says, only what was prepared for this sender, token *)
(* and nonce is found valid (scheme.ts:251-285, 302-316, 338-344).         *)
THEOREM ValidIsPrepared == Spec => []ValidMeansPrepared
<1>1. Inv => ValidMeansPrepared
  BY DEF Inv, Checked, PreparedFor, ValidMeansPrepared
<1> QED
  BY <1>1, Invariance, PTL

(* A commitment that was settled or finally refused is out for good        *)
(* (scheme.ts:203, 340).                                                   *)
THEOREM JudgedIsFinal == Spec => []JudgedStaysOut
<1>1. Inv => JudgedStaysOut
  BY DEF Inv
<1> QED
  BY <1>1, Invariance, PTL

-----------------------------------------------------------------------------
(* The prepare phase.                                                      *)
Named(h) == prepare[h].commitment

(* What a preparation holds: before it is sent, a commitment that nobody   *)
(* else has; while it is waited for, one that its payer can complete.      *)
Holds ==
  /\ prepare = [h \in Slots |-> prepare[h]]
  /\ \A h \in Slots : prepare[h].pc # "none" => call[h].pc = "preparing"
  /\ \A h \in Slots : prepare[h].pc = "proven" =>
       /\ Named(h) \in Commitments /\ issued[Named(h)] = None /\ bound[Named(h)] = None
       /\ \A g \in Slots : prepare[g].pc = "proven" /\ Named(g) = Named(h) => g = h
  /\ \A h \in Slots : prepare[h].pc = "waiting" =>
       /\ Named(h) \in Commitments /\ issued[Named(h)] # None
       /\ issued[Named(h)].completer = call[h].senderAddress

PInv ==
  /\ Inv
  /\ issued \in [Commitments -> Issue \cup {None}]
  /\ Holds
  /\ HandedOutIsOnChain

(* A preparing call is only moved by the preparation that it awaits.       *)
LEMMA OthersLeavePreparing ==
  ASSUME Inv, NEW h \in Slots, call[h].pc = "preparing", Verification
  PROVE  call'[h] = call[h] /\ bound' = bound
<1> USE DEF Inv, CallsAreSlots, observed, scheme
<1>1. CASE \E g \in Slots, p \in Payload, q \in Requirements :
             VerifyRefused(g, p, q) \/ VerifyBusy(g, p, q) \/ VerifyBegins(g, p, q)
  BY <1>1 DEF VerifyRefused, VerifyBusy, VerifyBegins
<1>2. CASE \E g \in Slots : SignerAnswers(g) \/ VerifyTimesOut(g)
  <2>1. PICK g \in Slots, outcome \in {"valid", "invalid", "retryable"} : VerifyEnds(g, outcome)
    BY <1>2 DEF SignerAnswers, VerifyTimesOut
  <2> QED
    BY <2>1 DEF VerifyEnds
<1>3. CASE \E g \in Slots : Settle(g) \/ Return(g)
  BY <1>3 DEF Settle, Return
<1>4. CASE Tick
  BY <1>4 DEF Tick
<1> QED
  BY <1>1, <1>2, <1>3, <1>4 DEF Verification

LEMMA PInitInv == PInit => PInv
<1> SUFFICES ASSUME PInit PROVE PInv
  OBVIOUS
<1>1. Inv
  BY InitInv DEF PInit
<1> QED
  BY <1>1 DEF PInit, Init, PInv, Holds, HandedOutIsOnChain, NoPrepare

(* Every step of the preparation is one of the scheme, or none to it.      *)
LEMMA PStepMaps == [PNext]_pvars => [Next]_vars
<1> SUFFICES ASSUME [PNext]_pvars PROVE [Next]_vars
  OBVIOUS
<1>1. CASE \E h \in Slots, token \in Tokens, a \in Addresses, o \in Options :
             CommitmentRequested(h, token, a, o)
  BY <1>1 DEF CommitmentRequested, Next
<1>2. CASE \E h \in Slots, c \in Commitments : Proven(h, c) \/ CommitmentReturned(h, c)
  BY <1>2 DEF Proven, CommitmentReturned, Next
<1>3. CASE \E h \in Slots : Sent(h) \/ CommitmentFailed(h)
  BY <1>3 DEF Sent, CommitmentFailed, Next
<1>4. CASE \E c \in Commitments : Included(c)
  BY <1>4 DEF Included
<1>5. CASE PRestart
  BY <1>5 DEF PRestart, Next
<1>6. CASE Verification
  BY <1>6 DEF Verification, Next
<1>7. CASE UNCHANGED pvars
  BY <1>7 DEF pvars
<1> QED
  BY <1>1, <1>2, <1>3, <1>4, <1>5, <1>6, <1>7 DEF PNext

LEMMA RequestedHolds ==
  ASSUME PInv, NEW h \in Slots, NEW token \in Tokens, NEW a \in Addresses, NEW o \in Options,
         CommitmentRequested(h, token, a, o)
  PROVE  Holds' /\ HandedOutIsOnChain'
<1>1. /\ call[h].pc = "idle" /\ call' = [call EXCEPT ![h] = Preparing(token, a, o)]
      /\ prepare' = [prepare EXCEPT ![h] = Holding("proving", None)]
      /\ UNCHANGED <<issued, bound>>
  BY DEF CommitmentRequested, PrepareBegins, Goto, observed
<1>2. /\ call'[h].pc = "preparing" /\ prepare'[h].pc = "proving"
      /\ \A g \in Slots : g # h => call'[g] = call[g] /\ prepare'[g] = prepare[g]
      /\ prepare' = [g \in Slots |-> prepare'[g]]
  BY <1>1 DEF PInv, Inv, CallsAreSlots, Holds, Preparing, Holding
<1> QED
  BY <1>1, <1>2 DEF PInv, Holds, Named, HandedOutIsOnChain

LEMMA ProvenHolds ==
  ASSUME PInv, NEW h \in Slots, NEW c \in Commitments, Proven(h, c)
  PROVE  Holds' /\ HandedOutIsOnChain'
<1>1. /\ prepare[h].pc = "proving" /\ Undrawn(c)
      /\ prepare' = [prepare EXCEPT ![h] = Holding("proven", c)]
      /\ UNCHANGED <<issued, bound, call>>
  BY DEF Proven, Goto, vars, observed
<1>2. /\ prepare'[h].pc = "proven" /\ prepare'[h].commitment = c
      /\ \A g \in Slots : g # h => prepare'[g] = prepare[g]
      /\ prepare' = [g \in Slots |-> prepare'[g]]
  BY <1>1 DEF PInv, Holds, Holding
<1>3. issued[c] = None /\ bound[c] = None
      /\ \A g \in Slots : prepare[g].pc = "proven" => prepare[g].commitment # c
  BY <1>1 DEF Undrawn
<1> QED
  BY <1>1, <1>2, <1>3 DEF PInv, Holds, Named, HandedOutIsOnChain

LEMMA SentHolds ==
  ASSUME PInv, NEW h \in Slots, Sent(h)
  PROVE  Holds' /\ HandedOutIsOnChain' /\ issued' \in [Commitments -> Issue \cup {None}]
<1> DEFINE c == prepare[h].commitment
<1> DEFINE tx == [completer |-> call[h].senderAddress, status |-> "sent"]
<1>1. /\ prepare[h].pc = "proven"
      /\ issued' = [issued EXCEPT ![c] = tx]
      /\ prepare' = [prepare EXCEPT ![h] = Holding("waiting", c)]
      /\ UNCHANGED <<bound, call>>
  BY DEF Sent, Goto, vars, observed
<1>2. /\ c \in Commitments /\ issued[c] = None /\ bound[c] = None
      /\ \A g \in Slots : prepare[g].pc = "proven" /\ prepare[g].commitment = c => g = h
      /\ call[h].pc = "preparing"
  BY <1>1 DEF PInv, Holds, Named
<1>3. tx \in Issue /\ tx # None /\ tx.completer = call[h].senderAddress
  BY <1>2, CallTypes, CallCases, IssueAssumption DEF PInv, Inv, Issue
<1>4. /\ prepare'[h].pc = "waiting" /\ prepare'[h].commitment = c
      /\ \A g \in Slots : g # h => prepare'[g] = prepare[g]
      /\ prepare' = [g \in Slots |-> prepare'[g]]
  BY <1>1 DEF PInv, Holds, Holding
<1> HIDE DEF c, tx
<1>5. /\ issued'[c] = tx /\ \A d \in Commitments : d # c => issued'[d] = issued[d]
      /\ issued' \in [Commitments -> Issue \cup {None}]
  BY <1>1, <1>2, <1>3 DEF PInv
<1>6. Holds'
  BY <1>1, <1>2, <1>3, <1>4, <1>5 DEF PInv, Holds, Named
<1>7. HandedOutIsOnChain'
  BY <1>1, <1>2, <1>5 DEF PInv, HandedOutIsOnChain
<1> QED
  BY <1>5, <1>6, <1>7

LEMMA IncludedHolds ==
  ASSUME PInv, NEW c \in Commitments, Included(c)
  PROVE  Holds' /\ HandedOutIsOnChain' /\ issued' \in [Commitments -> Issue \cup {None}]
<1>1. PICK status \in {"mined", "dropped"} : issued' = [issued EXCEPT ![c].status = status]
  BY DEF Included
<1>2. /\ issued[c] # None /\ issued[c].status = "sent" /\ issued[c] \in Issue
      /\ UNCHANGED <<bound, call, prepare>>
  BY DEF Included, PInv, vars, observed
<1>3. /\ issued'[c] \in Issue /\ issued'[c].completer = issued[c].completer
      /\ \A d \in Commitments : d # c => issued'[d] = issued[d]
      /\ issued' \in [Commitments -> Issue \cup {None}]
  BY <1>1, <1>2 DEF PInv, Issue
<1>4. bound[c] = None
  BY <1>2 DEF PInv, HandedOutIsOnChain
<1>5. Holds'
  BY <1>2, <1>3, IssueAssumption DEF PInv, Holds, Named
<1>6. HandedOutIsOnChain'
  BY <1>2, <1>3, <1>4 DEF PInv, HandedOutIsOnChain
<1> QED
  BY <1>3, <1>5, <1>6

LEMMA EndedHolds ==
  ASSUME PInv, NEW h \in Slots,
         (\E c \in Commitments : CommitmentReturned(h, c)) \/ CommitmentFailed(h)
  PROVE  Holds' /\ HandedOutIsOnChain'
<1>1. /\ prepare' = [prepare EXCEPT ![h] = NoPrepare] /\ issued' = issued
      /\ \E x : call' = [call EXCEPT ![h] = x]
  BY DEF CommitmentReturned, CommitmentFailed, PrepareSucceeds, PrepareFails, Goto
<1>2. /\ prepare'[h].pc = "none"
      /\ \A g \in Slots : g # h => prepare'[g] = prepare[g] /\ call'[g] = call[g]
      /\ prepare' = [g \in Slots |-> prepare'[g]]
  BY <1>1 DEF PInv, Inv, CallsAreSlots, Holds, NoPrepare
<1>3. CASE CommitmentFailed(h)
  <2>1. bound' = bound
    BY <1>3 DEF CommitmentFailed, PrepareFails, observed
  <2> QED
    BY <1>1, <1>2, <2>1 DEF PInv, Holds, Named, HandedOutIsOnChain
<1>4. CASE \E c \in Commitments : CommitmentReturned(h, c)
  <2>1. PICK c \in Commitments : CommitmentReturned(h, c)
    BY <1>4
  <2>2. /\ prepare[h].pc = "waiting" /\ c = prepare[h].commitment
        /\ issued[c].status = "mined"
    BY <2>1 DEF CommitmentReturned, Returns
  <2>3. issued[c] = [completer |-> call[h].senderAddress, status |-> "mined"]
    BY <2>2 DEF PInv, Holds, Named, Issue
  <2>4. /\ bound'[c].senderAddress = call[h].senderAddress
        /\ \A d \in Commitments : d # c => bound'[d] = bound[d]
    BY <2>1 DEF CommitmentReturned, PrepareSucceeds, PInv, Inv, TypeOK
  <2>5. \A g \in Slots : prepare'[g].pc = "proven" => prepare'[g].commitment # c
    BY <1>2, <2>3, IssueAssumption, CallTypes, CallCases, <2>2
    DEF PInv, Holds, Named, Issue
  <2>6. Holds'
    BY <1>1, <1>2, <2>4, <2>5 DEF PInv, Holds, Named
  <2>7. HandedOutIsOnChain'
    BY <1>1, <2>3, <2>4 DEF PInv, HandedOutIsOnChain
  <2> QED
    BY <2>6, <2>7
<1> QED
  BY <1>3, <1>4

LEMMA PInvStep == PInv /\ [PNext]_pvars => PInv'
<1> SUFFICES ASSUME PInv, [PNext]_pvars PROVE PInv'
  OBVIOUS
<1>1. Inv'
  BY PStepMaps, InvStep DEF PInv
<1>2. CASE \E h \in Slots, token \in Tokens, a \in Addresses, o \in Options :
             CommitmentRequested(h, token, a, o)
  BY <1>1, <1>2, RequestedHolds DEF PInv, CommitmentRequested
<1>3. CASE \E h \in Slots, c \in Commitments : Proven(h, c)
  BY <1>1, <1>3, ProvenHolds DEF PInv, Proven
<1>4. CASE \E h \in Slots : CommitmentFailed(h) \/ \E c \in Commitments : CommitmentReturned(h, c)
  <2>1. issued' = issued
    BY <1>4 DEF CommitmentFailed, CommitmentReturned
  <2> QED
    BY <1>1, <1>4, <2>1, EndedHolds DEF PInv
<1>5. CASE \E h \in Slots : Sent(h)
  BY <1>1, <1>5, SentHolds DEF PInv
<1>6. CASE \E c \in Commitments : Included(c)
  BY <1>1, <1>6, IncludedHolds DEF PInv
<1>7. CASE PRestart
  BY <1>1, <1>7 DEF PInv, PRestart, Restart, Holds, HandedOutIsOnChain, NoPrepare
<1>8. CASE Verification
  <2>1. UNCHANGED <<prepare, issued>>
    BY <1>8 DEF Verification, preparation
  <2>2. bound' = bound
    BY <1>8 DEF Verification, VerifyRefused, VerifyBusy, VerifyBegins, SignerAnswers,
       VerifyTimesOut, VerifyEnds, Settle, Return, Tick, observed
  <2>3. \A h \in Slots : call[h].pc = "preparing" => call'[h] = call[h]
    BY <1>8, OthersLeavePreparing DEF PInv
  <2> QED
    BY <1>1, <2>1, <2>2, <2>3 DEF PInv, Holds, Named, HandedOutIsOnChain
<1>9. CASE UNCHANGED pvars
  BY <1>1, <1>9 DEF pvars, vars, preparation, observed, PInv, Holds, Named, HandedOutIsOnChain
<1> QED
  BY <1>2, <1>3, <1>4, <1>5, <1>6, <1>7, <1>8, <1>9 DEF PNext

(* The scheme with its signer and wallet spelled out does what the scheme  *)
(* may do with a signer that answers anything; so all of the above holds   *)
(* of it (facilitator-signer.ts:235-285, pxe-wallet.ts:80-204).            *)
THEOREM PreparationImplementsFacilitator == PSpec => Spec
<1>1. PInit => Init
  BY DEF PInit
<1> QED
  BY <1>1, PStepMaps, PTL DEF PSpec, Spec

(* However many preparations share the wallet and however they end, the    *)
(* commitment that is handed to a payer is on chain and this payer's       *)
(* (facilitator-signer.ts:258-276, pxe-wallet.ts:72-79, 176-203).          *)
THEOREM HandedOutIsReal == PSpec => []HandedOutIsOnChain
<1>1. PInv => HandedOutIsOnChain
  BY DEF PInv
<1> QED
  BY <1>1, PInitInv, PInvStep, PTL DEF PSpec
=============================================================================
