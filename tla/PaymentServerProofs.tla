------------------------- MODULE PaymentServerProofs -------------------------
(* Proofs about PaymentServer, for every value of its constants.           *)
EXTENDS PaymentServer, TLAPS

(* The observations of the middleware are one tuple.                       *)
USE DEF MW!observed

(***************************************************************************)
(* The inductive invariant                                                 *)
(***************************************************************************)
(* The middleware by itself: types, one owner for each nonce, and whoever  *)
(* owns a nonce was issued it.                                             *)
Issued ==
  /\ \A n \in Nonces : pendingPayments[n] # None => challenged[n] # None
  /\ \A h \in Slots : MW!Busy(h) => challenged[slot[h].nonce] # None

Owned == MW!TypeOK /\ MW!ExclusiveClaim /\ Issued

(* An entry was created in the past, with the timeout of some route.       *)
Dated(e) == e.createdAt <= now /\ e.timeoutMs \in {TimeoutMs[rt] : rt \in Routes}

Dates ==
  /\ now \in 0..MaxTime
  /\ \A n \in Nonces : pendingPayments[n] # None => Dated(pendingPayments[n])
  /\ \A h \in Slots : MW!Busy(h) => Dated(slot[h].entry)

(* The scheme by itself: an entry is what was prepared; what was judged    *)
(* was prepared and is out, and what was not is in until it expires.       *)
Scheme ==
  /\ pendingCommitments \in [Commitments -> FA!PendingCommitment \cup {None}]
  /\ bound \in [Commitments -> FA!PendingCommitment \cup {None}]
  /\ judged \subseteq Commitments
  /\ \A c \in Commitments : pendingCommitments[c] \in {None, bound[c]}
  /\ \A c \in judged : bound[c] # None /\ pendingCommitments[c] = None
  /\ FA!LiveUntilJudged

(* What handler h asked the scheme, as the scheme has it.                  *)
Asked(h) == RequirementsOf(slot[h].route, slot[h].nonce, slot[h].entry.commitment)

OptionsOf(h) ==
  [nonce |-> slot[h].nonce, createdAt |-> slot[h].entry.createdAt,
   timeoutMs |-> slot[h].entry.timeoutMs]

(* A handler that awaits preparePayment has a call for its own entry.      *)
Prepares(h) ==
  /\ slot[h].entry.senderAddress \in Senders
  /\ slot[h].entry.commitment = None
  /\ \/ call[h] = FA!Preparing(Asset[slot[h].route], slot[h].entry.senderAddress, OptionsOf(h))
     \/ \E c \in Commitments \cup {None} : call[h] = FA!Prepared(c)

(* One that awaits verify has a call for its own payment and entry.        *)
Verifies(h) ==
  \/ /\ call[h].pc \in {"verifying", "valid"}
     /\ call[h].payload = slot[h].payment
     /\ call[h].requirements = Asked(h)
     /\ slot[h].entry.commitment \in Commitments
  \/ \E o \in {"invalid", "retryable"} : call[h] = FA!Failed(o)

(* And while it does, the signer looks for that payment.                   *)
LooksUp(h) ==
  /\ lookup[h] \in [pc : {"receipt", "logs", "answered"},
                    answer : {None, "valid", "invalid", "retryable"},
                    tx : TxHashes, amount : Nat, commitment : Commitments]
  /\ slot[h].pc = "verifying" /\ call[h].pc = "verifying"
  /\ lookup[h].tx = slot[h].payment.txHash
  /\ lookup[h].amount = Price[slot[h].route]
  /\ lookup[h].commitment = slot[h].entry.commitment

Coupled(h) ==
  /\ slot[h].pc # "idle" => slot[h].route \in Routes
  /\ slot[h].pc \in {"idle", "settling"} => call[h] = FA!Idle
  /\ slot[h].pc = "preparing" => Prepares(h)
  /\ slot[h].pc = "verifying" => Verifies(h)
  /\ slot[h].pc = "settling" => slot[h].entry.commitment \in Commitments
  /\ lookup[h] # SG!NoLookup => LooksUp(h)

Linked ==
  /\ call = [h \in Slots |-> call[h]]
  /\ lookup = [h \in Slots |-> lookup[h]]
  /\ \A h \in Slots : Coupled(h)

(* The commitment of a handler: of its entry, or the one just prepared.    *)
Known(h) ==
  IF slot[h].pc = "preparing" /\ call[h].pc = "prepared"
  THEN call[h].commitment ELSE slot[h].entry.commitment

(* Commitment c was prepared for nonce n and the sender of entry e.        *)
Match(n, e, c) ==
  c # None =>
    /\ bound[c] # None
    /\ bound[c].nonce = n
    /\ bound[c].senderAddress = e.senderAddress
    /\ bound[c].expiresAt = e.createdAt + e.timeoutMs

Matched ==
  /\ \A n \in Nonces : pendingPayments[n] # None =>
       Match(n, pendingPayments[n], pendingPayments[n].commitment)
  /\ \A h \in Slots : MW!Busy(h) => Match(slot[h].nonce, slot[h].entry, Known(h))

(* A nonce has one commitment at most, and its owner knows it.             *)
OneCommitment ==
  \A c \in Commitments : bound[c] # None =>
    LET n == bound[c].nonce IN
    /\ n \in Nonces /\ challenged[n] # None
    /\ pendingPayments[n] # None => pendingPayments[n].commitment = c
    /\ \A h \in Slots : MW!Busy(h) /\ slot[h].nonce = n => Known(h) = c
    /\ \A d \in Commitments : bound[d] # None /\ bound[d].nonce = n => d = c

(* The chain: a completion log comes from a mined transaction.             *)
OnChain ==
  /\ tx \in [TxHashes -> [status : {"absent", "pending", "mined", "reverted"},
                          pays : [Commitments -> Values \cup {None}]]]
  /\ log \in [Commitments -> [tx : TxHashes, value : Nat] \cup {None}]
  /\ \A c \in Commitments : log[c] # None => tx[log[c].tx].status = "mined"

(* A handler whose payment may still be redeemed.                          *)
Paying(h) ==
  \/ slot[h].pc = "settling"
  \/ slot[h].pc = "verifying" /\ call[h].pc \in {"verifying", "valid"}

(* And one whose payment was found on chain, be it that the answer has yet *)
(* to arrive.                                                              *)
FoundValid(h) ==
  \/ slot[h].pc = "settling"
  \/ slot[h].pc = "verifying" /\ call[h].pc = "valid"
  \/ /\ slot[h].pc = "verifying" /\ call[h].pc = "verifying"
     /\ lookup[h].pc = "answered" /\ lookup[h].answer = "valid"

(* What a handler is still to redeem was redeemed by nobody, and covers    *)
(* the price once it was found.                                            *)
InOrder(h) ==
  /\ Paying(h) => redeemed[slot[h].entry.commitment] = <<>>
  /\ slot[h].pc = "settling" => slot[h].entry.commitment \in judged
  /\ FoundValid(h) =>
       /\ log[slot[h].entry.commitment] # None
       /\ log[slot[h].entry.commitment].value >= Price[slot[h].route]

(* A payment is redeemed once, and is out of the scheme before it is.      *)
Redemption ==
  /\ redeemed = [c \in Commitments |-> redeemed[c]]
  /\ \A c \in Commitments : redeemed[c] = <<>> \/ \E rt \in Routes : redeemed[c] = <<rt>>
  /\ \A c \in Commitments : redeemed[c] # <<>> => c \in judged
  /\ \A h \in Slots : InOrder(h)

(* A nonce that was served has used up its commitment.                     *)
Serving ==
  \A n \in Nonces :
    \/ served[n] = 0
    \/ served[n] = 1 /\ \E c \in Commitments :
         bound[c] # None /\ bound[c].nonce = n /\ redeemed[c] # <<>>

Inv ==
  /\ Owned /\ Dates /\ Scheme /\ Linked /\ Matched /\ OneCommitment
  /\ OnChain /\ Redemption /\ Serving

(* The commitment a handler may put back.                                  *)
MayRestore(h) ==
  \/ slot[h].pc = "preparing"
  \/ slot[h].pc = "verifying" /\ call[h].pc \in {"verifying", "valid"}
  \/ slot[h].pc = "verifying" /\ call[h] = FA!Failed("retryable")

(* What can be presented again is not judged, if next() does not throw.    *)
Unjudged ==
  /\ \A n \in Nonces : pendingPayments[n] # None => pendingPayments[n].commitment \notin judged
  /\ \A h \in Slots : MayRestore(h) => Known(h) \notin judged

-----------------------------------------------------------------------------
(***************************************************************************)
(* Each step is a step of both components, or leaves the component alone   *)
(***************************************************************************)
(* Every step of the server is a turn of the middleware, whose facilitator *)
(* answers as it may.                                                      *)
LEMMA MiddlewareStep ==
  ASSUME Linked, [Next]_vars
  PROVE  [MW!Next]_(MW!vars)
<1> USE DEF MW!Next, MW!vars, mwState, sgState, faState
<1>1. ASSUME NEW n \in Nonces, NEW rt \in Routes, Challenge(n, rt) PROVE MW!Next
  BY <1>1 DEF Challenge
<1>2. ASSUME NEW n \in Nonces, DropExpired(n) PROVE MW!Next
  BY <1>2 DEF DropExpired
<1>3. ASSUME NEW h \in Slots, NEW n \in Nonces, NEW s \in Senders, NEW rt \in Routes,
             PrepareBegins(h, n, s, rt)
      PROVE  MW!Next
  BY <1>3 DEF PrepareBegins
<1>4. ASSUME NEW h \in Slots, NEW c \in Commitments \cup {None}, SignerPrepares(h, c)
      PROVE  UNCHANGED MW!vars
  BY <1>4 DEF SignerPrepares, FA!PrepareFails, FA!PrepareSucceeds
<1>5. ASSUME NEW h \in Slots, NEW n \in Nonces, NEW p \in Payments, NEW rt \in Routes,
             PayBegins(h, n, p, rt)
      PROVE  MW!Next
  BY <1>5 DEF PayBegins
<1>6. ASSUME NEW h \in Slots, PrepareEnds(h) PROVE MW!Next
  <2>1. slot[h].pc = "preparing" /\ call[h].pc = "prepared"
    BY <1>6 DEF PrepareEnds, MW!PrepareEnds
  <2>2. call[h].commitment \in Commitments \cup {None}
    BY <2>1 DEF Linked, Coupled, Prepares, FA!Preparing, FA!Prepared
  <2> QED
    BY <1>6, <2>2 DEF PrepareEnds
<1>7. ASSUME NEW h \in Slots,
             SignerReads(h) \/ SignerMisled(h) \/ SignerAnswers(h) \/ VerifyTimesOut(h)
      PROVE  UNCHANGED MW!vars
  BY <1>7 DEF SignerReads, SignerMisled, SignerAnswers, VerifyTimesOut, FA!VerifyTimesOut,
     FA!VerifyEnds
<1>8. ASSUME NEW h \in Slots, VerifyEnds(h) PROVE MW!Next
  <2>1. ASSUME call[h].pc = "failed" PROVE call[h].outcome \in {"invalid", "retryable"}
    <3>1. slot[h].pc = "verifying"
      BY <1>8 DEF VerifyEnds, MW!VerifyEnds
    <3> QED
      BY <2>1, <3>1 DEF Linked, Coupled, Verifies, FA!Failed
  <2> QED
    BY <1>8, <2>1 DEF VerifyEnds, MW!VerifyOutcomes
<1>9. ASSUME NEW h \in Slots, SettleEnds(h) PROVE MW!Next
  BY <1>9 DEF SettleEnds, MW!SettleOutcomes
<1>10. CASE Restart
  BY <1>10 DEF Restart
<1>11. CASE Tick
  BY <1>11 DEF Tick
<1>12. CASE Chain
  BY <1>12 DEF Chain
<1>13. CASE UNCHANGED vars
  BY <1>13 DEF vars
<1> QED
  BY <1>1, <1>2, <1>3, <1>4, <1>5, <1>6, <1>7, <1>8, <1>9, <1>10, <1>11, <1>12, <1>13
     DEF Next, Running

(* What a handler passes to the scheme has the types of the interface.     *)
LEMMA PassedOn ==
  ASSUME Owned, Dates, NEW n \in Nonces, pendingPayments[n] # None, NEW rt \in Routes
  PROVE  /\ [nonce |-> n, createdAt |-> pendingPayments[n].createdAt,
             timeoutMs |-> pendingPayments[n].timeoutMs] \in PrepareOptions
         /\ RequirementsOf(rt, n, pendingPayments[n].commitment) \in FA!Requirements
<1>1. pendingPayments[n] \in MW!Entry
  BY DEF Owned, MW!TypeOK
<1>2. Dated(pendingPayments[n]) /\ now \in 0..MaxTime
  BY DEF Dates
<1>3. pendingPayments[n].createdAt \in 0..MaxTime
  BY <1>1, <1>2, TimeAssumption DEF MW!Entry, Dated
<1> QED
  BY <1>1, <1>2, <1>3, RouteAssumption
     DEF PrepareOptions, Dated, RequirementsOf, FA!Requirements, MW!Entry

(* Every step of the server is a turn of the scheme, whose caller prepares *)
(* and verifies as its interface says.                                     *)
LEMMA SchemeTurn ==
  ASSUME Owned, Dates, [Next]_vars
  PROVE  [FA!Next]_(FA!vars)
<1> USE DEF FA!vars, FA!scheme, FA!observed, mwState, sgState, faState
<1>1. ASSUME NEW n \in Nonces, NEW rt \in Routes, Challenge(n, rt) \/ DropExpired(n)
      PROVE  UNCHANGED FA!vars
  BY <1>1 DEF Challenge, DropExpired, MW!Challenge, MW!DropExpired
<1>2. ASSUME NEW n \in Nonces, DropExpired(n) PROVE UNCHANGED FA!vars
  BY <1>2 DEF DropExpired, MW!DropExpired
<1>3. ASSUME NEW h \in Slots, NEW n \in Nonces, NEW s \in Senders, NEW rt \in Routes,
             PrepareBegins(h, n, s, rt)
      PROVE  FA!Next
  <2> DEFINE o == [nonce |-> n, createdAt |-> pendingPayments[n].createdAt,
                   timeoutMs |-> pendingPayments[n].timeoutMs]
  <2>1. o \in PrepareOptions /\ Asset[rt] \in Tokens
    BY <1>3, PassedOn, RouteAssumption DEF PrepareBegins, MW!PrepareBegins, MW!MayPrepare
  <2>2. FA!PrepareBegins(h, Asset[rt], s, o)
    BY <1>3 DEF PrepareBegins
  <2> HIDE DEF o
  <2> QED
    BY <2>1, <2>2 DEF FA!Next
<1>4. ASSUME NEW h \in Slots, NEW c \in Commitments \cup {None}, SignerPrepares(h, c)
      PROVE  FA!Next
  BY <1>4 DEF SignerPrepares, FA!Next
<1>5. ASSUME NEW h \in Slots, NEW n \in Nonces, NEW p \in Payments, NEW rt \in Routes,
             PayBegins(h, n, p, rt)
      PROVE  FA!Next
  <2> DEFINE q == RequirementsOf(rt, n, pendingPayments[n].commitment)
  <2>1. q \in FA!Requirements /\ p \in FA!Payload
    BY <1>5, PassedOn DEF PayBegins, MW!PayBegins, Payments, FA!Payload
  <2>2. FA!VerifyRefused(h, p, q) \/ FA!VerifyBusy(h, p, q) \/ FA!VerifyBegins(h, p, q)
    BY <1>5 DEF PayBegins
  <2> HIDE DEF q
  <2> QED
    BY <2>1, <2>2 DEF FA!Next
<1>6. ASSUME NEW h \in Slots, PrepareEnds(h) PROVE FA!Next
  BY <1>6 DEF PrepareEnds, FA!Next
<1>7. ASSUME NEW h \in Slots, SignerReads(h) \/ SignerMisled(h) \/ SettleEnds(h)
      PROVE  UNCHANGED FA!vars
  BY <1>7 DEF SignerReads, SignerMisled, SettleEnds, MW!SettleEnds
<1>8. ASSUME NEW h \in Slots, SignerAnswers(h) PROVE FA!Next
  BY <1>8 DEF SignerAnswers, FA!SignerAnswers, FA!Next
<1>9. ASSUME NEW h \in Slots, VerifyTimesOut(h) PROVE FA!Next
  BY <1>9 DEF VerifyTimesOut, FA!Next
<1>10. ASSUME NEW h \in Slots, VerifyEnds(h) PROVE FA!Next
  BY <1>10 DEF VerifyEnds, FA!Next
<1>11. CASE Restart
  BY <1>11 DEF Restart, FA!Next
<1>12. CASE Tick
  BY <1>12 DEF Tick, FA!Next
<1>13. CASE Chain \/ UNCHANGED vars
  BY <1>13 DEF Chain, vars
<1> QED
  BY <1>1, <1>2, <1>3, <1>4, <1>5, <1>6, <1>7, <1>8, <1>9, <1>10, <1>11, <1>12, <1>13
     DEF Next, Running
(* The middleware: one owner for each nonce, as in MiddlewareProofs.         *)
(* The entry of an idle handler is an entry.                               *)
LEMMA NoEntryType == MW!NoEntry \in MW!Entry
BY DEF MW!NoEntry, MW!Entry

(* An idle handler has the type of a handler.                              *)
LEMMA IdleType == MW!Idle \in MW!Handler
BY NoEntryType DEF MW!Idle, MW!Handler

(* A handler that claims an entry of the map becomes its only owner.       *)
LEMMA ClaimStep ==
  ASSUME Owned, NEW h \in Slots, NEW n \in Nonces, NEW a \in MW!Handler,
         ~MW!Busy(h), pendingPayments[n] # None,
         a.pc # "idle", a.nonce = n,
         pendingPayments' = MW!Claim(n), slot' = [slot EXCEPT ![h] = a],
         UNCHANGED <<now, challenged, served, ended>>
  PROVE  Owned'
<1> USE DEF Owned
<1>1. MW!TypeOK'
  BY DEF MW!TypeOK, MW!Claim, MW!Busy
<1>2. MW!ExclusiveClaim'
  BY DEF MW!TypeOK, MW!ExclusiveClaim, MW!Claim, MW!Busy
<1>3. Issued'
  BY DEF MW!TypeOK, Issued, MW!Claim, MW!Busy
<1>4. QED
  BY <1>1, <1>2, <1>3

(* A handler that ends its request gives its entry back, or drops it.      *)
LEMMA FinishStep ==
  ASSUME Owned, NEW h \in Slots, NEW e \in MW!Entry \cup {None}, MW!Busy(h),
         MW!Finish(h),
         pendingPayments' = [pendingPayments EXCEPT ![slot[h].nonce] = e],
         served' \in [Nonces -> Nat], ended' \subseteq Nonces,
         UNCHANGED <<now, challenged>>
  PROVE  Owned'
<1> USE IdleType DEF Owned, MW!Finish
<1>0. MW!Idle.pc = "idle"
  BY DEF MW!Idle
<1>1. MW!TypeOK'
  BY <1>0 DEF MW!TypeOK, MW!Busy
<1>2. MW!ExclusiveClaim'
  BY <1>0 DEF MW!TypeOK, MW!ExclusiveClaim, MW!Busy
<1>3. Issued'
  BY <1>0 DEF MW!TypeOK, Issued, MW!Busy
<1>4. QED
  BY <1>1, <1>2, <1>3

(* What a handler that ends without restoring leaves in the map.           *)
LEMMA DropIsNoChange ==
  ASSUME Owned, NEW h \in Slots, MW!Busy(h)
  PROVE  pendingPayments = [pendingPayments EXCEPT ![slot[h].nonce] = None]
BY DEF Owned, MW!TypeOK, MW!ExclusiveClaim

(* Every turn of the middleware preserves Owned.                           *)
LEMMA OwnedStep == Owned /\ [MW!Next]_(MW!vars) => Owned'
<1> SUFFICES ASSUME Owned, [MW!Next]_(MW!vars) PROVE Owned'
  OBVIOUS
<1> USE NoneAssumption, TimeAssumption, NoEntryType, IdleType
<1>1. ASSUME NEW n \in Nonces, NEW rt \in Routes, MW!Challenge(n, rt)
      PROVE  Owned'
  BY <1>1 DEF MW!Challenge, MW!Sweepable, MW!Fresh, MW!NewEntry, MW!Entry, MW!NoEntry, Owned, MW!TypeOK, MW!ExclusiveClaim,
              Issued, MW!Busy
<1>2. ASSUME NEW n \in Nonces, MW!DropExpired(n) PROVE Owned'
  BY <1>2 DEF MW!DropExpired, MW!Claim, Owned, MW!TypeOK, MW!ExclusiveClaim, Issued,
              MW!Busy
<1>3. ASSUME NEW n \in Nonces, NEW s \in Senders, MW!PrepareAnswered(n, s)
      PROVE  Owned'
  BY <1>3 DEF MW!PrepareAnswered, MW!MayPrepare, MW!BindSender, MW!Entry, Owned, MW!TypeOK,
              MW!ExclusiveClaim, Issued, MW!Busy
<1>4. ASSUME NEW h \in Slots, NEW n \in Nonces, NEW s \in Senders,
             NEW rt \in Routes, MW!PrepareBegins(h, n, s, rt)
      PROVE  Owned'
  <2> DEFINE e == MW!BindSender(pendingPayments[n], s)
             a == [MW!Idle EXCEPT !.pc = "preparing", !.nonce = n, !.route = rt,
                                !.entry = e]
  <2>1. e \in MW!Entry
    BY <1>4 DEF MW!PrepareBegins, MW!MayPrepare, MW!BindSender, MW!Entry, Owned, MW!TypeOK
  <2>2. a \in MW!Handler /\ a.pc # "idle" /\ a.nonce = n
    BY <2>1 DEF MW!Handler, MW!Idle
  <2>3. /\ ~MW!Busy(h)
        /\ pendingPayments[n] # None
        /\ pendingPayments' = MW!Claim(n)
        /\ slot' = [slot EXCEPT ![h] = a]
        /\ UNCHANGED <<now, challenged, served, ended>>
    BY <1>4 DEF MW!PrepareBegins, MW!MayPrepare
  <2> HIDE DEF a
  <2>4. QED
    BY <2>2, <2>3, ClaimStep
<1>5. ASSUME NEW h \in Slots, NEW c \in Commitments \cup {None},
             MW!PrepareEnds(h, c)
      PROVE  Owned'
  <2>1. [slot[h].entry EXCEPT !.commitment = c] \in MW!Entry
    BY DEF Owned, MW!TypeOK, MW!Handler, MW!Entry
  <2>2. QED
    BY <1>5, <2>1, FinishStep
       DEF MW!PrepareEnds, MW!Restore, MW!Busy, Owned, MW!TypeOK
<1>6. ASSUME NEW h \in Slots, NEW n \in Nonces, NEW p \in Payments,
             NEW rt \in Routes, MW!PayBegins(h, n, p, rt)
      PROVE  Owned'
  <2> DEFINE a == [pc |-> "verifying", nonce |-> n, route |-> rt,
                   entry |-> pendingPayments[n], payment |-> p]
  <2>1. a \in MW!Handler /\ a.pc # "idle" /\ a.nonce = n
    BY <1>6 DEF MW!PayBegins, MW!Handler, Owned, MW!TypeOK
  <2>2. /\ ~MW!Busy(h)
        /\ pendingPayments[n] # None
        /\ pendingPayments' = MW!Claim(n)
        /\ slot' = [slot EXCEPT ![h] = a]
        /\ UNCHANGED <<now, challenged, served, ended>>
    BY <1>6 DEF MW!PayBegins
  <2> HIDE DEF a
  <2>3. QED
    BY <2>1, <2>2, ClaimStep
<1>7. ASSUME NEW h \in Slots, NEW o \in MW!VerifyOutcomes, MW!VerifyEnds(h, o)
      PROVE  Owned'
  <2>0. MW!Busy(h) /\ served \in [Nonces -> Nat] /\ ended' \subseteq Nonces
    BY <1>7 DEF MW!VerifyEnds, MW!Busy, Owned, MW!TypeOK
  <2>1. CASE o = "valid"
    <3>1. /\ slot' = [slot EXCEPT ![h].pc = "settling"]
          /\ UNCHANGED <<now, pendingPayments, challenged, served, ended>>
      BY <1>7, <2>1 DEF MW!VerifyEnds
    <3>2. slot' \in [Slots -> MW!Handler]
      BY <3>1 DEF Owned, MW!TypeOK, MW!Handler
    <3>3. \A g \in Slots : (slot'[g].pc # "idle" <=> MW!Busy(g))
                           /\ slot'[g].nonce = slot[g].nonce
      BY <2>0, <3>1 DEF Owned, MW!TypeOK, MW!Handler, MW!Busy
    <3>4. QED
      BY <3>1, <3>2, <3>3
         DEF Owned, MW!TypeOK, MW!ExclusiveClaim, Issued, MW!Busy
  <2>2. CASE o = "invalid"
    BY <1>7, <2>0, <2>2, DropIsNoChange, FinishStep DEF MW!VerifyEnds
  <2>3. CASE o \in {"retryable", "throws"}
    <3>1. [slot[h].entry EXCEPT !.commitment = slot[h].entry.commitment]
            \in MW!Entry
      BY DEF Owned, MW!TypeOK, MW!Handler, MW!Entry
    <3>2. QED
      BY <1>7, <2>0, <2>3, <3>1, FinishStep DEF MW!VerifyEnds, MW!Restore
  <2>4. QED
    BY <2>1, <2>2, <2>3 DEF MW!VerifyOutcomes
<1>8. ASSUME NEW h \in Slots, MW!Busy(h), MW!Finish(h),
             served' \in [Nonces -> Nat], ended' \subseteq Nonces,
             UNCHANGED <<now, challenged>>,
             \/ pendingPayments' = pendingPayments
             \/ pendingPayments' = MW!Restore(h, slot[h].entry.commitment)
      PROVE  Owned'
  <2>1. [slot[h].entry EXCEPT !.commitment = slot[h].entry.commitment]
          \in MW!Entry
    BY DEF Owned, MW!TypeOK, MW!Handler, MW!Entry
  <2>2. QED
    BY <1>8, <2>1, DropIsNoChange, FinishStep DEF MW!Restore
<1>9. ASSUME NEW h \in Slots, NEW o \in MW!SettleOutcomes, MW!SettleEnds(h, o)
      PROVE  Owned'
  <2>1. served' \in [Nonces -> Nat] /\ ended' \subseteq Nonces /\ MW!Busy(h)
    BY <1>9 DEF MW!SettleEnds, Owned, MW!TypeOK, MW!Busy
  <2>2. QED
    BY <1>8, <1>9, <2>1 DEF MW!SettleEnds, MW!AfterServing
<1>10. CASE MW!Restart
  BY <1>10 DEF MW!Restart, MW!Idle, Owned, MW!TypeOK, MW!ExclusiveClaim, Issued, MW!Busy
<1>11. CASE MW!Tick
  BY <1>11 DEF MW!Tick, Owned, MW!TypeOK, MW!ExclusiveClaim, Issued, MW!Busy
<1>12. CASE UNCHANGED MW!vars
  BY <1>12 DEF MW!vars, Owned, MW!TypeOK, MW!ExclusiveClaim, Issued, MW!Busy
<1>13. QED
  BY <1>1, <1>2, <1>3, <1>4, <1>5, <1>6, <1>7, <1>9, <1>10, <1>11,
     <1>12 DEF MW!Next

-----------------------------------------------------------------------------
(***************************************************************************)
(* What a step leaves to the next state                                    *)
(***************************************************************************)
(* Entry e, with commitment c, is entry f or came from it.                 *)
From(e, f, c) ==
  /\ e.createdAt = f.createdAt /\ e.timeoutMs = f.timeoutMs
  /\ c # None => e.senderAddress = f.senderAddress

(* Entry e of nonce n with commitment c is new, or someone has it now.     *)
Inherited(n, e, c) ==
  \/ challenged[n] = None /\ c = None /\ Dated(e)
  \/ /\ pendingPayments[n] # None /\ c = pendingPayments[n].commitment
     /\ From(e, pendingPayments[n], c)
  \/ \E g \in Slots : /\ MW!Busy(g) /\ slot[g].nonce = n /\ c = Known(g)
                      /\ From(e, slot[g].entry, c)

(* The map of the middleware after the step: no entry from nowhere.        *)
MapInherits ==
  /\ \A n \in Nonces : pendingPayments'[n] # None =>
       Inherited(n, pendingPayments'[n], pendingPayments'[n].commitment)
  /\ \A n \in Nonces : challenged[n] # None => challenged'[n] # None

(* Handler h stays as it is, or moves as the invariant wants it.           *)
Stays(h) == slot'[h] = slot[h] /\ call'[h] = call[h] /\ lookup'[h] = lookup[h]

Moves(h) ==
  /\ Coupled(h)'
  /\ MW!Busy(h)' => Inherited(slot'[h].nonce, slot'[h].entry, Known(h)')

(* Every handler of the next state has an entry that someone has now.      *)
LEMMA HandlersInherit ==
  ASSUME NEW h \in Slots, Stays(h) \/ Moves(h), MW!Busy(h)'
  PROVE  Inherited(slot'[h].nonce, slot'[h].entry, Known(h)')
<1>1. CASE Stays(h)
  BY <1>1 DEF Stays, Inherited, Known, From, MW!Busy
<1> QED
  BY <1>1 DEF Moves

(* What was prepared for an entry was prepared for what becomes of it.     *)
LEMMA MatchInherited ==
  ASSUME Matched, bound' = bound, NEW n \in Nonces, NEW e, NEW c, Inherited(n, e, c)
  PROVE  Match(n, e, c)'
BY DEF Matched, Inherited, Match, From

(* And the commitment of a nonce stays the only one.                       *)
LEMMA OneInherited ==
  ASSUME OneCommitment, bound' = bound, NEW n \in Nonces, NEW e, NEW d, Inherited(n, e, d),
         NEW c \in Commitments, bound[c] # None, bound[c].nonce = n
  PROVE  d = c
BY DEF OneCommitment, Inherited

(* What every step keeps but the one that prepares a commitment.           *)
LEMMA Keeping ==
  ASSUME Inv, Owned', MapInherits, now' \in 0..MaxTime, now <= now',
         call' = [h \in Slots |-> call'[h]], lookup' = [h \in Slots |-> lookup'[h]],
         \A h \in Slots : Stays(h) \/ Moves(h), bound' = bound
  PROVE  Dates' /\ Linked' /\ Matched' /\ OneCommitment'
<1>1. \A h \in Slots : Coupled(h)'
  <2> SUFFICES ASSUME NEW h \in Slots, Stays(h) PROVE Coupled(h)'
    BY DEF Moves
  <2>1. Coupled(h)
    BY DEF Inv, Linked
  <2> QED
    BY <2>1 DEF Stays, Coupled, Prepares, Verifies, LooksUp, OptionsOf, Asked
<1>2. Linked'
  BY <1>1 DEF Linked
<1>3. \A h \in Slots : MW!Busy(h)' => Inherited(slot'[h].nonce, slot'[h].entry, Known(h)')
  BY HandlersInherit
<1>4. /\ \A h \in Slots : MW!Busy(h)' => slot'[h].nonce \in Nonces /\ slot'[h].entry \in MW!Entry
      /\ \A n \in Nonces : pendingPayments'[n] # None => pendingPayments'[n] \in MW!Entry
  BY DEF Owned, MW!TypeOK, MW!Handler
<1>5. Matched'
  BY <1>3, <1>4, MatchInherited DEF MapInherits, Matched, Inv
<1>6. OneCommitment'
  <2> SUFFICES ASSUME NEW c \in Commitments, bound[c] # None
               PROVE  LET n == bound[c].nonce IN
                      /\ n \in Nonces /\ challenged'[n] # None
                      /\ pendingPayments'[n] # None => pendingPayments'[n].commitment = c
                      /\ \A h \in Slots : MW!Busy(h)' /\ slot'[h].nonce = n => Known(h)' = c
                      /\ \A d \in Commitments : bound[d] # None /\ bound[d].nonce = n => d = c
    BY DEF OneCommitment
  <2>1. /\ OneCommitment /\ bound[c].nonce \in Nonces /\ challenged[bound[c].nonce] # None
        /\ \A d \in Commitments : bound[d] # None /\ bound[d].nonce = bound[c].nonce => d = c
    BY DEF Inv, OneCommitment
  <2> QED
    BY <1>3, <2>1, OneInherited DEF MapInherits
<1>7. ASSUME NEW n \in Nonces, NEW e \in MW!Entry, NEW c, Inherited(n, e, c) PROVE Dated(e)'
  <2>1. Dated(e)
    BY <1>7 DEF Inv, Dates, Inherited, From, Dated
  <2> QED
    BY <2>1, TimeAssumption DEF Dated, Inv, Dates, MW!Entry
<1>8. Dates'
  BY <1>3, <1>4, <1>7 DEF MapInherits, Dates
<1> QED
  BY <1>2, <1>5, <1>6, <1>8

(* A turn that prepares and serves nothing, and leaves the chain alone.    *)
LEMMA Turn ==
  ASSUME Inv, Owned', Scheme', MapInherits, now' \in 0..MaxTime, now <= now',
         call' = [h \in Slots |-> call'[h]], lookup' = [h \in Slots |-> lookup'[h]],
         \A h \in Slots : Stays(h) \/ (Moves(h) /\ InOrder(h)'),
         judged \subseteq judged', UNCHANGED <<bound, served, tx, log, redeemed>>
  PROVE  Inv'
<1>1. Dates' /\ Linked' /\ Matched' /\ OneCommitment'
  BY Keeping
<1>2. OnChain'
  BY DEF Inv, OnChain
<1>3. \A h \in Slots : InOrder(h)'
  <2> SUFFICES ASSUME NEW h \in Slots, Stays(h) PROVE InOrder(h)'
    OBVIOUS
  <2>1. InOrder(h)
    BY DEF Inv, Redemption
  <2> QED
    BY <2>1 DEF Stays, InOrder, Paying, FoundValid
<1>4. Redemption'
  BY <1>3 DEF Inv, Redemption
<1>5. Serving'
  BY DEF Inv, Serving
<1> QED
  BY <1>1, <1>2, <1>4, <1>5 DEF Inv

(* A step that moves one handler at most.                                  *)
LEMMA OneMoves ==
  ASSUME Inv, NEW h \in Slots, NEW a, NEW x, NEW l,
         slot' = [slot EXCEPT ![h] = a], call' = [call EXCEPT ![h] = x],
         lookup' = [lookup EXCEPT ![h] = l]
  PROVE  /\ slot'[h] = a /\ call'[h] = x /\ lookup'[h] = l
         /\ \A g \in Slots : g # h => Stays(g)
         /\ call' = [g \in Slots |-> call'[g]] /\ lookup' = [g \in Slots |-> lookup'[g]]
BY DEF Inv, Linked, Owned, MW!TypeOK, Stays

(* Commitments leave the scheme when they expire or are judged.            *)
LEMMA SchemeDrops ==
  ASSUME Inv, now' = now, bound' = bound, judged \subseteq judged',
         \A c \in judged' : c \in Commitments /\ bound[c] # None,
         pendingCommitments' = [c \in Commitments |-> pendingCommitments'[c]],
         \A c \in Commitments :
           \/ pendingCommitments'[c] = pendingCommitments[c] /\ (c \in judged' => c \in judged)
           \/ pendingCommitments'[c] = None /\
                (c \in judged' \/ pendingCommitments[c] = None
                   \/ now > pendingCommitments[c].expiresAt)
  PROVE  Scheme'
<1> USE DEF Inv, Scheme
<1>1. /\ pendingCommitments' \in [Commitments -> FA!PendingCommitment \cup {None}]
      /\ judged' \subseteq Commitments
      /\ \A c \in Commitments : pendingCommitments'[c] \in {None, bound'[c]}
  OBVIOUS
<1>2. \A c \in judged' : bound'[c] # None /\ pendingCommitments'[c] = None
  OBVIOUS
<1>3. FA!LiveUntilJudged'
  BY DEF FA!LiveUntilJudged
<1> QED
  BY <1>1, <1>2, <1>3

-----------------------------------------------------------------------------
(***************************************************************************)
(* The steps                                                               *)
(***************************************************************************)
(* What is swept has expired.                                              *)
LEMMA Swept ==
  ASSUME Inv
  PROVE  /\ FA!SweptCommitments = [c \in Commitments |-> FA!SweptCommitments[c]]
         /\ \A c \in Commitments :
              /\ FA!SweptCommitments[c] \in {None, pendingCommitments[c]}
              /\ FA!SweptCommitments[c] # pendingCommitments[c] =>
                   now > pendingCommitments[c].expiresAt
BY DEF FA!SweptCommitments, FA!Expired

(* Owned is the middleware's own.                                          *)
LEMMA StaysOwned ==
  ASSUME Inv, [Next]_vars
  PROVE  Owned'
BY MiddlewareStep, OwnedStep DEF Inv

(* A challenge adds an entry without a commitment, for a fresh nonce.      *)
LEMMA ChallengeInv ==
  ASSUME Inv, NEW n \in Nonces, NEW rt \in Routes, Challenge(n, rt)
  PROVE  Inv'
<1>1. /\ MW!Fresh(n) /\ challenged' = [challenged EXCEPT ![n] = rt]
      /\ pendingPayments' =
           [m \in Nonces |->
              IF m = n THEN MW!NewEntry(rt)
                ELSE IF m \in MW!Sweepable THEN None ELSE pendingPayments[m]]
      /\ UNCHANGED <<now, slot, served, pendingCommitments, call, bound, judged, sgState, redeemed>>
  BY DEF Challenge, MW!Challenge, faState, ledger
<1>2. Owned'
  BY StaysOwned DEF Next, Running
<1>3. Dated(MW!NewEntry(rt)) /\ MW!NewEntry(rt).commitment = None /\ challenged[n] = None
  BY <1>1, TimeAssumption DEF Inv, Dates, Dated, MW!NewEntry, MW!NoEntry, MW!Fresh
<1>4. MapInherits
  BY <1>1, <1>3, NoneAssumption DEF MapInherits, Inherited, From, Inv, Owned, MW!TypeOK
<1>5. \A h \in Slots : Stays(h) \/ (Moves(h) /\ InOrder(h)')
  BY <1>1 DEF Stays, sgState
<1>6. Scheme'
  BY <1>1 DEF Inv, Scheme, FA!LiveUntilJudged
<1>8. /\ call' = [h \in Slots |-> call'[h]] /\ lookup' = [h \in Slots |-> lookup'[h]]
      /\ now' \in 0..MaxTime /\ now <= now' /\ UNCHANGED <<tx, log>> /\ judged \subseteq judged'
  BY <1>1 DEF Inv, Dates, Linked, sgState
<1> QED
  BY <1>1, <1>2, <1>4, <1>5, <1>6, <1>8, Turn

(* An entry that expired is dropped.                                       *)
LEMMA DropExpiredInv ==
  ASSUME Inv, NEW n \in Nonces, DropExpired(n)
  PROVE  Inv'
<1>1. /\ pendingPayments' = MW!Claim(n)
      /\ UNCHANGED <<now, slot, challenged, served, pendingCommitments, call, bound, judged,
                     sgState, redeemed>>
  BY DEF DropExpired, MW!DropExpired, faState, ledger
<1>2. Owned'
  BY StaysOwned DEF Next, Running
<1>4. MapInherits
  BY <1>1 DEF MapInherits, Inherited, From, Inv, Owned, MW!TypeOK, MW!Claim
<1>5. \A h \in Slots : Stays(h) \/ (Moves(h) /\ InOrder(h)')
  BY <1>1 DEF Stays, sgState
<1>6. Scheme'
  BY <1>1 DEF Inv, Scheme, FA!LiveUntilJudged
<1>8. /\ call' = [h \in Slots |-> call'[h]] /\ lookup' = [h \in Slots |-> lookup'[h]]
      /\ now' \in 0..MaxTime /\ now <= now' /\ UNCHANGED <<tx, log>> /\ judged \subseteq judged'
  BY <1>1 DEF Inv, Dates, Linked, sgState
<1> QED
  BY <1>1, <1>2, <1>4, <1>5, <1>6, <1>8, Turn

(* Time passes for both components at once.                                *)
LEMMA TickInv ==
  ASSUME Inv, Tick
  PROVE  Inv'
<1>1. /\ now < MaxTime /\ now' = now + 1
      /\ UNCHANGED <<pendingPayments, slot, challenged, served, pendingCommitments, call, bound,
                     judged, sgState, redeemed>>
  BY DEF Tick, MW!Tick, FA!Tick, FA!scheme, FA!observed, ledger
<1>2. Owned'
  BY StaysOwned DEF Next, Running
<1>3. now' \in 0..MaxTime /\ now <= now' /\ now \in Nat
  BY <1>1, TimeAssumption DEF Inv, Dates
<1>4. MapInherits
  BY <1>1 DEF MapInherits, Inherited, From
<1>5. \A h \in Slots : Stays(h) \/ (Moves(h) /\ InOrder(h)')
  BY <1>1 DEF Stays, sgState
<1>6. FA!LiveUntilJudged'
  <2> SUFFICES ASSUME NEW c \in Commitments, bound[c] # None, c \notin judged,
                      ~(now + 1 > bound[c].expiresAt)
               PROVE  pendingCommitments[c] = bound[c]
    BY <1>1 DEF FA!LiveUntilJudged
  <2>1. bound[c].expiresAt \in Nat
    BY DEF Inv, Scheme, FA!PendingCommitment
  <2> QED
    BY <1>3, <2>1 DEF Inv, Scheme, FA!LiveUntilJudged
<1>7. Scheme'
  BY <1>1, <1>6 DEF Inv, Scheme
<1>8. /\ call' = [h \in Slots |-> call'[h]] /\ lookup' = [h \in Slots |-> lookup'[h]]
      /\ UNCHANGED <<tx, log>> /\ judged \subseteq judged'
  BY <1>1 DEF Inv, Linked, sgState
<1> QED
  BY <1>1, <1>2, <1>3, <1>4, <1>5, <1>7, <1>8, Turn

(* After a restart nobody holds anything, and everything prepared is lost. *)
LEMMA RestartInv ==
  ASSUME Inv, Restart
  PROVE  Inv'
<1>1. /\ pendingPayments' = [n \in Nonces |-> None]
      /\ slot' = [h \in Slots |-> MW!Idle] /\ call' = [h \in Slots |-> FA!Idle]
      /\ lookup' = [h \in Slots |-> SG!NoLookup]
      /\ pendingCommitments' = [c \in Commitments |-> None]
      /\ judged' = {c \in Commitments : bound[c] # None}
      /\ UNCHANGED <<now, challenged, served, bound, tx, log, redeemed>>
  BY DEF Restart, MW!Restart, FA!Restart, SG!Crash, SG!chain
<1>2. Owned'
  BY StaysOwned DEF Next
<1>3. MapInherits
  BY <1>1 DEF MapInherits
<1>4. \A h \in Slots : slot'[h] = MW!Idle /\ call'[h] = FA!Idle /\ lookup'[h] = SG!NoLookup
  BY <1>1
<1>5. \A h \in Slots : Moves(h) /\ InOrder(h)'
  BY <1>4 DEF Moves, Coupled, InOrder, Paying, FoundValid, MW!Busy, MW!Idle
<1>6. Scheme' /\ judged \subseteq judged'
  BY <1>1 DEF Inv, Scheme, FA!LiveUntilJudged
<1> QED
  BY <1>1, <1>2, <1>3, <1>5, <1>6, Turn DEF Inv, Dates

(* A handler that begins to prepare awaits a call for its own entry.       *)
LEMMA PrepareBeginsInv ==
  ASSUME Inv, NEW h \in Slots, NEW n \in Nonces, NEW s \in Senders, NEW rt \in Routes,
         PrepareBegins(h, n, s, rt)
  PROVE  Inv'
<1> DEFINE e == MW!BindSender(pendingPayments[n], s)
<1> DEFINE a == [MW!Idle EXCEPT !.pc = "preparing", !.nonce = n, !.route = rt, !.entry = e]
<1> DEFINE o == [nonce |-> n, createdAt |-> pendingPayments[n].createdAt,
                 timeoutMs |-> pendingPayments[n].timeoutMs]
<1> DEFINE x == FA!Preparing(Asset[rt], s, o)
<1>1. /\ pendingPayments[n] # None /\ pendingPayments[n].commitment = None
      /\ pendingPayments' = MW!Claim(n) /\ slot' = [slot EXCEPT ![h] = a]
      /\ call[h].pc = "idle" /\ call' = [call EXCEPT ![h] = x]
      /\ pendingCommitments' = FA!SweptCommitments
      /\ UNCHANGED <<now, challenged, served, bound, judged, tx, log, lookup, redeemed>>
  BY DEF PrepareBegins, MW!PrepareBegins, MW!MayPrepare, FA!PrepareBegins, FA!observed, sgState, ledger
<1>2. Owned'
  BY StaysOwned DEF Next, Running
<1>3. ~MW!Busy(h) /\ lookup[h] = SG!NoLookup
  <2>1. ~MW!Busy(h)
    BY DEF PrepareBegins, MW!PrepareBegins
  <2> QED
    BY <2>1 DEF Inv, Linked, Coupled, LooksUp, MW!Busy
<1>4. pendingPayments[n] \in MW!Entry
  BY <1>1 DEF Inv, Owned, MW!TypeOK
<1>5. /\ e.createdAt = pendingPayments[n].createdAt /\ e.timeoutMs = pendingPayments[n].timeoutMs
      /\ e.commitment = None /\ e.senderAddress = s
  BY <1>1, <1>4 DEF MW!BindSender, MW!Entry
<1>6. a.pc = "preparing" /\ a.nonce = n /\ a.route = rt /\ a.entry = e
  BY DEF MW!Idle
<1>7. x.pc = "preparing"
  BY DEF FA!Preparing
<1>8. lookup' = [lookup EXCEPT ![h] = lookup[h]]
  BY <1>1 DEF Inv, Linked
<1> HIDE DEF e, a, x
<1>9. /\ slot'[h] = a /\ call'[h] = x /\ lookup'[h] = lookup[h]
      /\ \A g \in Slots : g # h => Stays(g)
      /\ call' = [g \in Slots |-> call'[g]] /\ lookup' = [g \in Slots |-> lookup'[g]]
  BY <1>1, <1>8, OneMoves
<1>10. Coupled(h)'
  BY <1>3, <1>5, <1>6, <1>7, <1>9 DEF Coupled, Prepares, OptionsOf, x
<1>11. InOrder(h)'
  BY <1>6, <1>9 DEF InOrder, Paying, FoundValid
<1>12. Inherited(slot'[h].nonce, slot'[h].entry, Known(h)')
  BY <1>1, <1>5, <1>6, <1>7, <1>9 DEF Inherited, From, Known
<1>13. MapInherits
  BY <1>1 DEF MapInherits, Inherited, From, Inv, Owned, MW!TypeOK, MW!Claim
<1>14. Scheme'
  BY <1>1, Swept, SchemeDrops DEF Inv, Scheme
<1>15. \A g \in Slots : Stays(g) \/ (Moves(g) /\ InOrder(g)')
  BY <1>9, <1>10, <1>11, <1>12 DEF Moves
<1>16. now' \in 0..MaxTime /\ now <= now' /\ judged \subseteq judged'
  BY <1>1 DEF Inv, Dates
<1> QED
  BY <1>1, <1>2, <1>9, <1>13, <1>14, <1>15, <1>16, Turn

(* A preparation that fails leaves no commitment.                          *)
LEMMA PrepareFailsInv ==
  ASSUME Inv, NEW h \in Slots, SignerPrepares(h, None)
  PROVE  Inv'
<1> DEFINE x == FA!Prepared(None)
<1>1. /\ call[h].pc = "preparing" /\ call' = [call EXCEPT ![h] = x]
      /\ UNCHANGED <<now, pendingPayments, slot, challenged, served, pendingCommitments, bound,
                     judged, tx, log, lookup, redeemed>>
  BY DEF SignerPrepares, FA!PrepareFails, FA!scheme, FA!observed, mwState, sgState, ledger
<1>2. Owned'
  BY StaysOwned DEF Next, Running
<1>3. x.pc = "prepared" /\ x.commitment = None /\ \E c \in Commitments \cup {None} : x = FA!Prepared(c)
  BY DEF FA!Prepared
<1>4. /\ slot' = [slot EXCEPT ![h] = slot[h]] /\ lookup' = [lookup EXCEPT ![h] = lookup[h]]
  BY <1>1 DEF Inv, Linked, Owned, MW!TypeOK
<1> HIDE DEF x
<1>5. /\ slot'[h] = slot[h] /\ call'[h] = x /\ lookup'[h] = lookup[h]
      /\ \A g \in Slots : g # h => Stays(g)
      /\ call' = [g \in Slots |-> call'[g]] /\ lookup' = [g \in Slots |-> lookup'[g]]
  BY <1>1, <1>4, OneMoves
<1>6. /\ slot[h].pc = "preparing" /\ Coupled(h) /\ lookup[h] = SG!NoLookup
      /\ slot[h].entry.commitment = None
  BY <1>1 DEF Inv, Linked, Coupled, Verifies, LooksUp, FA!Idle, FA!Failed, Owned, MW!TypeOK,
     MW!Handler, Prepares
<1>7. Coupled(h)'
  BY <1>3, <1>5, <1>6 DEF Coupled, Prepares
<1>8. InOrder(h)'
  BY <1>5, <1>6 DEF InOrder, Paying, FoundValid
<1>9. MW!Busy(h)' => Inherited(slot'[h].nonce, slot'[h].entry, Known(h)')
  BY <1>1, <1>3, <1>5, <1>6 DEF Inherited, From, Known, MW!Busy
<1>10. MapInherits
  BY <1>1 DEF MapInherits, Inherited, From
<1>11. Scheme'
  BY <1>1 DEF Inv, Scheme, FA!LiveUntilJudged
<1>12. \A g \in Slots : Stays(g) \/ (Moves(g) /\ InOrder(g)')
  BY <1>5, <1>7, <1>8, <1>9 DEF Moves
<1>13. now' \in 0..MaxTime /\ now <= now' /\ judged \subseteq judged'
  BY <1>1 DEF Inv, Dates
<1> QED
  BY <1>1, <1>2, <1>5, <1>10, <1>11, <1>12, <1>13, Turn

(* The call of a handler that prepares.                                    *)
LEMMA PreparingCall ==
  ASSUME NEW h \in Slots, Prepares(h)
  PROVE  /\ call[h].pc \in {"preparing", "prepared"}
         /\ call[h].pc = "preparing" =>
              call[h] = FA!Preparing(Asset[slot[h].route], slot[h].entry.senderAddress, OptionsOf(h))
         /\ call[h].pc = "prepared" => call[h].commitment \in Commitments \cup {None}
<1>1. CASE call[h] = FA!Preparing(Asset[slot[h].route], slot[h].entry.senderAddress, OptionsOf(h))
  BY <1>1 DEF FA!Preparing
<1>2. CASE \E c \in Commitments \cup {None} : call[h] = FA!Prepared(c)
  BY <1>2 DEF FA!Prepared
<1> QED
  BY <1>1, <1>2 DEF Prepares

(* A call that verifies belongs to a handler that does.                    *)
LEMMA VerifyingCall ==
  ASSUME Inv, NEW h \in Slots, call[h].pc \in {"verifying", "valid"}
  PROVE  /\ slot[h].pc = "verifying" /\ Coupled(h)
         /\ call[h].payload = slot[h].payment /\ call[h].requirements = Asked(h)
         /\ slot[h].entry.commitment \in Commitments
         /\ Asked(h).commitment = slot[h].entry.commitment
         /\ bound[slot[h].entry.commitment] # None
<1>1. Coupled(h) /\ slot[h].pc \in {"idle", "preparing", "verifying", "settling"}
  BY DEF Inv, Linked, Owned, MW!TypeOK, MW!Handler
<1>2. slot[h].pc = "verifying"
  <2>1. slot[h].pc \in {"idle", "settling"} => call[h].pc = "idle"
    BY <1>1 DEF Coupled, FA!Idle
  <2>2. slot[h].pc = "preparing" => call[h].pc \in {"preparing", "prepared"}
    BY <1>1, PreparingCall DEF Coupled
  <2> QED
    BY <1>1, <2>1, <2>2
<1>3. /\ call[h].payload = slot[h].payment /\ call[h].requirements = Asked(h)
      /\ slot[h].entry.commitment \in Commitments
  BY <1>1, <1>2 DEF Coupled, Verifies, FA!Failed
<1>4. Match(slot[h].nonce, slot[h].entry, slot[h].entry.commitment)
  BY <1>2 DEF Inv, Matched, MW!Busy, Known
<1>5. bound[slot[h].entry.commitment] # None
  BY <1>3, <1>4, NoneAssumption DEF Match
<1> QED
  BY <1>1, <1>2, <1>3, <1>5 DEF Asked, RequirementsOf

(* A handler that answers its request, and settles nothing.                *)
LEMMA AnsweredInv ==
  ASSUME Inv, NEW h \in Slots, Owned', MapInherits, lookup[h] = SG!NoLookup,
         MW!Finish(h), call' = [call EXCEPT ![h] = FA!Idle],
         UNCHANGED <<now, served, pendingCommitments, bound, judged, tx, log, lookup, redeemed>>
  PROVE  Inv'
<1>1. /\ slot' = [slot EXCEPT ![h] = MW!Idle]
      /\ lookup' = [lookup EXCEPT ![h] = lookup[h]]
  BY DEF MW!Finish, Inv, Linked
<1>2. /\ slot'[h] = MW!Idle /\ call'[h] = FA!Idle /\ lookup'[h] = lookup[h]
      /\ \A g \in Slots : g # h => Stays(g)
      /\ call' = [g \in Slots |-> call'[g]] /\ lookup' = [g \in Slots |-> lookup'[g]]
  BY <1>1, OneMoves
<1>3. slot'[h].pc = "idle"
  BY <1>2 DEF MW!Idle
<1>4. Moves(h) /\ InOrder(h)'
  BY <1>2, <1>3 DEF Moves, Coupled, InOrder, Paying, FoundValid, MW!Busy
<1>5. \A g \in Slots : Stays(g) \/ (Moves(g) /\ InOrder(g)')
  BY <1>2, <1>4
<1>6. Scheme'
  BY DEF Inv, Scheme, FA!LiveUntilJudged
<1>7. now' \in 0..MaxTime /\ now <= now' /\ judged \subseteq judged'
  BY DEF Inv, Dates
<1> QED
  BY <1>2, <1>5, <1>6, <1>7, Turn

(* A preparation that ends puts the entry back with its commitment.        *)
LEMMA PrepareEndsInv ==
  ASSUME Inv, NEW h \in Slots, PrepareEnds(h)
  PROVE  Inv'
<1>1. /\ call[h].pc = "prepared" /\ slot[h].pc = "preparing"
      /\ pendingPayments' = MW!Restore(h, call[h].commitment) /\ MW!Finish(h)
      /\ call' = [call EXCEPT ![h] = FA!Idle]
      /\ UNCHANGED <<now, challenged, served, pendingCommitments, bound, judged, tx, log, lookup,
                     redeemed>>
  BY DEF PrepareEnds, MW!PrepareEnds, FA!Return, FA!scheme, FA!observed, sgState, ledger
<1>2. Owned'
  BY StaysOwned DEF Next, Running
<1>3. lookup[h] = SG!NoLookup /\ slot[h].nonce \in Nonces /\ slot[h].entry \in MW!Entry
  BY <1>1 DEF Inv, Linked, Coupled, LooksUp, Owned, MW!TypeOK, MW!Handler, MW!Busy
<1> DEFINE e == [slot[h].entry EXCEPT !.commitment = call[h].commitment]
<1>4. pendingPayments' = [pendingPayments EXCEPT ![slot[h].nonce] = e]
  BY <1>1 DEF MW!Restore
<1>5. e.commitment = Known(h) /\ From(e, slot[h].entry, Known(h))
  BY <1>1, <1>3 DEF Known, From, MW!Entry
<1> HIDE DEF e
<1>6. MapInherits
  BY <1>1, <1>3, <1>4, <1>5 DEF MapInherits, Inherited, From, Inv, Owned, MW!TypeOK, MW!Busy
<1> QED
  BY <1>1, <1>2, <1>3, <1>6, AnsweredInv

(* verify answers, or its timer fires.                                     *)
LEMMA AnswerInv ==
  ASSUME Inv, NEW h \in Slots, NEW answer \in {"valid", "invalid", "retryable"},
         FA!VerifyEnds(h, answer), Owned',
         lookup' = [lookup EXCEPT ![h] = SG!NoLookup],
         answer = "valid" => /\ log[slot[h].entry.commitment] # None
                             /\ log[slot[h].entry.commitment].value >= Price[slot[h].route],
         UNCHANGED <<pendingPayments, slot, challenged, served, tx, log, redeemed>>
  PROVE  Inv'
<1> DEFINE p == call[h].payload
<1> DEFINE q == call[h].requirements
<1> DEFINE x == IF answer = "valid" THEN FA!Valid(p, q) ELSE FA!Failed(answer)
<1> DEFINE c == slot[h].entry.commitment
<1>1. /\ call[h].pc = "verifying" /\ call' = [call EXCEPT ![h] = x]
      /\ UNCHANGED <<now, bound>>
  BY DEF FA!VerifyEnds
<1>2. /\ slot[h].pc = "verifying" /\ p = slot[h].payment /\ q = Asked(h)
      /\ c \in Commitments /\ q.commitment = c /\ bound[c] # None /\ Coupled(h)
  BY <1>1, VerifyingCall
<1>3. slot' = [slot EXCEPT ![h] = slot[h]]
  BY DEF Inv, Owned, MW!TypeOK
<1>4. /\ answer = "valid" => x.pc = "valid" /\ x.payload = p /\ x.requirements = q
      /\ answer # "valid" => x.pc = "failed" /\ \E o \in {"invalid", "retryable"} : x = FA!Failed(o)
  BY DEF FA!Valid, FA!Failed
<1> HIDE DEF x
<1>5. /\ slot'[h] = slot[h] /\ call'[h] = x /\ lookup'[h] = SG!NoLookup
      /\ \A g \in Slots : g # h => Stays(g)
      /\ call' = [g \in Slots |-> call'[g]] /\ lookup' = [g \in Slots |-> lookup'[g]]
  BY <1>1, <1>3, OneMoves
<1>6. Coupled(h)'
  BY <1>2, <1>4, <1>5 DEF Coupled, Verifies, Asked
<1>7. InOrder(h)'
  BY <1>1, <1>2, <1>4, <1>5 DEF InOrder, Paying, FoundValid, Inv, Redemption
<1>8. Inherited(slot'[h].nonce, slot'[h].entry, Known(h)')
  BY <1>2, <1>5 DEF Inherited, From, Known, MW!Busy
<1>9. MapInherits
  BY DEF MapInherits, Inherited, From
<1>10. /\ pendingCommitments' = [d \in Commitments |-> pendingCommitments'[d]]
       /\ judged \subseteq judged'
       /\ \A d \in judged' : d \in Commitments /\ bound[d] # None
       /\ \A d \in Commitments :
            \/ pendingCommitments'[d] = pendingCommitments[d] /\ (d \in judged' => d \in judged)
            \/ pendingCommitments'[d] = None /\ d \in judged'
  <2>1. /\ pendingCommitments = [d \in Commitments |-> pendingCommitments[d]]
        /\ \A d \in judged : d \in Commitments /\ bound[d] # None
    BY DEF Inv, Scheme
  <2>2. CASE answer = "valid"
    BY <2>1, <2>2 DEF FA!VerifyEnds
  <2>3. CASE answer = "retryable"
    <3>1. pendingCommitments' = FA!AfterFailure(pendingCommitments, q, TRUE) /\ judged' = judged
      BY <2>3 DEF FA!VerifyEnds
    <3> QED
      BY <2>1, <3>1 DEF FA!AfterFailure
  <2>4. CASE answer = "invalid"
    <3>1. /\ pendingCommitments' = FA!AfterFailure(pendingCommitments, q, FALSE)
          /\ judged' = judged \cup {d \in Commitments : d = q.commitment /\ bound[d] # None}
      BY <2>4 DEF FA!VerifyEnds, FA!Judge
    <3> QED
      BY <1>2, <2>1, <3>1 DEF FA!AfterFailure
  <2> QED
    BY <2>2, <2>3, <2>4
<1>11. Scheme'
  BY <1>1, <1>10, SchemeDrops
<1>12. \A g \in Slots : Stays(g) \/ (Moves(g) /\ InOrder(g)')
  BY <1>5, <1>6, <1>7, <1>8 DEF Moves
<1>13. now' \in 0..MaxTime /\ now <= now'
  BY <1>1 DEF Inv, Dates
<1> QED
  BY <1>1, <1>5, <1>9, <1>10, <1>11, <1>12, <1>13, Turn

(* The signer finds a payment valid only if the log covers the price.      *)
LEMMA SignerAnswersInv ==
  ASSUME Inv, NEW h \in Slots, SignerAnswers(h)
  PROVE  Inv'
<1>1. PICK answer \in {"valid", "invalid", "retryable"} :
        SG!LookupEnds(h, answer) /\ FA!VerifyEnds(h, answer)
  BY DEF SignerAnswers
<1>2. Owned'
  BY StaysOwned DEF Next, Running
<1>3. /\ call[h].pc = "verifying" /\ lookup[h].pc = "answered" /\ answer = lookup[h].answer
  BY <1>1 DEF FA!VerifyEnds, SG!LookupEnds
<1>4. ASSUME answer = "valid"
      PROVE  /\ log[slot[h].entry.commitment] # None
             /\ log[slot[h].entry.commitment].value >= Price[slot[h].route]
  <2>1. slot[h].pc = "verifying" /\ InOrder(h)
    BY <1>3, VerifyingCall DEF Inv, Redemption
  <2> QED
    BY <1>3, <1>4, <2>1 DEF InOrder, FoundValid
<1>5. /\ lookup' = [lookup EXCEPT ![h] = SG!NoLookup]
      /\ UNCHANGED <<pendingPayments, slot, challenged, served, tx, log, redeemed>>
  BY <1>1 DEF SignerAnswers, SG!LookupEnds, SG!chain, mwState, ledger
<1> QED
  BY <1>1, <1>2, <1>4, <1>5, AnswerInv

(* A timer that fires is an answer that may be retried.                    *)
LEMMA VerifyTimesOutInv ==
  ASSUME Inv, NEW h \in Slots, VerifyTimesOut(h)
  PROVE  Inv'
<1>1. Owned'
  BY StaysOwned DEF Next, Running
<1>2. /\ lookup' = [lookup EXCEPT ![h] = SG!NoLookup] /\ FA!VerifyEnds(h, "retryable")
      /\ UNCHANGED <<pendingPayments, slot, challenged, served, tx, log, redeemed>>
  BY DEF VerifyTimesOut, FA!VerifyTimesOut, SG!Abandon, SG!chain, mwState, ledger
<1> QED
  BY <1>1, <1>2, AnswerInv

(* A payment that verify takes up was never redeemed: its commitment is in *)
(* the scheme.                                                             *)
LEMMA PayBeginsInv ==
  ASSUME Inv, NEW h \in Slots, NEW n \in Nonces, NEW p \in Payments, NEW rt \in Routes,
         PayBegins(h, n, p, rt)
  PROVE  Inv'
<1> DEFINE e == pendingPayments[n]
<1> DEFINE c == e.commitment
<1> DEFINE q == RequirementsOf(rt, n, c)
<1> DEFINE a == [pc |-> "verifying", nonce |-> n, route |-> rt, entry |-> e, payment |-> p]
<1>1. /\ e # None /\ pendingPayments' = MW!Claim(n) /\ slot' = [slot EXCEPT ![h] = a]
      /\ ~MW!Busy(h)
      /\ UNCHANGED <<now, challenged, served, redeemed>>
  BY DEF PayBegins, MW!PayBegins
<1>2. Owned'
  BY StaysOwned DEF Next, Running
<1>3. e \in MW!Entry /\ lookup[h] = SG!NoLookup
  BY <1>1 DEF Inv, Owned, MW!TypeOK, Linked, Coupled, LooksUp, MW!Busy
<1>4. c \in Commitments \cup {None}
  BY <1>3 DEF MW!Entry
<1>5. /\ a.pc = "verifying" /\ a.nonce = n /\ a.route = rt /\ a.entry = e /\ a.payment = p
      /\ a.entry.commitment = c
  OBVIOUS
<1>6. q.commitment = c /\ q.amount = Price[rt] /\ q.asset = Asset[rt]
  BY DEF RequirementsOf
<1> HIDE DEF a, q
<1>7. MapInherits
  BY <1>1 DEF MapInherits, Inherited, From, Inv, Owned, MW!TypeOK, MW!Claim
<1> DEFINE Failing(o) ==
             /\ call' = [call EXCEPT ![h] = FA!Failed(o)]
             /\ UNCHANGED <<now, bound, tx, log, lookup>>
<1> DEFINE Beginning ==
             /\ \E t : call' = [call EXCEPT ![h] = FA!Verifying(p, q, t)]
             /\ \E w \in {"receipt", "answered"}, r \in {None, "invalid", "retryable"} :
                  /\ w = "answered" => r # "valid"
                  /\ lookup' = [lookup EXCEPT ![h] = SG!Lookup(w, r, p.txHash, q.amount, c)]
             /\ p.txHash \in TxHashes
             /\ c # None /\ FA!SweptCommitments[c] # None
             /\ UNCHANGED <<now, bound, judged, tx, log>>
<1> DEFINE Maps ==
             /\ pendingCommitments' = [d \in Commitments |-> pendingCommitments'[d]]
             /\ judged \subseteq judged'
             /\ \A d \in judged' : d \in Commitments /\ bound[d] # None
             /\ \A d \in Commitments :
                  \/ pendingCommitments'[d] = pendingCommitments[d] /\ (d \in judged' => d \in judged)
                  \/ pendingCommitments'[d] = None /\
                       (d \in judged' \/ pendingCommitments[d] = None
                          \/ now > pendingCommitments[d].expiresAt)
<1>8. \/ Maps /\ \E o \in {"invalid", "retryable"} : Failing(o)
      \/ Maps /\ Beginning
  <2>1. CASE FA!VerifyRefused(h, p, q) /\ UNCHANGED sgState
    <3>1. /\ pendingCommitments' = FA!AfterFailure(FA!SweptCommitments, q, FALSE)
          /\ judged' = judged \cup {d \in Commitments : d = c /\ bound[d] # None}
          /\ Failing("invalid")
      BY <1>6, <2>1 DEF FA!VerifyRefused, FA!Judge, sgState
    <3>2. c \in Commitments => (bound[c] # None \/ pendingCommitments[c] = None)
      BY DEF Inv, Scheme
    <3>3. Maps
      BY <1>6, <3>1, <3>2, Swept DEF FA!AfterFailure, Inv, Scheme
    <3> QED
      BY <3>1, <3>3
  <2>2. CASE FA!VerifyBusy(h, p, q) /\ UNCHANGED sgState
    <3>1. /\ pendingCommitments' = FA!AfterFailure(FA!SweptCommitments, q, TRUE)
          /\ judged' = judged /\ Failing("retryable")
      BY <2>2 DEF FA!VerifyBusy, FA!observed, sgState
    <3>2. Maps
      BY <3>1, Swept DEF FA!AfterFailure, Inv, Scheme
    <3> QED
      BY <3>1, <3>2
  <2>3. CASE FA!VerifyBegins(h, p, q) /\ SG!LookupBegins(h, p.txHash, q.asset, q.amount, q.commitment)
    <3>1. pendingCommitments' = FA!SweptCommitments /\ Beginning
      <4>1. /\ pendingCommitments' = FA!SweptCommitments
            /\ \E t : call' = [call EXCEPT ![h] = FA!Verifying(p, q, t)]
            /\ c # None /\ FA!SweptCommitments[c] # None /\ p.txHash # None
            /\ UNCHANGED <<now, bound, judged, tx, log>>
        BY <1>6, <2>3 DEF FA!VerifyBegins, FA!IssuedFor, FA!observed, SG!LookupBegins, SG!chain
      <4>2. \E w \in {"receipt", "answered"}, r \in {None, "invalid", "retryable"} :
              /\ w = "answered" => r # "valid"
              /\ lookup' = [lookup EXCEPT ![h] = SG!Lookup(w, r, p.txHash, q.amount, c)]
        BY <1>6, <2>3 DEF SG!LookupBegins
      <4> QED
        BY <4>1, <4>2 DEF Payments
    <3>2. Maps
      BY <3>1, Swept DEF Inv, Scheme
    <3> QED
      BY <3>1, <3>2
  <2> QED
    BY <2>1, <2>2, <2>3 DEF PayBegins, q
<1>9. now' \in 0..MaxTime /\ now <= now'
  BY <1>1 DEF Inv, Dates
<1>10. Maps => Scheme'
  BY <1>1, <1>8, SchemeDrops
<1>11. CASE Maps /\ \E o \in {"invalid", "retryable"} : Failing(o)
  <2>1. PICK o \in {"invalid", "retryable"} : Failing(o)
    BY <1>11
  <2> DEFINE x == FA!Failed(o)
  <2>2. x.pc = "failed" /\ \E r \in {"invalid", "retryable"} : x = FA!Failed(r)
    BY DEF FA!Failed
  <2>3. lookup' = [lookup EXCEPT ![h] = lookup[h]] /\ call' = [call EXCEPT ![h] = x]
    BY <2>1 DEF Inv, Linked
  <2> HIDE DEF x
  <2>4. /\ slot'[h] = a /\ call'[h] = x /\ lookup'[h] = lookup[h]
        /\ \A g \in Slots : g # h => Stays(g)
        /\ call' = [g \in Slots |-> call'[g]] /\ lookup' = [g \in Slots |-> lookup'[g]]
    BY <1>1, <2>3, OneMoves
  <2>5. Coupled(h)'
    BY <1>3, <1>5, <2>2, <2>4 DEF Coupled, Verifies
  <2>6. InOrder(h)'
    BY <1>5, <2>2, <2>4 DEF InOrder, Paying, FoundValid
  <2>7. Inherited(slot'[h].nonce, slot'[h].entry, Known(h)')
    BY <1>1, <1>5, <2>4 DEF Inherited, From, Known
  <2>8. \A g \in Slots : Stays(g) \/ (Moves(g) /\ InOrder(g)')
    BY <2>4, <2>5, <2>6, <2>7 DEF Moves
  <2> QED
    BY <1>1, <1>2, <1>7, <1>9, <1>10, <1>11, <2>1, <2>4, <2>8, Turn
<1>12. CASE Maps /\ Beginning
  <2>1. PICK t : call' = [call EXCEPT ![h] = FA!Verifying(p, q, t)]
    BY <1>12
  <2> DEFINE x == FA!Verifying(p, q, t)
  <2>11. PICK w \in {"receipt", "answered"}, r \in {None, "invalid", "retryable"} :
           /\ w = "answered" => r # "valid"
           /\ lookup' = [lookup EXCEPT ![h] = SG!Lookup(w, r, p.txHash, q.amount, c)]
    BY <1>12
  <2> DEFINE l == SG!Lookup(w, r, p.txHash, q.amount, c)
  <2>2. x.pc = "verifying" /\ x.payload = p /\ x.requirements = q
    BY DEF FA!Verifying
  <2>3. call' = [call EXCEPT ![h] = x] /\ lookup' = [lookup EXCEPT ![h] = l] /\ c \in Commitments
    BY <1>4, <1>12, <2>1, <2>11
  <2>4. /\ l \in [pc : {"receipt", "answered"}, answer : {None, "invalid", "retryable"},
                  tx : TxHashes, amount : Nat, commitment : Commitments]
        /\ l.tx = p.txHash /\ l.amount = Price[rt] /\ l.commitment = c
        /\ l.pc = "answered" => l.answer # "valid"
    BY <1>6, <1>12, <2>3, <2>11, RouteAssumption, ChainAssumption DEF SG!Lookup
  <2> HIDE DEF x, l
  <2>5. /\ slot'[h] = a /\ call'[h] = x /\ lookup'[h] = l
        /\ \A g \in Slots : g # h => Stays(g)
        /\ call' = [g \in Slots |-> call'[g]] /\ lookup' = [g \in Slots |-> lookup'[g]]
    BY <1>1, <2>3, OneMoves
  <2>6. Coupled(h)'
    <3>1. Verifies(h)'
      BY <1>5, <2>2, <2>3, <2>5 DEF Verifies, Asked, q
    <3>2. LooksUp(h)'
      BY <1>5, <2>2, <2>4, <2>5 DEF LooksUp
    <3> QED
      BY <1>5, <2>2, <2>5, <3>1, <3>2 DEF Coupled
  <2>7. redeemed[c] = <<>>
    <3>1. pendingCommitments[c] # None
      BY <1>12, <2>3, Swept
    <3>2. c \notin judged
      BY <3>1 DEF Inv, Scheme
    <3> QED
      BY <2>3, <3>2 DEF Inv, Redemption
  <2>8. InOrder(h)'
    BY <1>1, <1>5, <2>2, <2>4, <2>5, <2>7 DEF InOrder, Paying, FoundValid
  <2>9. Inherited(slot'[h].nonce, slot'[h].entry, Known(h)')
    BY <1>1, <1>5, <2>5 DEF Inherited, From, Known
  <2>10. \A g \in Slots : Stays(g) \/ (Moves(g) /\ InOrder(g)')
    BY <2>5, <2>6, <2>8, <2>9 DEF Moves
  <2> QED
    BY <1>1, <1>2, <1>7, <1>9, <1>10, <1>12, <2>5, <2>10, Turn
<1> QED
  BY <1>8, <1>11, <1>12

(* A lookup that gets on, and found the payment if it says so.             *)
LEMMA LookupInv ==
  ASSUME Inv, NEW h \in Slots, NEW pc \in {"logs", "answered"},
         NEW answer \in {None, "valid", "invalid", "retryable"},
         SignerReads(h) \/ SignerMisled(h), lookup[h] # SG!NoLookup,
         lookup' = [lookup EXCEPT ![h] = SG!Lookup(pc, answer, @.tx, @.amount, @.commitment)],
         (pc = "answered" /\ answer = "valid") => SG!Completed(h)
  PROVE  Inv'
<1> DEFINE l == SG!Lookup(pc, answer, lookup[h].tx, lookup[h].amount, lookup[h].commitment)
<1>1. UNCHANGED <<now, pendingPayments, slot, challenged, served, pendingCommitments, call,
                  bound, judged, tx, log, redeemed>>
  BY DEF SignerReads, SignerMisled, SG!ReceiptRead, SG!NodeAnswers, SG!NodeLags, SG!chain,
     mwState, faState, ledger
<1>2. Owned'
  BY StaysOwned DEF Next, Running
<1>3. LooksUp(h) /\ Coupled(h)
  BY DEF Inv, Linked, Coupled
<1>4. /\ slot' = [slot EXCEPT ![h] = slot[h]] /\ call' = [call EXCEPT ![h] = call[h]]
      /\ lookup' = [lookup EXCEPT ![h] = l]
  BY <1>1 DEF Inv, Linked, Owned, MW!TypeOK
<1>5. /\ l.commitment = lookup[h].commitment /\ l.tx = lookup[h].tx /\ l.amount = lookup[h].amount
      /\ l.pc = pc /\ l.answer = answer
      /\ l \in [pc : {"receipt", "logs", "answered"},
                answer : {None, "valid", "invalid", "retryable"},
                tx : TxHashes, amount : Nat, commitment : Commitments]
  BY <1>3 DEF LooksUp, SG!Lookup
<1> HIDE DEF l
<1>6. /\ slot'[h] = slot[h] /\ call'[h] = call[h] /\ lookup'[h] = l
      /\ \A g \in Slots : g # h => Stays(g)
      /\ call' = [g \in Slots |-> call'[g]] /\ lookup' = [g \in Slots |-> lookup'[g]]
  BY <1>4, OneMoves
<1>7. Coupled(h)'
  BY <1>3, <1>5, <1>6 DEF Coupled, LooksUp, Verifies, Prepares, Asked, OptionsOf
<1>8. InOrder(h)'
  <2>1. InOrder(h)
    BY DEF Inv, Redemption
  <2>2. (l.pc = "answered" /\ l.answer = "valid") =>
          /\ log[slot[h].entry.commitment] # None
          /\ log[slot[h].entry.commitment].value >= Price[slot[h].route]
    BY <1>3, <1>5 DEF LooksUp, SG!Completed
  <2> QED
    BY <1>1, <1>6, <2>1, <2>2 DEF InOrder, Paying, FoundValid
<1>9. MW!Busy(h)' => Inherited(slot'[h].nonce, slot'[h].entry, Known(h)')
  BY <1>6 DEF Inherited, From, Known, MW!Busy
<1>10. MapInherits
  BY <1>1 DEF MapInherits, Inherited, From
<1>11. Scheme'
  BY <1>1 DEF Inv, Scheme, FA!LiveUntilJudged
<1>12. \A g \in Slots : Stays(g) \/ (Moves(g) /\ InOrder(g)')
  BY <1>6, <1>7, <1>8, <1>9 DEF Moves
<1>13. now' \in 0..MaxTime /\ now <= now' /\ judged \subseteq judged'
  BY <1>1 DEF Inv, Dates
<1> QED
  BY <1>1, <1>2, <1>6, <1>10, <1>11, <1>12, <1>13, Turn

(* A lookup, rewritten.                                                    *)
LEMMA Rewritten ==
  ASSUME Inv, NEW h \in Slots, LooksUp(h), NEW pc, NEW answer
  PROVE  /\ [lookup EXCEPT ![h].pc = pc, ![h].answer = answer] =
              [lookup EXCEPT ![h] = SG!Lookup(pc, answer, @.tx, @.amount, @.commitment)]
         /\ [lookup EXCEPT ![h].pc = pc] =
              [lookup EXCEPT ![h] = SG!Lookup(pc, @.answer, @.tx, @.amount, @.commitment)]
<1> DEFINE l == lookup[h]
           k == [l EXCEPT !.pc = pc]
           m == [k EXCEPT !.answer = answer]
<1>1. l \in [pc : {"receipt", "logs", "answered"},
            answer : {None, "valid", "invalid", "retryable"},
            tx : TxHashes, amount : Nat, commitment : Commitments]
  BY DEF LooksUp
<1>2. DOMAIN lookup = Slots
  BY DEF Inv, Linked
<1>3. /\ [lookup EXCEPT ![h].pc = pc, ![h].answer = answer] = [lookup EXCEPT ![h] = m]
      /\ [lookup EXCEPT ![h].pc = pc] = [lookup EXCEPT ![h] = k]
  BY <1>2
<1> HIDE DEF l
<1>4. k = SG!Lookup(pc, l.answer, l.tx, l.amount, l.commitment)
  BY <1>1 DEF SG!Lookup
<1> HIDE DEF k
<1>5. m = SG!Lookup(pc, answer, l.tx, l.amount, l.commitment)
  BY <1>4 DEF SG!Lookup
<1> HIDE DEF m
<1> QED
  BY <1>3, <1>4, <1>5 DEF l

(* A read of the node says that the payment is there only if it is.        *)
LEMMA SignerReadsInv ==
  ASSUME Inv, NEW h \in Slots, SignerReads(h) \/ SignerMisled(h)
  PROVE  Inv'
<1> DEFINE Got(pc, answer) ==
  [lookup EXCEPT ![h] = SG!Lookup(pc, answer, @.tx, @.amount, @.commitment)]
<1>1. ASSUME lookup[h].pc \in {"receipt", "logs"}
      PROVE  /\ lookup[h] # SG!NoLookup
             /\ LooksUp(h)
  BY <1>1 DEF Inv, Linked, Coupled, SG!NoLookup
<1>2. CASE SG!ReceiptRead(h) /\ SignerReads(h)
  <2>1. lookup[h].pc = "receipt"
    BY <1>2 DEF SG!ReceiptRead
  <2>2. LooksUp(h) /\ lookup[h] # SG!NoLookup
    BY <1>1, <2>1
  <2>3. lookup' = Got("logs", lookup[h].answer)
    BY <1>2, <2>2, Rewritten DEF SG!ReceiptRead
  <2>4. lookup[h].answer \in {None, "valid", "invalid", "retryable"}
    BY <2>2 DEF LooksUp
  <2> QED
    BY <1>2, <2>2, <2>3, <2>4, LookupInv
<1>3. ASSUME NEW answer \in {"valid", "invalid", "retryable"}, SG!NodeAnswers(h, answer),
             SignerReads(h)
      PROVE  Inv'
  <2>1. lookup[h].pc \in {"receipt", "logs"} /\ answer \in SG!Answers(h)
    BY <1>3 DEF SG!NodeAnswers
  <2>2. LooksUp(h) /\ lookup[h] # SG!NoLookup
    BY <1>1, <2>1
  <2>5. lookup' = [lookup EXCEPT ![h].pc = "answered", ![h].answer = answer]
    BY <1>3 DEF SG!NodeAnswers
  <2>3. lookup' = Got("answered", answer)
    BY <2>2, <2>5, Rewritten
  <2>4. answer = "valid" => SG!Completed(h)
    BY <2>1 DEF SG!Answers
  <2> QED
    BY <1>3, <2>2, <2>3, <2>4, LookupInv
<1>4. CASE SignerMisled(h)
  <2>1. lookup[h].pc = "receipt"
    BY <1>4 DEF SignerMisled, SG!NodeLags
  <2>2. LooksUp(h) /\ lookup[h] # SG!NoLookup
    BY <1>1, <2>1
  <2>4. lookup' = [lookup EXCEPT ![h].pc = "answered", ![h].answer = "invalid"]
    BY <1>4 DEF SignerMisled, SG!NodeLags
  <2>3. lookup' = Got("answered", "invalid")
    BY <2>2, <2>4, Rewritten
  <2> QED
    BY <1>4, <2>2, <2>3, LookupInv
<1> QED
  BY <1>2, <1>3, <1>4 DEF SignerReads

(* A handler that takes its answer: it settles, drops or restores.         *)
LEMMA VerifyEndsInv ==
  ASSUME Inv, NEW h \in Slots, VerifyEnds(h)
  PROVE  Inv'
<1> DEFINE c == slot[h].entry.commitment
<1>1. Owned'
  BY StaysOwned DEF Next, Running
<1>2. slot[h].pc = "verifying" /\ UNCHANGED <<now, challenged, served, tx, log, lookup, redeemed>>
  BY DEF VerifyEnds, MW!VerifyEnds, sgState, ledger
<1>3. slot[h].nonce \in Nonces /\ slot[h].entry \in MW!Entry /\ Coupled(h)
  BY <1>2 DEF Inv, Linked, Owned, MW!TypeOK, MW!Handler, MW!Busy
<1>4. CASE call[h].pc = "valid" /\ MW!VerifyEnds(h, "valid") /\ FA!Settle(h)
  <2> DEFINE a == [slot[h] EXCEPT !.pc = "settling"]
  <2>1. /\ c \in Commitments /\ call[h].requirements.commitment = c /\ bound[c] # None
    BY <1>4, VerifyingCall
  <2>2. /\ pendingPayments' = pendingPayments /\ slot' = [slot EXCEPT ![h] = a]
        /\ pendingCommitments' = [pendingCommitments EXCEPT ![c] = None]
        /\ judged' = judged \cup {c} /\ call' = [call EXCEPT ![h] = FA!Idle] /\ bound' = bound
    BY <1>4, <2>1 DEF MW!VerifyEnds, FA!Settle
  <2>3. /\ a.pc = "settling" /\ a.entry = slot[h].entry /\ a.nonce = slot[h].nonce
        /\ a.route = slot[h].route
    BY DEF Inv, Owned, MW!TypeOK, MW!Handler
  <2>4. lookup[h] = SG!NoLookup /\ lookup' = [lookup EXCEPT ![h] = lookup[h]]
    BY <1>2, <1>4 DEF Inv, Linked, Coupled, LooksUp
  <2> HIDE DEF a
  <2>5. /\ slot'[h] = a /\ call'[h] = FA!Idle /\ lookup'[h] = lookup[h]
        /\ \A g \in Slots : g # h => Stays(g)
        /\ call' = [g \in Slots |-> call'[g]] /\ lookup' = [g \in Slots |-> lookup'[g]]
    BY <2>2, <2>4, OneMoves
  <2>6. Coupled(h)'
    BY <1>2, <1>3, <2>1, <2>3, <2>4, <2>5 DEF Coupled
  <2>7. InOrder(h)'
    <3>1. InOrder(h)
      BY DEF Inv, Redemption
    <3> QED
      BY <1>2, <1>4, <2>2, <2>3, <2>5, <3>1 DEF InOrder, Paying, FoundValid
  <2>8. Inherited(slot'[h].nonce, slot'[h].entry, Known(h)')
    BY <1>2, <2>3, <2>5 DEF Inherited, From, Known, MW!Busy
  <2>9. MapInherits
    BY <1>2, <2>2 DEF MapInherits, Inherited, From
  <2>10. Scheme'
    BY <1>2, <2>1, <2>2, SchemeDrops DEF Inv, Scheme
  <2>11. \A g \in Slots : Stays(g) \/ (Moves(g) /\ InOrder(g)')
    BY <2>5, <2>6, <2>7, <2>8 DEF Moves
  <2>12. now' \in 0..MaxTime /\ now <= now' /\ judged \subseteq judged'
    BY <1>2, <2>2 DEF Inv, Dates
  <2> QED
    BY <1>1, <1>2, <2>2, <2>5, <2>9, <2>10, <2>11, <2>12, Turn
<1>5. CASE call[h].pc = "failed" /\ MW!VerifyEnds(h, call[h].outcome) /\ FA!Return(h)
  <2>1. /\ call' = [call EXCEPT ![h] = FA!Idle]
        /\ UNCHANGED <<pendingCommitments, bound, judged>>
    BY <1>5 DEF FA!Return, FA!scheme, FA!observed
  <2>2. call[h].outcome \in {"invalid", "retryable"}
    BY <1>2, <1>3, <1>5 DEF Coupled, Verifies, FA!Failed
  <2>3. /\ MW!Finish(h)
        /\ \/ pendingPayments' = pendingPayments
           \/ pendingPayments' = [pendingPayments EXCEPT ![slot[h].nonce] = slot[h].entry]
    BY <1>3, <1>5, <2>2 DEF MW!VerifyEnds, MW!Restore, MW!Entry
  <2>4. lookup[h] = SG!NoLookup
    BY <1>2, <1>3, <1>5 DEF Coupled, LooksUp
  <2>5. MapInherits
    BY <1>2, <1>3, <2>3 DEF MapInherits, Inherited, From, Inv, Owned, MW!TypeOK, MW!Busy, Known
  <2> QED
    BY <1>1, <1>2, <2>1, <2>3, <2>4, <2>5, AnsweredInv
<1> QED
  BY <1>4, <1>5 DEF VerifyEnds

(* A call that prepares belongs to a handler that does.                    *)
LEMMA CallOfPreparing ==
  ASSUME Inv, NEW h \in Slots, call[h].pc = "preparing"
  PROVE  slot[h].pc = "preparing"
<1>1. Coupled(h) /\ slot[h].pc \in {"idle", "preparing", "verifying", "settling"}
  BY DEF Inv, Linked, Owned, MW!TypeOK, MW!Handler
<1>2. slot[h].pc \in {"idle", "settling"} => call[h].pc = "idle"
  BY <1>1 DEF Coupled, FA!Idle
<1>3. slot[h].pc = "verifying" => call[h].pc \in {"verifying", "valid", "failed"}
  BY <1>1 DEF Coupled, Verifies, FA!Failed
<1> QED
  BY <1>1, <1>2, <1>3

(* A commitment is new, and the first of its nonce.                        *)
LEMMA PrepareSucceedsInv ==
  ASSUME Inv, NEW h \in Slots, NEW c \in Commitments, SignerPrepares(h, c)
  PROVE  Inv'
<1> DEFINE n == slot[h].nonce
<1> DEFINE e == slot[h].entry
<1> DEFINE x == FA!Prepared(c)
<1> DEFINE o == call[h].options
<1> DEFINE pending == [senderAddress |-> call[h].senderAddress, tokenAddress |-> call[h].tokenAddress,
                       nonce |-> o.nonce, expiresAt |-> FA!ExpiresAt(o)]
<1>1. /\ call[h].pc = "preparing" /\ bound[c] = None /\ call' = [call EXCEPT ![h] = x]
      /\ pendingCommitments' = [pendingCommitments EXCEPT ![c] = pending]
      /\ bound' = [bound EXCEPT ![c] = pending]
      /\ UNCHANGED <<now, pendingPayments, slot, challenged, served, judged, tx, log, lookup, redeemed>>
  BY NoneAssumption DEF SignerPrepares, FA!PrepareSucceeds, mwState, sgState, ledger
<1>2. Owned'
  BY StaysOwned DEF Next, Running
<1>3. /\ slot[h].pc = "preparing" /\ Coupled(h) /\ lookup[h] = SG!NoLookup
      /\ n \in Nonces /\ e \in MW!Entry /\ slot[h].route \in Routes
  <2>1. Coupled(h) /\ slot[h].pc = "preparing"
    BY <1>1, CallOfPreparing DEF Inv, Linked
  <2> QED
    BY <2>1 DEF Coupled, LooksUp, Inv, Owned, MW!TypeOK, MW!Handler, MW!Busy
<1>4. call[h] = FA!Preparing(Asset[slot[h].route], e.senderAddress, OptionsOf(h))
      /\ e.senderAddress \in Senders /\ e.commitment = None
  BY <1>1, <1>3, PreparingCall DEF Coupled, Prepares
<1>5. /\ o = OptionsOf(h) /\ o.nonce = n /\ o.createdAt = e.createdAt /\ o.timeoutMs = e.timeoutMs
      /\ call[h].senderAddress = e.senderAddress /\ call[h].tokenAddress = Asset[slot[h].route]
  BY <1>4 DEF FA!Preparing, OptionsOf
<1>6. e.createdAt \in Nat /\ e.timeoutMs \in Nat
  BY <1>3 DEF MW!Entry
<1>7. FA!ExpiresAt(o) = e.createdAt + e.timeoutMs
  BY <1>5, <1>6, ChainAssumption DEF FA!ExpiresAt
<1>8. /\ pending.senderAddress = e.senderAddress /\ pending.nonce = n
      /\ pending.expiresAt = e.createdAt + e.timeoutMs
      /\ pending \in FA!PendingCommitment /\ pending # None
  BY <1>3, <1>4, <1>5, <1>6, <1>7, RouteAssumption, NoneAssumption DEF FA!PendingCommitment
<1> HIDE DEF pending
<1>9. x.pc = "prepared" /\ x.commitment = c /\ \E d \in Commitments \cup {None} : x = FA!Prepared(d)
  BY DEF FA!Prepared
<1> HIDE DEF x
<1>10. /\ slot' = [slot EXCEPT ![h] = slot[h]] /\ lookup' = [lookup EXCEPT ![h] = lookup[h]]
  BY <1>1 DEF Inv, Linked, Owned, MW!TypeOK
<1>11. /\ slot'[h] = slot[h] /\ call'[h] = x /\ lookup'[h] = lookup[h]
       /\ \A g \in Slots : g # h => Stays(g)
       /\ call' = [g \in Slots |-> call'[g]] /\ lookup' = [g \in Slots |-> lookup'[g]]
  BY <1>1, <1>10, OneMoves
<1>12. /\ bound'[c] = pending /\ pendingCommitments'[c] = pending
       /\ \A d \in Commitments : d # c => /\ bound'[d] = bound[d]
                                         /\ pendingCommitments'[d] = pendingCommitments[d]
       /\ bound' \in [Commitments -> FA!PendingCommitment \cup {None}]
       /\ pendingCommitments' \in [Commitments -> FA!PendingCommitment \cup {None}]
  BY <1>1, <1>8 DEF Inv, Scheme
<1>13. c \notin judged
  BY <1>1 DEF Inv, Scheme
<1>14. Scheme'
  BY <1>1, <1>8, <1>12, <1>13 DEF Inv, Scheme, FA!LiveUntilJudged
<1>15. Dates'
  BY <1>1 DEF Inv, Dates, Dated, MW!Busy
<1>16. Linked'
  <2>1. Coupled(h)'
    BY <1>3, <1>4, <1>9, <1>11 DEF Coupled, Prepares
  <2>2. ASSUME NEW g \in Slots, g # h PROVE Coupled(g)'
    <3>1. Coupled(g) /\ Stays(g)
      BY <1>11, <2>2 DEF Inv, Linked
    <3> QED
      BY <3>1 DEF Stays, Coupled, Prepares, Verifies, LooksUp, OptionsOf, Asked
  <2> QED
    BY <1>11, <2>1, <2>2 DEF Linked
<1>17. Known(h) = None /\ Known(h)' = c /\ \A g \in Slots : g # h => Known(g)' = Known(g)
  BY <1>1, <1>3, <1>4, <1>9, <1>11 DEF Known, Stays
<1>18. ASSUME NEW d \in Commitments, bound[d] # None PROVE bound[d].nonce # n /\ d # c
  BY <1>1, <1>3, <1>17, <1>18, NoneAssumption DEF Inv, OneCommitment, MW!Busy
<1>19. /\ pendingPayments[n] = None /\ challenged[n] # None
       /\ \A g \in Slots : MW!Busy(g) /\ slot[g].nonce = n => g = h
  BY <1>3 DEF Inv, Owned, Issued, MW!ExclusiveClaim, MW!Busy
<1>20. Matched'
  <2>1. ASSUME NEW m, NEW f, NEW d \in Commitments \cup {None}, Match(m, f, d) PROVE Match(m, f, d)'
    BY <1>1, <1>12, <2>1 DEF Match
  <2>2. Match(n, e, c)'
    BY <1>1, <1>8, <1>12 DEF Match
  <2>3. \A m \in Nonces : pendingPayments[m] # None => pendingPayments[m].commitment \in Commitments \cup {None}
    BY DEF Inv, Owned, MW!TypeOK, MW!Entry
  <2>4. ASSUME NEW g \in Slots, MW!Busy(g) PROVE Known(g) \in Commitments \cup {None}
    <3>1. slot[g].entry \in MW!Entry /\ Coupled(g)
      BY DEF Inv, Linked, Owned, MW!TypeOK, MW!Handler
    <3>2. CASE slot[g].pc = "preparing" /\ call[g].pc = "prepared"
      BY <3>1, <3>2, PreparingCall DEF Known, Coupled
    <3>3. CASE ~(slot[g].pc = "preparing" /\ call[g].pc = "prepared")
      BY <3>1, <3>3 DEF Known, MW!Entry
    <3> QED
      BY <3>2, <3>3
  <2> QED
    BY <1>1, <1>17, <2>1, <2>2, <2>3, <2>4 DEF Inv, Matched, MW!Busy
<1>21. OneCommitment'
  <2> SUFFICES ASSUME NEW d \in Commitments, bound'[d] # None
               PROVE  LET m == bound'[d].nonce IN
                      /\ m \in Nonces /\ challenged[m] # None
                      /\ pendingPayments[m] # None => pendingPayments[m].commitment = d
                      /\ \A g \in Slots : MW!Busy(g) /\ slot[g].nonce = m => Known(g)' = d
                      /\ \A b \in Commitments : bound'[b] # None /\ bound'[b].nonce = m => b = d
    BY <1>1 DEF OneCommitment, MW!Busy
  <2>1. CASE d = c
    BY <1>3, <1>8, <1>12, <1>17, <1>18, <1>19, <2>1
  <2>2. CASE d # c
    <3>1. bound'[d] = bound[d] /\ bound[d] # None /\ bound[d].nonce # n
      BY <1>12, <1>18, <2>2
    <3> QED
      BY <1>8, <1>12, <1>17, <3>1 DEF Inv, OneCommitment
  <2> QED
    BY <2>1, <2>2
<1>22. OnChain'
  BY <1>1 DEF Inv, OnChain
<1>23. Redemption'
  <2>1. InOrder(h)'
    BY <1>3, <1>11 DEF InOrder, Paying, FoundValid
  <2>2. ASSUME NEW g \in Slots, g # h PROVE InOrder(g)'
    <3>1. InOrder(g) /\ Stays(g)
      BY <1>11, <2>2 DEF Inv, Redemption
    <3> QED
      BY <1>1, <3>1 DEF Stays, InOrder, Paying, FoundValid
  <2> QED
    BY <1>1, <2>1, <2>2 DEF Inv, Redemption
<1>24. Serving'
  BY <1>1, <1>12 DEF Inv, Serving
<1> QED
  BY <1>2, <1>14, <1>15, <1>16, <1>20, <1>21, <1>22, <1>23, <1>24 DEF Inv

(* The handler that settles is the only one with its commitment.           *)
LEMMA Sole ==
  ASSUME Inv, NEW h \in Slots, slot[h].pc = "settling"
  PROVE  LET n == slot[h].nonce  c == slot[h].entry.commitment IN
         /\ n \in Nonces /\ c \in Commitments /\ bound[c] # None /\ bound[c].nonce = n
         /\ redeemed[c] = <<>> /\ served[n] = 0
         /\ \A g \in Slots : Paying(g) /\ slot[g].entry.commitment = c => g = h
<1> DEFINE n == slot[h].nonce
<1> DEFINE c == slot[h].entry.commitment
<1>1. MW!Busy(h) /\ n \in Nonces /\ Coupled(h) /\ InOrder(h) /\ Known(h) = c
  BY DEF Inv, Linked, Redemption, Owned, MW!TypeOK, MW!Busy, Known
<1>2. c \in Commitments /\ redeemed[c] = <<>>
  BY <1>1 DEF Coupled, InOrder, Paying
<1>3. bound[c] # None /\ bound[c].nonce = n
  BY <1>1, <1>2, NoneAssumption DEF Inv, Matched, Match
<1>4. served[n] = 0
  BY <1>1, <1>2, <1>3 DEF Inv, Serving, OneCommitment
<1>5. ASSUME NEW g \in Slots, Paying(g), slot[g].entry.commitment = c PROVE g = h
  <2>1. MW!Busy(g) /\ Known(g) = c
    BY <1>5 DEF Paying, MW!Busy, Known
  <2>2. slot[g].nonce = n
    BY <1>2, <1>3, <2>1, NoneAssumption DEF Inv, Matched, Match
  <2> QED
    BY <1>1, <2>1, <2>2 DEF Inv, Owned, MW!ExclusiveClaim
<1> QED
  BY <1>1, <1>2, <1>3, <1>4, <1>5

(* A settlement redeems its commitment, which nobody else can.             *)
LEMMA SettleEndsInv ==
  ASSUME Inv, NEW h \in Slots, SettleEnds(h)
  PROVE  Inv'
<1> DEFINE n == slot[h].nonce
<1> DEFINE c == slot[h].entry.commitment
<1> DEFINE rt == slot[h].route
<1>1. /\ slot[h].pc = "settling" /\ MW!Finish(h)
      /\ served' = [served EXCEPT ![n] = @ + 1]
      /\ \/ pendingPayments' = pendingPayments
         \/ pendingPayments' = MW!Restore(h, c)
      /\ redeemed' = [redeemed EXCEPT ![c] = Append(@, rt)]
      /\ UNCHANGED <<now, challenged, pendingCommitments, call, bound, judged, tx, log, lookup>>
  BY DEF SettleEnds, MW!SettleEnds, MW!AfterServing, faState, sgState
<1>2. Owned'
  BY StaysOwned DEF Next, Running
<1>3. /\ n \in Nonces /\ c \in Commitments /\ bound[c] # None /\ bound[c].nonce = n
      /\ redeemed[c] = <<>> /\ served[n] = 0
      /\ \A g \in Slots : Paying(g) /\ slot[g].entry.commitment = c => g = h
  BY <1>1, Sole
<1>4. /\ call[h] = FA!Idle /\ lookup[h] = SG!NoLookup /\ rt \in Routes /\ c \in judged
      /\ slot[h].entry \in MW!Entry
  BY <1>1 DEF Inv, Linked, Coupled, LooksUp, Redemption, InOrder, Owned, MW!TypeOK, MW!Handler
<1>5. /\ slot' = [slot EXCEPT ![h] = MW!Idle] /\ call' = [call EXCEPT ![h] = FA!Idle]
      /\ lookup' = [lookup EXCEPT ![h] = lookup[h]]
  BY <1>1, <1>4 DEF MW!Finish, Inv, Linked
<1>6. /\ slot'[h] = MW!Idle /\ call'[h] = FA!Idle /\ lookup'[h] = lookup[h]
      /\ \A g \in Slots : g # h => Stays(g)
      /\ call' = [g \in Slots |-> call'[g]] /\ lookup' = [g \in Slots |-> lookup'[g]]
  BY <1>5, OneMoves
<1>7. slot'[h].pc = "idle"
  BY <1>6 DEF MW!Idle
<1>8. Coupled(h)' /\ ~MW!Busy(h)'
  BY <1>4, <1>6, <1>7 DEF Coupled, MW!Busy
<1>9. \/ pendingPayments' = pendingPayments
      \/ pendingPayments' = [pendingPayments EXCEPT ![n] = slot[h].entry]
  BY <1>1, <1>4 DEF MW!Restore, MW!Entry
<1>10. MapInherits
  BY <1>1, <1>3, <1>9 DEF MapInherits, Inherited, From, Inv, Owned, MW!TypeOK, MW!Busy, Known
<1>11. \A g \in Slots : Stays(g) \/ Moves(g)
  BY <1>6, <1>8 DEF Moves
<1>12. now' \in 0..MaxTime /\ now <= now'
  BY <1>1 DEF Inv, Dates
<1>13. Dates' /\ Linked' /\ Matched' /\ OneCommitment'
  BY <1>1, <1>2, <1>6, <1>10, <1>11, <1>12, Keeping
<1>14. Scheme' /\ OnChain'
  BY <1>1 DEF Inv, Scheme, FA!LiveUntilJudged, OnChain
<1>15. Append(<<>>, rt) = <<rt>> /\ <<rt>> # <<>>
  BY <1>4
<1>16. /\ redeemed'[c] = <<rt>> /\ \A d \in Commitments : d # c => redeemed'[d] = redeemed[d]
       /\ redeemed' = [d \in Commitments |-> redeemed'[d]]
  BY <1>1, <1>3, <1>15 DEF Inv, Redemption
<1>17. ASSUME NEW g \in Slots PROVE InOrder(g)'
  <2>1. CASE g = h
    BY <1>7, <2>1 DEF InOrder, Paying, FoundValid
  <2>2. CASE g # h
    <3>1. InOrder(g) /\ Stays(g)
      BY <1>6, <2>2 DEF Inv, Redemption
    <3>2. Paying(g) => slot[g].entry.commitment \in Commitments
      BY DEF Paying, Inv, Linked, Coupled, Verifies, FA!Failed
    <3> QED
      BY <1>1, <1>3, <1>16, <2>2, <3>1, <3>2 DEF Stays, InOrder, Paying, FoundValid
  <2> QED
    BY <2>1, <2>2
<1>18. Redemption'
  BY <1>1, <1>4, <1>15, <1>16, <1>17 DEF Inv, Redemption
<1>19. served'[n] = 1 /\ \A m \in Nonces : m # n => served'[m] = served[m]
  BY <1>1, <1>3 DEF Inv, Owned, MW!TypeOK
<1>20. Serving'
  <2> SUFFICES ASSUME NEW m \in Nonces
               PROVE  \/ served'[m] = 0
                      \/ served'[m] = 1 /\ \E d \in Commitments :
                           bound[d] # None /\ bound[d].nonce = m /\ redeemed'[d] # <<>>
    BY <1>1 DEF Serving
  <2>1. CASE m = n
    BY <1>3, <1>15, <1>16, <1>19, <2>1
  <2>2. CASE m # n
    BY <1>15, <1>16, <1>19, <2>2 DEF Inv, Serving
  <2> QED
    BY <2>1, <2>2
<1> QED
  BY <1>2, <1>13, <1>14, <1>18, <1>20 DEF Inv

(* The chain completes a commitment once, for good.                        *)
LEMMA ChainStep ==
  ASSUME Inv, Chain
  PROVE  /\ OnChain'
         /\ \A c \in Commitments : log[c] # None => log'[c] = log[c]
         /\ UNCHANGED <<now, mwState, faState, lookup, redeemed>>
<1>1. UNCHANGED <<now, mwState, faState, redeemed>> /\ lookup' = lookup
  BY DEF Chain, SG!Submit, SG!Mine, SG!DropTx, ledger
<1>2. ASSUME NEW t \in TxHashes, NEW pays \in [Commitments -> Values \cup {None}],
             SG!Submit(t, {c \in Commitments : bound[c] # None}, pays)
      PROVE  OnChain' /\ log' = log
  <2>1. /\ tx[t].status = "absent" /\ tx' = [tx EXCEPT ![t] = [status |-> "pending", pays |-> pays]]
        /\ log' = log
    BY <1>2 DEF SG!Submit
  <2> QED
    BY <2>1 DEF Inv, OnChain
<1>3. ASSUME NEW t \in TxHashes, SG!Mine(t)
      PROVE  OnChain' /\ \A c \in Commitments : log[c] # None => log'[c] = log[c]
  <2>1. tx[t].status = "pending" /\ tx[t].pays \in [Commitments -> Values \cup {None}]
    BY <1>3 DEF SG!Mine, Inv, OnChain
  <2>2. CASE /\ \A c \in Commitments : tx[t].pays[c] # None => log[c] = None
             /\ tx' = [tx EXCEPT ![t].status = "mined"]
             /\ log' = [c \in Commitments |->
                          IF tx[t].pays[c] = None THEN log[c]
                          ELSE [tx |-> t, value |-> tx[t].pays[c]]]
    <3>1. /\ tx' \in [TxHashes -> [status : {"absent", "pending", "mined", "reverted"},
                                  pays : [Commitments -> Values \cup {None}]]]
          /\ tx'[t].status = "mined" /\ \A u \in TxHashes : u # t => tx'[u] = tx[u]
      BY <2>1, <2>2 DEF Inv, OnChain
    <3>2. ASSUME NEW c \in Commitments
          PROVE  /\ log'[c] \in [tx : TxHashes, value : Nat] \cup {None}
                 /\ log'[c] # None => tx'[log'[c].tx].status = "mined"
      <4>1. CASE tx[t].pays[c] = None
        BY <2>1, <2>2, <3>1, <4>1 DEF Inv, OnChain
      <4>2. CASE tx[t].pays[c] # None
        <5>1. tx[t].pays[c] \in Nat /\ log'[c] = [tx |-> t, value |-> tx[t].pays[c]]
          BY <2>1, <2>2, <4>2, ChainAssumption
        <5> QED
          BY <3>1, <5>1
      <4> QED
        BY <4>1, <4>2
    <3>3. log' = [c \in Commitments |-> log'[c]]
      BY <2>2
    <3> QED
      BY <2>2, <3>1, <3>2, <3>3 DEF OnChain
  <2>3. CASE tx' = [tx EXCEPT ![t].status = "reverted"] /\ log' = log
    BY <2>1, <2>3 DEF Inv, OnChain
  <2> QED
    BY <1>3, <2>2, <2>3 DEF SG!Mine
<1>4. ASSUME NEW t \in TxHashes, SG!DropTx(t) PROVE OnChain' /\ log' = log
  <2>1. tx[t].status = "pending" /\ tx' = [tx EXCEPT ![t] = SG!Unsent] /\ log' = log
    BY <1>4 DEF SG!DropTx
  <2>2. SG!Unsent \in [status : {"absent", "pending", "mined", "reverted"},
                       pays : [Commitments -> Values \cup {None}]]
    BY DEF SG!Unsent
  <2> QED
    BY <2>1, <2>2 DEF Inv, OnChain
<1> QED
  BY <1>1, <1>2, <1>3, <1>4 DEF Chain

(* So the chain disturbs nothing the server knows.                         *)
LEMMA ChainInv ==
  ASSUME Inv, Chain
  PROVE  Inv'
<1>1. /\ OnChain' /\ \A c \in Commitments : log[c] # None => log'[c] = log[c]
      /\ UNCHANGED <<now, pendingPayments, slot, challenged, served, pendingCommitments, call, bound,
                     judged, lookup, redeemed>>
  BY ChainStep DEF mwState, faState
<1>2. Owned'
  BY StaysOwned DEF Next, Running
<1>3. \A h \in Slots : Stays(h)
  BY <1>1 DEF Stays
<1>4. MapInherits
  BY <1>1 DEF MapInherits, Inherited, From
<1>5. /\ call' = [h \in Slots |-> call'[h]] /\ lookup' = [h \in Slots |-> lookup'[h]]
      /\ now' \in 0..MaxTime /\ now <= now'
  BY <1>1 DEF Inv, Dates, Linked
<1>6. Dates' /\ Linked' /\ Matched' /\ OneCommitment'
  BY <1>1, <1>2, <1>3, <1>4, <1>5, Keeping
<1>7. Scheme' /\ Serving'
  BY <1>1 DEF Inv, Scheme, FA!LiveUntilJudged, Serving
<1>8. ASSUME NEW h \in Slots PROVE InOrder(h)'
  <2>1. FoundValid(h) => slot[h].entry.commitment \in Commitments
    BY VerifyingCall DEF FoundValid, Inv, Linked, Coupled
  <2> QED
    BY <1>1, <2>1 DEF Inv, Redemption, InOrder, Paying, FoundValid
<1>9. Redemption'
  BY <1>1, <1>8 DEF Inv, Redemption
<1> QED
  BY <1>1, <1>2, <1>6, <1>7, <1>9 DEF Inv

-----------------------------------------------------------------------------
(* Nothing is pending, prepared or redeemed when the process starts.       *)
LEMMA InitInv == Init => Inv
<1> SUFFICES ASSUME Init PROVE Inv
  OBVIOUS
<1>1. /\ now = 0 /\ pendingPayments = [n \in Nonces |-> None]
      /\ slot = [h \in Slots |-> MW!Idle] /\ challenged = [n \in Nonces |-> None]
      /\ served = [n \in Nonces |-> 0] /\ ended = {}
      /\ pendingCommitments = [c \in Commitments |-> None] /\ call = [h \in Slots |-> FA!Idle]
      /\ bound = [c \in Commitments |-> None] /\ judged = {}
      /\ tx = [t \in TxHashes |-> SG!Unsent] /\ log = [c \in Commitments |-> None]
      /\ lookup = [h \in Slots |-> SG!NoLookup] /\ redeemed = [c \in Commitments |-> <<>>]
  BY DEF Init, MW!Init, FA!Init, SG!Init
<1>2. MW!Idle.pc = "idle"
  BY DEF MW!Idle
<1>3. Owned
  BY <1>1, <1>2, IdleType DEF Owned, Issued, MW!TypeOK, MW!ExclusiveClaim, MW!Busy
<1>4. Dates
  BY <1>1, <1>2, TimeAssumption DEF Dates, MW!Busy
<1>5. Scheme
  BY <1>1 DEF Scheme, FA!LiveUntilJudged
<1>6. Linked
  BY <1>1, <1>2 DEF Linked, Coupled
<1>7. Matched /\ OneCommitment
  BY <1>1, <1>2 DEF Matched, OneCommitment, MW!Busy
<1>8. OnChain
  BY <1>1 DEF OnChain, SG!Unsent
<1>9. Redemption /\ Serving
  BY <1>1, <1>2 DEF Redemption, Serving, InOrder, Paying, FoundValid
<1> QED
  BY <1>3, <1>4, <1>5, <1>6, <1>7, <1>8, <1>9 DEF Inv

(* Every step of the server keeps the invariant.                           *)
LEMMA InvStep == Inv /\ [Next]_vars => Inv'
<1> SUFFICES ASSUME Inv, [Next]_vars PROVE Inv'
  OBVIOUS
<1>1. CASE UNCHANGED vars
  <2>1. /\ UNCHANGED <<now, pendingPayments, slot, challenged, served, pendingCommitments, call,
                       bound, judged, tx, log, lookup, redeemed>>
    BY <1>1 DEF vars, mwState, faState, sgState, ledger
  <2>2. MapInherits /\ \A h \in Slots : Stays(h)
    BY <2>1 DEF MapInherits, Inherited, From, Stays
  <2>3. Owned'
    BY StaysOwned
  <2>4. Scheme'
    BY <2>1 DEF Inv, Scheme, FA!LiveUntilJudged
  <2>5. /\ call' = [h \in Slots |-> call'[h]] /\ lookup' = [h \in Slots |-> lookup'[h]]
        /\ now' \in 0..MaxTime /\ now <= now' /\ judged \subseteq judged'
    BY <2>1 DEF Inv, Dates, Linked
  <2> QED
    BY <2>1, <2>2, <2>3, <2>4, <2>5, Turn
<1>2. ASSUME NEW h \in Slots, NEW c \in Commitments \cup {None}, SignerPrepares(h, c) PROVE Inv'
  BY <1>2, PrepareFailsInv, PrepareSucceedsInv
<1> QED
  BY <1>1, <1>2, ChallengeInv, DropExpiredInv, TickInv, RestartInv, PrepareBeginsInv,
     PrepareEndsInv, PayBeginsInv, SignerReadsInv, SignerAnswersInv, VerifyTimesOutInv,
     VerifyEndsInv, SettleEndsInv, ChainInv DEF Next, Running

(* The invariant holds in every reachable state.                           *)
LEMMA Invariance == Spec => []Inv
BY InitInv, InvStep, PTL DEF Spec

-----------------------------------------------------------------------------
(***************************************************************************)
(* The theorems                                                            *)
(***************************************************************************)
(* The composed server is a middleware with some facilitator behind it, so *)
(* what is proved of Middleware holds here (middleware.ts:45-245).         *)
THEOREM ServerIsMiddleware == Spec => MW!Spec
<1>1. Init => MW!Init
  BY DEF Init
<1>2. Inv /\ [Next]_vars => [MW!Next]_(MW!vars)
  BY MiddlewareStep DEF Inv
<1> QED
  BY <1>1, <1>2, Invariance, PTL DEF Spec, MW!Spec

(* And the scheme behind it has a caller that keeps to its interface, so   *)
(* what is proved of Facilitator holds here (scheme.ts:101-346).           *)
THEOREM ServerIsFacilitator == Spec => FA!Spec
<1>1. Init => FA!Init
  BY DEF Init
<1>2. Inv /\ [Next]_vars => [FA!Next]_(FA!vars)
  BY SchemeTurn DEF Inv
<1> QED
  BY <1>1, <1>2, Invariance, PTL DEF Spec, FA!Spec

(* Every request that was served used up one payment, prepared for its     *)
(* nonce, whatever next() throws and however often the process restarts    *)
(* (middleware.ts:189-233, scheme.ts:280-285).                             *)
THEOREM ServiceIsRedeemed == Spec => []ServedIsRedeemed
<1>1. ASSUME Inv PROVE ServedIsRedeemed
  <2> SUFFICES ASSUME NEW n \in Nonces, served[n] > 0
               PROVE  /\ served[n] = 1
                      /\ \E c \in Commitments :
                           bound[c] # None /\ bound[c].nonce = n /\ Len(redeemed[c]) = 1
    BY DEF ServedIsRedeemed
  <2>1. PICK c \in Commitments : bound[c] # None /\ bound[c].nonce = n /\ redeemed[c] # <<>>
    BY <1>1 DEF Inv, Serving
  <2>2. Len(redeemed[c]) = 1
    <3>1. PICK rt \in Routes : redeemed[c] = <<rt>>
      BY <1>1, <2>1 DEF Inv, Redemption
    <3> QED
      BY <3>1
  <2> QED
    BY <1>1, <2>1, <2>2 DEF Inv, Serving
<1> QED
  BY <1>1, Invariance, PTL

(* The map of the middleware and that of the scheme agree on every entry   *)
(* that anyone holds (middleware.ts:105-146, scheme.ts:196-212).           *)
THEOREM EntriesMatch == Spec => []EntryMatchesCommitment
<1>1. ASSUME Inv PROVE EntryMatchesCommitment
  <2>1. ASSUME NEW n \in Nonces, NEW e \in MW!Entry, e.commitment # None,
               Match(n, e, e.commitment)
        PROVE  bound[e.commitment] =
                 [senderAddress |-> e.senderAddress,
                  tokenAddress |-> bound[e.commitment].tokenAddress,
                  nonce |-> n, expiresAt |-> e.createdAt + e.timeoutMs]
    <3>1. e.commitment \in Commitments
      BY <2>1 DEF MW!Entry
    <3>2. bound[e.commitment] \in FA!PendingCommitment
      BY <1>1, <2>1, <3>1 DEF Inv, Scheme, Match
    <3> QED
      BY <2>1, <3>2 DEF Match, FA!PendingCommitment
  <2>2. ASSUME NEW h \in Slots, MW!Busy(h), slot[h].entry.commitment # None
        PROVE  Known(h) = slot[h].entry.commitment
    BY <1>1, <2>2 DEF Inv, Linked, Coupled, Prepares, Known
  <2>3. ASSUME NEW n \in Nonces, NEW e \in MW!Entries(n), e.commitment # None
        PROVE  e \in MW!Entry /\ Match(n, e, e.commitment)
    <3>1. CASE e = pendingPayments[n] /\ e # None
      BY <1>1, <3>1 DEF Inv, Matched, Owned, MW!TypeOK
    <3>2. CASE \E h \in Slots : MW!Busy(h) /\ slot[h].nonce = n /\ e = slot[h].entry
      BY <1>1, <2>2, <2>3, <3>2 DEF Inv, Matched, Owned, MW!TypeOK, MW!Handler
    <3> QED
      BY <2>3, <3>1, <3>2 DEF MW!Entries, MW!Holders
  <2> QED
    BY <2>1, <2>3 DEF EntryMatchesCommitment
<1> QED
  BY <1>1, Invariance, PTL

(* Completing commitments on chain is paying for them.                     *)
LEMMA ChainPays ==
  ASSUME Inv, Chain
  PROVE  PA!Next
<1> DEFINE S == {c \in Commitments : log[c] = None /\ log'[c] # None}
<1>1. /\ OnChain' /\ \A c \in Commitments : log[c] # None => log'[c] = log[c]
      /\ UNCHANGED redeemed
  BY ChainStep
<1>2. /\ Paid = [c \in Commitments |-> IF log[c] = None THEN None ELSE log[c].value]
      /\ Paid' = [c \in Commitments |-> IF log'[c] = None THEN None ELSE log'[c].value]
  BY DEF Paid
<1>3. \A c \in S : Paid[c] = None
  BY <1>2
<1>4. ASSUME NEW c \in Commitments, Paid'[c] # Paid[c] PROVE c \in S /\ Paid'[c] \in Nat
  <2>1. log[c] = None /\ log'[c] # None
    BY <1>1, <1>2, <1>4
  <2>2. log'[c] \in [tx : TxHashes, value : Nat]
    BY <1>1, <2>1 DEF OnChain
  <2> QED
    BY <1>2, <2>1, <2>2
<1>5. DOMAIN Paid' = Commitments
  BY <1>2
<1> HIDE DEF S
<1>6. PA!Pay(S)
  BY <1>1, <1>3, <1>4, <1>5 DEF PA!Pay
<1>7. S \in SUBSET Commitments
  BY DEF S
<1> QED
  BY <1>6, <1>7 DEF PA!Next

(* Settling redeems a payment that covers the route and was not redeemed.  *)
LEMMA SettleRedeems ==
  ASSUME Inv, NEW h \in Slots, SettleEnds(h)
  PROVE  PA!Next
<1> DEFINE c == slot[h].entry.commitment
<1> DEFINE rt == slot[h].route
<1>1. /\ slot[h].pc = "settling" /\ redeemed' = [redeemed EXCEPT ![c] = Append(@, rt)]
      /\ log' = log
  BY DEF SettleEnds, MW!SettleEnds, sgState
<1>2. c \in Commitments /\ redeemed[c] = <<>>
  BY <1>1, Sole
<1>3. rt \in Routes /\ log[c] # None /\ log[c].value >= Price[rt]
  BY <1>1 DEF Inv, Linked, Coupled, Redemption, InOrder, FoundValid
<1>4. Paid[c] = log[c].value /\ Paid' = Paid
  BY <1>1, <1>2, <1>3 DEF Paid
<1>5. log[c].value \in Nat
  BY <1>2, <1>3 DEF Inv, OnChain
<1>6. Paid[c] # None
  BY <1>4, <1>5, ChainAssumption
<1>7. redeemed' = [redeemed EXCEPT ![c] = <<rt>>]
  BY <1>1, <1>2, <1>3
<1>8. PA!Redeem(c, rt)
  BY <1>2, <1>3, <1>4, <1>6, <1>7 DEF PA!Redeem
<1> QED
  BY <1>2, <1>3, <1>8 DEF PA!Next

(* All other steps are invisible to the payers.                            *)
LEMMA PaidAccessStep == Inv /\ [Next]_vars => [PA!Next]_(PA!vars)
<1> SUFFICES ASSUME Inv, [Next]_vars, ~(UNCHANGED <<log, redeemed>>) PROVE PA!Next
  BY DEF PA!vars, Paid
<1>1. Chain \/ \E h \in Slots : SettleEnds(h)
  <2> USE DEF sgState, ledger
  <2>1. ASSUME NEW n \in Nonces, NEW rt \in Routes, Challenge(n, rt) \/ DropExpired(n) PROVE FALSE
    BY <2>1 DEF Challenge, DropExpired
  <2>2. ASSUME NEW n \in Nonces, DropExpired(n) PROVE FALSE
    BY <2>2 DEF DropExpired
  <2>3. ASSUME NEW h \in Slots, NEW n \in Nonces, NEW s \in Senders, NEW rt \in Routes,
               PrepareBegins(h, n, s, rt)
        PROVE  FALSE
    BY <2>3 DEF PrepareBegins
  <2>4. ASSUME NEW h \in Slots, NEW c \in Commitments \cup {None}, SignerPrepares(h, c) PROVE FALSE
    BY <2>4 DEF SignerPrepares
  <2>5. ASSUME NEW h \in Slots, NEW n \in Nonces, NEW p \in Payments, NEW rt \in Routes,
               PayBegins(h, n, p, rt)
        PROVE  FALSE
    BY <2>5 DEF PayBegins, SG!LookupBegins, SG!chain
  <2>6. ASSUME NEW h \in Slots, PrepareEnds(h) \/ VerifyEnds(h) PROVE FALSE
    BY <2>6 DEF PrepareEnds, VerifyEnds
  <2>7. ASSUME NEW h \in Slots,
               SignerReads(h) \/ SignerMisled(h) \/ SignerAnswers(h) \/ VerifyTimesOut(h)
        PROVE  FALSE
    BY <2>7 DEF SignerReads, SignerMisled, SignerAnswers, VerifyTimesOut, SG!ReceiptRead,
       SG!NodeAnswers, SG!NodeLags, SG!LookupEnds, SG!Abandon, SG!chain
  <2>8. ASSUME Restart \/ Tick \/ UNCHANGED vars PROVE FALSE
    BY <2>8 DEF Restart, Tick, vars, SG!Crash, SG!chain
  <2> QED
    BY <2>1, <2>2, <2>3, <2>4, <2>5, <2>6, <2>7, <2>8 DEF Next, Running
<1> QED
  BY <1>1, ChainPays, SettleRedeems

(* The server redeems a payment at most once, for a route whose price it   *)
(* covers, and only after it was made on chain, through every interleaving *)
(* of prepares, payments, timeouts and restarts (middleware.ts:189-241,    *)
(* scheme.ts:251-346, facilitator-signer.ts:72-196).                       *)
THEOREM ServerImplementsPaidAccess == Spec => ImplementsPaidAccess
<1>1. ASSUME Init PROVE PA!Init
  <2>1. log = [c \in Commitments |-> None] /\ redeemed = [c \in Commitments |-> <<>>]
    BY <1>1 DEF Init, SG!Init
  <2> QED
    BY <2>1 DEF PA!Init, Paid
<1> QED
  BY <1>1, PaidAccessStep, Invariance, PTL DEF Spec, ImplementsPaidAccess, PA!Spec

-----------------------------------------------------------------------------
(***************************************************************************)
(* What is put back for a retry is still in the scheme                     *)
(***************************************************************************)
(* One handler h moves, for nonce n, and only a commitment of n is judged. *)
LEMMA UnjudgedTurn ==
  ASSUME Inv, Unjudged, NEW h \in Slots, NEW n \in Nonces,
         \A g \in Slots : g # h => Stays(g),
         \A g \in Slots : g # h /\ MW!Busy(g) => slot[g].nonce # n,
         \A m \in Nonces : m # n => pendingPayments'[m] \in {None, pendingPayments[m]},
         \A c \in judged' : c \in judged \/ (c \in Commitments /\ bound[c] # None /\ bound[c].nonce = n),
         pendingPayments'[n] # None => pendingPayments'[n].commitment \notin judged',
         MayRestore(h)' => Known(h)' \notin judged'
  PROVE  Unjudged'
<1>1. ASSUME NEW m \in Nonces, pendingPayments'[m] # None
      PROVE  pendingPayments'[m].commitment \notin judged'
  <2>1. CASE m # n
    <3>1. pendingPayments'[m] = pendingPayments[m] /\ pendingPayments[m] # None
      BY <1>1, <2>1
    <3>2. Match(m, pendingPayments[m], pendingPayments[m].commitment)
          /\ pendingPayments[m].commitment \notin judged
      BY <3>1 DEF Inv, Matched, Unjudged
    <3> QED
      BY <2>1, <3>1, <3>2, NoneAssumption DEF Match
  <2> QED
    BY <1>1, <2>1
<1>2. ASSUME NEW g \in Slots, MayRestore(g)' PROVE Known(g)' \notin judged'
  <2>1. CASE g # h
    <3>1. MayRestore(g) /\ MW!Busy(g) /\ Known(g)' = Known(g)
      BY <1>2, <2>1 DEF Stays, MayRestore, MW!Busy, Known
    <3>2. Match(slot[g].nonce, slot[g].entry, Known(g)) /\ Known(g) \notin judged
      BY <3>1 DEF Inv, Matched, Unjudged
    <3> QED
      BY <2>1, <3>1, <3>2, NoneAssumption DEF Match
  <2> QED
    BY <1>2, <2>1
<1> QED
  BY <1>1, <1>2 DEF Unjudged

(* What no handler has a part in.                                          *)
LEMMA UnjudgedQuiet ==
  ASSUME Unjudged, Scheme, judged' = judged, slot' = slot, call' = call,
         \A m \in Nonces : pendingPayments'[m] # None =>
           \/ pendingPayments'[m] = pendingPayments[m]
           \/ pendingPayments'[m].commitment = None
  PROVE  Unjudged'
<1>1. None \notin judged
  BY NoneAssumption DEF Scheme
<1> QED
  BY <1>1 DEF Unjudged, MayRestore, Known

(* A handler that is not idle, and its nonce.                              *)
LEMMA BusyFacts ==
  ASSUME Inv, NEW h \in Slots, MW!Busy(h)
  PROVE  /\ slot[h].nonce \in Nonces /\ slot[h].entry \in MW!Entry
         /\ pendingPayments[slot[h].nonce] = None
         /\ \A g \in Slots : g # h /\ MW!Busy(g) => slot[g].nonce # slot[h].nonce
         /\ Known(h) \in Commitments => bound[Known(h)] # None /\ bound[Known(h)].nonce = slot[h].nonce
<1>1. Match(slot[h].nonce, slot[h].entry, Known(h))
  BY DEF Inv, Matched
<1> QED
  BY <1>1, NoneAssumption DEF Match, Inv, Owned, MW!TypeOK, MW!Handler, MW!ExclusiveClaim

(* No step leaves a judged commitment where it can be presented again.     *)
LEMMA UnjudgedStep ==
  ASSUME NextMayThrow = FALSE, Inv, Unjudged, [Next]_vars
  PROVE  Unjudged'
<1> USE DEF FA!scheme, FA!observed
<1>0. None \notin judged /\ Scheme
  BY NoneAssumption DEF Inv, Scheme
<1>1. ASSUME NEW n \in Nonces, NEW rt \in Routes, Challenge(n, rt) PROVE Unjudged'
  <2>1. UNCHANGED <<slot, call, judged>>
    BY <1>1 DEF Challenge, MW!Challenge, faState
  <2>2. \A m \in Nonces : pendingPayments'[m] # None =>
          pendingPayments'[m] = pendingPayments[m] \/ pendingPayments'[m].commitment = None
    BY <1>1 DEF Challenge, MW!Challenge, MW!NewEntry, MW!NoEntry
  <2> QED
    BY <1>0, <2>1, <2>2, UnjudgedQuiet
<1>2. ASSUME NEW n \in Nonces, DropExpired(n) PROVE Unjudged'
  <2>1. UNCHANGED <<slot, call, judged>>
    BY <1>2 DEF DropExpired, MW!DropExpired, faState
  <2>2. \A m \in Nonces : pendingPayments'[m] # None => pendingPayments'[m] = pendingPayments[m]
    BY <1>2 DEF DropExpired, MW!DropExpired, MW!Claim, Inv, Owned, MW!TypeOK
  <2> QED
    BY <1>0, <2>1, <2>2, UnjudgedQuiet
<1>3. ASSUME NEW h \in Slots, NEW n \in Nonces, NEW s \in Senders, NEW rt \in Routes,
             PrepareBegins(h, n, s, rt)
      PROVE  Unjudged'
  <2> DEFINE e == MW!BindSender(pendingPayments[n], s)
  <2> DEFINE a == [MW!Idle EXCEPT !.pc = "preparing", !.nonce = n, !.route = rt, !.entry = e]
  <2> DEFINE x == FA!Preparing(Asset[rt], s, [nonce |-> n, createdAt |-> pendingPayments[n].createdAt,
                                              timeoutMs |-> pendingPayments[n].timeoutMs])
  <2>1. /\ pendingPayments[n] # None /\ pendingPayments[n].commitment = None
        /\ pendingPayments' = MW!Claim(n) /\ slot' = [slot EXCEPT ![h] = a]
        /\ call' = [call EXCEPT ![h] = x] /\ judged' = judged /\ lookup' = lookup
    BY <1>3 DEF PrepareBegins, MW!PrepareBegins, MW!MayPrepare, FA!PrepareBegins, sgState
  <2>2. a.pc = "preparing" /\ a.entry = e /\ x.pc = "preparing"
    BY DEF MW!Idle, FA!Preparing
  <2>3. e.commitment = None
    BY <2>1 DEF MW!BindSender, Inv, Owned, MW!TypeOK, MW!Entry
  <2> HIDE DEF a, e, x
  <2>4. slot'[h] = a /\ call'[h] = x /\ \A g \in Slots : g # h => Stays(g)
    BY <2>1 DEF Inv, Linked, Owned, MW!TypeOK, Stays
  <2>5. Known(h)' = None
    BY <2>2, <2>3, <2>4 DEF Known
  <2>6. \A g \in Slots : MW!Busy(g) => slot[g].nonce # n
    BY <2>1 DEF Inv, Owned, MW!ExclusiveClaim
  <2>7. pendingPayments'[n] = None /\ \A m \in Nonces : m # n => pendingPayments'[m] = pendingPayments[m]
    BY <2>1 DEF MW!Claim, Inv, Owned, MW!TypeOK
  <2> QED
    BY <1>0, <2>1, <2>4, <2>5, <2>6, <2>7, UnjudgedTurn
<1>4. ASSUME NEW h \in Slots, NEW c \in Commitments \cup {None}, SignerPrepares(h, c) PROVE Unjudged'
  <2>1. /\ call' = [call EXCEPT ![h] = FA!Prepared(c)]
        /\ c # None => bound[c] = None
        /\ UNCHANGED <<slot, pendingPayments, judged, lookup>> /\ call[h].pc = "preparing"
    BY <1>4 DEF SignerPrepares, FA!PrepareFails, FA!PrepareSucceeds, mwState, sgState
  <2>2. slot[h].pc = "preparing"
    BY <2>1, CallOfPreparing
  <2>3. call'[h] = FA!Prepared(c) /\ \A g \in Slots : g # h => Stays(g)
    BY <2>1 DEF Inv, Linked, Stays
  <2>4. Known(h)' = c
    BY <2>1, <2>2, <2>3 DEF Known, FA!Prepared
  <2>5. c \notin judged
    BY <1>0, <2>1 DEF Inv, Scheme
  <2>6. MW!Busy(h)
    BY <2>2 DEF MW!Busy
  <2> DEFINE n == slot[h].nonce
  <2>7. /\ n \in Nonces /\ pendingPayments[n] = None
        /\ \A g \in Slots : g # h /\ MW!Busy(g) => slot[g].nonce # n
    BY <2>6, BusyFacts
  <2> HIDE DEF n
  <2> QED
    BY <2>1, <2>3, <2>4, <2>5, <2>7, UnjudgedTurn
<1>5. ASSUME NEW h \in Slots, NEW n \in Nonces, NEW p \in Payments, NEW rt \in Routes,
             PayBegins(h, n, p, rt)
      PROVE  Unjudged'
  <2> DEFINE e == pendingPayments[n]
  <2> DEFINE q == RequirementsOf(rt, n, e.commitment)
  <2>1. /\ e # None /\ pendingPayments' = MW!Claim(n)
        /\ slot' = [slot EXCEPT ![h] = [pc |-> "verifying", nonce |-> n, route |-> rt,
                                        entry |-> e, payment |-> p]]
    BY <1>5 DEF PayBegins, MW!PayBegins
  <2>2. /\ \A g \in Slots : MW!Busy(g) => slot[g].nonce # n
        /\ pendingPayments'[n] = None
        /\ \A m \in Nonces : m # n => pendingPayments'[m] = pendingPayments[m]
    BY <2>1 DEF Inv, Owned, MW!TypeOK, MW!ExclusiveClaim, MW!Claim
  <2>3. /\ slot'[h].pc = "verifying" /\ slot'[h].entry = e
        /\ \A g \in Slots : g # h => slot'[g] = slot[g]
    BY <2>1 DEF Inv, Owned, MW!TypeOK
  <2>4. e.commitment \notin judged /\ Match(n, e, e.commitment)
    BY <2>1 DEF Unjudged, Inv, Matched
  <2>5. q.commitment = e.commitment
    BY DEF RequirementsOf
  <2>6. \/ /\ call' = [call EXCEPT ![h] = FA!Failed("invalid")] /\ lookup' = lookup
           /\ judged' = judged \cup {c \in Commitments : c = q.commitment /\ bound[c] # None}
        \/ /\ judged' = judged /\ \E x, l : call' = [call EXCEPT ![h] = x] /\ lookup' = [lookup EXCEPT ![h] = l]
    <3>1. CASE FA!VerifyRefused(h, p, q) /\ UNCHANGED sgState
      BY <3>1 DEF FA!VerifyRefused, FA!Judge, sgState
    <3>2. CASE FA!VerifyBusy(h, p, q) /\ UNCHANGED sgState
      <4>1. judged' = judged /\ call' = [call EXCEPT ![h] = FA!Failed("retryable")] /\ lookup' = lookup
        BY <3>2 DEF FA!VerifyBusy, sgState
      <4>2. lookup' = [lookup EXCEPT ![h] = lookup[h]]
        BY <4>1 DEF Inv, Linked
      <4> QED
        BY <4>1, <4>2
    <3>3. CASE FA!VerifyBegins(h, p, q) /\ SG!LookupBegins(h, p.txHash, q.asset, q.amount, q.commitment)
      BY <3>3 DEF FA!VerifyBegins, SG!LookupBegins
    <3> QED
      BY <1>5, <3>1, <3>2, <3>3 DEF PayBegins
  <2>7. \A g \in Slots : g # h => Stays(g)
    BY <2>3, <2>6 DEF Inv, Linked, Stays
  <2>8. Known(h)' = e.commitment
    BY <2>3 DEF Known
  <2>9. CASE call' = [call EXCEPT ![h] = FA!Failed("invalid")]
             /\ judged' = judged \cup {c \in Commitments : c = q.commitment /\ bound[c] # None}
    <3>1. call'[h] = FA!Failed("invalid")
      BY <2>9 DEF Inv, Linked
    <3>2. ~MayRestore(h)'
      BY <2>3, <3>1 DEF MayRestore, FA!Failed
    <3>3. \A c \in judged' : c \in judged \/ (c \in Commitments /\ bound[c] # None /\ bound[c].nonce = n)
      BY <2>4, <2>5, <2>9, NoneAssumption DEF Match
    <3> QED
      BY <2>2, <2>7, <3>2, <3>3, UnjudgedTurn
  <2>10. CASE judged' = judged
    BY <2>2, <2>4, <2>7, <2>8, <2>10, UnjudgedTurn
  <2> QED
    BY <2>6, <2>9, <2>10
<1>6. ASSUME NEW h \in Slots, MW!Busy(h), MW!Finish(h), call' = [call EXCEPT ![h] = FA!Idle],
             UNCHANGED <<judged, lookup>>,
             \/ pendingPayments' = pendingPayments
             \/ MayRestore(h) /\ pendingPayments' = MW!Restore(h, Known(h))
      PROVE  Unjudged'
  <2> DEFINE n == slot[h].nonce
  <2>1. /\ n \in Nonces /\ slot[h].entry \in MW!Entry /\ pendingPayments[n] = None
        /\ \A g \in Slots : g # h /\ MW!Busy(g) => slot[g].nonce # n
    BY <1>6, BusyFacts
  <2>2. slot'[h].pc = "idle" /\ \A g \in Slots : g # h => Stays(g)
    BY <1>6 DEF MW!Finish, MW!Idle, Stays, Inv, Linked, Owned, MW!TypeOK
  <2>3. ~MayRestore(h)'
    BY <2>2 DEF MayRestore
  <2>4. \A m \in Nonces : m # n => pendingPayments'[m] = pendingPayments[m]
    BY <1>6 DEF MW!Restore, Inv, Owned, MW!TypeOK
  <2>5. pendingPayments'[n] # None => pendingPayments'[n].commitment \notin judged'
    <3>1. CASE pendingPayments' = pendingPayments
      BY <2>1, <3>1
    <3>2. CASE MayRestore(h) /\ pendingPayments' = MW!Restore(h, Known(h))
      <4>1. pendingPayments'[n] = [slot[h].entry EXCEPT !.commitment = Known(h)]
        BY <2>1, <3>2 DEF MW!Restore, Inv, Owned, MW!TypeOK
      <4>2. pendingPayments'[n].commitment = Known(h)
        BY <2>1, <4>1 DEF MW!Entry
      <4> QED
        BY <1>6, <3>2, <4>2 DEF Unjudged
    <3> QED
      BY <1>6, <3>1, <3>2
  <2> HIDE DEF n
  <2> QED
    BY <1>6, <2>1, <2>2, <2>3, <2>4, <2>5, UnjudgedTurn
<1>7. ASSUME NEW h \in Slots, PrepareEnds(h) PROVE Unjudged'
  BY <1>6, <1>7 DEF PrepareEnds, MW!PrepareEnds, FA!Return, MW!Busy, MayRestore, Known, sgState
<1>8. ASSUME NEW h \in Slots, SettleEnds(h) PROVE Unjudged'
  <2>1. /\ slot[h].pc = "settling" /\ MW!Finish(h) /\ pendingPayments' = pendingPayments
        /\ UNCHANGED <<call, judged, lookup>>
    BY <1>8 DEF SettleEnds, MW!SettleEnds, MW!AfterServing, faState, sgState
  <2>2. call' = [call EXCEPT ![h] = FA!Idle]
    BY <2>1 DEF Inv, Linked, Coupled
  <2> QED
    BY <1>6, <2>1, <2>2 DEF MW!Busy
<1>9. ASSUME NEW h \in Slots, SignerReads(h) \/ SignerMisled(h) PROVE Unjudged'
  <2>1. UNCHANGED <<slot, call, judged, pendingPayments>>
    BY <1>9 DEF SignerReads, SignerMisled, mwState, faState
  <2> QED
    BY <1>0, <2>1, UnjudgedQuiet
<1>10. ASSUME Tick \/ Chain \/ UNCHANGED vars PROVE Unjudged'
  <2>1. UNCHANGED <<slot, call, judged, pendingPayments>>
    BY <1>10 DEF Tick, Chain, vars, mwState, faState, MW!Tick, FA!Tick
  <2> QED
    BY <1>0, <2>1, UnjudgedQuiet
<1>11. ASSUME NEW h \in Slots, NEW answer \in {"valid", "invalid", "retryable"},
              FA!VerifyEnds(h, answer), lookup' = [lookup EXCEPT ![h] = SG!NoLookup],
              UNCHANGED mwState
       PROVE  Unjudged'
  <2> DEFINE c == slot[h].entry.commitment
  <2> DEFINE n == slot[h].nonce
  <2>1. /\ call[h].pc = "verifying" /\ UNCHANGED <<slot, pendingPayments>>
        /\ \E x : call' = [call EXCEPT ![h] = x]
    BY <1>11 DEF FA!VerifyEnds, mwState
  <2>2. /\ slot[h].pc = "verifying" /\ c \in Commitments /\ call[h].requirements.commitment = c
    BY <2>1, VerifyingCall
  <2>3. MayRestore(h) /\ MW!Busy(h) /\ Known(h) = c /\ Known(h)' = c
    BY <2>1, <2>2 DEF MayRestore, MW!Busy, Known
  <2>4. /\ n \in Nonces /\ pendingPayments[n] = None /\ bound[c] # None /\ bound[c].nonce = n
        /\ \A g \in Slots : g # h /\ MW!Busy(g) => slot[g].nonce # n
    BY <2>2, <2>3, BusyFacts
  <2>5. c \notin judged
    BY <2>3 DEF Unjudged
  <2>6. \A g \in Slots : g # h => Stays(g)
    BY <1>11, <2>1 DEF Stays, Inv, Linked
  <2>7. CASE answer = "invalid"
    <3>1. /\ call' = [call EXCEPT ![h] = FA!Failed("invalid")]
          /\ judged' = judged \cup {d \in Commitments : d = c /\ bound[d] # None}
      BY <1>11, <2>2, <2>7 DEF FA!VerifyEnds, FA!Judge
    <3>2. call'[h] = FA!Failed("invalid")
      BY <3>1 DEF Inv, Linked
    <3>3. ~MayRestore(h)'
      BY <2>1, <2>2, <3>2 DEF MayRestore, FA!Failed
    <3> HIDE DEF c, n
    <3> QED
      BY <2>1, <2>4, <2>6, <3>1, <3>3, UnjudgedTurn
  <2>8. CASE answer # "invalid"
    <3>1. judged' = judged
      BY <1>11, <2>8 DEF FA!VerifyEnds
    <3> HIDE DEF c, n
    <3> QED
      BY <2>1, <2>3, <2>4, <2>5, <2>6, <3>1, UnjudgedTurn
  <2> QED
    BY <2>7, <2>8
<1>12. ASSUME NEW h \in Slots, SignerAnswers(h) PROVE Unjudged'
  <2>1. PICK answer \in {"valid", "invalid", "retryable"} :
          SG!LookupEnds(h, answer) /\ FA!VerifyEnds(h, answer)
    BY <1>12 DEF SignerAnswers
  <2> QED
    BY <1>11, <1>12, <2>1 DEF SignerAnswers, SG!LookupEnds
<1>13. ASSUME NEW h \in Slots, VerifyTimesOut(h) PROVE Unjudged'
  BY <1>11, <1>13 DEF VerifyTimesOut, FA!VerifyTimesOut, SG!Abandon
<1>14. ASSUME NEW h \in Slots, VerifyEnds(h) PROVE Unjudged'
  <2>1. slot[h].pc = "verifying" /\ MW!Busy(h) /\ lookup' = lookup
    BY <1>14 DEF VerifyEnds, MW!VerifyEnds, MW!Busy, sgState
  <2>2. CASE call[h].pc = "valid" /\ MW!VerifyEnds(h, "valid") /\ FA!Settle(h)
    <3> DEFINE c == slot[h].entry.commitment
    <3> DEFINE n == slot[h].nonce
    <3>1. c \in Commitments /\ call[h].requirements.commitment = c
      BY <2>2, VerifyingCall
    <3>2. /\ pendingPayments' = pendingPayments /\ slot' = [slot EXCEPT ![h].pc = "settling"]
          /\ judged' = judged \cup {c} /\ call' = [call EXCEPT ![h] = FA!Idle]
      BY <2>2, <3>1 DEF MW!VerifyEnds, FA!Settle
    <3>3. Known(h) = c
      BY <2>1 DEF Known
    <3>4. /\ n \in Nonces /\ pendingPayments[n] = None /\ bound[c] # None /\ bound[c].nonce = n
          /\ \A g \in Slots : g # h /\ MW!Busy(g) => slot[g].nonce # n
      BY <2>1, <3>1, <3>3, BusyFacts
    <3>5. slot'[h].pc = "settling" /\ \A g \in Slots : g # h => Stays(g)
      BY <2>1, <3>2 DEF Stays, Inv, Linked, Owned, MW!TypeOK, MW!Handler
    <3>6. ~MayRestore(h)'
      BY <3>5 DEF MayRestore
    <3> HIDE DEF c, n
    <3> QED
      BY <3>1, <3>2, <3>4, <3>5, <3>6, UnjudgedTurn
  <2>3. CASE call[h].pc = "failed" /\ MW!VerifyEnds(h, call[h].outcome) /\ FA!Return(h)
    <3>1. call' = [call EXCEPT ![h] = FA!Idle] /\ judged' = judged
      BY <2>3 DEF FA!Return
    <3>2. call[h].outcome \in {"invalid", "retryable"}
          /\ (call[h].outcome = "retryable" => call[h] = FA!Failed("retryable"))
      BY <2>1, <2>3 DEF Inv, Linked, Coupled, Verifies, FA!Failed
    <3>3. Known(h) = slot[h].entry.commitment
      BY <2>1 DEF Known
    <3>4. /\ MW!Finish(h)
          /\ \/ pendingPayments' = pendingPayments
             \/ MayRestore(h) /\ pendingPayments' = MW!Restore(h, Known(h))
      BY <2>1, <2>3, <3>2, <3>3 DEF MW!VerifyEnds, MayRestore
    <3> QED
      BY <1>6, <2>1, <3>1, <3>4
  <2> QED
    BY <1>14, <2>2, <2>3 DEF VerifyEnds
<1>15. CASE Restart
  <2>1. /\ pendingPayments' = [n \in Nonces |-> None] /\ slot' = [h \in Slots |-> MW!Idle]
    BY <1>15 DEF Restart, MW!Restart
  <2>2. \A h \in Slots : slot'[h].pc = "idle"
    BY <2>1 DEF MW!Idle
  <2> QED
    BY <2>1, <2>2 DEF Unjudged, MayRestore
<1> QED
  BY <1>1, <1>2, <1>3, <1>4, <1>5, <1>7, <1>8, <1>9, <1>10, <1>12, <1>13, <1>14, <1>15
     DEF Next, Running

(* When next() does not throw, a nonce that is put back for a retry leads  *)
(* to a commitment that the scheme still has, to the same last instant     *)
(* (middleware.ts:184, 200-202, 233 and scheme.ts:203, 376).               *)
THEOREM RetriesFindCommitments ==
  ASSUME NextMayThrow = FALSE
  PROVE  Spec => []RetryFindsCommitment
<1>1. ASSUME Init PROVE Unjudged
  BY <1>1 DEF Init, MW!Init, FA!Init, MW!Idle, Unjudged, MayRestore
<1>2. Inv /\ Unjudged /\ [Next]_vars => Unjudged'
  BY UnjudgedStep
<1>3. ASSUME Inv, Unjudged PROVE RetryFindsCommitment
  <2> SUFFICES ASSUME NEW n \in Nonces, pendingPayments[n] # None,
                      pendingPayments[n].commitment # None, ~MW!Expired(pendingPayments[n])
               PROVE  pendingCommitments[pendingPayments[n].commitment] # None
    BY DEF RetryFindsCommitment
  <2> DEFINE c == pendingPayments[n].commitment
  <2>1. Match(n, pendingPayments[n], c) /\ c \notin judged /\ c \in Commitments
    BY <1>3 DEF Inv, Matched, Unjudged, Owned, MW!TypeOK, MW!Entry
  <2>2. bound[c] # None /\ ~(now > bound[c].expiresAt)
    BY <2>1 DEF Match, MW!Expired
  <2> QED
    BY <1>3, <2>1, <2>2 DEF Inv, Scheme, FA!LiveUntilJudged
<1> QED
  BY <1>1, <1>2, <1>3, Invariance, PTL DEF Spec

-----------------------------------------------------------------------------
(***************************************************************************)
(* What is owed is not refused                                             *)
(***************************************************************************)
(* The payment that handler h was given is the one on chain.               *)
OnChainFor(h) ==
  LET c == slot[h].entry.commitment IN
  /\ log[c] # None
  /\ log[c].tx = slot[h].payment.txHash
  /\ log[c].value >= Price[slot[h].route]

(* A payment that is owed is not refused, nor is its refusal on the way.   *)
Debt(h) ==
  owed[h] =>
    /\ call[h] # FA!Failed("invalid")
    /\ call[h].pc = "verifying" =>
         /\ OnChainFor(h)
         /\ lookup[h].pc = "answered" => lookup[h].answer # "invalid"

Debts ==
  /\ owed = [h \in Slots |-> owed[h]]
  /\ \A h \in Slots : Debt(h)

(* What was mined stays on chain.                                          *)
LEMMA LogKept ==
  ASSUME Inv, [Next]_vars, NEW c \in Commitments, log[c] # None
  PROVE  log'[c] = log[c]
<1> USE DEF sgState
<1>1. CASE Chain
  BY <1>1, ChainStep
<1>2. ASSUME NEW h \in Slots,
             SignerReads(h) \/ SignerMisled(h) \/ SignerAnswers(h) \/ VerifyTimesOut(h)
      PROVE  log' = log
  BY <1>2 DEF SignerReads, SignerMisled, SignerAnswers, VerifyTimesOut, SG!ReceiptRead,
     SG!NodeAnswers, SG!NodeLags, SG!LookupEnds, SG!Abandon, SG!chain
<1>3. ASSUME NEW h \in Slots, PrepareEnds(h) \/ VerifyEnds(h) \/ SettleEnds(h) PROVE log' = log
  BY <1>3 DEF PrepareEnds, VerifyEnds, SettleEnds
<1>4. ASSUME NEW h \in Slots, NEW n \in Nonces, NEW p \in Payments, NEW rt \in Routes,
             PayBegins(h, n, p, rt)
      PROVE  log' = log
  BY <1>4 DEF PayBegins, SG!LookupBegins, SG!chain
<1>5. ASSUME NEW h \in Slots, NEW n \in Nonces, NEW s \in Senders, NEW rt \in Routes,
             PrepareBegins(h, n, s, rt)
      PROVE  log' = log
  BY <1>5 DEF PrepareBegins
<1>6. ASSUME NEW n \in Nonces, NEW rt \in Routes, Challenge(n, rt) PROVE log' = log
  BY <1>6 DEF Challenge
<1>7. ASSUME NEW n \in Nonces, DropExpired(n) PROVE log' = log
  BY <1>7 DEF DropExpired
<1>8. ASSUME NEW h \in Slots, NEW d \in Commitments \cup {None}, SignerPrepares(h, d)
      PROVE  log' = log
  BY <1>8 DEF SignerPrepares
<1>9. ASSUME Restart \/ Tick \/ UNCHANGED vars PROVE log' = log
  BY <1>9 DEF Restart, Tick, vars, SG!Crash, SG!chain
<1> QED
  BY <1>1, <1>2, <1>3, <1>4, <1>5, <1>6, <1>7, <1>8, <1>9 DEF Next, Running

(* A handler that stays as it is owes what it did.                         *)
LEMMA DebtStays ==
  ASSUME Inv, [Next]_vars, NEW h \in Slots, Debt(h), Stays(h), owed'[h] = owed[h]
  PROVE  Debt(h)'
<1> SUFFICES ASSUME owed[h]
             PROVE  /\ call[h] # FA!Failed("invalid")
                    /\ call[h].pc = "verifying" =>
                         /\ OnChainFor(h)'
                         /\ lookup[h].pc = "answered" => lookup[h].answer # "invalid"
  BY DEF Debt, Stays
<1>1. ASSUME call[h].pc = "verifying" PROVE OnChainFor(h)'
  <2>1. slot[h].entry.commitment \in Commitments /\ OnChainFor(h)
    BY <1>1, VerifyingCall DEF Debt
  <2>2. log'[slot[h].entry.commitment] = log[slot[h].entry.commitment]
    BY <2>1, LogKept DEF OnChainFor
  <2> QED
    BY <2>1, <2>2 DEF Stays, OnChainFor
<1> QED
  BY <1>1 DEF Debt

(* One whose call is not under way, or not owed, refuses nothing owed.     *)
LEMMA NoDebt ==
  ASSUME NEW h \in Slots,
         \/ owed'[h] = FALSE
         \/ call'[h].pc # "verifying" /\ call'[h] # FA!Failed("invalid")
  PROVE  Debt(h)'
BY DEF Debt

(* A payment that is owed passes the checks of the first turn.             *)
LEMMA OwedIsIssued ==
  ASSUME Inv, Unjudged, NEW n \in Nonces, NEW p \in Payments, NEW rt \in Routes,
         pendingPayments[n] # None, ~MW!Expired(pendingPayments[n]), Owed(n, p, rt)
  PROVE  LET c == pendingPayments[n].commitment IN
         /\ c \in Commitments /\ p.txHash \in TxHashes /\ p.txHash # None
         /\ p.txHash \notin consumedTxHashes
         /\ FA!IssuedFor(p, RequirementsOf(rt, n, c))
<1> DEFINE e == pendingPayments[n]
           c == pendingPayments[n].commitment
           q == RequirementsOf(rt, n, c)
<1>1. /\ c # None /\ log[c] # None /\ log[c].tx = p.txHash
      /\ bound[c].senderAddress = p.senderAddress /\ bound[c].tokenAddress = Asset[rt]
      /\ p.txHash \notin consumedTxHashes
  BY DEF Owed
<1>2. c \in Commitments /\ Match(n, e, c) /\ c \notin judged
  BY <1>1 DEF Inv, Owned, MW!TypeOK, MW!Entry, Matched, Unjudged
<1>3. bound[c] # None /\ bound[c].nonce = n /\ ~(now > bound[c].expiresAt)
  BY <1>1, <1>2 DEF Match, MW!Expired
<1>4. pendingCommitments[c] = bound[c]
  BY <1>2, <1>3 DEF Inv, Scheme, FA!LiveUntilJudged
<1>5. FA!SweptCommitments[c] = bound[c]
  BY <1>2, <1>3, <1>4, Swept
<1>6. q.commitment = c /\ q.nonce = n /\ q.asset = Asset[rt]
  BY <1>1 DEF RequirementsOf
<1> HIDE DEF q
<1>7. FA!IssuedFor(p, q)
  BY <1>1, <1>3, <1>5, <1>6 DEF FA!IssuedFor
<1>8. p.txHash \in TxHashes
  BY <1>1, <1>2 DEF Inv, OnChain
<1> QED
  BY <1>1, <1>2, <1>7, <1>8, NoneAssumption DEF q

(* So it is looked up, or sent away for a retry.                           *)
LEMMA PayBeginsDebt ==
  ASSUME Inv, Unjudged, Debts, NEW h \in Slots, NEW n \in Nonces, NEW p \in Payments,
         NEW rt \in Routes, PayBegins(h, n, p, rt), Owed(n, p, rt)
  PROVE  Debt(h)'
<1> DEFINE c == pendingPayments[n].commitment
           q == RequirementsOf(rt, n, c)
           a == [pc |-> "verifying", nonce |-> n, route |-> rt, entry |-> pendingPayments[n],
                 payment |-> p]
<1>1. /\ pendingPayments[n] # None /\ ~MW!Expired(pendingPayments[n])
      /\ slot' = [slot EXCEPT ![h] = a]
  BY DEF PayBegins, MW!PayBegins
<1>2. /\ c \in Commitments /\ p.txHash \in TxHashes /\ p.txHash # None
      /\ p.txHash \notin consumedTxHashes /\ FA!IssuedFor(p, q)
  BY <1>1, OwedIsIssued
<1>3. q.commitment = c /\ q.asset = Asset[rt] /\ q.amount = Price[rt]
  BY DEF RequirementsOf
<1>4. DOMAIN call = Slots /\ DOMAIN lookup = Slots
  BY DEF Inv, Linked
<1> HIDE DEF q
<1>5. CASE FA!VerifyBusy(h, p, q)
  <2>1. call'[h] = FA!Failed("retryable")
    BY <1>4, <1>5 DEF FA!VerifyBusy
  <2>2. call'[h].pc = "failed" /\ call'[h] # FA!Failed("invalid")
    BY <2>1 DEF FA!Failed
  <2> QED
    BY <2>2, NoDebt
<1>6. CASE FA!VerifyBegins(h, p, q) /\ SG!LookupBegins(h, p.txHash, q.asset, q.amount, q.commitment)
  <2>1. \E t : call' = [call EXCEPT ![h] = FA!Verifying(p, q, t)]
    BY <1>6 DEF FA!VerifyBegins
  <2>2. call'[h].pc = "verifying"
    BY <1>4, <2>1 DEF FA!Verifying
  <2>3. call'[h] # FA!Failed("invalid")
    BY <2>2 DEF FA!Failed
  <2>4. lookup'[h] = SG!Lookup("answered", "retryable", p.txHash, q.amount, q.commitment)
        \/ lookup'[h] = SG!Lookup("receipt", None, p.txHash, q.amount, q.commitment)
    BY <1>2, <1>3, <1>4, <1>6, NoneAssumption DEF SG!LookupBegins, Owed
  <2>5. lookup'[h].pc = "answered" => lookup'[h].answer # "invalid"
    BY <2>4 DEF SG!Lookup
  <2>6. slot'[h] = a
    BY <1>1 DEF Inv, Owned, MW!TypeOK
  <2>7. log' = log
    BY <1>6 DEF SG!LookupBegins, SG!chain
  <2>8. OnChainFor(h)'
    BY <2>6, <2>7 DEF OnChainFor, Owed
  <2> QED
    BY <2>3, <2>5, <2>8 DEF Debt
<1>7. ~FA!VerifyRefused(h, p, q)
  BY <1>2 DEF FA!VerifyRefused
<1> QED
  BY <1>5, <1>6, <1>7 DEF PayBegins, q

(* A read of the node does not deny what is there.                         *)
LEMMA SignerReadsDebt ==
  ASSUME Inv, Debts, NEW h \in Slots, SignerReads(h)
  PROVE  Debt(h)'
<1>1. UNCHANGED <<slot, call, owed, log>> /\ Debt(h) /\ DOMAIN lookup = Slots
  BY DEF SignerReads, SG!ReceiptRead, SG!NodeAnswers, SG!chain, mwState, faState, ledger,
     Debts, Inv, Linked
<1>2. LooksUp(h)
  BY DEF SignerReads, SG!ReceiptRead, SG!NodeAnswers, SG!NoLookup, Inv, Linked, Coupled
<1>3. CASE SG!ReceiptRead(h)
  <2>1. lookup' = [lookup EXCEPT ![h].pc = "logs"]
    BY <1>3 DEF SG!ReceiptRead
  <2>2. lookup'[h].pc = "logs"
    BY <1>1, <1>2, <2>1 DEF LooksUp
  <2> QED
    BY <1>1, <2>2 DEF Debt, OnChainFor
<1>4. ASSUME NEW answer \in {"valid", "invalid", "retryable"}, SG!NodeAnswers(h, answer)
      PROVE  Debt(h)'
  <2>0. /\ lookup' = [lookup EXCEPT ![h].pc = "answered", ![h].answer = answer]
        /\ lookup[h].pc \in {"receipt", "logs"} /\ answer \in SG!Answers(h)
    BY <1>4 DEF SG!NodeAnswers
  <2>1. /\ lookup' = [lookup EXCEPT ![h] =
                        SG!Lookup("answered", answer, @.tx, @.amount, @.commitment)]
        /\ lookup[h].pc \in {"receipt", "logs"} /\ answer \in SG!Answers(h)
    BY <1>2, <2>0, Rewritten
  <2>2. lookup'[h].answer = answer
    BY <1>1, <2>1 DEF SG!Lookup
  <2>3. ASSUME owed[h], answer = "invalid" PROVE FALSE
    <3>1. OnChainFor(h) /\ slot[h].entry.commitment \in Commitments
      BY <1>1, <1>2, <2>3, VerifyingCall DEF Debt, LooksUp
    <3>2. tx[lookup[h].tx].status = "mined"
      BY <1>2, <3>1 DEF Inv, OnChain, LooksUp, OnChainFor
    <3>3. SG!Completed(h)
      BY <1>2, <3>1 DEF SG!Completed, LooksUp, OnChainFor
    <3> QED
      BY <2>1, <2>3, <3>2, <3>3 DEF SG!Answers
  <2> QED
    BY <1>1, <2>2, <2>3 DEF Debt, OnChainFor
<1> QED
  BY <1>3, <1>4 DEF SignerReads

(* Nor does its answer when it arrives, or the timer.                      *)
LEMMA AnswerDebt ==
  ASSUME Inv, Debts, NEW h \in Slots, NEW answer \in {"valid", "invalid", "retryable"},
         FA!VerifyEnds(h, answer),
         owed[h] => answer # "invalid", owed' = owed
  PROVE  Debt(h)'
<1>1. CASE answer = "valid"
  <2>1. \E p, q : call' = [call EXCEPT ![h] = FA!Valid(p, q)]
    BY <1>1 DEF FA!VerifyEnds
  <2>2. call'[h].pc = "valid"
    BY <2>1 DEF FA!Valid, Inv, Linked
  <2>3. call'[h] # FA!Failed("invalid")
    BY <2>2 DEF FA!Failed
  <2> QED
    BY <2>2, <2>3, NoDebt
<1>2. CASE answer = "retryable"
  <2>1. call'[h] = FA!Failed("retryable")
    BY <1>2 DEF FA!VerifyEnds, Inv, Linked
  <2>2. call'[h].pc = "failed" /\ call'[h] # FA!Failed("invalid")
    BY <2>1 DEF FA!Failed
  <2> QED
    BY <2>2, NoDebt
<1>3. CASE answer = "invalid"
  BY <1>3 DEF Debt
<1> QED
  BY <1>1, <1>2, <1>3

(* Only handler h can have come to owe, or to refuse.                      *)
LEMMA DebtsOf ==
  ASSUME Inv, [Next]_vars, Debts, NEW h \in Slots, Debt(h)',
         \A g \in Slots : g # h => Stays(g) /\ owed'[g] = owed[g],
         owed' = [g \in Slots |-> owed'[g]]
  PROVE  Debts'
BY DebtStays DEF Debts

(* A turn of one handler leaves the others as they are.                    *)
LEMMA OthersStay ==
  ASSUME Inv, Debts, NEW h \in Slots,
         slot' = slot \/ (\E a : slot' = [slot EXCEPT ![h] = a]),
         call' = call \/ (\E x : call' = [call EXCEPT ![h] = x]),
         lookup' = lookup \/ (\E l : lookup' = [lookup EXCEPT ![h] = l]),
         owed' = owed \/ (\E b : owed' = [owed EXCEPT ![h] = b])
  PROVE  /\ \A g \in Slots : g # h => Stays(g) /\ owed'[g] = owed[g]
         /\ owed' = [g \in Slots |-> owed'[g]]
<1>1. \A g \in Slots : g # h => slot'[g] = slot[g]
  BY DEF Inv, Owned, MW!TypeOK
<1>2. \A g \in Slots : g # h => call'[g] = call[g]
  BY DEF Inv, Linked
<1>3. \A g \in Slots : g # h => lookup'[g] = lookup[g]
  BY DEF Inv, Linked
<1>4. (\A g \in Slots : g # h => owed'[g] = owed[g]) /\ owed' = [g \in Slots |-> owed'[g]]
  BY DEF Debts
<1> QED
  BY <1>1, <1>2, <1>3, <1>4 DEF Stays

(* No step refuses what is owed.                                           *)
LEMMA DebtsStep ==
  ASSUME Inv, Unjudged, Debts, [Next]_vars
  PROVE  Debts'
<1> USE DEF FA!scheme, FA!observed, ledger
<1>0. /\ FA!Idle.pc = "idle" /\ FA!Idle # FA!Failed("invalid")
      /\ \A k, a, o : FA!Preparing(k, a, o).pc = "preparing"
      /\ \A c : FA!Prepared(c).pc = "prepared" /\ FA!Prepared(c) # FA!Failed("invalid")
      /\ FA!Failed("invalid").pc = "failed"
      /\ DOMAIN call = Slots /\ DOMAIN lookup = Slots /\ DOMAIN owed = Slots /\ DOMAIN slot = Slots
  BY DEF FA!Idle, FA!Failed, FA!Preparing, FA!Prepared, Inv, Linked, Debts, Owned, MW!TypeOK
<1>1. ASSUME UNCHANGED <<slot, call, lookup, owed>> PROVE Debts'
  <2>1. \A h \in Slots : Stays(h) /\ owed'[h] = owed[h] /\ Debt(h)
    BY <1>1 DEF Stays, Debts
  <2>2. \A h \in Slots : Debt(h)'
    BY <2>1, DebtStays
  <2> QED
    BY <1>1, <2>2 DEF Debts
<1>2. ASSUME NEW n \in Nonces, NEW rt \in Routes, Challenge(n, rt) PROVE Debts'
  BY <1>1, <1>2 DEF Challenge, MW!Challenge, faState, sgState
<1>3. ASSUME NEW n \in Nonces, DropExpired(n) PROVE Debts'
  BY <1>1, <1>3 DEF DropExpired, MW!DropExpired, faState, sgState
<1>4. CASE Tick \/ Chain \/ UNCHANGED vars
  <2>1. CASE Chain
    BY <1>1, <2>1, ChainStep DEF Chain, mwState, faState
  <2>2. CASE Tick \/ UNCHANGED vars
    BY <1>1, <2>2 DEF Tick, MW!Tick, FA!Tick, vars, mwState, faState, sgState
  <2> QED
    BY <1>4, <2>1, <2>2
<1>5. ASSUME NEW h \in Slots, NEW n \in Nonces, NEW s \in Senders, NEW rt \in Routes,
             PrepareBegins(h, n, s, rt)
      PROVE  Debts'
  <2>1. /\ \E a : slot' = [slot EXCEPT ![h] = a]
        /\ \E k, a, o : call' = [call EXCEPT ![h] = FA!Preparing(k, a, o)]
        /\ lookup' = lookup /\ owed' = owed
    BY <1>5 DEF PrepareBegins, MW!PrepareBegins, FA!PrepareBegins, sgState
  <2>2. call'[h].pc = "preparing"
    BY <1>0, <2>1
  <2>3. Debt(h)'
    BY <1>0, <2>2, NoDebt
  <2>4. /\ \A g \in Slots : g # h => Stays(g) /\ owed'[g] = owed[g]
        /\ owed' = [g \in Slots |-> owed'[g]]
    BY <2>1, OthersStay
  <2> QED
    BY <2>3, <2>4, DebtsOf
<1>6. ASSUME NEW h \in Slots, NEW c \in Commitments \cup {None}, SignerPrepares(h, c) PROVE Debts'
  <2>1. /\ slot' = slot /\ call' = [call EXCEPT ![h] = FA!Prepared(c)]
        /\ lookup' = lookup /\ owed' = owed
    BY <1>6 DEF SignerPrepares, FA!PrepareFails, FA!PrepareSucceeds, mwState, sgState
  <2>2. call'[h].pc = "prepared"
    BY <1>0, <2>1
  <2>3. Debt(h)'
    BY <1>0, <2>2, NoDebt
  <2>4. /\ \A g \in Slots : g # h => Stays(g) /\ owed'[g] = owed[g]
        /\ owed' = [g \in Slots |-> owed'[g]]
    BY <2>1, OthersStay
  <2> QED
    BY <2>3, <2>4, DebtsOf
<1>7. ASSUME NEW h \in Slots, PrepareEnds(h) PROVE Debts'
  <2>1. /\ \E a : slot' = [slot EXCEPT ![h] = a]
        /\ call' = [call EXCEPT ![h] = FA!Idle]
        /\ lookup' = lookup /\ owed' = owed
    BY <1>7 DEF PrepareEnds, MW!PrepareEnds, MW!Finish, FA!Return, sgState
  <2>2. call'[h] = FA!Idle
    BY <1>0, <2>1
  <2>3. Debt(h)'
    BY <1>0, <2>2, NoDebt
  <2>4. /\ \A g \in Slots : g # h => Stays(g) /\ owed'[g] = owed[g]
        /\ owed' = [g \in Slots |-> owed'[g]]
    BY <2>1, OthersStay
  <2> QED
    BY <2>3, <2>4, DebtsOf
<1>8. ASSUME NEW h \in Slots, NEW n \in Nonces, NEW p \in Payments, NEW rt \in Routes,
             PayBegins(h, n, p, rt)
      PROVE  Debts'
  <2>1. /\ \E a : slot' = [slot EXCEPT ![h] = a]
        /\ \E x : call' = [call EXCEPT ![h] = x]
        /\ lookup' = lookup \/ (\E l : lookup' = [lookup EXCEPT ![h] = l])
        /\ owed' = [owed EXCEPT ![h] = Owed(n, p, rt)]
    BY <1>8 DEF PayBegins, MW!PayBegins, FA!VerifyRefused, FA!VerifyBusy, FA!VerifyBegins,
       SG!LookupBegins, sgState
  <2>4. /\ \A g \in Slots : g # h => Stays(g) /\ owed'[g] = owed[g]
        /\ owed' = [g \in Slots |-> owed'[g]]
    BY <2>1, OthersStay
  <2>2. CASE Owed(n, p, rt)
    <3>1. Debt(h)'
      BY <1>8, <2>2, PayBeginsDebt
    <3> QED
      BY <2>4, <3>1, DebtsOf
  <2>3. CASE ~Owed(n, p, rt)
    <3>1. owed'[h] = FALSE
      BY <1>0, <2>1, <2>3 DEF Owed
    <3>2. Debt(h)'
      BY <3>1, NoDebt
    <3> QED
      BY <2>4, <3>2, DebtsOf
  <2> QED
    BY <2>2, <2>3
<1>9. ASSUME NEW h \in Slots, SignerReads(h) PROVE Debts'
  <2>1. /\ slot' = slot /\ call' = call /\ owed' = owed
        /\ \E l : lookup' = [lookup EXCEPT ![h] = l]
    <3>1. \E l : lookup' = [lookup EXCEPT ![h] = l]
      BY <1>9 DEF SignerReads, SG!ReceiptRead, SG!NodeAnswers
    <3> QED
      BY <1>9, <3>1 DEF SignerReads, mwState, faState
  <2>2. /\ \A g \in Slots : g # h => Stays(g) /\ owed'[g] = owed[g]
        /\ owed' = [g \in Slots |-> owed'[g]]
    BY <2>1, OthersStay
  <2> QED
    BY <1>9, <2>2, SignerReadsDebt, DebtsOf
<1>10. ASSUME NEW h \in Slots, SignerMisled(h) PROVE Debts'
  <2>1. /\ slot' = slot /\ call' = call /\ owed' = [owed EXCEPT ![h] = FALSE]
        /\ \E l : lookup' = [lookup EXCEPT ![h] = l]
    BY <1>10 DEF SignerMisled, SG!NodeLags, mwState, faState
  <2>2. owed'[h] = FALSE
    BY <1>0, <2>1
  <2>3. /\ \A g \in Slots : g # h => Stays(g) /\ owed'[g] = owed[g]
        /\ owed' = [g \in Slots |-> owed'[g]]
    BY <2>1, OthersStay
  <2> QED
    BY <2>2, <2>3, NoDebt, DebtsOf
<1>11. ASSUME NEW h \in Slots, NEW answer \in {"valid", "invalid", "retryable"},
              FA!VerifyEnds(h, answer), owed[h] => answer # "invalid",
              slot' = slot, owed' = owed, lookup' = [lookup EXCEPT ![h] = SG!NoLookup]
       PROVE  Debts'
  <2>1. \E x : call' = [call EXCEPT ![h] = x]
    BY <1>11 DEF FA!VerifyEnds
  <2>2. /\ \A g \in Slots : g # h => Stays(g) /\ owed'[g] = owed[g]
        /\ owed' = [g \in Slots |-> owed'[g]]
    BY <1>11, <2>1, OthersStay
  <2> QED
    BY <1>11, <2>2, AnswerDebt, DebtsOf
<1>12. ASSUME NEW h \in Slots, SignerAnswers(h) PROVE Debts'
  <2>1. PICK answer \in {"valid", "invalid", "retryable"} :
          SG!LookupEnds(h, answer) /\ FA!VerifyEnds(h, answer)
    BY <1>12 DEF SignerAnswers
  <2>2. /\ call[h].pc = "verifying" /\ lookup[h].pc = "answered" /\ answer = lookup[h].answer
        /\ lookup' = [lookup EXCEPT ![h] = SG!NoLookup]
    BY <2>1 DEF SG!LookupEnds, FA!VerifyEnds
  <2>3. owed[h] => answer # "invalid"
    BY <2>2 DEF Debts, Debt
  <2> QED
    BY <1>11, <1>12, <2>1, <2>2, <2>3 DEF SignerAnswers, mwState
<1>13. ASSUME NEW h \in Slots, VerifyTimesOut(h) PROVE Debts'
  BY <1>11, <1>13 DEF VerifyTimesOut, FA!VerifyTimesOut, SG!Abandon, mwState
<1>14. ASSUME NEW h \in Slots, VerifyEnds(h) PROVE Debts'
  <2>1. /\ \E a : slot' = [slot EXCEPT ![h] = a]
        /\ \E x : call' = [call EXCEPT ![h] = x]
        /\ lookup' = lookup /\ owed' = [owed EXCEPT ![h] = FALSE]
    <3>1. slot' = [slot EXCEPT ![h].pc = "settling"] \/ slot' = [slot EXCEPT ![h] = MW!Idle]
      BY <1>14 DEF VerifyEnds, MW!VerifyEnds, MW!Finish
    <3> QED
      BY <1>14, <3>1 DEF VerifyEnds, FA!Settle, FA!Return, sgState
  <2>2. owed'[h] = FALSE
    BY <1>0, <2>1
  <2>3. /\ \A g \in Slots : g # h => Stays(g) /\ owed'[g] = owed[g]
        /\ owed' = [g \in Slots |-> owed'[g]]
    BY <2>1, OthersStay
  <2> QED
    BY <2>2, <2>3, NoDebt, DebtsOf
<1>15. ASSUME NEW h \in Slots, SettleEnds(h) PROVE Debts'
  <2>1. /\ \E a : slot' = [slot EXCEPT ![h] = a]
        /\ call' = call /\ lookup' = lookup /\ owed' = owed /\ slot[h].pc = "settling"
    BY <1>15 DEF SettleEnds, MW!SettleEnds, MW!Finish, faState, sgState
  <2>2. call'[h] = FA!Idle
    BY <2>1 DEF Inv, Linked, Coupled
  <2>3. Debt(h)'
    BY <1>0, <2>2, NoDebt
  <2>4. /\ \A g \in Slots : g # h => Stays(g) /\ owed'[g] = owed[g]
        /\ owed' = [g \in Slots |-> owed'[g]]
    BY <2>1, OthersStay
  <2> QED
    BY <2>3, <2>4, DebtsOf
<1>16. CASE Restart
  BY <1>16 DEF Restart, Debts, Debt
<1> QED
  BY <1>2, <1>3, <1>4, <1>5, <1>6, <1>7, <1>8, <1>9, <1>10, <1>12, <1>13, <1>14, <1>15, <1>16
     DEF Next, Running

(* A payment that is owed when it is presented is never finally refused,   *)
(* neither in the first turn nor on the word of the signer, whatever RPCs  *)
(* fail, whatever else is paid, swept or timed out meanwhile, and however  *)
(* often the process restarts (scheme.ts:217-330,                          *)
(* facilitator-signer.ts:288-389).                                         *)
THEOREM PaidNotRefused ==
  ASSUME NextMayThrow = FALSE
  PROVE  Spec => []PaidIsNotRefused
<1>1. ASSUME Init PROVE Unjudged /\ Debts
  BY <1>1 DEF Init, MW!Init, FA!Init, MW!Idle, Unjudged, MayRestore, Debts, Debt
<1>2. Inv /\ Unjudged /\ Debts /\ [Next]_vars => Unjudged' /\ Debts'
  BY UnjudgedStep, DebtsStep
<1>3. Debts => PaidIsNotRefused
  BY DEF Debts, Debt, PaidIsNotRefused
<1> QED
  BY <1>1, <1>2, <1>3, Invariance, PTL DEF Spec
=============================================================================
