-------------------------- MODULE PayCommandProofs --------------------------
(* Proofs about PayCommand, for every value of its constants.            *)
EXTENDS PayCommand, LedgerProofs

Early == {"new", "requesting", "opening", "preparing", "approved"}

(* The requirement the command approved, once it has a challenge.        *)
Quote(p) == SelectRequirement(challenge[p])

(* What the transfer is made for is what was approved.                   *)
Approved(p) ==
  /\ terms[p] \in [req : Requirements, commitment : BOOLEAN]
  /\ SameTerms(terms[p].req, Quote(p))
  /\ Allowed(Quote(p), limits[p])

(* Where the ledger, the chain and the process of a payment stand together.*)
Progress(p) ==
  /\ pc[p] \in Early => ~Recorded(p) /\ tx[p] = None /\ ~inflight[p]
  /\ pc[p] \in {"approved", "proving", "waiting", "retrying"} \/ Recorded(p) => Approved(p)
  /\ pc[p] \in {"proving", "waiting", "retrying"} \/ tx[p] # None => Recorded(p)
  /\ pc[p] \in {"opening", "preparing"} => challenge[p] \in Challenges
  /\ pc[p] = "proving" => tx[p] = None
  /\ pc[p] = "retrying" => tx[p] = "mined" /\ ledger[p].status = "paid" /\ ~inflight[p]
  /\ pc[p] \in {"proving", "waiting"} => ledger[p].status # "paid"

(* What an entry says is true of its transfer.                           *)
Truthful(p) ==
  Recorded(p) =>
    /\ ledger[p].amount = Quote(p).amount
    /\ ledger[p].asset = Quote(p).asset
    /\ ledger[p].payTo = Quote(p).payTo
    /\ ledger[p].status = "paid" => tx[p] = "mined"
    /\ ledger[p].status = "failed" /\ answer[p] # "unexpected" => tx[p] = None

(* What is printed is true, and what a running process may have printed. *)
Answered(p) ==
  /\ Live(p) /\ answer[p] # None =>
       answer[p] = "unexpected" \/ (answer[p] = "prover_failed" /\ pc[p] = "proving")
  /\ Recorded(p) /\ ledger[p].status = "failed" /\ answer[p] # "unexpected" =>
       pc[p] = "ended" \/ answer[p] = "prover_failed"
  /\ pc[p] = "new" => answer[p] = None
  /\ answer[p] \in NothingMoved => tx[p] = None
  /\ answer[p] \in {"paid", "not_delivered"} => tx[p] = "mined"

PayInv(p) == Progress(p) /\ Truthful(p) /\ Answered(p)

Inv == TypeOK /\ \A p \in Payments : PayInv(p)

-----------------------------------------------------------------------------
(* Frames: what the parts of a step change, and what they leave alone.   *)

(* The state of payment q does not change.                               *)
Same(q) ==
  /\ ledger'[q] = ledger[q] /\ pc'[q] = pc[q] /\ limits'[q] = limits[q]
  /\ challenge'[q] = challenge[q] /\ terms'[q] = terms[q] /\ inflight'[q] = inflight[q]
  /\ answer'[q] = answer[q] /\ tx'[q] = tx[q]

(* What was approved depends on the challenge, the terms and the limits. *)
LEMMA ApprovedKept ==
  ASSUME NEW p \in Payments,
         limits'[p] = limits[p], challenge'[p] = challenge[p], terms'[p] = terms[p]
  PROVE  Quote(p)' = Quote(p) /\ (Approved(p)' <=> Approved(p))
BY DEF Quote, Approved, SelectRequirement, Options, SameTerms, Allowed

(* A payment whose state does not change keeps its invariant.            *)
LEMMA SameKeeps ==
  ASSUME NEW q \in Payments, PayInv(q), Same(q)
  PROVE  PayInv(q)'
<1>1. Quote(q)' = Quote(q) /\ (Approved(q)' <=> Approved(q))
  BY ApprovedKept DEF Same
<1> QED
  BY <1>1 DEF PayInv, Progress, Truthful, Answered, Same, Recorded, Live

(* A step of one payment: the others stay as they are.                   *)
LEMMA Assemble ==
  ASSUME Inv, NEW p \in Payments, TypeOK', PayInv(p)', \A q \in Payments \ {p} : Same(q)
  PROVE  Inv'
BY SameKeeps DEF Inv

(* The process goes on, having printed nothing more.                     *)
LEMMA GotoAt ==
  ASSUME TypeOK, NEW p \in Payments, NEW next \in PCs, Goto(p, next)
  PROVE  /\ pc' \in [Payments -> PCs] /\ answer' \in [Payments -> Codes \cup {None}]
         /\ pc'[p] = next /\ answer'[p] = answer[p]
         /\ \A q \in Payments \ {p} : pc'[q] = pc[q] /\ answer'[q] = answer[q]
BY DEF TypeOK, Goto

(* A code is printed unless one has been.                                *)
LEMMA ReportAt ==
  ASSUME TypeOK, NEW p \in Payments, NEW code \in Codes, Report(p, code)
  PROVE  /\ answer' \in [Payments -> Codes \cup {None}]
         /\ answer'[p] = IF answer[p] = None THEN code ELSE answer[p]
         /\ \A q \in Payments \ {p} : answer'[q] = answer[q]
BY DEF TypeOK, Report

(* The command ends and prints a code.                                   *)
LEMMA FinishAt ==
  ASSUME TypeOK, NEW p \in Payments, NEW code \in Codes, Finish(p, code)
  PROVE  /\ pc' \in [Payments -> PCs] /\ answer' \in [Payments -> Codes \cup {None}]
         /\ pc'[p] = "ended"
         /\ answer'[p] = IF answer[p] = None THEN code ELSE answer[p]
         /\ \A q \in Payments \ {p} : pc'[q] = pc[q] /\ answer'[q] = answer[q]
<1>1. Report(p, code) /\ pc' = [pc EXCEPT ![p] = "ended"]
  BY DEF Finish
<1> QED
  BY <1>1, ReportAt DEF TypeOK, PCs

(* A line with a status changes the status and the time of an entry.     *)
LEMMA AppendStatusAt ==
  ASSUME TypeOK, NEW p \in Payments, NEW s \in Statuses, Recorded(p), AppendStatus(p, s)
  PROVE  /\ ledger' \in [Payments -> LedgerEntry \cup {NoEntry}]
         /\ Recorded(p)' /\ ledger'[p].status = s
         /\ ledger'[p].amount = ledger[p].amount
         /\ ledger'[p].asset = ledger[p].asset
         /\ ledger'[p].payTo = ledger[p].payTo
         /\ \A q \in Payments \ {p} : ledger'[q] = ledger[q]
<1>1. ledger[p] \in LedgerEntry /\ clock \in Nat
  BY DEF TypeOK, Recorded
<1> DEFINE e == [ledger[p] EXCEPT !.status = s, !.at = clock]
<1>2. /\ e \in LedgerEntry /\ e.status = s
      /\ e.amount = ledger[p].amount /\ e.asset = ledger[p].asset /\ e.payTo = ledger[p].payTo
  BY <1>1 DEF LedgerEntry
<1>3. ledger' = [ledger EXCEPT ![p] = e]
  BY DEF AppendStatus
<1> HIDE DEF e
<1> QED
  BY <1>2, <1>3, PayAssumption DEF TypeOK, Recorded

(* The first line of a payment records the quote.                        *)
LEMMA AppendPendingAt ==
  ASSUME TypeOK, NEW p \in Payments, Approved(p), AppendPending(p, Quote(p))
  PROVE  /\ ledger' \in [Payments -> LedgerEntry \cup {NoEntry}]
         /\ Recorded(p)' /\ ledger'[p].status = "pending"
         /\ ledger'[p].amount = Quote(p).amount
         /\ ledger'[p].asset = Quote(p).asset
         /\ ledger'[p].payTo = Quote(p).payTo
         /\ \A q \in Payments \ {p} : ledger'[q] = ledger[q]
<1> DEFINE r == terms[p].req
           e == [status |-> "pending", asset |-> Quote(p).asset, amount |-> Quote(p).amount,
                 payTo |-> Quote(p).payTo, at |-> clock]
<1>1. r \in Requirements /\ clock \in Nat
  BY DEF TypeOK, Approved
<1>2. Quote(p).asset = r.asset /\ Quote(p).amount = r.amount /\ Quote(p).payTo = r.payTo
  BY DEF Approved, SameTerms
<1>3. e \in LedgerEntry
  BY <1>1, <1>2 DEF LedgerEntry, Statuses
<1>4. ledger' = [ledger EXCEPT ![p] = e]
  BY DEF AppendPending
<1>5. /\ e.status = "pending" /\ e.asset = Quote(p).asset
      /\ e.amount = Quote(p).amount /\ e.payTo = Quote(p).payTo
  OBVIOUS
<1> HIDE DEF e
<1> QED
  BY <1>3, <1>4, <1>5, PayAssumption DEF TypeOK, Recorded

(* The inflight payment is cleared.                                      *)
LEMMA ClearAt ==
  ASSUME TypeOK, NEW p \in Payments, ClearInflight(p)
  PROVE  /\ inflight' \in [Payments -> BOOLEAN] /\ ~inflight'[p]
         /\ \A q \in Payments \ {p} : inflight'[q] = inflight[q]
BY DEF TypeOK, ClearInflight

(* Nothing is recorded before the first invocation.                      *)
LEMMA InvInit == Init => Inv
BY PayAssumption DEF Init, Inv, TypeOK, PayInv, Progress, Truthful, Answered, Recorded, Live, Early,
   PCs, Codes, NothingMoved

-----------------------------------------------------------------------------
(* Each step keeps the invariant.                                        *)

(* A command that ends before or after the transfer prints a true code.  *)
LEMMA EndKeeps ==
  ASSUME Inv, NEW p \in Payments, NEW code \in Codes, Live(p), Finish(p, code),
         UNCHANGED <<ledger, clock, limits, terms, inflight, tx>>,
         challenge' \in [Payments -> Challenges \cup {None}],
         pc[p] = "requesting" \/ challenge'[p] = challenge[p],
         \A q \in Payments \ {p} : challenge'[q] = challenge[q],
         code \in NothingMoved => tx[p] = None,
         code \in {"paid", "not_delivered"} => tx[p] = "mined"
  PROVE  Inv'
<1>1. TypeOK /\ PayInv(p)
  BY DEF Inv
<1>2. /\ pc' \in [Payments -> PCs] /\ answer' \in [Payments -> Codes \cup {None}]
      /\ pc'[p] = "ended"
      /\ answer'[p] = IF answer[p] = None THEN code ELSE answer[p]
      /\ \A q \in Payments \ {p} : pc'[q] = pc[q] /\ answer'[q] = answer[q]
  BY <1>1, FinishAt
<1>3. TypeOK'
  BY <1>1, <1>2 DEF TypeOK
<1>4. ~Recorded(p) \/ (Quote(p)' = Quote(p) /\ (Approved(p)' <=> Approved(p)))
  BY <1>1, ApprovedKept DEF PayInv, Progress, Early
<1>5. Progress(p)'
  BY <1>1, <1>2, <1>4 DEF PayInv, Progress, Recorded, Early
<1>6. Truthful(p)'
  <2>1. Recorded(p) /\ ledger[p].status = "failed" /\ answer[p] = None => FALSE
    BY <1>1, PayAssumption DEF PayInv, Answered, Live, Codes
  <2> QED
    BY <1>1, <1>2, <1>4, <2>1 DEF PayInv, Truthful, Recorded
<1>7. Answered(p)'
  BY <1>1, <1>2, PayAssumption DEF PayInv, Answered, Recorded, Live, NothingMoved, Codes
<1>8. \A q \in Payments \ {p} : Same(q)
  BY <1>2 DEF Same
<1> QED
  BY <1>3, <1>5, <1>6, <1>7, <1>8, Assemble DEF PayInv

(* A command that goes on before it has approved anything.               *)
LEMMA GoOnKeeps ==
  ASSUME Inv, NEW p \in Payments, NEW next \in {"requesting", "opening", "preparing"},
         pc[p] \in Early, Goto(p, next),
         UNCHANGED <<ledger, clock, terms, inflight, tx>>,
         limits' \in [Payments -> CallLimits \cup {None}],
         challenge' \in [Payments -> Challenges \cup {None}],
         next = "requesting" \/ challenge'[p] \in Challenges,
         \A q \in Payments \ {p} : limits'[q] = limits[q] /\ challenge'[q] = challenge[q]
  PROVE  Inv'
<1>1. TypeOK /\ PayInv(p) /\ next \in PCs
  BY DEF Inv, PCs
<1>2. /\ pc' \in [Payments -> PCs] /\ answer' \in [Payments -> Codes \cup {None}]
      /\ pc'[p] = next /\ answer'[p] = answer[p]
      /\ \A q \in Payments \ {p} : pc'[q] = pc[q] /\ answer'[q] = answer[q]
  BY <1>1, GotoAt
<1>3. TypeOK'
  BY <1>1, <1>2 DEF TypeOK
<1>4. Progress(p)' /\ Truthful(p)'
  BY <1>1, <1>2 DEF PayInv, Progress, Truthful, Recorded, Early
<1>5. Answered(p)'
  BY <1>1, <1>2 DEF PayInv, Progress, Answered, Recorded, Live, Early
<1>6. \A q \in Payments \ {p} : Same(q)
  BY <1>2 DEF Same
<1> QED
  BY <1>3, <1>4, <1>5, <1>6, Assemble DEF PayInv

(* Starting a command chooses its limits.                                *)
LEMMA StartStep ==
  ASSUME Inv, NEW p \in Payments, NEW lim \in CallLimits, Start(p, lim)
  PROVE  Inv'
<1>1. /\ pc[p] \in Early /\ Goto(p, "requesting")
      /\ limits' = [limits EXCEPT ![p] = lim]
      /\ UNCHANGED <<ledger, clock, challenge, terms, inflight, tx>>
  BY DEF Start, Early
<1>2. TypeOK
  BY DEF Inv
<1> QED
  BY <1>1, <1>2, GoOnKeeps DEF TypeOK

(* A URL that asks for no payment ends the command.                      *)
LEMMA NoChallengeStep ==
  ASSUME Inv, NEW p \in Payments, NoChallenge(p)
  PROVE  Inv'
<1>1. PICK code \in {"free", "not_x402"} : Finish(p, code)
  BY DEF NoChallenge
<1>2. code \in Codes /\ Live(p) /\ TypeOK /\ tx[p] = None /\ code \notin {"paid", "not_delivered"}
  BY DEF NoChallenge, Codes, Live, Inv, PayInv, Progress, Early
<1> QED
  BY <1>1, <1>2, EndKeeps DEF NoChallenge, TypeOK

(* The first 402 is refused, or the wallet is opened.                    *)
LEMMA ChallengedStep ==
  ASSUME Inv, NEW p \in Payments, NEW accepts \in Challenges, Challenged(p, accepts)
  PROVE  Inv'
<1>1. /\ pc[p] = "requesting" /\ challenge' = [challenge EXCEPT ![p] = accepts]
      /\ UNCHANGED <<ledger, clock, limits, terms, inflight, tx>>
  BY DEF Challenged
<1>2. /\ TypeOK /\ Live(p) /\ tx[p] = None /\ pc[p] \in Early
      /\ {"no_matching_option", "usage", "policy_rejected"} \subseteq Codes
  BY <1>1 DEF Codes, Live, Inv, PayInv, Progress, Early
<1>3. CASE \E code \in {"no_matching_option", "usage", "policy_rejected"} : Finish(p, code)
  BY <1>1, <1>2, <1>3, EndKeeps DEF TypeOK
<1>4. CASE Goto(p, "opening")
  <2>1. challenge'[p] \in Challenges
    BY <1>1, <1>2 DEF TypeOK
  <2> QED
    BY <1>1, <1>2, <1>4, <2>1, GoOnKeeps DEF TypeOK
<1> QED
  BY <1>3, <1>4 DEF Challenged, RefusalCode

(* The wallet opens or does not.                                         *)
LEMMA OpenSessionStep ==
  ASSUME Inv, NEW p \in Payments, OpenSession(p)
  PROVE  Inv'
<1>1. pc[p] = "opening" /\ UNCHANGED <<ledger, clock, limits, challenge, terms, inflight, tx>>
  BY DEF OpenSession
<1>2. /\ TypeOK /\ Live(p) /\ tx[p] = None /\ pc[p] \in Early
      /\ {"no_wallet", "node_unreachable"} \subseteq Codes
  BY <1>1 DEF Codes, Live, Inv, PayInv, Progress, Early
<1>3. CASE \E code \in {"no_wallet", "node_unreachable"} : Finish(p, code)
  BY <1>1, <1>2, <1>3, EndKeeps DEF TypeOK
<1>4. CASE Goto(p, "preparing")
  <2>1. challenge[p] \in Challenges
    BY <1>1 DEF Inv, PayInv, Progress
  <2> QED
    BY <1>1, <1>2, <1>4, <2>1, GoOnKeeps DEF TypeOK
<1> QED
  BY <1>3, <1>4 DEF OpenSession

(* The prepare request fails.                                            *)
LEMMA PrepareFailsStep ==
  ASSUME Inv, NEW p \in Payments, PrepareFails(p)
  PROVE  Inv'
<1>1. PICK code \in {"prepare_failed", "unexpected"} : Finish(p, code)
  BY DEF PrepareFails
<1>2. code \in Codes /\ Live(p) /\ TypeOK /\ tx[p] = None /\ code \notin {"paid", "not_delivered"}
  BY DEF PrepareFails, Codes, Live, Inv, PayInv, Progress, Early
<1> QED
  BY <1>1, <1>2, EndKeeps DEF PrepareFails, TypeOK

(* The content arrives: the payment is mined.                            *)
LEMMA DeliveredStep ==
  ASSUME Inv, NEW p \in Payments, Delivered(p)
  PROVE  Inv'
<1>1. PICK code \in {"paid", "unexpected"} : Finish(p, code)
  BY DEF Delivered
<1>2. code \in Codes /\ code \notin NothingMoved /\ Live(p) /\ TypeOK /\ tx[p] = "mined"
  BY DEF Delivered, Codes, NothingMoved, Live, Inv, PayInv, Progress
<1> QED
  BY <1>1, <1>2, EndKeeps DEF Delivered, TypeOK

(* A payment passes both checks, or the command ends.                    *)
LEMMA GuardKeeps ==
  ASSUME Inv, NEW p \in Payments, NEW req \in Requirements, NEW b \in BOOLEAN,
         pc[p] = "preparing", Guard(p, req, b),
         UNCHANGED <<ledger, clock, limits, challenge, inflight, tx>>
  PROVE  Inv'
<1>1. /\ TypeOK /\ PayInv(p) /\ Live(p) /\ tx[p] = None
      /\ "policy_rejected" \in Codes /\ "approved" \in PCs
  BY DEF Inv, PayInv, Progress, Early, Codes, Live, PCs
<1>2. CASE Finish(p, "policy_rejected") /\ UNCHANGED terms
  BY <1>1, <1>2, EndKeeps DEF TypeOK
<1>3. CASE /\ SameTerms(req, Quote(p)) /\ CheckPayment(req, limits[p])
           /\ Goto(p, "approved")
           /\ terms' = [terms EXCEPT ![p] = [req |-> req, commitment |-> b]]
  <2>1. /\ pc' \in [Payments -> PCs] /\ answer' \in [Payments -> Codes \cup {None}]
        /\ pc'[p] = "approved" /\ answer'[p] = answer[p]
        /\ \A q \in Payments \ {p} : pc'[q] = pc[q] /\ answer'[q] = answer[q]
    BY <1>1, <1>3, GotoAt
  <2> DEFINE t == [req |-> req, commitment |-> b]
  <2>2. t \in [req : Requirements, commitment : BOOLEAN] /\ t.req = req
    OBVIOUS
  <2>3. terms' = [terms EXCEPT ![p] = t]
    BY <1>3
  <2> HIDE DEF t
  <2>4. TypeOK'
    BY <1>1, <2>1, <2>2, <2>3 DEF TypeOK
  <2>5. terms'[p] = t /\ \A q \in Payments \ {p} : terms'[q] = terms[q]
    BY <1>1, <2>3 DEF TypeOK
  <2>6. Quote(p)' = Quote(p)
    BY DEF Quote, SelectRequirement, Options
  <2>7. SameTerms(req, Quote(p)) /\ Allowed(Quote(p), limits[p])
    <3>1. SameTerms(req, Quote(p)) /\ Allowed(req, limits[p])
      BY <1>3 DEF CheckPayment
    <3> QED
      BY <3>1 DEF SameTerms, Allowed, Expected
  <2>8. Approved(p)'
    <3>1. terms'[p] \in [req : Requirements, commitment : BOOLEAN] /\ terms'[p].req = req
      BY <2>2, <2>5
    <3> QED
      BY <3>1, <2>6, <2>7 DEF Approved, SameTerms, Allowed
  <2>9. Progress(p)' /\ Truthful(p)' /\ Answered(p)'
    BY <1>1, <2>1, <2>6, <2>8 DEF PayInv, Progress, Truthful, Answered, Recorded, Live, Early
  <2>10. \A q \in Payments \ {p} : Same(q)
    BY <2>1, <2>5 DEF Same
  <2> QED
    BY <2>4, <2>9, <2>10, Assemble DEF PayInv
<1> QED
  BY <1>2, <1>3 DEF Guard, Quote

(* A commitment with the quoted terms is checked again.                  *)
LEMMA PreparedStep ==
  ASSUME Inv, NEW p \in Payments, NEW req \in Requirements, Prepared(p, req)
  PROVE  Inv'
<1>1. /\ pc[p] = "preparing" /\ TypeOK /\ Live(p) /\ tx[p] = None /\ "policy_rejected" \in Codes
      /\ UNCHANGED <<ledger, clock, limits, challenge, inflight, tx>>
  BY DEF Prepared, Inv, PayInv, Progress, Early, Codes, Live
<1>2. CASE Guard(p, req, TRUE)
  BY <1>1, <1>2, GuardKeeps
<1>3. CASE Finish(p, "policy_rejected") /\ UNCHANGED terms
  BY <1>1, <1>3, EndKeeps DEF TypeOK
<1> QED
  BY <1>2, <1>3 DEF Prepared

(* A running command that is preparing has a challenge.                  *)
LEMMA UnpreparedStep ==
  ASSUME Inv, NEW p \in Payments, Unprepared(p)
  PROVE  Inv'
<1>1. /\ pc[p] = "preparing"
      /\ UNCHANGED <<ledger, clock, limits, challenge, inflight, tx>>
  BY DEF Unprepared
<1>2. PICK b \in BOOLEAN : Guard(p, Matching(p), b)
  BY DEF Unprepared
<1>3. Matching(p) \in Requirements
  BY <1>1, PayAssumption DEF Inv, PayInv, Progress, TypeOK, Matching
<1> QED
  BY <1>1, <1>2, <1>3, GuardKeeps

(* Recording the payment makes it the one in flight.                     *)
LEMMA RecordPendingStep ==
  ASSUME Inv, NEW p \in Payments, RecordPending(p)
  PROVE  Inv'
<1>1. /\ TypeOK /\ PayInv(p) /\ Approved(p) /\ ~Recorded(p) /\ "proving" \in PCs
      /\ AppendPending(p, Quote(p)) /\ Goto(p, "proving")
      /\ inflight' = [inflight EXCEPT ![p] = TRUE]
      /\ pc[p] = "approved" /\ UNCHANGED <<clock, limits, challenge, terms, tx>>
  BY DEF RecordPending, Inv, PayInv, Progress, Early, PCs, Quote
<1>2. /\ pc' \in [Payments -> PCs] /\ answer' \in [Payments -> Codes \cup {None}]
      /\ pc'[p] = "proving" /\ answer'[p] = answer[p]
      /\ \A q \in Payments \ {p} : pc'[q] = pc[q] /\ answer'[q] = answer[q]
  BY <1>1, GotoAt
<1>3. /\ ledger' \in [Payments -> LedgerEntry \cup {NoEntry}]
      /\ Recorded(p)' /\ ledger'[p].status = "pending"
      /\ ledger'[p].amount = Quote(p).amount
      /\ ledger'[p].asset = Quote(p).asset
      /\ ledger'[p].payTo = Quote(p).payTo
      /\ \A q \in Payments \ {p} : ledger'[q] = ledger[q]
  BY <1>1, AppendPendingAt
<1>4. TypeOK'
  BY <1>1, <1>2, <1>3 DEF TypeOK
<1>5. Quote(p)' = Quote(p) /\ Approved(p)'
  BY <1>1, ApprovedKept
<1>6. Progress(p)' /\ Truthful(p)' /\ Answered(p)'
  BY <1>1, <1>2, <1>3, <1>5 DEF PayInv, Progress, Truthful, Answered, Live, Early
<1>7. \A q \in Payments \ {p} : Same(q)
  BY <1>1, <1>2, <1>3 DEF Same, TypeOK
<1> QED
  BY <1>4, <1>6, <1>7, Assemble DEF PayInv

(* Handing the transfer to the node.                                     *)
LEMMA SendTxStep ==
  ASSUME Inv, NEW p \in Payments, SendTx(p)
  PROVE  Inv'
<1>1. /\ TypeOK /\ PayInv(p) /\ "waiting" \in PCs /\ Goto(p, "waiting")
      /\ tx' = [tx EXCEPT ![p] = "sent"]
      /\ pc[p] = "proving" /\ answer[p] # "prover_failed"
      /\ UNCHANGED <<ledger, clock, limits, challenge, terms, inflight>>
  BY DEF SendTx, Inv, PCs
<1>2. /\ pc' \in [Payments -> PCs] /\ answer' \in [Payments -> Codes \cup {None}]
      /\ pc'[p] = "waiting" /\ answer'[p] = answer[p]
      /\ \A q \in Payments \ {p} : pc'[q] = pc[q] /\ answer'[q] = answer[q]
  BY <1>1, GotoAt
<1>3. TypeOK' /\ tx'[p] = "sent"
  BY <1>1, <1>2 DEF TypeOK
<1>4. Quote(p)' = Quote(p) /\ (Approved(p)' <=> Approved(p))
  BY <1>1, ApprovedKept
<1>5. answer[p] \in {"unexpected", None}
  BY <1>1 DEF PayInv, Answered, Live
<1>6. Progress(p)'
  BY <1>1, <1>2, <1>3, <1>4, PayAssumption DEF PayInv, Progress, Recorded, Early
<1>7. Truthful(p)'
  <2>1. Recorded(p) => ledger[p].status \notin {"paid", "failed"} \/ answer[p] = "unexpected"
    BY <1>1 DEF PayInv, Progress, Answered
  <2>2. Recorded(p) => ledger[p].status # "paid"
    BY <1>1 DEF PayInv, Progress
  <2> QED
    BY <1>1, <1>2, <1>4, <2>1, <2>2 DEF PayInv, Truthful, Recorded
<1>8. Answered(p)'
  BY <1>1, <1>2, <1>5, PayAssumption DEF PayInv, Answered, Recorded, Live, NothingMoved, Codes
<1>9. \A q \in Payments \ {p} : Same(q)
  BY <1>1, <1>2 DEF Same, TypeOK
<1> QED
  BY <1>3, <1>6, <1>7, <1>8, <1>9, Assemble DEF PayInv

(* The transfer is mined: the entry says paid.                           *)
LEMMA ConfirmedStep ==
  ASSUME Inv, NEW p \in Payments, Confirmed(p)
  PROVE  Inv'
<1>1. /\ TypeOK /\ PayInv(p) /\ "retrying" \in PCs /\ "paid" \in Statuses
      /\ Goto(p, "retrying") /\ AppendStatus(p, "paid") /\ ClearInflight(p)
      /\ pc[p] = "waiting" /\ tx[p] = "mined" /\ Recorded(p)
      /\ UNCHANGED <<clock, limits, challenge, terms, tx>>
  BY DEF Confirmed, Inv, PayInv, Progress, PCs, Statuses
<1>2. /\ pc' \in [Payments -> PCs] /\ answer' \in [Payments -> Codes \cup {None}]
      /\ pc'[p] = "retrying" /\ answer'[p] = answer[p]
      /\ \A q \in Payments \ {p} : pc'[q] = pc[q] /\ answer'[q] = answer[q]
  BY <1>1, GotoAt
<1>3. /\ ledger' \in [Payments -> LedgerEntry \cup {NoEntry}]
      /\ Recorded(p)' /\ ledger'[p].status = "paid"
      /\ ledger'[p].amount = ledger[p].amount
      /\ ledger'[p].asset = ledger[p].asset
      /\ ledger'[p].payTo = ledger[p].payTo
      /\ \A q \in Payments \ {p} : ledger'[q] = ledger[q]
  BY <1>1, AppendStatusAt
<1>4. /\ inflight' \in [Payments -> BOOLEAN] /\ ~inflight'[p]
      /\ \A q \in Payments \ {p} : inflight'[q] = inflight[q]
  BY <1>1, ClearAt
<1>5. TypeOK'
  BY <1>1, <1>2, <1>3, <1>4 DEF TypeOK
<1>6. Quote(p)' = Quote(p) /\ (Approved(p)' <=> Approved(p))
  BY <1>1, ApprovedKept
<1>7. Progress(p)'
  BY <1>1, <1>2, <1>3, <1>4, <1>6 DEF PayInv, Progress, Early
<1>8. Truthful(p)' /\ Answered(p)'
  BY <1>1, <1>2, <1>3, <1>6 DEF PayInv, Truthful, Answered, Live
<1>9. \A q \in Payments \ {p} : Same(q)
  BY <1>1, <1>2, <1>3, <1>4 DEF Same
<1> QED
  BY <1>5, <1>7, <1>8, <1>9, Assemble DEF PayInv

(* A rejected payment is settled as its error says.                      *)
LEMMA RejectedStep ==
  ASSUME Inv, NEW p \in Payments, NEW error \in Errors, Rejected(p, error)
  PROVE  Inv'
<1> DEFINE s == SettledAs[error]
           code == CodeOf[error]
<1>1. /\ \/ error = "prover" /\ s = "failed" /\ code = "prover_failed"
         \/ error = "timeout" /\ s = "uncertain" /\ code = "payment_uncertain"
         \/ error = "other" /\ s = "failed" /\ code = "unexpected"
      /\ s \in Statuses /\ code \in Codes
  BY DEF Errors, SettledAs, CodeOf, Statuses, Codes
<1>2. /\ AppendStatus(p, s) /\ Finish(p, code) /\ ClearInflight(p)
      /\ pc[p] \in {"proving", "waiting"} /\ (error = "prover" => pc[p] = "proving")
      /\ UNCHANGED <<clock, limits, challenge, terms, tx>>
  BY DEF Rejected, MayRaise
<1> HIDE DEF s, code
<1>3. TypeOK /\ PayInv(p) /\ Recorded(p) /\ Approved(p)
  BY <1>2 DEF Inv, PayInv, Progress
<1>4. /\ pc' \in [Payments -> PCs] /\ answer' \in [Payments -> Codes \cup {None}]
      /\ pc'[p] = "ended"
      /\ answer'[p] = IF answer[p] = None THEN code ELSE answer[p]
      /\ \A q \in Payments \ {p} : pc'[q] = pc[q] /\ answer'[q] = answer[q]
  BY <1>1, <1>2, <1>3, FinishAt
<1>5. /\ ledger' \in [Payments -> LedgerEntry \cup {NoEntry}]
      /\ Recorded(p)' /\ ledger'[p].status = s
      /\ ledger'[p].amount = ledger[p].amount
      /\ ledger'[p].asset = ledger[p].asset
      /\ ledger'[p].payTo = ledger[p].payTo
      /\ \A q \in Payments \ {p} : ledger'[q] = ledger[q]
  BY <1>1, <1>2, <1>3, AppendStatusAt
<1>6. /\ inflight' \in [Payments -> BOOLEAN] /\ ~inflight'[p]
      /\ \A q \in Payments \ {p} : inflight'[q] = inflight[q]
  BY <1>2, <1>3, ClearAt
<1>7. TypeOK'
  BY <1>2, <1>3, <1>4, <1>5, <1>6 DEF TypeOK
<1>8. Quote(p)' = Quote(p) /\ Approved(p)'
  BY <1>2, <1>3, ApprovedKept
<1>9. Progress(p)'
  BY <1>4, <1>5, <1>8 DEF Progress, Early
<1>10. pc[p] = "proving" => tx[p] = None
  BY <1>3 DEF PayInv, Progress
<1>11. answer[p] \in {None, "unexpected"} \/ (answer[p] = "prover_failed" /\ pc[p] = "proving")
  BY <1>2, <1>3 DEF PayInv, Answered, Live
<1>12. Truthful(p)'
  <2>1. s # "paid"
    BY <1>1
  <2>2. s = "failed" /\ answer'[p] # "unexpected" => tx[p] = None
    BY <1>1, <1>2, <1>4, <1>10, <1>11
  <2> QED
    BY <1>2, <1>3, <1>5, <1>8, <2>1, <2>2 DEF PayInv, Truthful
<1>13. Answered(p)'
  <2>1. answer'[p] \in NothingMoved => tx[p] = None
    BY <1>1, <1>2, <1>4, <1>10, <1>11 DEF NothingMoved
  <2>2. answer'[p] \notin {"paid", "not_delivered"}
    BY <1>1, <1>4, <1>11
  <2> QED
    BY <1>2, <1>4, <2>1, <2>2 DEF Answered, Live
<1>14. \A q \in Payments \ {p} : Same(q)
  BY <1>2, <1>4, <1>5, <1>6 DEF Same
<1> QED
  BY <1>7, <1>9, <1>12, <1>13, <1>14, Assemble DEF PayInv

(* The content did not arrive: the payment stays paid.                   *)
LEMMA NotDeliveredStep ==
  ASSUME Inv, NEW p \in Payments, NotDelivered(p)
  PROVE  Inv'
<1>1. /\ TypeOK /\ PayInv(p) /\ "not_delivered" \in Codes /\ "paid" \in Statuses
      /\ Finish(p, "not_delivered") /\ AppendStatus(p, "paid")
      /\ pc[p] = "retrying" /\ tx[p] = "mined" /\ Recorded(p)
      /\ UNCHANGED <<clock, limits, challenge, terms, inflight, tx>>
  BY DEF NotDelivered, Inv, PayInv, Progress, Codes, Statuses
<1>2. /\ pc' \in [Payments -> PCs] /\ answer' \in [Payments -> Codes \cup {None}]
      /\ pc'[p] = "ended"
      /\ answer'[p] = IF answer[p] = None THEN "not_delivered" ELSE answer[p]
      /\ \A q \in Payments \ {p} : pc'[q] = pc[q] /\ answer'[q] = answer[q]
  BY <1>1, FinishAt
<1>3. /\ ledger' \in [Payments -> LedgerEntry \cup {NoEntry}]
      /\ Recorded(p)' /\ ledger'[p].status = "paid"
      /\ ledger'[p].amount = ledger[p].amount
      /\ ledger'[p].asset = ledger[p].asset
      /\ ledger'[p].payTo = ledger[p].payTo
      /\ \A q \in Payments \ {p} : ledger'[q] = ledger[q]
  BY <1>1, AppendStatusAt
<1>4. TypeOK'
  BY <1>1, <1>2, <1>3 DEF TypeOK
<1>5. Quote(p)' = Quote(p) /\ (Approved(p)' <=> Approved(p))
  BY <1>1, ApprovedKept
<1>6. Progress(p)'
  BY <1>1, <1>2, <1>3, <1>5 DEF PayInv, Progress, Early
<1>7. answer[p] \in {None, "unexpected"}
  BY <1>1 DEF PayInv, Answered, Live
<1>8. Truthful(p)' /\ Answered(p)'
  BY <1>1, <1>2, <1>3, <1>5, <1>7 DEF PayInv, Truthful, Answered, Live, NothingMoved, Codes
<1>9. \A q \in Payments \ {p} : Same(q)
  BY <1>1, <1>2, <1>3 DEF Same
<1> QED
  BY <1>4, <1>6, <1>8, <1>9, Assemble DEF PayInv

(* An escaped error settles the payment in flight and is reported.       *)
LEMMA EscapedStep ==
  ASSUME Inv, NEW p \in Payments, NEW error \in {"prover", "other"}, Escaped(p, error)
  PROVE  Inv'
<1> DEFINE code == IF error = "prover" THEN "prover_failed" ELSE "unexpected"
           s == IF error = "prover" THEN "failed" ELSE "uncertain"
<1>1. /\ \/ error = "prover" /\ s = "failed" /\ code = "prover_failed"
         \/ error = "other" /\ s = "uncertain" /\ code = "unexpected"
      /\ s \in Statuses /\ code \in Codes
  BY DEF Statuses, Codes
<1>2. /\ Live(p) /\ answer[p] = None /\ (error = "prover" => pc[p] = "proving")
      /\ IF inflight[p] THEN AppendStatus(p, s) ELSE UNCHANGED ledger
      /\ ClearInflight(p) /\ Report(p, code)
      /\ UNCHANGED <<clock, pc, limits, challenge, terms, tx>>
  BY DEF Escaped, MayRaise
<1> HIDE DEF code, s
<1>3. TypeOK /\ PayInv(p)
  BY DEF Inv
<1>4. /\ answer' \in [Payments -> Codes \cup {None}] /\ answer'[p] = code
      /\ \A q \in Payments \ {p} : answer'[q] = answer[q]
  BY <1>1, <1>2, <1>3, ReportAt
<1>5. /\ inflight' \in [Payments -> BOOLEAN] /\ ~inflight'[p]
      /\ \A q \in Payments \ {p} : inflight'[q] = inflight[q]
  BY <1>2, <1>3, ClearAt
<1>6. inflight[p] => Recorded(p) /\ pc[p] \in {"proving", "waiting"}
  BY <1>2, <1>3 DEF PayInv, Progress, Live, Early, TypeOK, PCs
<1>7. /\ ledger' \in [Payments -> LedgerEntry \cup {NoEntry}]
      /\ Recorded(p)' <=> Recorded(p)
      /\ Recorded(p) =>
           /\ ledger'[p].status = IF inflight[p] THEN s ELSE ledger[p].status
           /\ ledger'[p].amount = ledger[p].amount
           /\ ledger'[p].asset = ledger[p].asset
           /\ ledger'[p].payTo = ledger[p].payTo
      /\ \A q \in Payments \ {p} : ledger'[q] = ledger[q]
  <2>1. CASE inflight[p]
    BY <1>1, <1>2, <1>3, <1>6, <2>1, AppendStatusAt
  <2>2. CASE ~inflight[p]
    BY <1>2, <1>3, <2>2 DEF TypeOK, Recorded
  <2> QED
    BY <2>1, <2>2
<1>8. TypeOK'
  BY <1>2, <1>3, <1>4, <1>5, <1>7 DEF TypeOK
<1>9. Quote(p)' = Quote(p) /\ (Approved(p)' <=> Approved(p))
  BY <1>2, <1>3, ApprovedKept
<1>10. pc[p] = "proving" => tx[p] = None
  BY <1>3 DEF PayInv, Progress
<1>11. Recorded(p) => ledger[p].status # "failed"
  BY <1>2, <1>3, PayAssumption DEF PayInv, Answered, Live, Codes
<1>12. Progress(p)'
  <2>1. pc[p] = "retrying" => ~inflight[p]
    BY <1>6
  <2>2. s # "paid"
    BY <1>1
  <2>3. pc[p] \in {"proving", "waiting"} => Recorded(p) /\ ledger[p].status # "paid"
    BY <1>3 DEF PayInv, Progress
  <2>4. pc[p] = "retrying" => Recorded(p)
    BY <1>3 DEF PayInv, Progress
  <2> QED
    BY <1>2, <1>3, <1>5, <1>7, <1>9, <2>1, <2>2, <2>3, <2>4 DEF PayInv, Progress
<1>13. Truthful(p)'
  <2>1. Recorded(p) /\ ledger'[p].status = "paid" => tx[p] = "mined"
    BY <1>1, <1>3, <1>7 DEF PayInv, Truthful
  <2>2. Recorded(p) /\ ledger'[p].status = "failed" => error = "prover" /\ inflight[p]
    BY <1>1, <1>7, <1>11
  <2> QED
    BY <1>2, <1>3, <1>7, <1>9, <1>10, <2>1, <2>2 DEF PayInv, Truthful
<1>14. Answered(p)'
  <2>1. Recorded(p) /\ ledger'[p].status = "failed" => code = "prover_failed"
    BY <1>1, <1>7, <1>11
  <2> QED
    BY <1>1, <1>2, <1>4, <1>7, <1>10, <2>1 DEF Answered, Live, NothingMoved
<1>15. \A q \in Payments \ {p} : Same(q)
  BY <1>2, <1>4, <1>5, <1>7 DEF Same
<1> QED
  BY <1>8, <1>12, <1>13, <1>14, <1>15, Assemble DEF PayInv

(* A process that has reported an error leaves.                          *)
LEMMA ExitStep ==
  ASSUME Inv, NEW p \in Payments, Exit(p)
  PROVE  Inv'
<1>1. /\ TypeOK /\ PayInv(p) /\ "ended" \in PCs /\ Live(p)
      /\ pc' = [pc EXCEPT ![p] = "ended"]
      /\ UNCHANGED <<ledger, clock, limits, challenge, terms, inflight, answer, tx>>
  BY DEF Exit, Inv, PCs
<1>2. TypeOK' /\ pc'[p] = "ended"
  BY <1>1 DEF TypeOK
<1>3. Quote(p)' = Quote(p) /\ (Approved(p)' <=> Approved(p))
  BY <1>1, ApprovedKept
<1>4. Progress(p)' /\ Truthful(p)' /\ Answered(p)'
  BY <1>1, <1>2, <1>3 DEF PayInv, Progress, Truthful, Answered, Recorded, Live, Early
<1>5. \A q \in Payments \ {p} : Same(q)
  BY <1>1 DEF Same, TypeOK
<1> QED
  BY <1>2, <1>4, <1>5, Assemble DEF PayInv

(* A process that is killed forgets the payment in flight.               *)
LEMMA KillStep ==
  ASSUME Inv, NEW p \in Payments, Kill(p)
  PROVE  Inv'
<1>1. /\ TypeOK /\ PayInv(p) /\ "ended" \in PCs /\ Live(p)
      /\ pc' = [pc EXCEPT ![p] = "ended"]
      /\ inflight' = [inflight EXCEPT ![p] = FALSE]
      /\ UNCHANGED <<ledger, clock, limits, challenge, terms, answer, tx>>
  BY DEF Kill, Inv, PCs
<1>2. TypeOK' /\ pc'[p] = "ended"
  BY <1>1 DEF TypeOK
<1>3. Quote(p)' = Quote(p) /\ (Approved(p)' <=> Approved(p))
  BY <1>1, ApprovedKept
<1>4. Progress(p)' /\ Truthful(p)' /\ Answered(p)'
  BY <1>1, <1>2, <1>3 DEF PayInv, Progress, Truthful, Answered, Recorded, Live, Early
<1>5. \A q \in Payments \ {p} : Same(q)
  BY <1>1 DEF Same, TypeOK
<1> QED
  BY <1>2, <1>4, <1>5, Assemble DEF PayInv

(* A transfer the node has is mined or dropped.                          *)
LEMMA IncludeStep ==
  ASSUME Inv, NEW p \in Payments, Include(p)
  PROVE  Inv'
<1>1. PICK fate \in {"mined", "dropped"} : tx' = [tx EXCEPT ![p] = fate]
  BY DEF Include
<1>2. /\ TypeOK /\ PayInv(p) /\ tx[p] = "sent"
      /\ UNCHANGED <<ledger, clock, pc, limits, challenge, terms, inflight, answer>>
  BY DEF Include, Inv
<1>3. TypeOK' /\ tx'[p] = fate
  BY <1>1, <1>2 DEF TypeOK
<1>4. Quote(p)' = Quote(p) /\ (Approved(p)' <=> Approved(p))
  BY <1>2, ApprovedKept
<1>5. tx[p] # None /\ tx[p] # "mined"
  BY <1>2, PayAssumption
<1>6. Progress(p)' /\ Truthful(p)' /\ Answered(p)'
  BY <1>2, <1>3, <1>4, <1>5 DEF PayInv, Progress, Truthful, Answered, Recorded, Live
<1>7. \A q \in Payments \ {p} : Same(q)
  BY <1>1, <1>2 DEF Same, TypeOK
<1> QED
  BY <1>3, <1>6, <1>7, Assemble DEF PayInv

-----------------------------------------------------------------------------
(* The theorems.                                                         *)

(* Every step of every process, of the chain and of the clock.           *)
LEMMA InvNext == Inv /\ [Next]_vars => Inv'
<1> SUFFICES ASSUME Inv, [Next]_vars PROVE Inv'
  OBVIOUS
<1>1. CASE \E p \in Payments : Step(p)
  <2>1. PICK p \in Payments : Step(p)
    BY <1>1
  <2> QED
    BY <2>1, StartStep, NoChallengeStep, ChallengedStep, OpenSessionStep, PreparedStep, UnpreparedStep,
       PrepareFailsStep, RecordPendingStep, SendTxStep, ConfirmedStep, RejectedStep, DeliveredStep,
       NotDeliveredStep, ExitStep DEF Step
<1>2. CASE \E p \in Payments : Kill(p) \/ Include(p)
  BY <1>2, KillStep, IncludeStep
<1>3. CASE \E p \in Payments, error \in {"prover", "other"} : Escaped(p, error)
  BY <1>3, EscapedStep
<1>4. CASE Tick \/ UNCHANGED vars
  <2>1. TypeOK'
    BY <1>4 DEF Inv, TypeOK, Tick, vars
  <2>2. \A q \in Payments : Same(q)
    BY <1>4 DEF Same, Tick, vars
  <2> QED
    BY <2>1, <2>2, SameKeeps DEF Inv
<1> QED
  BY <1>1, <1>2, <1>3, <1>4 DEF Next

(* The invariant of the pay command holds in every reachable state.      *)
THEOREM PayInvariant == Spec => []Inv
BY InvInit, InvNext, PTL DEF Spec

(* Every variable of the pay command keeps its type.                     *)
THEOREM PayTypeCorrect == Spec => []TypeOK
<1>1. Inv => TypeOK
  BY DEF Inv
<1> QED
  BY <1>1, PayInvariant, PTL

(* Whatever pay hands to the node is the recorded, approved payment.     *)
THEOREM PaySendsWhatWasApproved == Spec => []SentAsApproved
<1>1. Inv => SentAsApproved
  <2> SUFFICES ASSUME Inv, NEW p \in Payments, tx[p] # None
               PROVE  /\ Recorded(p)
                      /\ ledger[p].amount = terms[p].req.amount
                      /\ ledger[p].asset = terms[p].req.asset
                      /\ ledger[p].payTo = terms[p].req.payTo
                      /\ SameTerms(terms[p].req, Quote(p))
                      /\ Allowed(Quote(p), limits[p])
    BY DEF SentAsApproved, Quote
  <2>1. Recorded(p) /\ Approved(p) /\ Truthful(p)
    BY DEF Inv, PayInv, Progress
  <2> QED
    BY <2>1 DEF Truthful, Approved, SameTerms
<1> QED
  BY <1>1, PayInvariant, PTL

(* The error table of the skill is true of every answer pay prints.      *)
THEOREM PayAnswersTruthfully == Spec => []AnswerTellsWhetherMoneyMoved
<1>1. Inv => AnswerTellsWhetherMoneyMoved
  BY DEF Inv, PayInv, Answered, AnswerTellsWhetherMoneyMoved
<1> QED
  BY <1>1, PayInvariant, PTL

(* A transfer that moved money counts against the budget, through every  *)
(* crash, unless its payment was reported as unexpected.                 *)
THEOREM PayCrashKeepsBudget == Spec => []CrashKeepsBudget
<1>1. Inv => CrashKeepsBudget
  <2> SUFFICES ASSUME Inv, NEW p \in Payments, tx[p] = "mined", answer[p] # "unexpected"
               PROVE  Counts(p)
    BY DEF CrashKeepsBudget
  <2>1. Recorded(p) /\ Truthful(p) /\ tx[p] # None
    BY PayAssumption DEF Inv, PayInv, Progress
  <2> QED
    BY <2>1 DEF Truthful, Counts
<1> QED
  BY <1>1, PayInvariant, PTL

(* An entry that says paid gets no other status.                         *)
LEMMA PaidStays ==
  ASSUME Inv, [Next]_vars, NEW p \in Payments, Recorded(p), ledger[p].status = "paid"
  PROVE  ledger'[p].status = "paid"
<1>1. TypeOK /\ pc[p] \notin Early \cup {"proving", "waiting"}
  BY DEF Inv, PayInv, Progress
<1>2. \/ UNCHANGED ledger
      \/ \E q \in Payments : AppendPending(q, SelectRequirement(challenge[q])) /\ pc[q] = "approved"
      \/ \E q \in Payments : AppendStatus(q, "paid")
      \/ \E q \in Payments, s \in Statuses : AppendStatus(q, s) /\ pc[q] \in {"proving", "waiting"}
  <2>1. CASE \E q \in Payments : Step(q)
    <3>1. PICK q \in Payments : Step(q)
      BY <2>1
    <3>2. CASE \E error \in Errors : Rejected(q, error)
      <4>1. PICK error \in Errors : Rejected(q, error)
        BY <3>2
      <4>2. SettledAs[error] \in Statuses
        BY DEF Errors, SettledAs, Statuses
      <4> QED
        BY <4>1, <4>2 DEF Rejected
    <3>3. CASE RecordPending(q) \/ Confirmed(q) \/ NotDelivered(q)
      BY <3>3 DEF RecordPending, Confirmed, NotDelivered
    <3> QED
      BY <3>1, <3>2, <3>3 DEF Step, Start, NoChallenge, Challenged, OpenSession, Prepared, Unprepared,
         PrepareFails, SendTx, Delivered, Exit
  <2>2. CASE \E q \in Payments, error \in {"prover", "other"} : Escaped(q, error)
    <3>1. PICK q \in Payments, error \in {"prover", "other"} : Escaped(q, error)
      BY <2>2
    <3>2. inflight[q] => pc[q] \in {"proving", "waiting"}
      BY <3>1 DEF Escaped, Inv, TypeOK, PayInv, Progress, Live, Early, PCs
    <3>3. \E s \in {"failed", "uncertain"} :
            IF inflight[q] THEN AppendStatus(q, s) ELSE UNCHANGED ledger
      BY <3>1 DEF Escaped
    <3> QED
      BY <3>2, <3>3 DEF Statuses
  <2>3. CASE (\E q \in Payments : Kill(q) \/ Include(q)) \/ Tick \/ UNCHANGED vars
    BY <2>3 DEF Kill, Include, Tick, vars
  <2> QED
    BY <2>1, <2>2, <2>3 DEF Next
<1>3. CASE \E q \in Payments : AppendPending(q, SelectRequirement(challenge[q])) /\ pc[q] = "approved"
  <2>1. PICK q \in Payments : AppendPending(q, SelectRequirement(challenge[q])) /\ pc[q] = "approved"
    BY <1>3
  <2>2. q # p
    BY <1>1, <2>1 DEF Early
  <2> QED
    BY <1>1, <2>1, <2>2 DEF AppendPending, TypeOK
<1>4. CASE \E q \in Payments : AppendStatus(q, "paid")
  <2>1. PICK q \in Payments : AppendStatus(q, "paid")
    BY <1>4
  <2>2. CASE q = p
    BY <1>1, <2>1, <2>2, AppendStatusAt DEF Statuses
  <2>3. CASE q # p
    BY <1>1, <2>1, <2>3 DEF AppendStatus, TypeOK
  <2> QED
    BY <2>2, <2>3
<1>5. CASE \E q \in Payments, s \in Statuses : AppendStatus(q, s) /\ pc[q] \in {"proving", "waiting"}
  <2>1. PICK q \in Payments, s \in Statuses : AppendStatus(q, s) /\ pc[q] \in {"proving", "waiting"}
    BY <1>5
  <2>2. q # p
    BY <1>1, <2>1
  <2> QED
    BY <1>1, <2>1, <2>2 DEF AppendStatus, TypeOK
<1> QED
  BY <1>2, <1>3, <1>4, <1>5

(* An entry that says paid is right, and is never taken back.            *)
THEOREM PayPaidIsFinal == Spec => PaidIsFinal
<1>1. Inv /\ Inv' /\ [Next]_vars =>
        [\A p \in Payments :
           /\ Recorded(p)' /\ ledger'[p].status = "paid" => tx'[p] = "mined"
           /\ Recorded(p) /\ ledger[p].status = "paid" => ledger'[p].status = "paid"]_vars
  <2>1. Inv' => \A p \in Payments : Recorded(p)' /\ ledger'[p].status = "paid" => tx'[p] = "mined"
    BY DEF Inv, PayInv, Truthful
  <2> QED
    BY <2>1, PaidStays
<1> QED
  BY <1>1, PayInvariant, PTL DEF Spec, PaidIsFinal

-----------------------------------------------------------------------------
(* The daily limit.                                                      *)

(* Where a command has passed its second check and is not over.          *)
Past == {"approved", "proving", "waiting", "retrying"}

(* A started command has its limits.                                     *)
Limited == \A p \in Payments : pc[p] # "new" => limits[p] \in CallLimits

(* No more commands run at once than the bound says.                     *)
FewLive == Cardinality({q \in Payments : Live(q)}) <= MaxLive

(* What a payment is made for, and the payments that count or may do so  *)
(* again: a running command still has lines to append, with a new time.  *)
Bill == [p \in Payments |-> terms[p].req]

Underway(a) == {p \in Payments : pc[p] \in Past /\ terms[p].req.asset = a}

Charged(a) == {p \in InWindow(a) \cup Underway(a) : terms[p].req.amount >= 0}

(* The payments that ever lowered the total of a token.                  *)
Lowered(a) == {p \in Payments : /\ Recorded(p)
                                /\ terms[p].req.asset = a
                                /\ terms[p].req.amount < 0}

Ceiling == Units(DailyLimit) + (MaxLive - 1) * Units(MaxPerPayment)

Budget(a) == Total(Bill, Charged(a)) + Total(Bill, Lowered(a)) <= Ceiling

SpendInv == Limited /\ FewLive /\ \A a \in Assets : Budget(a)

(* A payment passes its second check.                                    *)
Approves(p, t) ==
  /\ pc[p] = "preparing" /\ CheckPayment(t.req, limits[p])
  /\ pc' = [pc EXCEPT ![p] = "approved"]
  /\ terms' = [terms EXCEPT ![p] = t]
  /\ UNCHANGED <<ledger, clock, limits>>

(* A command starts.                                                     *)
Starts(p, lim) ==
  /\ pc[p] = "new" /\ Cardinality({q \in Payments : Live(q)}) < MaxLive
  /\ limits' = [limits EXCEPT ![p] = lim] /\ pc' = [pc EXCEPT ![p] = "requesting"]
  /\ UNCHANGED <<ledger, clock, terms>>

(* Anything else: no further payment starts to count.                    *)
Settles ==
  /\ UNCHANGED <<terms, limits>> /\ clock' \in {clock, clock + 1}
  /\ \A q \in Payments :
       /\ pc'[q] = pc[q] \/ (pc[q] # "new" /\ pc'[q] # "new")
       /\ Live(q)' => Live(q)
       /\ pc[q] \in Past \/ (ledger'[q] = ledger[q] /\ pc'[q] \notin Past)

(* The steps, as far as the daily limit is concerned.                    *)
LEMMA Shapes ==
  ASSUME Inv, [Next]_vars
  PROVE  \/ \E p \in Payments, t \in [req : Requirements, commitment : BOOLEAN] : Approves(p, t)
         \/ \E p \in Payments, lim \in CallLimits : Starts(p, lim)
         \/ Settles
<1>1. TypeOK
  BY DEF Inv
<1>2. ASSUME NEW p \in Payments, Live(p), UNCHANGED <<terms, limits, clock>>,
             pc' = [pc EXCEPT ![p] = "ended"] \/ pc' = pc,
             \A q \in Payments \ {p} : ledger'[q] = ledger[q],
             pc[p] \in Past \/ ledger'[p] = ledger[p]
      PROVE  Settles
  BY <1>1, <1>2 DEF Settles, TypeOK, Live, Past
<1>3. ASSUME NEW p \in Payments, NEW next \in {"opening", "preparing"},
             pc[p] \in {"requesting", "opening"}, pc' = [pc EXCEPT ![p] = next],
             UNCHANGED <<terms, limits, clock, ledger>>
      PROVE  Settles
  BY <1>1, <1>3 DEF Settles, TypeOK, Live, Past
<1>4. ASSUME NEW p \in Payments, NEW next \in Past,
             pc[p] \in Past, pc' = [pc EXCEPT ![p] = next],
             UNCHANGED <<terms, limits, clock>>,
             \A q \in Payments \ {p} : ledger'[q] = ledger[q]
      PROVE  Settles
  BY <1>1, <1>4 DEF Settles, TypeOK, Live, Past
<1>5. ASSUME NEW p \in Payments, NEW q \in Payments \ {p}, NEW s, AppendStatus(p, s)
      PROVE  ledger'[q] = ledger[q]
  BY <1>1, <1>5 DEF AppendStatus, TypeOK
<1>6. ASSUME NEW p \in Payments, NEW req \in Requirements, NEW b \in BOOLEAN, Guard(p, req, b),
             pc[p] = "preparing", UNCHANGED <<ledger, clock, limits>>
      PROVE  Settles \/ \E t \in [req : Requirements, commitment : BOOLEAN] : Approves(p, t)
  <2>1. CASE Finish(p, "policy_rejected") /\ UNCHANGED terms
    BY <1>2, <1>6, <2>1 DEF Finish, Live
  <2>2. CASE /\ CheckPayment(req, limits[p]) /\ Goto(p, "approved")
             /\ terms' = [terms EXCEPT ![p] = [req |-> req, commitment |-> b]]
    <3> DEFINE t == [req |-> req, commitment |-> b]
    <3>1. t \in [req : Requirements, commitment : BOOLEAN] /\ t.req = req
      OBVIOUS
    <3>2. terms' = [terms EXCEPT ![p] = t]
      BY <2>2
    <3> HIDE DEF t
    <3>3. CheckPayment(t.req, limits[p])
      BY <2>2, <3>1
    <3> QED
      BY <1>6, <2>2, <3>1, <3>2, <3>3 DEF Approves, Goto
  <2> QED
    BY <1>6, <2>1, <2>2 DEF Guard
<1>7. ASSUME NEW p \in Payments, Step(p)
      PROVE  \/ \E t \in [req : Requirements, commitment : BOOLEAN] : Approves(p, t)
             \/ \E lim \in CallLimits : Starts(p, lim)
             \/ Settles
  <2>1. CASE \E lim \in CallLimits : Start(p, lim)
    BY <2>1 DEF Start, Starts, Goto
  <2>2. CASE NoChallenge(p) \/ PrepareFails(p) \/ Delivered(p)
    BY <1>2, <2>2 DEF NoChallenge, PrepareFails, Delivered, Finish, Live
  <2>3. CASE \E accepts \in Challenges : Challenged(p, accepts)
    BY <1>2, <1>3, <2>3 DEF Challenged, Finish, Goto, Live
  <2>4. CASE OpenSession(p)
    BY <1>2, <1>3, <2>4 DEF OpenSession, Finish, Goto, Live
  <2>5. CASE \E req \in Requirements : Prepared(p, req)
    <3>1. PICK req \in Requirements : Prepared(p, req)
      BY <2>5
    <3>2. CASE Guard(p, req, TRUE)
      BY <1>6, <3>1, <3>2 DEF Prepared
    <3>3. CASE Finish(p, "policy_rejected") /\ UNCHANGED terms
      BY <1>2, <3>1, <3>3 DEF Prepared, Finish, Live
    <3> QED
      BY <3>1, <3>2, <3>3 DEF Prepared
  <2>6. CASE Unprepared(p)
    <3>1. Matching(p) \in Requirements
      BY <2>6, PayAssumption DEF Unprepared, Inv, PayInv, Progress, TypeOK, Matching
    <3>2. PICK b \in BOOLEAN : Guard(p, Matching(p), b)
      BY <2>6 DEF Unprepared
    <3> QED
      BY <1>6, <2>6, <3>1, <3>2 DEF Unprepared
  <2>7. CASE RecordPending(p)
    BY <1>1, <1>4, <2>7 DEF RecordPending, AppendPending, Goto, Past, TypeOK
  <2>8. CASE SendTx(p)
    BY <1>4, <2>8 DEF SendTx, Goto, Past
  <2>9. CASE Confirmed(p)
    BY <1>4, <1>5, <2>9 DEF Confirmed, Goto, Past
  <2>10. CASE \E error \in Errors : Rejected(p, error)
    BY <1>2, <1>5, <2>10 DEF Rejected, Finish, Past, Live
  <2>11. CASE NotDelivered(p)
    BY <1>2, <1>5, <2>11 DEF NotDelivered, Finish, Past, Live
  <2>12. CASE Exit(p)
    BY <1>2, <2>12 DEF Exit
  <2> QED
    BY <1>7, <2>1, <2>2, <2>3, <2>4, <2>5, <2>6, <2>7, <2>8, <2>9, <2>10, <2>11, <2>12 DEF Step
<1>8. ASSUME NEW p \in Payments, Kill(p)
      PROVE  Settles
  BY <1>2, <1>8 DEF Kill
<1>9. ASSUME NEW p \in Payments, NEW error \in {"prover", "other"}, Escaped(p, error)
      PROVE  Settles
  <2>1. inflight[p] => pc[p] \in Past
    BY <1>1, <1>9 DEF Escaped, Inv, PayInv, Progress, Live, Early, TypeOK, PCs, Past
  <2>2. \/ ledger' = ledger
        \/ inflight[p] /\ \E s \in Statuses : AppendStatus(p, s)
    BY <1>9 DEF Escaped, Statuses
  <2> QED
    BY <1>2, <1>5, <1>9, <2>1, <2>2 DEF Escaped
<1>10. ASSUME (\E p \in Payments : Include(p)) \/ Tick \/ UNCHANGED vars
       PROVE  Settles
  <2>1. UNCHANGED <<ledger, pc, limits, terms>> /\ clock' \in {clock, clock + 1}
    BY <1>10 DEF Include, Tick, vars
  <2>2. \A q \in Payments : pc[q] \in Past \/ pc[q] \notin Past
    OBVIOUS
  <2> QED
    BY <2>1, <2>2 DEF Settles, Live
<1> QED
  BY <1>7, <1>8, <1>9, <1>10 DEF Next

(* Products grow with their factor.                                      *)
LEMMA TimesMonotonic ==
  ASSUME NEW m \in Nat, NEW n \in Nat, NEW k \in Nat, m <= n
  PROVE  m * k <= n * k /\ m * k \in Nat /\ n * k \in Nat
<1> DEFINE d == n - m
<1>1. d \in Nat /\ n = m + d
  OBVIOUS
<1> HIDE DEF d
<1>2. n * k = m * k + d * k /\ m * k \in Nat /\ d * k \in Nat
  BY <1>1
<1> QED
  BY <1>2

(* A limit is a number of base units.                                    *)
LEMMA UnitsType == \A text \in Text : Units(text) \in Nat
<1> SUFFICES ASSUME NEW text \in Text PROVE Units(text) \in Nat
  OBVIOUS
<1>1. /\ text.whole \in Nat /\ text.digits \in Nat /\ text.places \in Nat /\ Decimals \in Nat
      /\ Pow10[Decimals] \in Nat
  BY Pow10Type, LedgerAssumption DEF Text
<1>2. FractionalPart(text, Decimals) \in Nat
  <2>1. CASE text.places <= Decimals
    <3>1. Decimals - text.places \in Nat
      BY <1>1, <2>1
    <3>2. Pow10[Decimals - text.places] \in Nat
      BY <3>1, Pow10Type
    <3>3. text.digits * Pow10[Decimals - text.places] \in Nat
      BY <1>1, <3>2
    <3> QED
      BY <2>1, <3>3 DEF FractionalPart
  <2>2. CASE ~(text.places <= Decimals)
    <3>1. text.places - Decimals \in Nat
      BY <1>1, <2>2
    <3>2. Pow10[text.places - Decimals] \in Nat \ {0}
      BY <3>1, Pow10Type
    <3>3. text.digits \div Pow10[text.places - Decimals] \in Nat
      BY <1>1, <3>2, DivMod
    <3> QED
      BY <2>2, <3>3 DEF FractionalPart
  <2> QED
    BY <2>1, <2>2
<1>3. text.whole * Pow10[Decimals] \in Nat
  BY <1>1
<1>4. text.whole * Pow10[Decimals] + FractionalPart(text, Decimals) \in Nat
  BY <1>2, <1>3
<1> QED
  BY <1>4 DEF Units, ParseAmount, ParsePrice

(* Both limits of the policy, and the bound on the total, are naturals.  *)
LEMMA LimitsType == Units(DailyLimit) \in Nat /\ Units(MaxPerPayment) \in Nat /\ Ceiling \in Nat
<1>1. Units(DailyLimit) \in Nat /\ Units(MaxPerPayment) \in Nat /\ MaxLive - 1 \in Nat
  BY UnitsType, LedgerAssumption, PayAssumption
<1>2. (MaxLive - 1) * Units(MaxPerPayment) \in Nat
  BY <1>1
<1> QED
  BY <1>1, <1>2 DEF Ceiling

(* A recorded payment is approved, and its entry says what it pays.      *)
LEMMA RecordedApproved ==
  ASSUME Inv, NEW p \in Payments, Recorded(p)
  PROVE  /\ Approved(p) /\ terms[p].req.amount \in Int
         /\ ledger[p].asset = terms[p].req.asset /\ ledger[p].amount = terms[p].req.amount
<1>1. Approved(p)
  BY DEF Inv, PayInv, Progress
<1>2. ledger[p].asset = terms[p].req.asset /\ ledger[p].amount = terms[p].req.amount
  BY <1>1 DEF Inv, PayInv, Truthful, Approved, SameTerms
<1>3. terms[p].req.amount \in Int
  BY <1>1, PayAssumption DEF Approved
<1> QED
  BY <1>1, <1>2, <1>3

(* A payment that counts is approved, and its entry says what it pays.   *)
LEMMA ChargedApproved ==
  ASSUME Inv, NEW a, NEW p \in Payments, p \in Charged(a)
  PROVE  /\ Approved(p) /\ terms[p].req.asset = a
         /\ Bill[p].amount = terms[p].req.amount /\ Bill[p].amount \in Nat
         /\ Bill[p].amount <= Units(MaxPerPayment)
         /\ Recorded(p) => ledger[p].amount = Bill[p].amount
<1>1. Approved(p)
  BY DEF Inv, PayInv, Progress, Charged, InWindow, Underway, Counts, Past
<1>2. Recorded(p) => ledger[p].asset = terms[p].req.asset /\ ledger[p].amount = terms[p].req.amount
  BY RecordedApproved
<1>3. terms[p].req.asset = a
  BY <1>2 DEF Charged, InWindow, Underway, Counts
<1>4. Bill[p] = terms[p].req
  BY DEF Bill
<1>5. terms[p].req.amount \in Nat
  <2>1. terms[p].req.amount \in Int
    BY <1>1, PayAssumption DEF Approved
  <2>2. terms[p].req.amount >= 0
    BY DEF Charged
  <2> QED
    BY <2>1, <2>2
<1>6. terms[p].req.amount <= Units(MaxPerPayment)
  BY <1>1 DEF Approved, SameTerms, Allowed
<1> QED
  BY <1>1, <1>2, <1>3, <1>4, <1>5, <1>6

(* The payments that count are finitely many, each of a natural amount.  *)
LEMMA ChargedFinite ==
  ASSUME Inv, NEW a
  PROVE  Charged(a) \subseteq Payments /\ IsFiniteSet(Charged(a)) /\ Natural(Bill, Charged(a))
<1>1. Charged(a) \subseteq Payments
  BY DEF Charged, InWindow, Underway
<1>2. IsFiniteSet(Charged(a))
  BY <1>1, FS_Subset, LedgerAssumption
<1> QED
  BY <1>1, <1>2, ChargedApproved DEF Natural

(* Those that lowered it are too, each of an amount below zero.          *)
LEMMA LoweredFinite ==
  ASSUME Inv, NEW a
  PROVE  /\ Lowered(a) \subseteq Payments /\ IsFiniteSet(Lowered(a)) /\ Whole(Bill, Lowered(a))
         /\ \A p \in Lowered(a) : Bill[p].amount < 0
<1>1. Lowered(a) \subseteq Payments
  BY DEF Lowered
<1>2. IsFiniteSet(Lowered(a))
  BY <1>1, FS_Subset, LedgerAssumption
<1>3. ASSUME NEW p \in Lowered(a) PROVE Bill[p].amount \in Int /\ Bill[p].amount < 0
  <2>1. p \in Payments /\ Recorded(p) /\ terms[p].req.amount < 0 /\ Bill[p] = terms[p].req
    BY DEF Lowered, Bill
  <2> QED
    BY <2>1, RecordedApproved
<1> QED
  BY <1>1, <1>2, <1>3 DEF Whole

(* The budget of fewer payments that count and more that lower it, for   *)
(* the same amounts.                                                     *)
LEMMA Shrinks ==
  ASSUME Inv, NEW a, Budget(a), NEW bill, NEW some \in SUBSET Charged(a),
         \A p \in some : bill[p].amount = Bill[p].amount,
         NEW low \in SUBSET Payments, Lowered(a) \subseteq low,
         \A p \in low : /\ bill[p].amount = Bill[p].amount
                        /\ Bill[p].amount \in Int /\ Bill[p].amount < 0
  PROVE  Total(bill, some) + Total(bill, low) <= Ceiling
<1>1. IsFiniteSet(Charged(a)) /\ Natural(Bill, Charged(a)) /\ IsFiniteSet(some)
  BY ChargedFinite, FS_Subset
<1>2. Total(bill, some) = Total(Bill, some)
  BY <1>1, TotalSame
<1>3. Total(Bill, some) <= Total(Bill, Charged(a))
  BY <1>1, TotalMonotonic
<1>4. /\ Total(Bill, some) \in Nat /\ Total(Bill, Charged(a)) \in Nat
  BY <1>1, TotalType
<1>5. IsFiniteSet(low) /\ Whole(Bill, low)
  BY FS_Subset, LedgerAssumption DEF Whole
<1>6. Total(bill, low) = Total(Bill, low)
  BY <1>5, TotalSame
<1>7. Total(Bill, low) <= Total(Bill, Lowered(a))
  <2>1. \A p \in low \ Lowered(a) : Bill[p].amount <= 0
    OBVIOUS
  <2> QED
    BY <1>5, <2>1, TotalLowered
<1>8. Total(Bill, low) \in Int /\ Total(Bill, Lowered(a)) \in Int
  BY <1>5, TotalWhole
<1>9. Total(Bill, Charged(a)) + Total(Bill, Lowered(a)) <= Ceiling /\ Ceiling \in Nat
  BY LimitsType DEF Budget
<1>10. Total(Bill, some) + Total(Bill, low) <= Ceiling
  BY <1>3, <1>4, <1>7, <1>8, <1>9
<1> QED
  BY <1>2, <1>6, <1>10

(* No entry ever goes.                                                   *)
LEMMA EntriesStay ==
  ASSUME Inv, [Next]_vars, NEW q \in Payments, Recorded(q)
  PROVE  Recorded(q)'
<1>1. TypeOK
  BY DEF Inv
<1>2. ASSUME NEW p \in Payments, NEW s \in Statuses, AppendStatus(p, s)
      PROVE  Recorded(q)'
  <2>1. CASE p = q
    BY <1>1, <1>2, <2>1, AppendStatusAt
  <2>2. CASE p # q
    BY <1>1, <1>2, <2>2 DEF AppendStatus, TypeOK, Recorded
  <2> QED
    BY <2>1, <2>2
<1>3. ASSUME NEW p \in Payments, RecordPending(p)
      PROVE  Recorded(q)'
  <2>1. p # q
    BY <1>3 DEF RecordPending, Inv, PayInv, Progress, Early
  <2> QED
    BY <1>1, <1>3, <2>1 DEF RecordPending, AppendPending, TypeOK, Recorded
<1>4. CASE UNCHANGED ledger
  BY <1>4 DEF Recorded
<1>5. ASSUME NEW p \in Payments, Step(p)
      PROVE  UNCHANGED ledger \/ RecordPending(p) \/ \E s \in Statuses : AppendStatus(p, s)
  <2>1. ASSUME NEW error \in Errors, Rejected(p, error)
        PROVE  \E s \in Statuses : AppendStatus(p, s)
    BY <2>1 DEF Rejected, Errors, SettledAs, Statuses
  <2>2. Confirmed(p) \/ NotDelivered(p) => \E s \in Statuses : AppendStatus(p, s)
    BY DEF Confirmed, NotDelivered, Statuses
  <2> QED
    BY <1>5, <2>1, <2>2 DEF Step, Start, NoChallenge, Challenged, OpenSession, Prepared, Unprepared,
       PrepareFails, SendTx, Delivered, Exit
<1>6. ASSUME NEW p \in Payments, NEW error \in {"prover", "other"}, Escaped(p, error)
      PROVE  UNCHANGED ledger \/ \E s \in Statuses : AppendStatus(p, s)
  BY <1>6 DEF Escaped, Statuses
<1>7. ASSUME NEW p \in Payments, Kill(p) \/ Include(p)
      PROVE  UNCHANGED ledger
  BY <1>7 DEF Kill, Include
<1>8. Tick \/ UNCHANGED vars => UNCHANGED ledger
  BY DEF Tick, vars
<1> QED
  BY <1>2, <1>3, <1>4, <1>5, <1>6, <1>7, <1>8 DEF Next

(* Nothing counts afterwards that did not count before, and whatever     *)
(* lowered the total still does.                                         *)
LEMMA SettlesShrinks ==
  ASSUME Inv, Inv', [Next]_vars,
         Settles \/ (\E p \in Payments, lim \in CallLimits : Starts(p, lim)), NEW a
  PROVE  /\ Charged(a)' \subseteq Charged(a) /\ UNCHANGED terms
         /\ Lowered(a) \subseteq Lowered(a)' /\ Lowered(a)' \subseteq Payments
         /\ \A q \in Lowered(a)' : terms[q].req.amount \in Int /\ terms[q].req.amount < 0
<1>1. TypeOK /\ TypeOK'
  BY DEF Inv
<1>2. /\ UNCHANGED terms /\ clock' \in {clock, clock + 1}
      /\ \A q \in Payments : pc[q] \in Past \/ (ledger'[q] = ledger[q] /\ pc'[q] \notin Past)
  <2>1. CASE Settles
    BY <2>1 DEF Settles
  <2>2. CASE \E p \in Payments, lim \in CallLimits : Starts(p, lim)
    BY <1>1, <2>2 DEF Starts, Past, TypeOK
  <2> QED
    BY <2>1, <2>2
<1>3. ASSUME NEW q \in Payments, q \in Charged(a)' PROVE q \in Charged(a)
  <2>1. terms[q].req.amount >= 0 /\ (q \in InWindow(a)' \/ q \in Underway(a)')
    BY <1>2, <1>3 DEF Charged
  <2>2. CASE pc[q] \in Past
    <3>1. terms[q].req.asset = a
      <4>1. Progress(q)' /\ Truthful(q)'
        BY DEF Inv, PayInv
      <4>2. Recorded(q)' => ledger'[q].asset = terms'[q].req.asset
        BY <4>1 DEF Progress, Truthful, Approved, SameTerms
      <4>3. terms'[q].req.asset = a
        BY <2>1, <4>2 DEF InWindow, Underway, Counts
      <4> QED
        BY <1>2, <4>3
    <3> QED
      BY <2>1, <2>2, <3>1 DEF Charged, Underway
  <2>3. CASE ledger'[q] = ledger[q] /\ pc'[q] \notin Past
    <3>1. /\ ledger'[q] # NoEntry /\ ledger'[q].status # "failed" /\ ledger'[q].asset = a
          /\ clock' - ledger'[q].at < Day
      BY <2>1, <2>3 DEF Underway, InWindow, Counts, Recorded
    <3>2. ledger[q].at \in Nat /\ clock \in Nat /\ Day \in Nat
      BY <1>1, <2>3, <3>1, LedgerAssumption DEF TypeOK, LedgerEntry
    <3>3. clock - ledger[q].at < Day
      BY <1>2, <2>3, <3>1, <3>2
    <3> QED
      BY <2>1, <2>3, <3>1, <3>3 DEF Charged, InWindow, Counts, Recorded
  <2> QED
    BY <1>2, <2>2, <2>3
<1>4. Charged(a)' \subseteq Payments /\ Lowered(a)' \subseteq Payments
  BY DEF Charged, InWindow, Underway, Lowered
<1>5. Lowered(a) \subseteq Lowered(a)'
  BY <1>2, EntriesStay DEF Lowered
<1>6. ASSUME NEW q \in Lowered(a)'
      PROVE  terms[q].req.amount \in Int /\ terms[q].req.amount < 0
  <2>1. q \in Payments /\ Recorded(q)' /\ terms[q].req.amount < 0
    BY <1>2 DEF Lowered
  <2>2. Approved(q)'
    BY <2>1 DEF Inv, PayInv, Progress
  <2>3. terms[q] \in [req : Requirements, commitment : BOOLEAN]
    BY <1>2, <2>2 DEF Approved
  <2> QED
    BY <2>1, <2>3, PayAssumption
<1> QED
  BY <1>2, <1>3, <1>4, <1>5, <1>6

(* The bound after a step, in terms of the sums after it.                *)
LEMMA BudgetAfter ==
  ASSUME NEW a, Total(Bill', Charged(a)') + Total(Bill', Lowered(a)') <= Ceiling
  PROVE  Budget(a)'
BY DEF Budget, Ceiling, Units

(* A payment passes its second check: it and the payments of its window  *)
(* are within the daily limit, and the commands that run beside it pay at*)
(* most what one payment may cost each.                                  *)
LEMMA ApprovesBudget ==
  ASSUME Inv, Inv', FewLive, NEW p \in Payments, NEW t \in [req : Requirements, commitment : BOOLEAN],
         Approves(p, t), NEW a \in Assets, Budget(a)
  PROVE  Budget(a)'
<1>1. /\ TypeOK /\ PayInv(p) /\ pc[p] = "preparing" /\ ~Recorded(p)
      /\ UNCHANGED <<ledger, clock>>
      /\ pc'[p] = "approved" /\ \A q \in Payments \ {p} : pc'[q] = pc[q]
      /\ terms'[p] = t /\ \A q \in Payments \ {p} : terms'[q] = terms[q]
  BY DEF Approves, Inv, TypeOK, PayInv, Progress, Early
<1> DEFINE W0 == InWindow(a)
           W == {q \in InWindow(a) : terms[q].req.amount >= 0}
           B == {q \in Underway(a) : terms[q].req.amount >= 0}
           L == Lowered(a)
<1>2. W0' = W0 /\ p \notin W0 /\ W0 \subseteq Payments
  BY <1>1 DEF InWindow, Counts, Recorded
<1>3. W' = W
  BY <1>1, <1>2
<1>4. B' \ {p} = B /\ p \notin B /\ (p \in B' <=> t.req.asset = a /\ t.req.amount >= 0)
  BY <1>1 DEF Underway, Past
<1>5. L' = L /\ p \notin L
  BY <1>1 DEF Lowered, Recorded
<1>6. Charged(a) = W \cup B /\ Charged(a)' = W' \cup B' /\ p \notin Charged(a)
  BY <1>2, <1>4 DEF Charged
<1>7. \A q \in Payments \ {p} : Bill'[q] = Bill[q] /\ Bill[q] = terms[q].req
  BY <1>1 DEF Bill
<1>8. /\ Charged(a) \subseteq Payments \ {p} /\ L \subseteq Payments \ {p}
      /\ \A q \in L : Bill[q].amount \in Int /\ Bill[q].amount < 0
  BY <1>5, <1>6, ChargedFinite, LoweredFinite DEF Whole
<1>9. CASE ~(t.req.asset = a /\ t.req.amount >= 0)
  <2>1. Charged(a)' = Charged(a)
    BY <1>3, <1>4, <1>6, <1>9
  <2>2. Total(Bill', Charged(a)') + Total(Bill', L') <= Ceiling
    <3>1. Charged(a)' \in SUBSET Charged(a) /\ \A q \in Charged(a)' : Bill'[q].amount = Bill[q].amount
      BY <1>7, <1>8, <2>1
    <3>2. /\ L' \in SUBSET Payments /\ Lowered(a) \subseteq L'
          /\ \A q \in L' : /\ Bill'[q].amount = Bill[q].amount
                             /\ Bill[q].amount \in Int /\ Bill[q].amount < 0
      BY <1>5, <1>7, <1>8
    <3> HIDE DEF L
    <3> QED
      BY <3>1, <3>2, Shrinks
  <2> QED
    BY <2>2, BudgetAfter
<1>10. CASE t.req.asset = a /\ t.req.amount >= 0
  <2> DEFINE S == (W0 \cup {p}) \cup (B \cup L)
             N == W0 \ W
             C == (W \cup {p}) \cup B
             M == Units(MaxPerPayment)
  <2>1. /\ Charged(a)' = C /\ W \subseteq W0 /\ N \subseteq W0 /\ N \cap W = {} /\ W \cup N = W0
        /\ C \subseteq S /\ L \subseteq S /\ W0 \subseteq S /\ B \subseteq S /\ p \notin W0
        /\ W \subseteq Charged(a) /\ B \subseteq Charged(a)
    BY <1>2, <1>3, <1>4, <1>6, <1>10
  <2>2. \A q \in W0 : /\ q \in Payments /\ q # p /\ Recorded(q) /\ Bill'[q].amount = ledger[q].amount
                       /\ Bill'[q].amount = terms[q].req.amount /\ Bill'[q].amount \in Int
                       /\ terms[q].req.asset = a
    <3> SUFFICES ASSUME NEW q \in W0
                 PROVE  /\ q \in Payments /\ q # p /\ Recorded(q) /\ Bill'[q].amount = ledger[q].amount
                        /\ Bill'[q].amount = terms[q].req.amount /\ Bill'[q].amount \in Int
                        /\ terms[q].req.asset = a
      OBVIOUS
    <3>1. q \in Payments /\ Recorded(q) /\ q # p /\ ledger[q].asset = a
      BY <1>2 DEF InWindow, Counts
    <3>2. /\ terms[q].req.amount \in Int
          /\ ledger[q].asset = terms[q].req.asset /\ ledger[q].amount = terms[q].req.amount
      BY <3>1, RecordedApproved
    <3>3. Bill'[q].amount = terms[q].req.amount
      BY <1>7, <3>1
    <3> QED
      BY <3>1, <3>2, <3>3
  <2>3. N \subseteq L
    BY <2>2 DEF Lowered
  <2>4. t.req.amount \in Nat /\ Bill'[p].amount = t.req.amount
    <3>1. t.req.amount \in Int
      BY PayAssumption
    <3> QED
      BY <1>1, <1>10, <3>1 DEF Bill
  <2>5. Natural(Bill', C) /\ \A q \in B : Bill'[q].amount <= M
    BY <1>7, <1>8, <2>1, <2>4, ChargedApproved DEF Natural
  <2>6. Whole(Bill', S) /\ \A q \in L : Bill'[q].amount \in Int /\ Bill'[q].amount < 0
    <3>1. \A q \in L : Bill'[q].amount \in Int /\ Bill'[q].amount < 0
      BY <1>7, <1>8
    <3>2. \A q \in B : Bill'[q].amount \in Int
      BY <2>1, <2>5 DEF Natural
    <3> HIDE DEF W0, B, L
    <3> QED
      BY <2>2, <2>4, <3>1, <3>2 DEF Whole
  <2>7. IsFiniteSet(S) /\ IsFiniteSet(C) /\ IsFiniteSet(B) /\ IsFiniteSet(W0) /\ IsFiniteSet(L)
    <3>1. S \subseteq Payments
      BY <1>2, <1>8, <2>1
    <3> HIDE DEF S, C, B, W0, L
    <3> QED
      BY <2>1, <3>1, FS_Subset, LedgerAssumption
  <2>8. M \in Nat /\ Units(DailyLimit) \in Nat /\ MaxLive \in Nat \ {0}
    BY LimitsType, PayAssumption
  <2>9. SpentLast24h(a) + t.req.amount <= Units(DailyLimit)
    BY <1>10 DEF Approves, CheckPayment
  <2>10. Total(Bill', W0) = SpentLast24h(a)
    <3>1. \A q \in W0 : Bill'[q].amount = ledger[q].amount
      BY <2>2
    <3>2. Total(Bill', W0) = Total(ledger, W0)
      <4>1. IsFiniteSet(W0) /\ \A q \in W0 : ledger[q].amount = Bill'[q].amount
        BY <2>7, <3>1
      <4> HIDE DEF W0
      <4>2. \A s \in SUBSET W0 : Total(ledger, s) = Total(Bill', s)
        BY <4>1, TotalSame
      <4> QED
        BY <4>2
    <3> QED
      BY <3>2 DEF SpentLast24h
  <2>11. Cardinality(B) \in Nat /\ Cardinality(B) <= MaxLive - 1
    <3>1. B \cup {p} \subseteq {q \in Payments : Live(q)} /\ p \notin B
      BY <1>1, <1>4 DEF Underway, Live, Past
    <3>2. IsFiniteSet({q \in Payments : Live(q)}) /\ IsFiniteSet(B)
      BY <2>7, FS_Subset, LedgerAssumption
    <3> HIDE DEF B
    <3>3. Cardinality(B \cup {p}) = Cardinality(B) + 1
      BY <3>1, <3>2, FS_AddElement
    <3>4. Cardinality(B \cup {p}) <= Cardinality({q \in Payments : Live(q)})
      BY <3>1, <3>2, FS_Subset
    <3>5. /\ Cardinality(B) \in Nat /\ Cardinality({q \in Payments : Live(q)}) \in Nat
      BY <3>2, FS_CardinalityType
    <3> QED
      BY <2>8, <3>3, <3>4, <3>5 DEF FewLive
  <2> HIDE DEF W0, W, B, L, N, M
  <2>12. Total(Bill', W0) = Total(Bill', W) + Total(Bill', N)
    <3>1. W \in SUBSET S /\ N \in SUBSET S
      BY <2>1
    <3> HIDE DEF S
    <3>2. Total(Bill', W \cup N) = Total(Bill', W) + Total(Bill', N)
      BY <2>1, <2>6, <2>7, <3>1, TotalSplit
    <3> QED
      BY <2>1, <3>2
  <2>13. Total(Bill', L) <= Total(Bill', N)
    <3>1. Whole(Bill', L) /\ N \in SUBSET L /\ \A q \in L \ N : Bill'[q].amount <= 0
      BY <2>3, <2>6 DEF Whole
    <3> QED
      BY <2>7, <3>1, TotalLowered
  <2>14. Total(Bill', W \cup {p}) = t.req.amount + Total(Bill', W)
    <3> DEFINE V == W \cup {p}
    <3>1. V \in SUBSET S /\ p \in V /\ V \ {p} = W
      BY <2>1
    <3> HIDE DEF S, V
    <3>2. Total(Bill', V) = Bill'[p].amount + Total(Bill', V \ {p})
      BY <2>6, <2>7, <3>1, TotalRemove
    <3>3. Total(Bill', V \ {p}) = Total(Bill', W)
      BY <3>1
    <3>4. Total(Bill', V) = t.req.amount + Total(Bill', W)
      BY <2>4, <3>2, <3>3
    <3> QED
      BY <3>4 DEF V
  <2>15. /\ Total(Bill', W) \in Int /\ Total(Bill', N) \in Int /\ Total(Bill', L) \in Int
         /\ Total(Bill', W \cup {p}) \in Int /\ Total(Bill', C) \in Int
    <3>1. /\ W \in SUBSET S /\ N \in SUBSET S /\ L \in SUBSET S
          /\ W \cup {p} \in SUBSET S /\ C \in SUBSET S
      BY <2>1
    <3> HIDE DEF S, C
    <3> QED
      BY <2>6, <2>7, <3>1, TotalWhole
  <2>16. Total(Bill', W \cup {p}) + Total(Bill', L) <= Units(DailyLimit)
    BY <2>4, <2>8, <2>9, <2>10, <2>12, <2>13, <2>14, <2>15
  <2>17. Total(Bill', C) <= Total(Bill', W \cup {p}) + Cardinality(B) * M
    <3>1. W \cup {p} \in SUBSET C /\ B \in SUBSET C /\ C = (W \cup {p}) \cup B
      OBVIOUS
    <3> HIDE DEF C
    <3>2. Total(Bill', (W \cup {p}) \cup B) <= Total(Bill', W \cup {p}) + Cardinality(B) * M
      BY <2>5, <2>7, <2>8, <3>1, TotalBound
    <3> QED
      BY <3>1, <3>2
  <2>18. /\ Cardinality(B) * M <= (MaxLive - 1) * M
         /\ Cardinality(B) * M \in Nat /\ (MaxLive - 1) * M \in Nat
    <3>1. MaxLive - 1 \in Nat
      BY <2>8
    <3> QED
      BY <2>8, <2>11, <3>1, TimesMonotonic
  <2>19. Ceiling = Units(DailyLimit) + (MaxLive - 1) * M
    BY DEF Ceiling, M
  <2> HIDE DEF C
  <2>20. Total(Bill', C) + Total(Bill', L) <= Ceiling
    BY <2>8, <2>15, <2>16, <2>17, <2>18, <2>19
  <2>21. Total(Bill', Charged(a)') + Total(Bill', L') <= Ceiling
    BY <1>5, <2>1, <2>20
  <2> QED
    BY <2>21, BudgetAfter DEF L
<1> QED
  BY <1>9, <1>10

(* Nothing is spent before the first invocation.                         *)
LEMMA SpendInit == Init => SpendInv
<1> SUFFICES ASSUME Init PROVE SpendInv
  OBVIOUS
<1>1. Limited
  BY DEF Init, Limited
<1>2. FewLive
  <2>1. {q \in Payments : Live(q)} = {}
    BY DEF Init, Live
  <2>2. Cardinality({q \in Payments : Live(q)}) = 0
    BY <2>1, FS_EmptySet
  <2> QED
    BY <2>2, PayAssumption DEF FewLive
<1>3. ASSUME NEW a PROVE Budget(a)
  <2>1. Charged(a) = {} /\ Lowered(a) = {}
    BY DEF Init, Charged, InWindow, Underway, Counts, Recorded, Past, Lowered
  <2>2. Total(Bill, Charged(a)) = 0 /\ Total(Bill, Lowered(a)) = 0
    BY <2>1, TotalEmpty
  <2> QED
    BY <2>2, LimitsType DEF Budget
<1> QED
  BY <1>1, <1>2, <1>3 DEF SpendInv

(* Every step keeps the bound on what is spent.                          *)
LEMMA SpendNext == Inv /\ Inv' /\ SpendInv /\ [Next]_vars => SpendInv'
<1> SUFFICES ASSUME Inv, Inv', SpendInv, [Next]_vars PROVE SpendInv'
  OBVIOUS
<1>1. TypeOK
  BY DEF Inv
<1> DEFINE Running == {q \in Payments : Live(q)}
<1>2. IsFiniteSet(Running) /\ Cardinality(Running) \in Nat
  BY FS_Subset, FS_CardinalityType, LedgerAssumption
<1>3. CASE \E p \in Payments, t \in [req : Requirements, commitment : BOOLEAN] : Approves(p, t)
  <2>1. PICK p \in Payments, t \in [req : Requirements, commitment : BOOLEAN] : Approves(p, t)
    BY <1>3
  <2>2. Limited'
    BY <1>1, <2>1 DEF Approves, SpendInv, Limited, TypeOK
  <2>3. Running' = Running
    BY <1>1, <2>1 DEF Approves, Live, TypeOK
  <2>4. FewLive'
    BY <2>3 DEF SpendInv, FewLive
  <2>5. \A a \in Assets : Budget(a)'
    BY <2>1, ApprovesBudget DEF SpendInv
  <2> QED
    BY <2>2, <2>4, <2>5 DEF SpendInv
<1>4. CASE Settles \/ \E p \in Payments, lim \in CallLimits : Starts(p, lim)
  <2>1. Limited'
    BY <1>1, <1>4 DEF Settles, Starts, SpendInv, Limited, TypeOK
  <2>2. FewLive'
    <3>1. CASE Settles
      <4>1. Running' \subseteq Running
        BY <3>1 DEF Settles
      <4>2. Cardinality(Running') <= Cardinality(Running) /\ Cardinality(Running') \in Nat
        BY <1>2, <4>1, FS_Subset, FS_CardinalityType
      <4>3. Cardinality(Running) <= MaxLive /\ MaxLive \in Nat
        BY PayAssumption DEF SpendInv, FewLive
      <4>4. Cardinality(Running') <= MaxLive
        <5> HIDE DEF Running
        <5> QED
          BY <1>2, <4>2, <4>3
      <4> QED
        BY <4>4 DEF FewLive
    <3>2. CASE \E p \in Payments, lim \in CallLimits : Starts(p, lim)
      <4>1. PICK p \in Payments, lim \in CallLimits : Starts(p, lim)
        BY <3>2
      <4>2. Running' = Running \cup {p} /\ p \notin Running /\ Cardinality(Running) < MaxLive
        BY <1>1, <4>1 DEF Starts, Live, TypeOK
      <4>3. Cardinality(Running \cup {p}) = Cardinality(Running) + 1
        <5> HIDE DEF Running
        <5> QED
          BY <1>2, <4>2, FS_AddElement
      <4>4. Cardinality(Running') = Cardinality(Running) + 1
        BY <4>2, <4>3
      <4>5. Cardinality(Running') <= MaxLive
        <5> HIDE DEF Running
        <5> QED
          BY <1>2, <4>2, <4>4, PayAssumption
      <4> QED
        BY <4>5 DEF FewLive
    <3> QED
      BY <1>4, <3>1, <3>2
  <2>3. ASSUME NEW a \in Assets PROVE Budget(a)'
    <3> DEFINE low == Lowered(a)'
    <3>1. /\ Charged(a)' \subseteq Charged(a) /\ Bill' = Bill
          /\ Lowered(a) \subseteq low /\ low \subseteq Payments
          /\ \A q \in low : terms[q].req.amount \in Int /\ terms[q].req.amount < 0
      BY <1>4, SettlesShrinks DEF Bill
    <3> HIDE DEF low
    <3>2. Charged(a)' \in SUBSET Charged(a) /\ \A q \in Charged(a)' : Bill'[q].amount = Bill[q].amount
      BY <3>1
    <3>3. \A q \in low : /\ Bill'[q].amount = Bill[q].amount
                          /\ Bill[q].amount \in Int /\ Bill[q].amount < 0
      BY <3>1 DEF Bill
    <3>4. Budget(a)
      BY DEF SpendInv
    <3>5. Total(Bill', Charged(a)') + Total(Bill', low) <= Ceiling
      BY <3>1, <3>2, <3>3, <3>4, Shrinks
    <3>6. Total(Bill', Charged(a)') + Total(Bill', Lowered(a)') <= Ceiling
      BY <3>5 DEF low
    <3> QED
      BY <3>6, BudgetAfter
  <2> QED
    BY <2>1, <2>2, <2>3 DEF SpendInv
<1> QED
  BY <1>3, <1>4, Shapes

(* What is spent stays bounded in every reachable state.                 *)
THEOREM SpendInvariant == Spec => []SpendInv
BY SpendInit, SpendNext, PayInvariant, PTL DEF Spec

(* However many commands run at once, whatever becomes of them and       *)
(* whatever merchants quote, what leaves the wallet in a day exceeds the *)
(* daily limit by at most one payment for each further command that runs *)
(* at the same time, and by what quotes below zero ever took off.        *)
THEOREM PayKeepsToTheDailyLimit == Spec => []WithinDailyLimit
<1>1. Inv /\ SpendInv => WithinDailyLimit
  <2> SUFFICES ASSUME Inv, SpendInv, NEW a \in Assets
               PROVE  Total(ledger, {p \in InWindow(a) : ledger[p].amount >= 0})
                        <= Units(DailyLimit) + (MaxLive - 1) * Units(MaxPerPayment)
                             - Total(ledger, Rebates(a))
    BY DEF WithinDailyLimit
  <2> DEFINE paid == {p \in InWindow(a) : ledger[p].amount >= 0}
             low == Rebates(a)
  <2>1. Budget(a)
    BY DEF SpendInv
  <2>2. paid \in SUBSET Charged(a) /\ \A q \in paid : ledger[q].amount = Bill[q].amount
    <3>1. \A q \in paid : q \in InWindow(a) /\ q \in Payments /\ Recorded(q) /\ ledger[q].amount >= 0
      BY DEF InWindow, Counts
    <3>2. \A q \in paid : ledger[q].amount = terms[q].req.amount /\ Bill[q] = terms[q].req
      BY <3>1, RecordedApproved DEF Bill
    <3> QED
      BY <3>1, <3>2 DEF Charged
  <2>3. /\ low = Lowered(a) /\ low \in SUBSET Payments
        /\ \A q \in low : /\ ledger[q].amount = Bill[q].amount
                           /\ Bill[q].amount \in Int /\ Bill[q].amount < 0
    <3>1. \A q \in Payments : Recorded(q) =>
             /\ ledger[q].asset = terms[q].req.asset /\ ledger[q].amount = terms[q].req.amount
             /\ terms[q].req.amount \in Int /\ Bill[q] = terms[q].req
      BY RecordedApproved DEF Bill
    <3> QED
      BY <3>1 DEF Lowered, Rebates
  <2> HIDE DEF paid, low
  <2>4. Total(ledger, paid) + Total(ledger, low) <= Ceiling
    BY <2>1, <2>2, <2>3, Shrinks
  <2>5. Total(ledger, paid) \in Int /\ Total(ledger, low) \in Int
    <3>1. IsFiniteSet(paid) /\ IsFiniteSet(low)
      BY <2>2, <2>3, ChargedFinite, FS_Subset, LedgerAssumption
    <3>2. Whole(ledger, paid) /\ Whole(ledger, low)
      BY <2>2, <2>3, ChargedFinite DEF Whole, Natural
    <3> QED
      BY <3>1, <3>2, TotalWhole
  <2>6. Total(ledger, paid) <= Ceiling - Total(ledger, low)
    BY <2>4, <2>5, LimitsType
  <2>7. Total(ledger, paid)
          <= Units(DailyLimit) + (MaxLive - 1) * Units(MaxPerPayment) - Total(ledger, low)
    <3> DEFINE more == (MaxLive - 1) * Units(MaxPerPayment)
    <3>1. Units(DailyLimit) \in Nat /\ more \in Nat
      BY LimitsType, PayAssumption
    <3>2. Ceiling = Units(DailyLimit) + more
      BY DEF Ceiling
    <3> HIDE DEF more
    <3>3. Total(ledger, paid) <= Units(DailyLimit) + more - Total(ledger, low)
      BY <2>5, <2>6, <3>1, <3>2
    <3> QED
      BY <3>3 DEF more
  <2> QED
    BY <2>7, Zenon DEF paid, low
<1> QED
  BY <1>1, PayInvariant, SpendInvariant, PTL

-----------------------------------------------------------------------------
(* What was typed and what is shown.                                     *)

(* Whatever is below zero is below every text.                           *)
LEMMA NegativeAtMost ==
  ASSUME NEW n \in Int, n < 0, NEW text \in Text, NEW decimals \in Nat
  PROVE  AtMost(n, text, decimals)
<1> DEFINE P == Pow10[text.places]
           D == Pow10[decimals]
<1>1. /\ text.whole \in Nat /\ text.digits \in Nat
      /\ P \in Nat \ {0} /\ D \in Nat \ {0}
  BY Pow10Type DEF Text
<1> HIDE DEF P, D
<1>2. (text.whole * P + text.digits) * D \in Nat
  BY <1>1
<1>3. n * P <= 0
  <2> DEFINE m == -n
  <2>1. m \in Nat /\ n = -m
    OBVIOUS
  <2> HIDE DEF m
  <2>2. m * P \in Nat /\ n * P = -(m * P)
    BY <1>1, <2>1
  <2> QED
    BY <2>2
<1>4. n * P \in Int
  BY <1>1
<1>5. n * P <= (text.whole * P + text.digits) * D
  BY <1>2, <1>3, <1>4
<1> QED
  BY <1>5 DEF AtMost, P, D

(* Nothing is handed to the node above a limit as it was typed: the limits*)
(* are compared exactly, for every number of decimals.                   *)
THEOREM PayKeepsToWhatWasTyped == Spec => []PaysNoMoreThanTyped
<1>1. Inv /\ SpendInv => PaysNoMoreThanTyped
  <2> SUFFICES ASSUME Inv, SpendInv, NEW p \in Payments, tx[p] # None,
                      NEW text \in {limits[p].maxAmount, MaxPerPayment}
               PROVE  AtMost(terms[p].req.amount, text, Decimals)
    BY DEF PaysNoMoreThanTyped
  <2>1. Approved(p)
    BY DEF Inv, PayInv, Progress
  <2>2. terms[p].req.amount \in Int /\ terms[p].req.amount = Quote(p).amount
    BY <2>1, PayAssumption DEF Approved, SameTerms
  <2>3. /\ ~TooFine(text, Decimals) /\ terms[p].req.amount <= ParseAmount(text, Decimals)
    BY <2>1, <2>2 DEF Approved, Allowed, Readable, Units
  <2>4. limits[p] \in CallLimits
    BY DEF Inv, PayInv, Progress, Early, SpendInv, Limited
  <2>5. text \in Text /\ Decimals \in Nat
    BY <2>4, PayAssumption, LedgerAssumption
  <2>6. CASE terms[p].req.amount >= 0
    <3>1. terms[p].req.amount \in Nat
      BY <2>2, <2>6
    <3> QED
      BY <2>3, <2>5, <3>1, ParseIsFloor DEF ParseAmount
  <2>7. CASE terms[p].req.amount < 0
    BY <2>2, <2>5, <2>7, NegativeAtMost
  <2> QED
    BY <2>2, <2>6, <2>7
<1> QED
  BY <1>1, PayInvariant, SpendInvariant, PTL

(* The price that is shown is, typed as a limit, exactly the price.      *)
THEOREM PayShowsTheExactPrice == Spec => []ShownPriceIsAccepted
<1>1. Inv => ShownPriceIsAccepted
  <2> SUFFICES ASSUME Inv, NEW p \in Payments, challenge[p] # None,
                      NEW i \in DOMAIN challenge[p], challenge[p][i].amount >= 0
               PROVE  LET shown == FormatTokenAmount(challenge[p][i].amount, Decimals)
                      IN  ~TooFine(shown, Decimals) /\ Units(shown) = challenge[p][i].amount
    BY DEF ShownPriceIsAccepted
  <2>1. challenge[p] \in Seq(Requirements)
    BY PayAssumption DEF Inv, TypeOK
  <2>2. challenge[p][i] \in Requirements
    BY <2>1
  <2>3. challenge[p][i].amount \in Nat /\ Decimals \in Nat
    <3>1. challenge[p][i].amount \in Int
      BY <2>2, PayAssumption
    <3> QED
      BY <3>1, LedgerAssumption
  <2> QED
    BY <2>3, ShownIsExact DEF Units
<1> QED
  BY <1>1, PayInvariant, PTL
=============================================================================
