---------------------------- MODULE FundingProofs ----------------------------
(* Proofs about Funding, for any number of deposits and transactions.      *)
EXTENDS Funding, TLAPS

(* What the records and the claims say of each other and of the chains.    *)
Truth ==
  /\ \A d \in Deposits :
       file[d] # None /\ file[d].status \in {"l1_confirmed", "claiming", "claimed"} =>
         /\ file[d].l1TxHash \in Found(d)
         /\ file[d].amount = l1[file[d].l1TxHash].amount
  /\ \A d \in Deposits :
       file[d] # None /\ file[d].status = "claimed" =>
         claim[file[d].l1TxHash] # None /\ claim[file[d].l1TxHash].state = "included"
  /\ \A t \in Txs : claim[t] # None =>
       /\ t \in ready
       /\ file[claim[t].deposit] # None
       /\ file[claim[t].deposit].l1TxHash = t
       /\ file[claim[t].deposit].status \in {"claiming", "claimed"}
       /\ claim[t].deposit = l1[t].deposit /\ claim[t].amount = l1[t].amount

(* What a command at each place knows of the record it works on.           *)
Working ==
  LET d == cmd.deposit IN
  /\ cmd.pc \notin {"idle", "searching", "choosing"} => d \in Deposits /\ file[d] # None
  /\ cmd.pc \in {"watching", "closing", "reading"} => file[d].status = "awaiting_l1"
  /\ cmd.pc = "reading" => file[d].l1TxHash # None
  /\ cmd.pc = "waiting" => file[d].status \in {"l1_confirmed", "claiming"}
  /\ cmd.pc \in {"claiming", "sent"} =>
       file[d].status = "claiming" /\ file[d].l1TxHash \in ready

(* And of those it has yet to do, which nobody else touches meanwhile.     *)
Waiting ==
  /\ cmd.pc \in {"idle", "watching", "closing"} => cmd.todo = {}
  /\ \A d \in cmd.todo : Unfinished(d) /\ d # cmd.deposit
  /\ cmd.pc # "searching" => \A d \in cmd.todo : file[d].l1TxHash # None

Inv == TypeOK /\ Truth /\ Working /\ Waiting

(* What a step may do to the records.                                      *)
Kept ==
  \A d \in Deposits : file[d] # None =>
    /\ file'[d] # None
    /\ Rank[file'[d].status] >= Rank[file[d].status]
    /\ file[d].l1TxHash # None => file'[d].l1TxHash = file[d].l1TxHash

LEMMA InitInv == Init => Inv
BY FundingAssumption, RecordAssumption DEF Init, Inv, TypeOK, Truth, Working, Waiting, Idle,
   Command, PCs

(* The fields of the records.                                              *)
LEMMA Types ==
  ASSUME Inv
  PROVE  /\ \A d \in Deposits : file[d] # None =>
              /\ file[d] \in DepositRecord
              /\ file[d].status \in DepositStatus /\ file[d].amount \in Nat
              /\ file[d].l1TxHash \in Txs \cup {None} /\ file[d].createdAt \in Nat
         /\ \A t \in Txs : l1[t] # None =>
              /\ l1[t] \in L1Deposit /\ l1[t].deposit \in Deposits /\ l1[t].amount \in Nat
         /\ \A t \in Txs : claim[t] # None =>
              claim[t] \in Claim /\ claim[t].deposit \in Deposits
         /\ cmd.pc \in PCs /\ cmd.local \in BOOLEAN
         /\ cmd.deposit \in Deposits \cup {None} /\ cmd.todo \subseteq Deposits
<1>1. TypeOK
  BY DEF Inv
<1>2. \A d \in Deposits : file[d] \in DepositRecord \cup {None}
  BY <1>1 DEF TypeOK
<1>3. \A t \in Txs : l1[t] \in L1Deposit \cup {None} /\ claim[t] \in Claim \cup {None}
  BY <1>1 DEF TypeOK
<1>4. cmd \in Command
  BY <1>1 DEF TypeOK
<1> QED
  BY <1>2, <1>3, <1>4, FundingAssumption DEF DepositRecord, L1Deposit, Claim, Command

-----------------------------------------------------------------------------
(* Steps that change no record keep them all.                              *)
LEMMA SameKept ==
  ASSUME Inv, file' = file
  PROVE  Kept
BY Types DEF Kept, Rank, DepositStatus

(* A command's place changes, and nothing else.                            *)
LEMMA CommandStep ==
  ASSUME Inv, cmd' \in Command, UNCHANGED <<file, clock, l1, ready, claim>>
  PROVE  TypeOK' /\ Truth' /\ Kept
BY SameKept DEF Inv, TypeOK, Truth, Found, Mined

(* A record changes, and is true of what is on the chains.                 *)
LEMMA SaveStep ==
  ASSUME Inv, NEW d \in Deposits, NEW r \in DepositRecord, Save(d, r), cmd' \in Command,
         UNCHANGED <<clock, l1, ready, claim>>,
         r.status \in {"l1_confirmed", "claiming", "claimed"} =>
           r.l1TxHash \in Found(d) /\ r.amount = l1[r.l1TxHash].amount,
         r.status = "claimed" =>
           claim[r.l1TxHash] # None /\ claim[r.l1TxHash].state = "included",
         \A t \in Txs : claim[t] # None /\ claim[t].deposit = d =>
           r.l1TxHash = t /\ r.status \in {"claiming", "claimed"},
         file[d] # None =>
           /\ Rank[r.status] >= Rank[file[d].status]
           /\ file[d].l1TxHash # None => r.l1TxHash = file[d].l1TxHash
  PROVE  TypeOK' /\ Truth' /\ Kept
<1>1. /\ file'[d] = r /\ r # None
      /\ \A e \in Deposits : e # d => file'[e] = file[e]
      /\ file' \in [Deposits -> DepositRecord \cup {None}]
  BY RecordAssumption DEF Save, Inv, TypeOK
<1>2. TypeOK'
  BY <1>1 DEF Inv, TypeOK
<1>3. Found(d)' = Found(d) /\ \A e \in Deposits : Found(e)' = Found(e)
  BY DEF Found, Mined
<1>4. Truth'
  BY <1>1, <1>3, Types DEF Inv, Truth
<1>5. \A e \in Deposits : file[e] # None => Rank[file[e].status] >= Rank[file[e].status]
  BY Types DEF Rank, DepositStatus
<1>6. Kept
  BY <1>1, <1>5 DEF Kept
<1> QED
  BY <1>2, <1>4, <1>6

(* The command ends with a deposit and goes on with the next one, if any.  *)
LEMMA EndStep ==
  ASSUME Inv, NEW d \in Deposits, cmd.deposit = d,
         cmd.pc \in {"reading", "waiting", "claiming", "sent"}, EndDeposit,
         \A e \in Deposits : e # d => file'[e] = file[e]
  PROVE  cmd' \in Command /\ Working' /\ Waiting'
<1>1. cmd \in Command /\ cmd.todo \subseteq Deposits /\ d \notin cmd.todo
  BY Types DEF Inv, TypeOK, Waiting
<1>2. \A e \in cmd.todo : Unfinished(e) /\ file[e].l1TxHash # None
  BY DEF Inv, Waiting
<1>3. CASE cmd.todo = {}
  <2>1. cmd' = Idle
    BY <1>3 DEF EndDeposit
  <2> QED
    BY <2>1 DEF Idle, Command, PCs, Working, Waiting
<1>4. CASE cmd.todo # {}
  <2>1. /\ cmd' = [cmd EXCEPT !.pc = "choosing", !.deposit = None]
    BY <1>4 DEF EndDeposit
  <2>2. /\ cmd'.pc = "choosing" /\ cmd'.deposit = None /\ cmd'.todo = cmd.todo
        /\ cmd' \in Command
    BY <1>1, <2>1 DEF Command, PCs
  <2>3. \A e \in cmd'.todo : Unfinished(e)' /\ file'[e].l1TxHash # None
    BY <1>1, <1>2, <2>2 DEF Unfinished
  <2> QED
    BY <1>1, <2>2, <2>3, FundingAssumption DEF Working, Waiting
<1> QED
  BY <1>3, <1>4

LEMMA ErrorStep ==
  ASSUME Inv, NEW d \in Deposits, cmd.deposit = d,
         cmd.pc \in {"reading", "waiting", "claiming", "sent"}, EndWithError(d)
  PROVE  Inv' /\ Kept
<1>1. /\ Save(d, file[d]) /\ EndDeposit /\ UNCHANGED <<clock, l1, ready, claim>>
  BY DEF EndWithError, SavedWithError
<1>2. file' = file
  BY <1>1 DEF Save, Inv, TypeOK
<1>3. cmd' \in Command /\ Working' /\ Waiting'
  BY <1>1, <1>2, EndStep
<1> QED
  BY <1>1, <1>2, <1>3, CommandStep DEF Inv

-----------------------------------------------------------------------------
(* fund.                                                                   *)
LEMMA FundStep ==
  ASSUME Inv, NEW d \in Deposits, NEW mode \in Modes, Fund(d, mode)
  PROVE  Inv' /\ Kept
<1>1. /\ cmd = Idle /\ file[d] = None /\ Save(d, NewRecord)
      /\ cmd' = IF mode = "no-wait" THEN Idle
                ELSE [Idle EXCEPT !.pc = "watching", !.local = (mode = "local"), !.deposit = d]
      /\ UNCHANGED <<clock, l1, ready, claim>>
  BY DEF Fund
<1>2. /\ NewRecord \in DepositRecord /\ NewRecord.status = "awaiting_l1"
  BY FundingAssumption DEF NewRecord, DepositRecord, DepositStatus, Inv, TypeOK
<1>3. \/ cmd' = Idle
      \/ \E local \in BOOLEAN :
           cmd' = [pc |-> "watching", local |-> local, deposit |-> d, todo |-> {}]
  <2>1. CASE mode = "no-wait"
    BY <1>1, <2>1
  <2>2. CASE mode # "no-wait"
    <3>1. (mode = "local") \in BOOLEAN
      OBVIOUS
    <3>2. cmd' = [pc |-> "watching", local |-> (mode = "local"), deposit |-> d, todo |-> {}]
      BY <1>1, <2>2 DEF Idle
    <3> QED
      BY <3>1, <3>2
  <2> QED
    BY <2>1, <2>2
<1>4. cmd' \in Command /\ cmd'.todo = {} /\ cmd'.pc \in {"idle", "watching"}
      /\ (cmd'.pc = "watching" => cmd'.deposit = d)
  <2>1. CASE cmd' = Idle
    BY <2>1 DEF Idle, Command, PCs
  <2>2. ASSUME NEW local \in BOOLEAN,
               cmd' = [pc |-> "watching", local |-> local, deposit |-> d, todo |-> {}]
        PROVE  /\ cmd' \in Command /\ cmd'.todo = {}
               /\ cmd'.pc = "watching" /\ cmd'.deposit = d
    BY <2>2 DEF Command, PCs
  <2> QED
    BY <1>3, <2>1, <2>2
<1>5. TypeOK' /\ Truth' /\ Kept
  <2>1. \A t \in Txs : claim[t] # None => claim[t].deposit # d
    BY <1>1 DEF Inv, Truth
  <2> QED
    BY <1>1, <1>2, <1>4, <2>1, SaveStep
<1>6. file'[d] = NewRecord /\ NewRecord # None
  BY <1>1, <1>2, RecordAssumption DEF Save, Inv, TypeOK
<1>7. Working' /\ Waiting'
  BY <1>2, <1>4, <1>6 DEF Working, Waiting
<1> QED
  BY <1>5, <1>7 DEF Inv

(* The transaction of a record that follows none is noted.                 *)
LEMMA NotedStep ==
  ASSUME Inv, NEW d \in Deposits, NEW t \in Txs, file[d] # None,
         file[d].status = "awaiting_l1", file[d].l1TxHash = None,
         Save(d, [file[d] EXCEPT !.l1TxHash = t]), cmd' \in Command,
         UNCHANGED <<clock, l1, ready, claim>>
  PROVE  /\ TypeOK' /\ Truth' /\ Kept
         /\ file'[d] # None /\ file'[d].status = "awaiting_l1" /\ file'[d].l1TxHash = t
         /\ \A e \in Deposits : e # d => file'[e] = file[e]
<1> DEFINE r == [file[d] EXCEPT !.l1TxHash = t]
<1>1. r \in DepositRecord /\ r.status = "awaiting_l1" /\ r.l1TxHash = t
  BY Types DEF DepositRecord
<1>2. \A u \in Txs : claim[u] # None => claim[u].deposit # d
  BY DEF Inv, Truth
<1>3. Save(d, r)
  OBVIOUS
<1> HIDE DEF r
<1>4. Rank[r.status] >= Rank[file[d].status]
  BY <1>1 DEF Rank
<1>5. TypeOK' /\ Truth' /\ Kept
  BY <1>1, <1>2, <1>3, <1>4, SaveStep
<1>6. file'[d] = r /\ \A e \in Deposits : e # d => file'[e] = file[e]
  BY <1>3 DEF Save, Inv, TypeOK
<1> QED
  BY <1>1, <1>5, <1>6, RecordAssumption

(* A record that waits for L1 and one that is unfinished, at their places. *)
LEMMA SubmittedStep ==
  ASSUME Inv, NEW d \in Deposits, NEW t \in Txs, Submitted(d, t)
  PROVE  Inv' /\ Kept
<1>1. /\ cmd.pc \in {"watching", "closing"} /\ cmd.deposit = d /\ file[d].l1TxHash = None
      /\ Save(d, [file[d] EXCEPT !.l1TxHash = t])
      /\ UNCHANGED <<clock, cmd, l1, ready, claim>>
  BY DEF Submitted, At
<1>2. file[d] # None /\ file[d].status = "awaiting_l1" /\ cmd.todo = {} /\ cmd \in Command
  BY <1>1 DEF Inv, Working, Waiting, TypeOK
<1>3. /\ TypeOK' /\ Truth' /\ Kept
      /\ file'[d] # None /\ file'[d].status = "awaiting_l1"
  BY <1>1, <1>2, NotedStep
<1>4. Working' /\ Waiting'
  BY <1>1, <1>2, <1>3 DEF Working, Waiting
<1> QED
  BY <1>3, <1>4 DEF Inv

LEMMA KnownStep ==
  ASSUME Inv, NEW d \in Deposits, DepositTxKnown(d)
  PROVE  Inv' /\ Kept
<1>1. /\ cmd.pc = "watching" /\ cmd.deposit = d /\ cmd' = [cmd EXCEPT !.pc = "reading"]
      /\ UNCHANGED <<clock, l1, ready, claim>>
  BY DEF DepositTxKnown, At, Goto
<1>2. file[d] # None /\ file[d].status = "awaiting_l1" /\ cmd.todo = {} /\ cmd \in Command
  BY <1>1 DEF Inv, Working, Waiting, TypeOK
<1>3. /\ cmd' \in Command /\ cmd'.pc = "reading" /\ cmd'.deposit = d /\ cmd'.todo = {}
  BY <1>1, <1>2 DEF Command, PCs
<1>4. /\ TypeOK' /\ Truth' /\ Kept
      /\ file'[d] # None /\ file'[d].status = "awaiting_l1" /\ file'[d].l1TxHash # None
  <2>1. CASE file[d].l1TxHash # None /\ UNCHANGED file
    BY <1>1, <1>2, <1>3, <2>1, CommandStep
  <2>2. CASE /\ file[d].l1TxHash = None
             /\ \E t \in Found(d) : Save(d, [file[d] EXCEPT !.l1TxHash = t])
    <3>1. PICK t \in Txs : Save(d, [file[d] EXCEPT !.l1TxHash = t])
      BY <2>2 DEF Found
    <3> QED
      BY <1>1, <1>2, <1>3, <2>2, <3>1, NotedStep, FundingAssumption
  <2> QED
    BY <2>1, <2>2 DEF DepositTxKnown
<1>5. Working' /\ Waiting'
  BY <1>3, <1>4 DEF Working, Waiting
<1> QED
  BY <1>4, <1>5 DEF Inv

LEMMA EndsIdle ==
  ASSUME Inv, cmd' = Idle, UNCHANGED <<file, clock, l1, ready, claim>>
  PROVE  Inv' /\ Kept
<1>1. Idle \in Command
  BY DEF Idle, Command, PCs
<1>2. Working' /\ Waiting'
  BY DEF Working, Waiting, Idle
<1> QED
  BY <1>1, <1>2, CommandStep DEF Inv

LEMMA TimesOutStep ==
  ASSUME Inv, NEW d \in Deposits, FundTimesOut(d)
  PROVE  Inv' /\ Kept
<1>1. CASE cmd' = Idle
  BY <1>1, EndsIdle DEF FundTimesOut
<1>2. CASE cmd' = [cmd EXCEPT !.pc = "closing"]
  <2>1. /\ cmd.pc = "watching" /\ cmd.deposit = d /\ cmd \in Command
        /\ UNCHANGED <<file, clock, l1, ready, claim>>
    BY DEF FundTimesOut, At, Inv, TypeOK
  <2>2. /\ cmd' \in Command /\ cmd'.pc = "closing" /\ cmd'.deposit = d /\ cmd'.todo = cmd.todo
    BY <1>2, <2>1 DEF Command, PCs
  <2>3. Working' /\ Waiting'
    BY <2>1, <2>2 DEF Inv, Working, Waiting
  <2> QED
    BY <2>1, <2>2, <2>3, CommandStep DEF Inv
<1> QED
  BY <1>1, <1>2 DEF FundTimesOut, Goto

-----------------------------------------------------------------------------
(* fund claim.                                                             *)
LEMMA FundClaimStep ==
  ASSUME Inv, FundClaim
  PROVE  Inv' /\ Kept
<1>1. /\ cmd' = [Idle EXCEPT !.pc = "searching", !.todo = {d \in Deposits : Unfinished(d)}]
      /\ UNCHANGED <<file, clock, l1, ready, claim>>
  BY DEF FundClaim
<1>2. /\ cmd' \in Command /\ cmd'.pc = "searching" /\ cmd'.deposit = None
      /\ cmd'.todo = {d \in Deposits : Unfinished(d)}
  BY <1>1 DEF Idle, Command, PCs
<1>3. Working' /\ Waiting'
  BY <1>1, <1>2, FundingAssumption DEF Working, Waiting, Unfinished
<1> QED
  BY <1>1, <1>2, <1>3, CommandStep DEF Inv

LEMMA SearchFindsStep ==
  ASSUME Inv, NEW d \in Deposits, SearchFinds(d)
  PROVE  Inv' /\ Kept
<1>1. /\ cmd.pc = "searching" /\ d \in cmd.todo /\ file[d].l1TxHash = None
      /\ UNCHANGED <<clock, cmd, l1, ready, claim>>
  BY DEF SearchFinds
<1>2. PICK t \in Txs : Save(d, [file[d] EXCEPT !.l1TxHash = t])
  BY DEF SearchFinds, Found
<1>3. /\ file[d] # None /\ file[d].status \notin {"claimed", "failed"} /\ cmd \in Command
  BY <1>1 DEF Inv, Waiting, Unfinished, TypeOK
<1>4. file[d].status = "awaiting_l1"
  <2>1. file[d].status \notin {"l1_confirmed", "claiming"}
    BY <1>1, <1>3, FundingAssumption DEF Inv, Truth, Found
  <2> QED
    BY <1>3, <2>1, Types DEF DepositStatus
<1>5. /\ TypeOK' /\ Truth' /\ Kept
      /\ file'[d] # None /\ file'[d].status = "awaiting_l1"
      /\ \A e \in Deposits : e # d => file'[e] = file[e]
  BY <1>1, <1>2, <1>3, <1>4, NotedStep
<1>6. Working' /\ Waiting'
  BY <1>1, <1>5, Types DEF Inv, Working, Waiting, Unfinished
<1> QED
  BY <1>5, <1>6 DEF Inv

LEMMA SearchMissesStep ==
  ASSUME Inv, NEW d \in Deposits, SearchMisses(d)
  PROVE  Inv' /\ Kept
<1>1. /\ cmd.pc = "searching" /\ cmd \in Command
      /\ cmd' = [cmd EXCEPT !.todo = cmd.todo \ {d}]
      /\ UNCHANGED <<file, clock, l1, ready, claim>>
  BY DEF SearchMisses, Inv, TypeOK
<1>2. /\ cmd' \in Command /\ cmd'.pc = "searching" /\ cmd'.deposit = cmd.deposit
      /\ cmd'.todo = cmd.todo \ {d}
  BY <1>1 DEF Command
<1>3. Working' /\ Waiting'
  BY <1>1, <1>2 DEF Inv, Working, Waiting, Unfinished
<1> QED
  BY <1>1, <1>2, <1>3, CommandStep DEF Inv

LEMMA SearchEndsStep ==
  ASSUME Inv, SearchEnds
  PROVE  Inv' /\ Kept
<1>1. CASE cmd' = Idle
  BY <1>1, EndsIdle DEF SearchEnds
<1>2. CASE cmd' = [cmd EXCEPT !.pc = "choosing"]
  <2>1. /\ cmd.pc = "searching" /\ cmd \in Command
        /\ \A d \in cmd.todo : file[d].l1TxHash # None
        /\ UNCHANGED <<file, clock, l1, ready, claim>>
    BY DEF SearchEnds, Inv, TypeOK
  <2>2. /\ cmd' \in Command /\ cmd'.pc = "choosing" /\ cmd'.deposit = cmd.deposit
        /\ cmd'.todo = cmd.todo
    BY <1>2, <2>1 DEF Command, PCs
  <2>3. Working' /\ Waiting'
    BY <2>1, <2>2 DEF Inv, Working, Waiting, Unfinished
  <2> QED
    BY <2>1, <2>2, <2>3, CommandStep DEF Inv
<1> QED
  BY <1>1, <1>2 DEF SearchEnds

LEMMA ChooseStep ==
  ASSUME Inv, NEW d \in Deposits, Choose(d)
  PROVE  Inv' /\ Kept
<1> DEFINE pc == IF file[d].status = "awaiting_l1" THEN "reading" ELSE "waiting"
<1>1. /\ cmd.pc = "choosing" /\ d \in cmd.todo /\ cmd \in Command
      /\ cmd' = [cmd EXCEPT !.pc = pc, !.deposit = d, !.todo = cmd.todo \ {d}]
      /\ UNCHANGED <<file, clock, l1, ready, claim>>
  BY DEF Choose, Inv, TypeOK
<1>2. /\ cmd'.pc = pc /\ cmd'.deposit = d /\ cmd'.todo = cmd.todo \ {d}
      /\ cmd' \in Command
  BY <1>1 DEF Command, PCs
<1>3. /\ file[d] # None /\ file[d].status \notin {"claimed", "failed"}
      /\ file[d].l1TxHash # None /\ file[d].status \in DepositStatus
  BY <1>1, Types DEF Inv, Waiting, Unfinished
<1>4. Working' /\ Waiting'
  BY <1>1, <1>2, <1>3 DEF Inv, Working, Waiting, Unfinished, DepositStatus
<1> QED
  BY <1>1, <1>2, <1>4, CommandStep DEF Inv

-----------------------------------------------------------------------------
(* completeDeposit.                                                        *)
LEMMA ReadStep ==
  ASSUME Inv, NEW d \in Deposits, DepositRead(d)
  PROVE  Inv' /\ Kept
<1> DEFINE t == file[d].l1TxHash
<1> DEFINE r == Confirmed(d, t)
<1>1. /\ cmd.pc = "reading" /\ cmd.deposit = d /\ cmd' = [cmd EXCEPT !.pc = "waiting"]
      /\ Mined(t) /\ l1[t].deposit = d /\ Save(d, r)
      /\ UNCHANGED <<clock, l1, ready, claim>>
  BY DEF DepositRead, At, Goto, Matches
<1>2. /\ file[d] # None /\ file[d].status = "awaiting_l1" /\ t # None /\ cmd \in Command
  BY <1>1 DEF Inv, Working, TypeOK
<1>3. t \in Found(d) /\ t \in Txs /\ l1[t] # None
  BY <1>1, <1>2, Types DEF Found, Mined
<1>4. /\ r \in DepositRecord /\ r.status = "l1_confirmed" /\ r.l1TxHash = t
      /\ r.amount = l1[t].amount
  BY <1>2, <1>3, Types DEF Confirmed, DepositRecord, DepositStatus
<1>5. /\ cmd' \in Command /\ cmd'.pc = "waiting" /\ cmd'.deposit = d /\ cmd'.todo = cmd.todo
  BY <1>1, <1>2 DEF Command, PCs
<1>6. \A u \in Txs : claim[u] # None => claim[u].deposit # d
  BY <1>2 DEF Inv, Truth
<1> HIDE DEF r, t
<1>7. Rank[r.status] >= Rank[file[d].status]
  BY <1>2, <1>4 DEF Rank
<1>8. TypeOK' /\ Truth' /\ Kept
  BY <1>1, <1>3, <1>4, <1>5, <1>6, <1>7, SaveStep DEF t
<1>9. file'[d] = r /\ r # None /\ \A e \in Deposits : e # d => file'[e] = file[e]
  BY <1>1, <1>4, RecordAssumption DEF Save, Inv, TypeOK
<1>10. Working' /\ Waiting'
  BY <1>1, <1>4, <1>5, <1>9, Types DEF Inv, Working, Waiting, Unfinished
<1> QED
  BY <1>8, <1>10 DEF Inv

LEMMA UnminedStep ==
  ASSUME Inv, NEW d \in Deposits, Unmined(d)
  PROVE  Inv' /\ Kept
<1>1. /\ cmd.pc = "reading" /\ cmd.deposit = d /\ EndDeposit
      /\ UNCHANGED <<clock, l1, ready, claim>>
  BY DEF Unmined, At
<1>2. file[d] # None /\ file[d].status = "awaiting_l1"
  BY <1>1 DEF Inv, Working
<1>3. CASE UNCHANGED file
  BY <1>1, <1>3, EndStep, CommandStep DEF Inv
<1>4. CASE Save(d, [file[d] EXCEPT !.status = "failed"])
  <2> DEFINE r == [file[d] EXCEPT !.status = "failed"]
  <2>1. /\ r \in DepositRecord /\ r.status = "failed" /\ r.l1TxHash = file[d].l1TxHash
    BY <1>2, Types DEF DepositRecord, DepositStatus
  <2>2. Save(d, r)
    BY <1>4
  <2> HIDE DEF r
  <2>3. \A e \in Deposits : e # d => file'[e] = file[e]
    BY <2>2 DEF Save, Inv, TypeOK
  <2>4. cmd' \in Command /\ Working' /\ Waiting'
    BY <1>1, <2>3, EndStep
  <2>5. \A u \in Txs : claim[u] # None => claim[u].deposit # d
    BY <1>2 DEF Inv, Truth
  <2>6. Rank[r.status] >= Rank[file[d].status]
    BY <1>2, <2>1 DEF Rank
  <2>7. TypeOK' /\ Truth' /\ Kept
    BY <1>1, <2>1, <2>2, <2>4, <2>5, <2>6, SaveStep
  <2> QED
    BY <2>4, <2>7 DEF Inv
<1> QED
  BY <1>3, <1>4 DEF Unmined

LEMMA ReadyStep ==
  ASSUME Inv, NEW d \in Deposits, MessageReady(d)
  PROVE  Inv' /\ Kept
<1> DEFINE r == [file[d] EXCEPT !.status = "claiming"]
<1>1. /\ cmd.pc = "waiting" /\ cmd.deposit = d /\ cmd' = [cmd EXCEPT !.pc = "claiming"]
      /\ file[d].l1TxHash \in ready /\ Save(d, r)
      /\ UNCHANGED <<clock, l1, ready, claim>>
  BY DEF MessageReady, At, Goto
<1>2. /\ file[d] # None /\ file[d].status \in {"l1_confirmed", "claiming"} /\ cmd \in Command
  BY <1>1 DEF Inv, Working, TypeOK
<1>3. /\ r \in DepositRecord /\ r.status = "claiming" /\ r.l1TxHash = file[d].l1TxHash
      /\ r.amount = file[d].amount
  BY <1>2, Types DEF DepositRecord, DepositStatus
<1>4. /\ cmd' \in Command /\ cmd'.pc = "claiming" /\ cmd'.deposit = d /\ cmd'.todo = cmd.todo
  BY <1>1, <1>2 DEF Command, PCs
<1>5. r.l1TxHash \in Found(d) /\ r.amount = l1[r.l1TxHash].amount
  BY <1>2, <1>3 DEF Inv, Truth
<1>6. \A u \in Txs : claim[u] # None /\ claim[u].deposit = d => r.l1TxHash = u
  BY <1>3 DEF Inv, Truth
<1> HIDE DEF r
<1>7. Rank[r.status] >= Rank[file[d].status]
  BY <1>2, <1>3 DEF Rank
<1>8. TypeOK' /\ Truth' /\ Kept
  BY <1>1, <1>3, <1>4, <1>5, <1>6, <1>7, SaveStep
<1>9. file'[d] = r /\ r # None /\ \A e \in Deposits : e # d => file'[e] = file[e]
  BY <1>1, <1>3, RecordAssumption DEF Save, Inv, TypeOK
<1>10. Working' /\ Waiting'
  BY <1>1, <1>3, <1>4, <1>9, Types DEF Inv, Working, Waiting, Unfinished
<1> QED
  BY <1>8, <1>10 DEF Inv

(* What is claimed is what the record says, and that is what was deposited.*)
LEMMA ClaimSentStep ==
  ASSUME Inv, NEW d \in Deposits, ClaimSent(d)
  PROVE  Inv' /\ Kept
<1> DEFINE t == file[d].l1TxHash
<1> DEFINE c == [deposit |-> d, amount |-> file[d].amount, state |-> "sent"]
<1>1. /\ cmd.pc = "claiming" /\ cmd.deposit = d /\ cmd' = [cmd EXCEPT !.pc = "sent"]
      /\ claim[t] = None /\ claim' = [claim EXCEPT ![t] = c]
      /\ UNCHANGED <<file, clock, l1, ready>>
  BY DEF ClaimSent, At, Goto
<1>2. /\ file[d] # None /\ file[d].status = "claiming" /\ t \in ready /\ cmd \in Command
  BY <1>1 DEF Inv, Working, TypeOK
<1>3. t \in Txs /\ l1[t].deposit = d /\ file[d].amount = l1[t].amount
  BY <1>2 DEF Inv, Truth, Found
<1>4. /\ c \in Claim /\ c.deposit = d /\ c.amount = file[d].amount
  BY <1>2, Types DEF Claim
<1>5. /\ cmd' \in Command /\ cmd'.pc = "sent" /\ cmd'.deposit = d /\ cmd'.todo = cmd.todo
  BY <1>1, <1>2 DEF Command, PCs
<1> HIDE DEF c
<1>6. /\ claim'[t] = c /\ \A u \in Txs : u # t => claim'[u] = claim[u]
      /\ claim' \in [Txs -> Claim \cup {None}]
  BY <1>1, <1>3, <1>4 DEF Inv, TypeOK
<1>7. Truth'
  <2>1. \A e \in Deposits : file[e] # None /\ file[e].status = "claimed" =>
          file[e].l1TxHash # t /\ file[e].l1TxHash \in Txs
    BY <1>1 DEF Inv, Truth, Found
  <2> QED
    BY <1>1, <1>2, <1>3, <1>4, <1>6, <2>1 DEF Inv, Truth, Found, Mined
<1>8. Working' /\ Waiting'
  BY <1>1, <1>2, <1>5 DEF Inv, Working, Waiting, Unfinished
<1>9. TypeOK'
  BY <1>1, <1>5, <1>6 DEF Inv, TypeOK
<1> QED
  BY <1>1, <1>7, <1>8, <1>9, SameKept DEF Inv

LEMMA ClaimIncludedStep ==
  ASSUME Inv, NEW d \in Deposits, ClaimIncluded(d)
  PROVE  Inv' /\ Kept
<1> DEFINE r == [file[d] EXCEPT !.status = "claimed"]
<1>1. /\ cmd.pc = "sent" /\ cmd.deposit = d /\ EndDeposit /\ Save(d, r)
      /\ claim[file[d].l1TxHash] # None /\ claim[file[d].l1TxHash].state = "included"
      /\ UNCHANGED <<clock, l1, ready, claim>>
  BY DEF ClaimIncluded, At
<1>2. /\ file[d] # None /\ file[d].status = "claiming"
  BY <1>1 DEF Inv, Working
<1>3. /\ r \in DepositRecord /\ r.status = "claimed" /\ r.l1TxHash = file[d].l1TxHash
      /\ r.amount = file[d].amount
  BY <1>2, Types DEF DepositRecord, DepositStatus
<1>4. r.l1TxHash \in Found(d) /\ r.amount = l1[r.l1TxHash].amount
  BY <1>2, <1>3 DEF Inv, Truth
<1>5. \A u \in Txs : claim[u] # None /\ claim[u].deposit = d => r.l1TxHash = u
  BY <1>3 DEF Inv, Truth
<1> HIDE DEF r
<1>6. Rank[r.status] >= Rank[file[d].status]
  BY <1>2, <1>3 DEF Rank
<1>7. \A e \in Deposits : e # d => file'[e] = file[e]
  BY <1>1 DEF Save, Inv, TypeOK
<1>8. cmd' \in Command /\ Working' /\ Waiting'
  BY <1>1, <1>7, EndStep
<1>9. TypeOK' /\ Truth' /\ Kept
  BY <1>1, <1>3, <1>4, <1>5, <1>6, <1>8, SaveStep
<1> QED
  BY <1>8, <1>9 DEF Inv

-----------------------------------------------------------------------------
(* The chains.                                                             *)

(* A claimed transaction is mined.                                         *)
LEMMA ClaimedIsMined ==
  ASSUME Inv, NEW t \in Txs, claim[t] # None
  PROVE  Mined(t)
BY Types DEF Inv, Truth, Found

(* What is mined on L1 does not change, and claims stay what they are.     *)
LEMMA ChainStep ==
  ASSUME Inv, UNCHANGED <<file, cmd, clock>>,
         l1' \in [Txs -> L1Deposit \cup {None}], ready \subseteq ready', ready' \subseteq Txs,
         claim' \in [Txs -> Claim \cup {None}],
         \A t \in Txs : Mined(t) => l1'[t] = l1[t],
         \A t \in Txs : claim'[t] # None =>
           /\ claim[t] # None /\ claim'[t].deposit = claim[t].deposit
           /\ claim'[t].amount = claim[t].amount,
         \A t \in Txs : claim[t] # None /\ claim[t].state = "included" => claim'[t] = claim[t]
  PROVE  Inv' /\ Kept
<1>1. TypeOK'
  BY DEF Inv, TypeOK
<1>2. \A d \in Deposits : Found(d) \subseteq Found(d)'
  BY DEF Found, Mined
<1>3. Truth'
  <2>1. \A d \in Deposits : \A t \in Found(d) : l1'[t] = l1[t] /\ t \in Txs
    BY DEF Found
  <2>2. \A t \in Txs : claim'[t] # None => claim[t] # None /\ l1'[t] = l1[t]
    BY ClaimedIsMined
  <2>3. \A d \in Deposits :
          file[d] # None /\ file[d].status \in {"l1_confirmed", "claiming", "claimed"} =>
            /\ file[d].l1TxHash \in Found(d)'
            /\ file[d].amount = l1'[file[d].l1TxHash].amount
    BY <1>2, <2>1 DEF Inv, Truth
  <2>4. \A d \in Deposits : file[d] # None /\ file[d].status = "claimed" =>
          claim'[file[d].l1TxHash] # None /\ claim'[file[d].l1TxHash].state = "included"
    BY <2>1 DEF Inv, Truth
  <2>5. \A t \in Txs : claim'[t] # None =>
          /\ t \in ready'
          /\ file[claim'[t].deposit] # None
          /\ file[claim'[t].deposit].l1TxHash = t
          /\ file[claim'[t].deposit].status \in {"claiming", "claimed"}
          /\ claim'[t].deposit = l1'[t].deposit /\ claim'[t].amount = l1'[t].amount
    BY <2>2 DEF Inv, Truth
  <2> QED
    BY <2>3, <2>4, <2>5 DEF Truth
<1>4. Working' /\ Waiting'
  BY DEF Inv, Working, Waiting, Unfinished
<1> QED
  BY <1>1, <1>3, <1>4, SameKept DEF Inv

LEMMA DepositStep ==
  ASSUME Inv, NEW t \in Txs, NEW d \in Deposits, NEW amount \in Amounts, Deposit(t, d, amount)
  PROVE  Inv' /\ Kept
<1> DEFINE x == [deposit |-> d, amount |-> amount, state |-> "sent"]
<1>1. /\ l1[t] = None /\ l1' = [l1 EXCEPT ![t] = x]
      /\ UNCHANGED <<file, clock, cmd, ready, claim>>
  BY DEF Deposit
<1>2. x \in L1Deposit
  BY DEF L1Deposit
<1> HIDE DEF x
<1> QED
  BY <1>1, <1>2, ChainStep DEF Inv, TypeOK, Mined

LEMMA MineStep ==
  ASSUME Inv, NEW t \in Txs, Mine(t)
  PROVE  Inv' /\ Kept
<1>1. PICK fate \in {"mined", "reverted"} : l1' = [l1 EXCEPT ![t].state = fate]
  BY DEF Mine
<1>2. /\ l1[t] # None /\ l1[t].state = "sent" /\ l1[t] \in L1Deposit
      /\ UNCHANGED <<file, clock, cmd, ready, claim>>
  BY Types DEF Mine
<1>3. [l1[t] EXCEPT !.state = fate] \in L1Deposit
  BY <1>2 DEF L1Deposit
<1>4. l1' = [l1 EXCEPT ![t] = [l1[t] EXCEPT !.state = fate]]
  BY <1>1
<1> QED
  BY <1>2, <1>3, <1>4, ChainStep DEF Inv, TypeOK, Mined

LEMMA ClaimEndStep ==
  ASSUME Inv, NEW t \in Txs, Include(t) \/ DropClaim(t)
  PROVE  Inv' /\ Kept
<1>1. /\ claim[t] # None /\ claim[t].state = "sent" /\ claim[t] \in Claim
      /\ UNCHANGED <<file, clock, cmd, l1, ready>>
  BY Types DEF Include, DropClaim
<1>2. CASE DropClaim(t)
  <2>1. claim' = [claim EXCEPT ![t] = None]
    BY <1>2 DEF DropClaim
  <2> QED
    BY <1>1, <2>1, ChainStep DEF Inv, TypeOK
<1>3. CASE Include(t)
  <2> DEFINE c == [claim[t] EXCEPT !.state = "included"]
  <2>1. claim' = [claim EXCEPT ![t] = c]
    BY <1>3 DEF Include
  <2>2. c \in Claim /\ c.deposit = claim[t].deposit /\ c.amount = claim[t].amount
    BY <1>1 DEF Claim
  <2> HIDE DEF c
  <2> QED
    BY <1>1, <2>1, <2>2, ChainStep DEF Inv, TypeOK
<1> QED
  BY <1>2, <1>3

LEMMA TickStep ==
  ASSUME Inv, Tick
  PROVE  Inv' /\ Kept
<1>1. clock' = clock + 1 /\ clock \in Nat /\ UNCHANGED <<file, cmd, l1, ready, claim>>
  BY DEF Tick, Inv, TypeOK
<1>2. TypeOK'
  BY <1>1 DEF Inv, TypeOK
<1> QED
  BY <1>1, <1>2, SameKept DEF Inv, Truth, Found, Mined, Working, Waiting, Unfinished

-----------------------------------------------------------------------------
LEMMA WorkStep ==
  ASSUME Inv, NEW d \in Deposits, Work(d)
  PROVE  Inv' /\ Kept
<1>1. CASE NotTheDeposit(d) \/ MessageTimesOut(d) \/ ClaimRefused(d) \/ ClaimLost(d)
  BY <1>1, ErrorStep DEF NotTheDeposit, MessageTimesOut, ClaimRefused, ClaimLost, At
<1> QED
  BY <1>1, KnownStep, TimesOutStep, SearchFindsStep, SearchMissesStep, ChooseStep, ReadStep,
     UnminedStep, ReadyStep, ClaimSentStep, ClaimIncludedStep DEF Work

LEMMA InvStep == Inv /\ [Next]_vars => Inv' /\ (Kept \/ UNCHANGED vars)
<1> SUFFICES ASSUME Inv, [Next]_vars PROVE Inv' /\ (Kept \/ UNCHANGED vars)
  OBVIOUS
<1>1. CASE Running
  BY <1>1, WorkStep, SearchEndsStep, EndsIdle DEF Running, CloseServer
<1>2. CASE Failure
  <2>1. CASE \E d \in Deposits : CompletionFails(d)
    BY <2>1, ErrorStep DEF CompletionFails
  <2> QED
    BY <1>2, <2>1, EndsIdle, ClaimEndStep DEF Failure, SearchFails, Kill
<1>3. CASE \E t \in Txs : MessageArrives(t)
  <2>1. PICK t \in Txs : MessageArrives(t)
    BY <1>3
  <2> QED
    BY <2>1, ChainStep DEF MessageArrives, Inv, TypeOK
<1>4. CASE UNCHANGED vars
  BY <1>4 DEF vars, Inv, TypeOK, Truth, Found, Mined, Working, Waiting, Unfinished
<1> QED
  BY <1>1, <1>2, <1>3, <1>4, FundStep, SubmittedStep, FundClaimStep, DepositStep, MineStep,
     ClaimEndStep, TickStep DEF Next, Healthy

LEMMA Invariance == Spec => []Inv
BY InitInv, InvStep, PTL DEF Spec

(* The file, the commands and the chains keep their types, for any number  *)
(* of deposits, transactions and ticks (deposits.ts:9-31).                 *)
THEOREM FundingTypeCorrect == Spec => []TypeOK
<1>1. Inv => TypeOK
  BY DEF Inv
<1> QED
  BY <1>1, Invariance, PTL

(* Every claim names the amount and the secret of a deposit whose message  *)
(* is there, whatever the user deposited and whichever command was killed  *)
(* (process.ts:47-61, 81-84).                                              *)
THEOREM ClaimsMatch == Spec => []ClaimMatchesDeposit
<1>1. Inv => ClaimMatchesDeposit
  BY DEF Inv, Truth, ClaimMatchesDeposit
<1> QED
  BY <1>1, Invariance, PTL

(* What deposits.json says happened has happened (process.ts:31-96).       *)
THEOREM StatusesAreTrue == Spec => []StatusIsTrue
<1>1. Inv => StatusIsTrue
  <2> SUFFICES ASSUME Inv, NEW d \in Deposits, file[d] # None
               PROVE  LET t == file[d].l1TxHash
                      IN  /\ file[d].status \in {"l1_confirmed", "claiming", "claimed"} =>
                               t \in Found(d) /\ file[d].amount = l1[t].amount
                          /\ file[d].status = "claimed" =>
                               claim[t] # None /\ claim[t].state = "included"
                          /\ t # None /\ claim[t] # None /\ claim[t].deposit = d =>
                               file[d].status \in {"claiming", "claimed"}
    BY DEF StatusIsTrue
  <2> QED
    BY Types DEF Inv, Truth
<1> QED
  BY <1>1, Invariance, PTL

(* No record is lost or goes back, and none follows another transaction    *)
(* than the first it was given (deposits.ts:43-47, process.ts:31-96).      *)
THEOREM DepositsKeepProgress == Spec => ProgressIsKept
<1>1. Inv /\ [Next]_vars => [Kept]_vars
  BY InvStep
<1> QED
  BY <1>1, Invariance, PTL DEF Spec, ProgressIsKept, Kept
=============================================================================
