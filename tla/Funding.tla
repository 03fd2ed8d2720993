------------------------------ MODULE Funding -------------------------------
(***************************************************************************)
(* `aztec-x402 fund` and `aztec-x402 fund claim` (packages/agent/src/      *)
(* commands/fund.ts, fund/process.ts, fund/deposits.ts, fund/fee-juice.ts) *)
(* with the user who deposits on L1, the bridge and Aztec.                 *)
(*                                                                         *)
(* Wallet commands run one at a time (SKILL.md:16, funding.md:25), so      *)
(* there is one command, which may be killed at any await.  It saves every *)
(* change of a record in the turn that makes it, so the records it holds   *)
(* in memory are those of the file.  L1 is what the agent's RPC shows of   *)
(* it: what the user's wallet sees mined may still be unmined here.        *)
(***************************************************************************)
EXTENDS Integers, FiniteSets

CONSTANTS
  Deposits,       \* the ids of deposit records, each with its own claim secret
  Txs,            \* L1 transactions
  Amounts,        \* what a user may deposit
  PlannedAmount,  \* what the plan asks for
  FundTimeout,    \* FUND_TIMEOUT_MS
  L1GiveUp,       \* L1_GIVE_UP_MS
  None,
  MaxTime         \* bound: the clock

ASSUME FundingAssumption ==
  /\ PlannedAmount \in Nat /\ Amounts \subseteq Nat
  /\ FundTimeout \in Nat /\ L1GiveUp \in Nat /\ MaxTime \in Nat
  /\ None \notin Txs \cup Deposits

VARIABLES
  file,    \* deposits.json
  clock,
  cmd,     \* the running command: where it is, and what fund claim has yet to do
  l1,      \* the deposit transactions
  ready,   \* the deposits whose message has reached Aztec
  claim    \* the claims on Aztec, by the deposit they consume

vars == <<file, clock, cmd, l1, ready, claim>>

DepositStatus == {"awaiting_l1", "l1_confirmed", "claiming", "claimed", "failed"}

DepositRecord ==
  [status : DepositStatus, amount : Nat, l1TxHash : Txs \cup {None}, createdAt : Nat]

\* A transaction on L1 and a claim on Aztec, as their events and notes show them.
L1Deposit == [deposit : Deposits, amount : Amounts, state : {"sent", "mined", "reverted"}]
Claim == [deposit : Deposits, amount : Nat, state : {"sent", "included"}]

ASSUME RecordAssumption ==
  None \notin DepositRecord /\ None \notin L1Deposit /\ None \notin Claim

\* Where a command is: waitForDepositTx, the last seconds of the local page, the
\* search and the loop of fundClaim, and the awaits of completeDeposit.
PCs == {"idle", "watching", "closing", "searching", "choosing", "reading", "waiting", "claiming", "sent"}

Modes == {"local", "hosted", "no-wait"}

Command ==
  [pc : PCs, local : BOOLEAN, deposit : Deposits \cup {None}, todo : SUBSET Deposits]

Idle == [pc |-> "idle", local |-> FALSE, deposit |-> None, todo |-> {}]

Init ==
  /\ file = [d \in Deposits |-> None]
  /\ clock = 0
  /\ cmd = Idle
  /\ l1 = [t \in Txs |-> None]
  /\ ready = {}
  /\ claim = [t \in Txs |-> None]

(***************************************************************************)
(* Helpers                                                                 *)
(***************************************************************************)
Save(d, record) == file' = [file EXCEPT ![d] = record]

Goto(pc) == cmd' = [cmd EXCEPT !.pc = pc]

\* A deposit is done, well or badly: fund ends, fund claim takes the next one.
EndDeposit ==
  cmd' = IF cmd.todo = {} THEN Idle ELSE [cmd EXCEPT !.pc = "choosing", !.deposit = None]

At(pc, d) == cmd.pc = pc /\ cmd.deposit = d

\* A mutant: only what waits for L1 is taken up.
UnfinishedOnL1(d) == file[d] # None /\ file[d].status = "awaiting_l1"

Unfinished(d) == file[d] # None /\ file[d].status \notin {"claimed", "failed"}

Mined(t) == l1[t] # None /\ l1[t].state = "mined"

\* The transactions whose event has the secret hash of this record.
Found(d) == {t \in Txs : Mined(t) /\ l1[t].deposit = d}

(***************************************************************************)
(* fund                                                                    *)
(***************************************************************************)
\* A mutant: the record has no date.
NewRecordUndated ==
  [status |-> "awaiting_l1", amount |-> PlannedAmount, l1TxHash |-> None]

NewRecord ==
  [status |-> "awaiting_l1", amount |-> PlannedAmount, l1TxHash |-> None, createdAt |-> clock]

\* The record is saved before the user gets the page; --no-wait ends here.
Fund(d, mode) ==
  /\ cmd = Idle
  /\ file[d] = None
  /\ clock + FundTimeout < MaxTime
  /\ Save(d, NewRecord)
  /\ cmd' = IF mode = "no-wait" THEN Idle
            ELSE [Idle EXCEPT !.pc = "watching", !.local = (mode = "local"), !.deposit = d]
  /\ UNCHANGED <<clock, l1, ready, claim>>

\* A local page, or whoever has its URL, reports a transaction.
Submitted(d, t) ==
  /\ cmd.local /\ (At("watching", d) \/ At("closing", d))
  /\ file[d].l1TxHash = None
  /\ Save(d, [file[d] EXCEPT !.l1TxHash = t])
  /\ UNCHANGED <<clock, cmd, l1, ready, claim>>

\* The transaction is known: it was reported, or it is found on L1.
DepositTxKnown(d) ==
  /\ At("watching", d)
  /\ \/ file[d].l1TxHash # None /\ UNCHANGED file
     \/ /\ file[d].l1TxHash = None
        /\ \E t \in Found(d) : Save(d, [file[d] EXCEPT !.l1TxHash = t])
  /\ Goto("reading")
  /\ UNCHANGED <<clock, l1, ready, claim>>

\* The search finds no deposit within the hour, though one may have been reported
\* while it ran; a local page stays up for some seconds more.
FundTimesOut(d) ==
  /\ At("watching", d)
  /\ clock > file[d].createdAt + FundTimeout
  /\ IF cmd.local THEN Goto("closing") ELSE cmd' = Idle
  /\ UNCHANGED <<file, clock, l1, ready, claim>>

CloseServer ==
  /\ cmd.pc = "closing"
  /\ cmd' = Idle
  /\ UNCHANGED <<file, clock, l1, ready, claim>>

(***************************************************************************)
(* fund claim                                                              *)
(***************************************************************************)
FundClaim ==
  /\ cmd = Idle
  /\ \E d \in Deposits : Unfinished(d)
  /\ cmd' = [Idle EXCEPT !.pc = "searching", !.todo = {d \in Deposits : Unfinished(d)}]
  /\ UNCHANGED <<file, clock, l1, ready, claim>>

\* Deposits of which no page reported are looked for on L1 first.
SearchFinds(d) ==
  /\ cmd.pc = "searching" /\ d \in cmd.todo
  /\ file[d].l1TxHash = None
  /\ \E t \in Found(d) : Save(d, [file[d] EXCEPT !.l1TxHash = t])
  /\ UNCHANGED <<clock, cmd, l1, ready, claim>>

\* One that is not there is left for another time.
SearchMisses(d) ==
  /\ cmd.pc = "searching" /\ d \in cmd.todo
  /\ file[d].l1TxHash = None /\ Found(d) = {}
  /\ cmd' = [cmd EXCEPT !.todo = @ \ {d}]
  /\ UNCHANGED <<file, clock, l1, ready, claim>>

\* Every deposit was looked for: those with a transaction are completed.
SearchEnds ==
  /\ cmd.pc = "searching"
  /\ \A d \in cmd.todo : file[d].l1TxHash # None
  /\ cmd' = IF cmd.todo = {} THEN Idle ELSE [cmd EXCEPT !.pc = "choosing"]
  /\ UNCHANGED <<file, clock, l1, ready, claim>>

\* An RPC error of the search is not caught.
SearchFails ==
  /\ cmd.pc = "searching"
  /\ cmd' = Idle
  /\ UNCHANGED <<file, clock, l1, ready, claim>>

Choose(d) ==
  /\ cmd.pc = "choosing" /\ d \in cmd.todo
  /\ cmd' = [cmd EXCEPT !.pc = IF file[d].status = "awaiting_l1" THEN "reading" ELSE "waiting",
                        !.deposit = d, !.todo = @ \ {d}]
  /\ UNCHANGED <<file, clock, l1, ready, claim>>

(***************************************************************************)
(* completeDeposit                                                         *)
(***************************************************************************)
\* A mutant: the event of any deposit will do.
MatchesAny(d, t) == TRUE

\* The event has the secret hash and the recipient of the record.
Matches(d, t) == l1[t].deposit = d

\* A mutant: the amount of the plan is kept.
ConfirmedAsPlanned(d, t) == [file[d] EXCEPT !.status = "l1_confirmed"]

\* The user may have changed the amount in the wallet: the event counts.
Confirmed(d, t) == [file[d] EXCEPT !.status = "l1_confirmed", !.amount = l1[t].amount]

\* The receipt is there, and its event is the deposit of this record.
DepositRead(d) ==
  /\ At("reading", d)
  /\ LET t == file[d].l1TxHash
     IN  Mined(t) /\ Matches(d, t) /\ Save(d, Confirmed(d, t))
  /\ Goto("waiting")
  /\ UNCHANGED <<clock, l1, ready, claim>>

\* No receipt within the timeout: an old record is given up, a fresh one kept.
Unmined(d) ==
  /\ At("reading", d)
  /\ l1[file[d].l1TxHash] # None => l1[file[d].l1TxHash].state = "sent"
  /\ IF clock - file[d].createdAt > L1GiveUp
     THEN Save(d, [file[d] EXCEPT !.status = "failed"])
     ELSE UNCHANGED file
  /\ EndDeposit
  /\ UNCHANGED <<clock, l1, ready, claim>>

\* The message is on Aztec: the record says that the claim has begun.
MessageReady(d) ==
  /\ At("waiting", d)
  /\ file[d].l1TxHash \in ready
  /\ Save(d, [file[d] EXCEPT !.status = "claiming"])
  /\ Goto("claiming")
  /\ UNCHANGED <<clock, l1, ready, claim>>

\* The claim is proven and sent; nobody else has claimed the message.
ClaimSent(d) ==
  /\ At("claiming", d)
  /\ LET t == file[d].l1TxHash
     IN  /\ claim[t] = None
         /\ claim' = [claim EXCEPT ![t] = [deposit |-> d, amount |-> file[d].amount, state |-> "sent"]]
  /\ Goto("sent")
  /\ UNCHANGED <<file, clock, l1, ready>>

ClaimIncluded(d) ==
  /\ At("sent", d)
  /\ claim[file[d].l1TxHash] # None /\ claim[file[d].l1TxHash].state = "included"
  /\ Save(d, [file[d] EXCEPT !.status = "claimed"])
  /\ EndDeposit
  /\ UNCHANGED <<clock, l1, ready, claim>>

\* A mutant: the record as it was created is saved with the error.
SavedAsCreated(d) == [file[d] EXCEPT !.status = "awaiting_l1"]

\* The record that is saved with the error: as it is.
SavedWithError(d) == file[d]

EndWithError(d) == Save(d, SavedWithError(d)) /\ EndDeposit /\ UNCHANGED <<clock, l1, ready, claim>>

\* The transaction reverted, or its event is not the deposit of this record.
NotTheDeposit(d) ==
  /\ At("reading", d)
  /\ LET t == file[d].l1TxHash
     IN  l1[t] # None /\ l1[t].state # "sent" /\ ~(Mined(t) /\ Matches(d, t))
  /\ EndWithError(d)

MessageTimesOut(d) ==
  At("waiting", d) /\ file[d].l1TxHash \notin ready /\ EndWithError(d)

\* The simulation fails, or the node refuses: the message was claimed, or is being claimed.
ClaimRefused(d) ==
  At("claiming", d) /\ claim[file[d].l1TxHash] # None /\ EndWithError(d)

\* The claim that the command waits for was dropped.
ClaimLost(d) ==
  At("sent", d) /\ claim[file[d].l1TxHash] = None /\ EndWithError(d)

\* An error of an RPC, the session, the proof, or the wait for the claim.
CompletionFails(d) ==
  /\ cmd.deposit = d /\ cmd.pc \in {"reading", "waiting", "claiming", "sent"}
  /\ EndWithError(d)

(***************************************************************************)
(* The user, the chains, crashes and time                                  *)
(***************************************************************************)
\* The user signs the deposit of a page; signing again makes another one.
Deposit(t, d, amount) ==
  /\ file[d] # None /\ l1[t] = None
  /\ l1' = [l1 EXCEPT ![t] = [deposit |-> d, amount |-> amount, state |-> "sent"]]
  /\ UNCHANGED <<file, clock, cmd, ready, claim>>

Mine(t) ==
  /\ l1[t] # None /\ l1[t].state = "sent"
  /\ \E fate \in {"mined", "reverted"} : l1' = [l1 EXCEPT ![t].state = fate]
  /\ UNCHANGED <<file, clock, cmd, ready, claim>>

MessageArrives(t) ==
  /\ Mined(t) /\ t \notin ready
  /\ ready' = ready \cup {t}
  /\ UNCHANGED <<file, clock, cmd, l1, claim>>

\* A claim is included once, or dropped from the pool.
Include(t) ==
  /\ claim[t] # None /\ claim[t].state = "sent"
  /\ claim' = [claim EXCEPT ![t].state = "included"]
  /\ UNCHANGED <<file, clock, cmd, l1, ready>>

DropClaim(t) ==
  /\ claim[t] # None /\ claim[t].state = "sent"
  /\ claim' = [claim EXCEPT ![t] = None]
  /\ UNCHANGED <<file, clock, cmd, l1, ready>>

Kill ==
  /\ cmd # Idle
  /\ cmd' = Idle
  /\ UNCHANGED <<file, clock, l1, ready, claim>>

Tick ==
  /\ clock < MaxTime
  /\ clock' = clock + 1
  /\ UNCHANGED <<file, cmd, l1, ready, claim>>

\* What a running command does, errors that need not recur aside.
Work(d) ==
  \/ DepositTxKnown(d) \/ FundTimesOut(d)
  \/ SearchFinds(d) \/ SearchMisses(d) \/ Choose(d)
  \/ DepositRead(d) \/ Unmined(d) \/ NotTheDeposit(d)
  \/ MessageReady(d) \/ MessageTimesOut(d)
  \/ ClaimSent(d) \/ ClaimRefused(d) \/ ClaimIncluded(d) \/ ClaimLost(d)

Running == (\E d \in Deposits : Work(d)) \/ SearchEnds \/ CloseServer

\* Errors that need not recur, and crashes.
Failure ==
  \/ \E d \in Deposits : CompletionFails(d)
  \/ SearchFails
  \/ \E t \in Txs : DropClaim(t)
  \/ Kill

Healthy ==
  \/ \E d \in Deposits, mode \in Modes : Fund(d, mode)
  \/ \E d \in Deposits, t \in Txs : Submitted(d, t)
  \/ FundClaim
  \/ Running
  \/ \E t \in Txs, d \in Deposits, amount \in Amounts : Deposit(t, d, amount)
  \/ \E t \in Txs : Mine(t) \/ MessageArrives(t) \/ Include(t)
  \/ Tick

Next == Healthy \/ Failure

Spec == Init /\ [][Next]_vars

\* A command goes on until it ends, the agent runs fund claim again whenever it
\* can, the chains and the clock move, and the failures end some day.
Fairness ==
  /\ WF_vars(Running) /\ WF_vars(FundClaim) /\ WF_vars(Tick)
  /\ \A t \in Txs : WF_vars(MessageArrives(t)) /\ WF_vars(Include(t))
  /\ <>[][Healthy]_vars

FairSpec == Spec /\ Fairness

(***************************************************************************)
(* Properties                                                              *)
(***************************************************************************)
TypeOK ==
  /\ file \in [Deposits -> DepositRecord \cup {None}]
  /\ clock \in Nat
  /\ cmd \in Command
  /\ l1 \in [Txs -> L1Deposit \cup {None}]
  /\ ready \subseteq Txs
  /\ claim \in [Txs -> Claim \cup {None}]

\* A claim that is sent is one Aztec accepts: it names the secret and the amount
\* of the deposit whose message it consumes, and the message is there.
ClaimMatchesDeposit ==
  \A t \in Txs : claim[t] # None =>
    t \in ready /\ claim[t].deposit = l1[t].deposit /\ claim[t].amount = l1[t].amount

\* What a record says is true, through every crash and error: confirmed means
\* deposited for this record, claimed means included on Aztec, and no claim
\* was sent before the record said so.
StatusIsTrue ==
  \A d \in Deposits : file[d] # None =>
    LET t == file[d].l1TxHash
    IN  /\ file[d].status \in {"l1_confirmed", "claiming", "claimed"} =>
             t \in Found(d) /\ file[d].amount = l1[t].amount
        /\ file[d].status = "claimed" => claim[t] # None /\ claim[t].state = "included"
        /\ t # None /\ claim[t] # None /\ claim[t].deposit = d => file[d].status \in {"claiming", "claimed"}

\* The order of the statuses.
Rank == [awaiting_l1 |-> 0, l1_confirmed |-> 1, claiming |-> 2, claimed |-> 3, failed |-> 4]

\* A record is never lost and never goes back, and the transaction it follows
\* never changes: a deposit can be taken up where it was left.
ProgressIsKept ==
  [][\A d \in Deposits : file[d] # None =>
       /\ file'[d] # None
       /\ Rank[file'[d].status] >= Rank[file[d].status]
       /\ file[d].l1TxHash # None => file'[d].l1TxHash = file[d].l1TxHash]_vars

\* The record can still be completed: its deposit is on L1, and it follows no
\* other transaction.
Claimable(d) ==
  /\ file[d] # None /\ file[d].status # "failed"
  /\ file[d].l1TxHash \in Found(d) \/ (file[d].l1TxHash = None /\ Found(d) # {})

ClaimedOnAztec(d) ==
  \E t \in Found(d) : claim[t] # None /\ claim[t].state = "included"

\* funding.md:39, "The page closed, the command stopped, or you used --no-wait":
\* fund claim finds the deposit and claims it, whatever was interrupted.
DepositIsClaimed ==
  \A d \in Deposits : Claimable(d) ~> ClaimedOnAztec(d) \/ ~Claimable(d)

\* process.ts:2: "Resumable: every step persists to deposits.json, so `aztec-x402
\* fund claim` can finish a deposit whose funding page or process went away."
DepositIsFinished ==
  \A d \in Deposits : Claimable(d) ~> ~Claimable(d) \/ file[d].status = "claimed"

=============================================================================
