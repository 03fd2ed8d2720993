---------------------------- MODULE Preparation -----------------------------
(***************************************************************************)
(* The prepare phase from the scheme down to the chain: preparePayment of  *)
(* ExactAztecFacilitatorScheme awaits prepareCommitment of                 *)
(* RealFacilitatorAztecSigner                                              *)
(* (packages/demo/src/aztec/facilitator-signer.ts), which has PXEWallet    *)
(* (packages/agent/src/aztec/pxe-wallet.ts) simulate, prove and send       *)
(* initialize_transfer_commitment and waits until it is in a block.        *)
(*                                                                         *)
(* The contract draws the commitment at random, in every execution anew:   *)
(* simulating and proving draw two.  Several calls share the wallet, any   *)
(* await may fail, and a transaction may be included when its call has     *)
(* given up or its process is gone.  The signer has the wallet, as in      *)
(* real-server.ts; verifications are those of Facilitator.                 *)
(***************************************************************************)
EXTENDS Facilitator

VARIABLES
  prepare,  \* what prepareCommitment does for each call
  issued    \* external: the transactions that make a commitment

preparation == <<prepare, issued>>
pvars == <<vars, preparation>>

NoPrepare == [pc |-> "none"]
Holding(pc, c) == [pc |-> pc, commitment |-> c]

\* What the prepare transaction creates: who completes it, where it is.
Issue == [completer : Addresses, status : {"sent", "mined", "dropped"}]

ASSUME IssueAssumption == None \notin Issue

\* Random fields do not repeat.
Undrawn(c) ==
  /\ issued[c] = None /\ bound[c] = None
  /\ \A h \in Slots : prepare[h].pc = "proven" => prepare[h].commitment # c

PInit ==
  /\ Init
  /\ prepare = [h \in Slots |-> NoPrepare]
  /\ issued = [c \in Commitments |-> None]

Goto(h, step) == prepare' = [prepare EXCEPT ![h] = step]

-----------------------------------------------------------------------------

\* preparePayment calls prepareCommitment, and the wallet simulates: for gas,
\* authorisations and nothing else.
CommitmentRequested(h, token, completer, o) ==
  /\ PrepareBegins(h, token, completer, o)
  /\ Goto(h, Holding("proving", None))
  /\ UNCHANGED issued

\* The transaction is proven, and its app return value is read.
Proven(h, c) ==
  /\ prepare[h].pc = "proving"
  /\ Undrawn(c)
  /\ Goto(h, Holding("proven", c))
  /\ UNCHANGED <<vars, issued>>

\* No transaction with its hash is mined: it goes to the node.
Sent(h) ==
  /\ prepare[h].pc = "proven"
  /\ issued' = [issued EXCEPT ![prepare[h].commitment] =
                  [completer |-> call[h].senderAddress, status |-> "sent"]]
  /\ Goto(h, Holding("waiting", prepare[h].commitment))
  /\ UNCHANGED vars

\* External: the transaction is included, or it fails.
Included(c) ==
  /\ issued[c] # None
  /\ issued[c].status = "sent"
  /\ \E status \in {"mined", "dropped"} :
       issued' = [issued EXCEPT ![c].status = status]
  /\ UNCHANGED <<vars, prepare>>

\* A mutant: the value of the simulation is returned.
ReturnsSimulated(h, c) ==
  /\ prepare[h].pc = "waiting"
  /\ issued[prepare[h].commitment].status = "mined"
  /\ Undrawn(c)

\* waitForTx ends, and prepareCommitment returns the value of the proven
\* transaction.
Returns(h, c) ==
  /\ prepare[h].pc = "waiting"
  /\ c = prepare[h].commitment
  /\ issued[c].status = "mined"

CommitmentReturned(h, c) ==
  /\ Returns(h, c)
  /\ PrepareSucceeds(h, c)
  /\ Goto(h, NoPrepare)
  /\ UNCHANGED issued

\* An RPC, the simulation or the proof fails, the node refuses the
\* transaction or its answer is lost, the transaction is dropped, the wait
\* exceeds 240 s, or there is no return value.
CommitmentFailed(h) ==
  /\ prepare[h] # NoPrepare
  /\ PrepareFails(h)
  /\ Goto(h, NoPrepare)
  /\ UNCHANGED issued

\* The process restarts; the node keeps what it was sent.
PRestart ==
  /\ Restart
  /\ prepare' = [h \in Slots |-> NoPrepare]
  /\ UNCHANGED issued

\* Everything the scheme does but to prepare.
Verification ==
  /\ \/ \E h \in Slots, p \in Payload, q \in Requirements :
          \/ VerifyRefused(h, p, q)
          \/ VerifyBusy(h, p, q)
          \/ VerifyBegins(h, p, q)
     \/ \E h \in Slots :
          SignerAnswers(h) \/ VerifyTimesOut(h) \/ Settle(h) \/ Return(h)
     \/ Tick
  /\ UNCHANGED preparation

PNext ==
  \/ \E h \in Slots, token \in Tokens, a \in Addresses, o \in Options :
       CommitmentRequested(h, token, a, o)
  \/ \E h \in Slots, c \in Commitments :
       Proven(h, c) \/ CommitmentReturned(h, c)
  \/ \E h \in Slots : Sent(h) \/ CommitmentFailed(h)
  \/ \E c \in Commitments : Included(c)
  \/ PRestart
  \/ Verification

PSpec == PInit /\ [][PNext]_pvars

-----------------------------------------------------------------------------
(* Properties.                                                             *)

\* A payer is only ever handed, and the scheme only ever redeems, a
\* commitment that is on chain and that this payer can complete: never the
\* value of a simulation, of a transaction that is still waited for, or of
\* another call under way (facilitator-signer.ts:258-276, pxe-wallet.ts:72-79
\* and 176-203, scheme.ts:160-173).
HandedOutIsOnChain ==
  \A c \in Commitments :
    bound[c] # None =>
      issued[c] = [completer |-> bound[c].senderAddress, status |-> "mined"]

=============================================================================
