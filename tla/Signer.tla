------------------------------- MODULE Signer -------------------------------
(***************************************************************************)
(* RealFacilitatorAztecSigner.verifyPayment                                *)
(* (packages/demo/src/aztec/facilitator-signer.ts) and the part of the     *)
(* Aztec chain it reads.  A verification makes two reads over RPC, the     *)
(* receipt of the transaction and then the completion log of the           *)
(* commitment.  The chain moves between them, and between the moment the   *)
(* node reads and the moment its answer arrives: an answer is judged as it *)
(* was read.  The chain is external: it is modelled from how the signer    *)
(* and the paying client use it.                                           *)
(***************************************************************************)
EXTENDS Naturals, FiniteSets

CONSTANTS
  Commitments,  \* partial notes prepared by the server
  TxHashes,     \* what payers present as transaction hashes
  Malformed,    \* those TxHash.fromString does not read
  Values,       \* amounts a payer can send
  Slots,        \* bound on the verifications under way
  None,         \* undefined
  Token,        \* the token contract the signer was built with
  MaxBatch,     \* bound on the commitments one transaction completes
  NodeFaults    \* may an RPC fail, and may the node that answers it lag?

VARIABLES
  tx,      \* external: the transactions, their status and what they complete
  log,     \* external: the completion log of each commitment
  lookup   \* the verification in progress in each slot

chain == <<tx, log>>
vars == <<chain, lookup>>

Unsent == [status |-> "absent", pays |-> [c \in Commitments |-> None]]
NoLookup == [pc |-> "idle"]

\* A verification: the read it awaits, or what the last one led to.
Lookup(pc, answer, t, amount, c) ==
  [pc |-> pc, answer |-> answer, tx |-> t, amount |-> amount, commitment |-> c]

Init ==
  /\ tx = [t \in TxHashes |-> Unsent]
  /\ log = [c \in Commitments |-> None]
  /\ lookup = [h \in Slots |-> NoLookup]

-----------------------------------------------------------------------------
(* The chain.                                                              *)

\* A payer sends a transaction that completes some of the commitments that
\* exist, each with some value (an account can batch calls).
Submit(t, exist, pays) ==
  LET completed == {c \in Commitments : pays[c] # None} IN
  /\ t \notin Malformed
  /\ tx[t].status = "absent"
  /\ completed \subseteq exist
  /\ Cardinality(completed) \in 1..MaxBatch
  /\ tx' = [tx EXCEPT ![t] = [status |-> "pending", pays |-> pays]]
  /\ UNCHANGED <<log, lookup>>

\* A pending transaction enters a block.  It reverts when one of its
\* commitments was completed before; otherwise each gets its log.
Mine(t) ==
  /\ tx[t].status = "pending"
  /\ LET fresh(c) == tx[t].pays[c] # None => log[c] = None IN
     \/ /\ \A c \in Commitments : fresh(c)
        /\ tx' = [tx EXCEPT ![t].status = "mined"]
        /\ log' = [c \in Commitments |->
                     IF tx[t].pays[c] = None THEN log[c]
                     ELSE [tx |-> t, value |-> tx[t].pays[c]]]
     \/ /\ \E c \in Commitments : ~fresh(c)
        /\ tx' = [tx EXCEPT ![t].status = "reverted"]
        /\ UNCHANGED log
  /\ UNCHANGED lookup

\* A pending transaction is dropped from the mempool.
DropTx(t) ==
  /\ tx[t].status = "pending"
  /\ tx' = [tx EXCEPT ![t] = Unsent]
  /\ UNCHANGED <<log, lookup>>

-----------------------------------------------------------------------------
(* verifyPayment.                                                          *)

\* The checks before the first RPC, in their order: a hash that does not
\* parse is worth a retry to the facilitator ("verification failed"), another
\* token or no commitment is refused for good.
LookupBegins(h, t, token, amount, c) ==
  /\ lookup[h] = NoLookup
  /\ lookup' = [lookup EXCEPT ![h] =
       IF t \in Malformed THEN Lookup("answered", "retryable", t, amount, c)
       ELSE IF token # Token \/ c = None THEN Lookup("answered", "invalid", t, amount, c)
       ELSE Lookup("receipt", None, t, amount, c)]
  /\ UNCHANGED chain

\* The node reads a receipt that says the transaction is in a block and
\* succeeded; the signer goes on to the logs.
ReceiptRead(h) ==
  /\ lookup[h].pc = "receipt"
  /\ tx[lookup[h].tx].status = "mined"
  /\ lookup' = [lookup EXCEPT ![h].pc = "logs"]
  /\ UNCHANGED chain

\* A mutant: the amount of the log is not compared.
CompletedForAnyAmount(h) ==
  /\ log[lookup[h].commitment] # None
  /\ log[lookup[h].commitment].tx = lookup[h].tx

\* A mutant: the exact price is not enough.
OverpaidOnly(h) ==
  /\ log[lookup[h].commitment] # None
  /\ log[lookup[h].commitment].tx = lookup[h].tx
  /\ log[lookup[h].commitment].value > lookup[h].amount

\* The completion log of the commitment is in the transaction presented and
\* carries the amount.
Completed(h) ==
  LET completion == log[lookup[h].commitment] IN
  /\ completion # None
  /\ completion.tx = lookup[h].tx
  /\ completion.value >= lookup[h].amount

\* What the node reads now may lead to, as the facilitator classifies the
\* error strings (isRetryableVerificationError): a status that is not mined
\* and a log that does not fit are final; a missing log and an RPC that fails
\* are worth a retry.
Answers(h) ==
  LET c == lookup[h].commitment IN
  (IF NodeFaults THEN {"retryable"} ELSE {}) \cup
    (CASE lookup[h].pc = "receipt" ->
            IF tx[lookup[h].tx].status # "mined" THEN {"invalid"} ELSE {}
       [] lookup[h].pc = "logs" ->
            {IF Completed(h) THEN "valid"
             ELSE IF log[c] = None THEN "retryable" ELSE "invalid"})

\* The node reads what decides the verification, and its answer is on its way.
NodeAnswers(h, answer) ==
  /\ lookup[h].pc \in {"receipt", "logs"}
  /\ answer \in Answers(h)
  /\ lookup' = [lookup EXCEPT ![h].pc = "answered", ![h].answer = answer]
  /\ UNCHANGED chain

\* The node lags: it has no receipt yet of a transaction that is mined.  (A
\* node without the log answers like one that fails.)
NodeLags(h) ==
  /\ NodeFaults
  /\ lookup[h].pc = "receipt"
  /\ tx[lookup[h].tx].status = "mined"
  /\ lookup' = [lookup EXCEPT ![h].pc = "answered", ![h].answer = "invalid"]
  /\ UNCHANGED chain

\* The answer arrives, and verifyPayment returns, whatever the chain has
\* become meanwhile.
LookupEnds(h, answer) ==
  /\ lookup[h].pc = "answered"
  /\ answer = lookup[h].answer
  /\ lookup' = [lookup EXCEPT ![h] = NoLookup]
  /\ UNCHANGED chain

\* Nobody waits for the verification any longer: its answer has no effect,
\* so it is forgotten at once.
Abandon(h) ==
  /\ lookup' = [lookup EXCEPT ![h] = NoLookup]
  /\ UNCHANGED chain

Crash ==
  /\ lookup' = [h \in Slots |-> NoLookup]
  /\ UNCHANGED chain
=============================================================================
