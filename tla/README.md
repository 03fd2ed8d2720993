# A formal model of aztec-x402

aztec-x402 lets an HTTP server charge for a request (status 402) and lets a
client, usually an AI agent, pay with a private transfer on Aztec. This
directory holds TLA+ modules that model the parts of the repository that decide
who is served for which payment, TLC configurations that check them on small
instances, and TLAPS proofs of the main results for every instance. Paths are
relative to the root of the repository; `middleware.ts:190` names a line.

## 1. The system

| Component | State | Operations | Where |
|---|---|---|---|
| Payment middleware | map nonce → pending payment (created, timeout, sender, commitment); the closures of requests that await the facilitator | challenge (phase 1), prepare (phase 2), pay (phase 3), sweep | `packages/middleware/src/middleware.ts` |
| Facilitator scheme | map commitment → what it was prepared for; map txHash → expiry of its in-flight mark; set of settled txHashes | `preparePayment`, `verify`, `settle`, sweep, timeout | `packages/mechanism/src/exact/facilitator/scheme.ts` |
| Facilitator signer | the notes of its wallet; sends transactions, reads the chain over RPC | `prepareCommitment`, `verifyPayment` | `packages/demo/src/aztec/facilitator-signer.ts`, `packages/agent/src/aztec/pxe-wallet.ts` |
| Payment server | the three above in one Bun process; every map is lost when it restarts | serve a request | `packages/demo/src/aztec/real-server.ts`, `packages/demo/src/server.ts` |
| Client payment flow | none; one call of `fetch` becomes up to three requests and one transfer | request, prepare, pay, request again | `packages/client/src/client.ts`, `packages/mechanism/src/exact/client`, `packages/agent/src/aztec/client-signer.ts` |
| Agent `pay` | an append-only ledger file of payments; the file that marks a payment in flight | check the spend policy, reserve, pay, record | `packages/agent/src/commands/pay.ts`, `policy.ts`, `inflight.ts` |
| Agent `fund` | a file per deposit; the L1 bridge and its messages | deposit, wait, claim, resume | `packages/agent/src/commands/fund.ts`, `fund/*.ts` |
| Prices and amounts | none | `parsePrice`, `formatAmount`, `parseAmount`, `trimAmount` | `packages/core/src/utils.ts`, `packages/agent/src/policy.ts`, `x402.ts` |
| Demo setup | `deploy.json`, how far the setup got on which network; `keys.json`, the keys of Alice and Bob | run: keys, accounts, dripper, token, drip; resume | `packages/demo/src/aztec/setup.ts`, `wallet-manager.ts`, `token-faucet.ts` |
| Wallets, keystore, PXE session | the Aztec SDK's | open, create, sync | `packages/agent/src/aztec`, `packages/demo/src/aztec` |
| Read-only commands, CLI shell, plugin, demo scripts | none | — | `packages/agent/src`, `plugins`, `packages/demo/src` |

How they interact: a client that asks for a paid route gets a 402 with a nonce
(phase 1). It sends its address (phase 2); the middleware asks the scheme for a
commitment, the scheme asks the signer, and the signer sends a transaction that
creates a partial note of the server that only this client can complete. The
client completes it on chain and sends the transaction hash (phase 3); the
middleware calls `verify`, which has the signer read the chain, then `settle`,
then serves.

What is hard about it: JavaScript runs one handler at a time, but a handler
gives way at each `await`, and here an `await` can last minutes. The design
rests on taking things out of a map before an `await` and putting some of them
back afterwards. A request can be repeated while the first one waits, answers
can come late or never, the chain moves between two reads, deadlines are kept in
two layers, and a restart forgets everything but the chain. The commands keep files
instead, and can be killed between what they send and what they write down, while
the transaction goes on without them. `PROJECT.json`
lists these hazards by line, with the properties that watch each of them.

## 2. The modules

| Module | Models | State in the code |
|---|---|---|
| `Middleware` | `createPaymentMiddleware` with a facilitator that may answer anything | `pendingPayments`: the Map; `slot`: what each awaiting handler holds in its closure |
| `Facilitator` | `ExactAztecFacilitatorScheme` with a signer that may answer anything, late or never | `pendingCommitments`, `inFlightTxHashes`, `consumedTxHashes`; `call`: the calls under way |
| `Signer` | `verifyPayment` and the chain it reads | `lookup`: the verification under way, the read it awaits or the answer on its way; `tx`, `log`: the chain (external) |
| `Preparation` | the prepare phase of `Facilitator` with `prepareCommitment` and the wallet under it | `prepare`: where each call of `prepareCommitment` is; `issued`: its transactions (external) |
| `PaymentServer` | middleware, scheme and signer composed as `real-server.ts` wires them | the union of their states |
| `PaidAccess` | what the server promises, in two actions | `paid`, `redeemed` |
| `Amounts` | texts and base units: `parsePrice`, `formatAmount`, `parseAmount`, `trimAmount` | none |
| `SpendLedger` | `policy.ts`: the ledger and the two conditions of a payment | `ledger`: the merged entries `readLedger` returns |
| `PayCommand` | `aztec-x402 pay` with the client it drives: `wrapFetchWithPayment`, the client scheme, the client signer, the crash handlers of `main.ts` | `pc`, `limits`, `challenge`, `terms`: the locals of one process; `inflight`: `current` of `inflight.ts`; `answer`: the JSON it prints; `tx`: the chain (external) |
| `Funding` | `fund` and `fund claim`, the user, the L1 bridge and Aztec | `file`: `deposits.json`; `cmd`: the command that runs; `l1`, `ready`, `claim`: the chains (external) |
| `Setup` | the setup script, its two files and the networks it runs on | `deploy`, `keysFile`: the files; `config`, `keys`, `fresh`, `rival`: the memory of the run and what it knows of its last transaction; `chain`, `pending`: what is included and what was sent (external) |
| `MiddlewareProofs`, `FacilitatorProofs`, `PaymentServerProofs`, `PayCommandProofs`, `FundingProofs`, `SetupProofs` | theorems about the module they are named for (`FacilitatorProofs`: also `Preparation`) | |
| `AmountsProofs`, `LedgerProofs` | theorems about the operators of `Amounts` and the sums of `SpendLedger`, which `PayCommandProofs` builds on | |
| `MC*` | values for the constants, symmetry | |

An action is one turn of the event loop: what the code does between two awaits.
So `PayBegins` covers phase 3 from the lookup of the nonce to the call of
`verify`, `VerifyEnds` from the answer of `verify` to the call of `settle` or to
the response. In `PaymentServer` the caller's turn and the callee's first turn
are the same turn (`PayBegins` is `MW!PayBegins /\ FA!VerifyBegins /\
SG!LookupBegins`), while an answer resumes the caller in a turn of its own,
after other handlers may have run. A value stands for the entry object a
handler holds, because a handler takes the entry out of the map before it
awaits, so nobody else can reach the object.

A read over RPC is two steps of `Signer`. The node reads (`ReceiptRead`,
`NodeAnswers`), and its answer arrives later (`LookupEnds`), when the chain may have
moved on; a receipt that said `pending` refuses a transaction that was mined in
between. A hash that does not parse (`Malformed`) never reaches the node and is worth
a retry to the facilitator (facilitator-signer.ts:294, 383-389). With `NodeFaults` an
RPC may fail and a node may lag behind the chain.

In `PayCommand` each invocation is a process; the ledger is read and appended to
by separate system calls, so the second policy check (`Guard`) and the first
line of the ledger (`RecordPending`) are two actions, and another process may
come between them. `Escaped` is the handler of an error outside the await chain:
the process is told to exit, but the command goes on until its output is
flushed, so every later action remains possible until `Exit`. An escaped error of the
prover comes from the proof of this transfer, so a transfer whose prover has failed
is not sent. A quote is any integer, because the code reads any text that `BigInt`
reads and looks at no sign (mechanism/src/schemas.ts:13, policy.ts:113-132); a text
that it does not read throws before anything is recorded. When the merchant answers
the prepare with no commitment, the client pays on the accept of the first 402, which
may carry one (client.ts:121, `Unprepared`).

In `Funding` one command runs at a time, because wallet commands must
(SKILL.md:16, funding.md:25), and a command saves each change of a record in the
turn that makes it; so the records in its memory are those of the file, and the
file is the only copy in the model.

`Preparation` extends `Facilitator`: each of its steps is a step of the scheme or
leaves the scheme alone, and `prepareCommitment` is replaced by what it does. The
contract draws a commitment in every execution, so the simulation and the proof of
one transaction give two different ones; the code takes care to hand out the second
(facilitator-signer.ts:258-276). In `PaymentServer` the signer's answer to a
prepare is one step again, so that the composition stays small; every such answer
is one that `Preparation` allows.

In `Setup` a run may be killed or fail at each await and the next one starts from
the files, on a network chosen anew, and with or without `TOKEN_ADDRESS`. What was
sent may be included when its run is long gone. A drip differs from another drip of
the same token only by its transaction, so they are one fact; a deployment takes an
address that nothing uses, and which one does not matter. An account has one
address: a deployment may be sent while that of an earlier run is pending (`rival`),
and the one that comes second is dropped. The wait for it then ends well if the
message names the nullifier (`AccountArrives`), or ends the run (`DuplicateDropped`).
A node that refuses the second with that message while the first is still pending is
not modelled.

An amount in `SpendLedger` is a number of base units and a limit is the text the
user typed; `Amounts` has the conversions between them, each with the rounding the
code does. `PayCommand` thus says what a payer may rely on in terms of what was
typed and of what `inspect` shows.

Variables that are not in the code record what happened, and no guard of a
modelled operation depends on them except where they stand for freshness: `challenged`
(also: UUIDs are never drawn twice), `served`, `ended`, `owed`, `bound` (also: the token contract
never draws a commitment twice), `judged`, `redeemed`, `swapped`, `replaced`.

Left out of these modules: requests that change nothing (an unmatched route,
unreadable headers, an unknown nonce), response bodies, the optional fields
`offchainMessage` and `prepareTxHash` that are passed through, letter case of
addresses, the two channels (private, public) of the completion log, what the
funding page shows, a ledger line torn by a full disk (a line is one write), how
the setup pays its fees, the signer without a wallet, and prices written as
numbers below 1e-6.

## 3. The checks

| Run | Question | Result |
|---|---|---|
| `middleware` | Does any interleaving of prepares, payments, restores, sweeps and restarts give a nonce two owners, serve it twice, bring it back once it was given up, or change what it is bound to? (`next()` does not throw here.) | no |
| `facilitator` | Is what is handed out on chain for this payer, are commitments kept until their deadline unless judged, kept out afterwards, checked for the right payer, and marks released? | yes |
| `payment_server` | Does the whole server implement `PaidAccess`, with node faults, outdated answers, restarts, a `next()` that throws and one transaction that pays twice, and is a payment that is owed never finally refused? | yes |
| `payment_live` | With a node that may never answer: is every request answered that does not await `prepareCommitment`, a payment that is owed settled or given back for a retry, and a nonce put back only with its commitment? | yes |
| `payment_stall` | "a stalled verify cannot lock a payer out of their own payment" (readme.md:112) | violated |
| `pay_command` | With commands one at a time: is what is sent what was approved and recorded, does the daily limit hold but for quotes below zero, does a crash keep the budget, does the printed code tell whether money moved, do entries settle, and do typed limits and shown prices mean what they say? | yes |
| `pay_concurrent` | By how much can two commands alive at once exceed the daily limit? | one payment |
| `pay_failed` | "a prover failure means no tx; anything else may have sent one" (main.ts:161) | violated |
| `funding` | Are records true, do they never go back, does a claim name what was deposited, and is a deposit that can be claimed claimed? | yes |
| `funding_crash` | "`fund claim` can finish a deposit whose funding page or process went away" (process.ts:2) | violated |
| `setup` | Do files and chain agree whatever stopped earlier runs, are keys never lost, is the payer funded, and does an undisturbed run complete, or stop only because an earlier run's deployment came first? | yes |
| `setup_usdc` | "drips private tokens to the payer" (setup.ts:5-6) | violated |

What the violations show:

- *payment_stall.* A verification is given up when the commitment expires, and
  that is when the nonce expires too, so the payer's retry comes too late.
- *pay_failed.* `pay` records any error of the transfer that does not look like a
  timeout as failed (pay.ts:203-204), also when the node already has the
  transaction; the payment is mined and no longer counts against the budget. This
  is why `CrashKeepsBudget` excepts entries reported as `unexpected`.
- *funding_crash.* The record says `claimed` only after the wait for the claim. A
  process that goes away in between leaves `claiming`; every later `fund claim`
  proves the claim again and is refused. The money did arrive
  (`DepositIsClaimed` holds), but the record is never finished.
- *setup_usdc.* `TOKEN_ADDRESS` and `DRIPPER_ADDRESS` replace the recorded contracts and
  leave `minted` as it was (setup.ts:93-99), so a `setup:usdc` after a `setup` skips the
  drip. (Another network alone does not do this: the recorded token is not found there,
  and `minted` is reset with it, setup.ts:193-197. A sandbox run that is stopped before
  its dripper is on file does, since it leaves its keys beside that token.)
  `PayerIsFunded` holds where nothing was exchanged since `minted` was recorded, which
  `swapped` observes.

One passing run contradicts the docs. `HandedOutIsOnChain` holds in `facilitator`,
because the server's signer takes the commitment from the proven transaction
(facilitator-signer.ts:260-275), while readme.md:78, readme.md:205-213 and
facilitator-signer.ts:13 say that it comes from `simulate()` and may not be the one on
chain. That is true of the fallback without `sendTxWithAppReturnValues` only, which
the server does not use. The docs are out of date, and `PROJECT.json` lists this too.

`PaidIsNotRefused` is about payments that are owed when they are presented (`Owed`):
on chain, in the transaction presented, by the payer of the nonce, in the token of the
route and for its price. Its exceptions are what the code decides otherwise. A
transaction settles once, so of two payments made by one transaction the second is
refused (scheme.ts:226-232, readme.md:110). A payment that is still pending when the
node reads its receipt is refused for good, also if it is mined before the answer
arrives; the client waits until it is (client-signer.ts:175-180). And nothing is owed on the
word of a node that lags (`SignerMisled`), which demo/src/aztec/replay-test.ts:257 expects.

`WithinDailyLimit` counts what leaves the wallet, the quotes from zero on. A quote
below zero passes `checkPayment` and lowers the total, so the limit gives way by as
much as such quotes ever took off (`Rebates`); `pay_command` has one, and without that
term the invariant fails.

Two more sentences of the readme are stronger than the code, in ways that the
passing runs allow. `next()` is called inside the `try` block of phase 3
(middleware.ts:230): when the application throws, the nonce is put back although
it is "one-shot" (readme.md:108). A hash is unmarked when `verify` returns and
recorded when `settle` runs, a turn later (scheme.ts:326), so a hash may be used
twice in between, which readme.md:110 excludes. Neither redeems a payment
twice: in `payment_server` `next()` throws and one transaction completes two
commitments, and `ImplementsPaidAccess` holds.

`payment_server` allows a payment to be redeemed on another route than the one
it was challenged on, if it covers that route's price: a pending payment does
not record its route.

**Bounds.** Two nonces, two handlers, two commitments and two senders are the least that
lets two requests compete for one nonce while another nonce is in use, lets a commitment
be replaced or bound to the wrong payer, and lets one transaction hash serve two
commitments. The clock of `Middleware` runs to 3 with timeouts 1 and 2, so each entry can
be used before, at and after its deadline and one can expire while another lives; the
other modules use timeouts 0 to 2 and clocks of 2 or 3 for the same reason. `MaxThrows`
bounds how often `next()` throws for a nonce, `MaxBatch` how many commitments a
transaction completes, `Slots` the requests under way. `payment_server` has one
transaction that may complete both commitments, and one hash that does not parse.
`payment_live` has two nonces, two transactions, one commitment and one route, to keep the
liveness graph small.

`pay_command` has two payments, one after the other (`MaxLive` = 1), a token of two
decimals, merchants that quote -0.05, 1, 1.05 or 1.10, a second payee and another
network, a configured limit of 1.05 for a payment and of 1 for a window of 1 tick:
a payment can be refused for its own amount or for the sum, the sum can be met
exactly or exceeded by what a quote below zero took off, and an entry can leave the
window. A call allows 1.05, or 0.125, which is finer than the token and must be refused
and not cut. `pay_concurrent` has three payments of which two may be
alive (`MaxLive` = 2), enough for one of the two to find a window that is full
already. `pay_failed` needs one payment only.

`funding` has two records, two L1 transactions and one timeout of each kind. The
user deposits 2 units where the plan asks for 1, may deposit twice for one record,
and a page may report any transaction for its record. `Fund` starts only while its
timeout still fits the clock. `MCFunding` also evaluates the assumption
`AmountsAssumption`, for tokens of 0 to 3 decimals: `parsePrice` makes of every text
with up to 3 places the largest amount that is not above it, and reads back every
amount up to 2000 that `formatAmount` or `formatTokenAmount` wrote.

`setup` has the sandbox and one remote network, three runs (`MaxRuns`) and two faults
(`MaxFaults`: kills, failures, dropped transactions, restarts of the sandbox): enough
for a run that was stopped on one network, one that was stopped on the other, and
one that has to complete. Two key sets beside the genesis accounts and nine
addresses are more than three runs can use up; `SomeUnused` never blocks. A node
refuses a second deployment of an account once the first one is on chain, and the
sandbox starts over only between two runs.

In `facilitator` the wallet may prove, send and lose transactions for two calls; a
commitment is drawn at most once, so two commitments are two executions.

**Symmetry** is used for safety only: nonces, handlers, commitments, hashes,
senders and payments are interchangeable in those models, routes are not.

**Fairness.** `LoopFairness` says that the event loop resumes a handler whose
promise is settled, that a timer that is due fires, and that the clock moves. It
does not say that `prepareCommitment` ends: only its last wait is timed
(facilitator-signer.ts:252, pxe-wallet.ts:201), while syncing, simulating, proving and
sending (pxe-wallet.ts:88-190) and the await of the middleware (middleware.ts:121) are
not. A node that hangs leaves such a request open for ever, and `RequestsAnswered`
excepts it. `RpcFairness`, that the node answers the reads of
`verifyPayment`, is assumed by `payment_stall` only, since no timeout of the
signer grants it. `PayerFairness`, that a payer retries, is assumed by
`payment_stall` only: both make the violation stronger. The liveness runs use
`UpSpec`, the process without restarts.

`pay_command` assumes that a process that has started goes on or fails at each
await: the prover, the node and the merchant answer or reject, and the wait for
the transaction is timed. A kill is never required and never excluded. `funding`
assumes that a command goes on, that the agent runs `fund claim` again while a
record is unfinished, that the chains move, and that the failures (crashes, RPC
errors, dropped claims) stop some day; without the last one nothing can be
promised. `setup` assumes that a run goes on and that what was sent is included
unless it is dropped. Of a duplicate deployment that was dropped it assumes only
that the wait ends, well or not. Nobody has to start a run, and faults stop because
`MaxFaults` bounds them.

Runs of models whose clock or whose set of ids is exhausted do not check for
deadlock: nothing is left to do then.

## 4. The proofs

Every safety property that a passing run checks, invariant or action property, is a
theorem for every value of the constants; the hypotheses that three of them add are
those of the run that checks them. TLC checked each inductive invariant on a run
before it was proved.

`MiddlewareProofs` proves for every set of nonces, handlers, routes, senders and
commitments, every clock bound, with `preparePayment` and without, and, but for
`NonceOnce`, whether `next()` throws or not:

- `TypeCorrect`, `ExclusiveOwner`: `TypeOK` and `ExclusiveClaim`. Neither is
  inductive alone. A claim keeps the ownership exclusive because the handler found
  the entry in the map, and a restore because nobody else has it. The inductive
  invariant `Ownership` is `TypeOK /\ ExclusiveClaim /\ Issued`, where `Issued`
  says that whatever is in the map or in a handler was challenged before: without
  it a challenge could draw a nonce that a handler still holds.
- `NothingComesBack` (`NoLateRestore`): a turn that gives a nonce up, because it was
  served, refused, expired, swept or lost, leaves it with nobody (`EndedStep`), which needs
  the ownership to be exclusive; and what is in no map and no handler stays so, since
  only a challenge adds a key and only for a fresh nonce (`GoneStep`).
- `NonceOnce` (`NonceServedOnce`), under the assumption that `next()` does not
  throw. The invariant `ServedIsGone` adds that a nonce that was served is gone. The
  assumption is needed: when `next()` throws the nonce is put back
  (middleware.ts:230-247) and can be served again.
- `BindingsPersist` (`BindingsStick`): with `Unprepared`, that a handler asks
  for a commitment only for an entry that has none.
- `CommitmentsHaveSenders` (`CommitmentHasSender`): with `SenderFirst`, that the
  sender is bound before the commitment is awaited.

The assumptions are those declared in `Middleware`: `None` is no nonce, sender,
commitment, route or entry; timeouts and bounds are naturals.

`PayCommandProofs` proves for every set of payments, tokens, quotes and
per-call limits, any number of processes alive at once, and every length of
the window:

- `PayTypeCorrect`, `PaySendsWhatWasApproved`, `PayAnswersTruthfully`,
  `PayCrashKeepsBudget`, `PayPaidIsFinal`. The inductive invariant is
  `TypeOK` and, for each payment, `Progress`, `Truthful` and `Answered`. `Progress` says what each
  place in the program implies: what was approved there, whether the ledger knows
  the payment, whether it was sent. `Truthful` relates the status of an entry to
  the transfer, and `Answered` relates it to what was printed, including by a
  process that has reported an escaped error and still runs. It is needed because
  two writers settle an entry then, the command and the crash handler, in any
  order.

- `PayKeepsToTheDailyLimit` (`WithinDailyLimit`). The rolling total alone is not
  inductive: a command between its second check and its first line has yet to count,
  and a later line of a running command moves its entry forward in the window, or makes
  a failed one count again, after others were approved in its place. The inductive
  invariant `SpendInv` therefore bounds the sum of `Charged`, the entries of the window
  together with every running command past its second check (`Underway`), each with the
  amount it was approved for, where those below zero are taken off for ever (`Lowered`),
  in the window or not. `Shapes` says that a step approves a payment, starts a
  command, or settles; the last two only take payments out of `Charged`. An approval
  is within the limit together with the window it read, and each of the other commands
  under way, at most `MaxLive - 1` of them (`FewLive`), adds at most one `maxPerPayment`.
- `PayKeepsToWhatWasTyped` (`PaysNoMoreThanTyped`), from what was approved, `Limited`
  (a started command has the limits of its call) and `ParseIsFloor`.
- `PayShowsTheExactPrice` (`ShownPriceIsAccepted`), from `ShownIsExact`.

`AmountsProofs` proves for every text, every amount and every number of decimals that
`parsePrice` makes of a text the largest amount that is not above it (`ParseIsFloor`),
and that what `formatAmount` and `trimAmount` show reads back as the same amount, and
is never finer than the token (`ShownIsExact`); `AmountsAssumption` of `MCFunding` checks
the same on small numbers. `LedgerProofs` proves that a sum over
payments does not depend on the order in which they are added, for amounts of either sign,
that fewer payments sum up to no more where none is below zero, and that each further
payment adds at most the largest amount. Both need
induction. The induction theorems of the library take an operator, which the installed
provers cannot instantiate; here a set of naturals, or of subsets of a finite set, takes
its place, and its least element comes from the well-foundedness of their orders (`WFMin`
with `NatLessThanWellFounded` and `FS_StrictSubsetOrderingWellFounded`). The provers know
nothing of `^`, so the powers of ten are the recursive function `Pow10`, which is shown to
obey its definition before anything is said of its values.

The assumptions are those of `SpendLedger` and `PayCommand`: the payments are finitely
many, challenges are non-empty sequences of quotes, a quote is an integer, limits are
plain decimals (`parseAmount` refuses any other text), bounds are naturals, and `None` and
`NoEntry` are none of the values they stand beside. A token has at most 22 decimals:
`10 ** decimals` is a double in the code (utils.ts:39, utils.ts:53), and beyond that it is no
longer the power of ten.

`FacilitatorProofs` proves for every set of commitments, hashes, payers, tokens and
options, any number of calls under way and every signer:

- `FacilitatorTypeCorrect`, `MarksAreReleased` (`NoLeakedMark`), `CommitmentsStayLive`
  (`LiveUntilJudged`), `ValidIsPrepared` (`ValidMeansPrepared`), `JudgedIsFinal`
  (`JudgedStaysOut`). The inductive invariant joins the last three safety properties
  with `Entries`, that an entry in the map is what was bound to its commitment and
  that nothing is judged that was not prepared, and `Checked`, that a call which waits
  for the signer, or has its answer, still names a commitment prepared for its payer,
  token and amount. `Checked` is what makes the checks before the `await` good
  after it: entries leave the map in between, but are never replaced.
- `PreparationImplementsFacilitator`: every behaviour of `Preparation` is one of
  `Facilitator`, so that the five results carry over to the scheme with the real signer.
- `HandedOutIsReal` (`HandedOutIsOnChain`), with `Holds`, which says what each
  place of `prepareCommitment` knows of the commitment it has drawn.

The assumptions are that `None` is none of the values it stands beside and that
the clock bound is a natural.

`PaymentServerProofs` proves for every set of nonces, payers, commitments, hashes,
tokens, routes and prices, any number of requests under way, with node faults, a `next()`
that throws, restarts and transactions that pay several commitments:

- `ServerIsMiddleware`, `ServerIsFacilitator`: each step of the server is a step or a
  stutter of the middleware alone and of the scheme alone, so the theorems about them
  hold of the composition. For the scheme this says that the middleware keeps to the
  interface which `Facilitator` assumes of its caller.
- `ServerImplementsPaidAccess` (`ImplementsPaidAccess`): each step maps to one of the two
  actions of `PaidAccess` or to a stutter. A completion that is mined is `PA!Pay`, the turn
  in which `settle` has returned and the request is served is `PA!Redeem`.
- `ServiceIsRedeemed` (`ServedIsRedeemed`) and `EntriesMatch`
  (`EntryMatchesCommitment`).
- `PaidNotRefused` (`PaidIsNotRefused`), where `next()` does not throw; the run checks it
  with a `next()` that may. `Debts` says of a handler whose payment is owed that it has
  not been refused, and that neither the lookup under way nor the answer on its way will
  do so. That it passes the checks of the first turn is `OwedIsIssued`: whoever has the
  nonce in the map finds its commitment in the scheme (`Unjudged`), and a sweep drops both
  at the same instant.
- `RetriesFindCommitments` (`RetryFindsCommitment`), where `next()` does not throw: a
  nonce put back after a throw leads to a commitment that is already redeemed.

The invariant is `Inv`, in nine groups. `Owned`, `Dates` and `Scheme` are about one layer
each. `Linked` says that a handler which waits and the call it waits for have the same
nonce, payer and route, and that the signer looks up what the call named; it is what
makes the answer that a handler reads after its `await` the answer to its own question.
`Matched` and `OneCommitment` relate the two maps, which nobody updates together: whoever
owns a nonce knows its one commitment, and both give it the same payer and deadline.
`OnChain` says what the signer's two reads of the chain still mean when they are put
together, `Redemption` that a commitment is out of the scheme before it is redeemed, and
`Serving` that a nonce that was served has used it up. `Unjudged`, for retries, says which
handlers may still put their nonce back, and that none of those has a judged commitment.

The assumptions are those declared in `PaymentServer`: every route has a price, a token
and a timeout, `None` is none of the values it stands beside, and the bounds are naturals.

`FundingProofs` proves for every set of records and L1 transactions, all amounts
and timeouts:

- `FundingTypeCorrect`, `ClaimsMatch` (`ClaimMatchesDeposit`), `StatusesAreTrue`
  (`StatusIsTrue`), `DepositsKeepProgress` (`ProgressIsKept`). The inductive
  invariant has `Truth`, what the status of a record says about the chains and that
  a claim is for a message that arrived, of that record and with its amount;
  `Working`, what each place of the command knows of its record; and `Waiting`, that
  nobody touches the records the command has yet to do. A status alone is not
  inductive, because it is written from what the command read before an await.

`SetupProofs` proves for every set of networks, keys and addresses, any number
of runs and faults:

- `SetupTypeCorrect`, `SetupKeysOnFile` (`KeysOnFile`), `SetupPairFits`
  (`SavedPairFits`) and `SetupUsable` (`CompleteMeansUsable`). `KeysHeld` says that a
  run has its keys on file and that the keys of every account sent are on file or were
  overwritten by a sandbox run; `Contracts` says that whatever was sent as the recorded
  token names the recorded dripper as its minter, on file, in memory and among the
  contracts of the override, also while a token is under way; `Progress` says what
  each step of the run may rely on. `SavedPairFits` excepts a token recorded
  without a dripper, which is what an older version of the script left.

- `SetupFundsThePayer` (`PayerIsFunded`), with `Minting`: `MintedIsTrue` holds of the
  file and of the memory of the run, the addresses noted in the two files agree, no two
  networks have a token at one address, and a run that waits for its drip waits for
  the drip of the recorded token to its own keys. A drip that an earlier run
  sent may be included at any time, so the record follows the transaction and never the
  other way round.

The assumptions are `SetupAssumption`: the absent field and the stale address are
none of the values they stand beside, and there are addresses other than the two of
the override.

Only model-checked: the liveness properties `RequestsAnswered`, `PaidGetsServed`,
`PendingSettles`, `DepositIsClaimed` and `RunCompletes`, because the prover does not reason
about `ENABLED`, and the properties that the code violates.

## 5. The plan

1. *(done)* `Middleware`, `Facilitator`, `Signer`, `PaymentServer`, `PaidAccess`
   with their runs, and `MiddlewareProofs`.
2. *(done)* `SpendLedger` and `PayCommand`, with the client's `fetch`, and
   `PayCommandProofs`.
3. *(done)* `Funding` and `FundingProofs`.
4. *(done)* `Amounts`, in the policy of `PayCommand` and by itself in `MCFunding`.
5. *(done)* `Preparation` and `FacilitatorProofs`.
6. *(done)* `Setup` and `SetupProofs`.
7. *(done)* `PaymentServerProofs`: the refinement of `PaidAccess`, and the properties of
   the composition.
8. *(done)* `AmountsProofs` and `LedgerProofs`, with them `WithinDailyLimit`,
   `PaysNoMoreThanTyped` and `ShownPriceIsAccepted`; and `PayerIsFunded`.
9. `fund` commands that run at once on one `deposits.json`, and an L1 transaction
   that is given up for too early (fund/process.ts:41).

Not modelled: the Aztec SDK's wallets and PXE, whose state is the SDK's; the agent's
keystore, one file that is written once; the CLI shell and read-only commands, which
keep no state; the schemas, which are shapes of messages; the investigations among
the demo scripts, run by hand; and the plugin, which is text.
