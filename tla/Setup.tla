------------------------------- MODULE Setup --------------------------------
(***************************************************************************)
(* The resumable setup of the demo (packages/demo/src/aztec/setup.ts, with *)
(* wallet-manager.ts, token-faucet.ts and network-config.ts): it deploys   *)
(* the accounts of Alice and Bob, a dripper and a token, and drips tokens  *)
(* to Alice, recording its progress in deploy.json and keys.json.          *)
(*                                                                         *)
(* A run is a process that may be killed, or fail, at every await; the two *)
(* files stay, and so does whatever it sent: a transaction can still be    *)
(* included when nobody waits for it any longer.  Runs follow one another, *)
(* on a network and with an override of the contracts chosen anew for each.*)
(* The chains are external, modelled from how the script uses them.        *)
(***************************************************************************)
EXTENDS Naturals

CONSTANTS
  Networks,   \* the CAIP-2 networks the script is run on
  Sandbox,    \* "aztec:sandbox"; the others are remote
  KeySets,    \* the keys of Alice and Bob together
  Genesis,    \* the key set of the sandbox's genesis accounts
  Addresses,  \* bound: addresses of contracts
  Unset,      \* a field that is absent or ""
  Stale,      \* account addresses of an older derivation
  Existing,   \* the token and dripper of TOKEN_ADDRESS and DRIPPER_ADDRESS
  Overrides,  \* may a run be given them?
  MaxRuns,    \* bound on the runs
  MaxFaults   \* bound on the kills, failures and resets of the sandbox

\* An account, a contract or a drip on a network: what a transaction makes.
Account(n, k, who) == [kind |-> "account", net |-> n, keys |-> k, who |-> who]
Dripper(n, a) == [kind |-> "dripper", net |-> n, addr |-> a]
Token(n, a, m) == [kind |-> "token", net |-> n, addr |-> a, minter |-> m]
Drip(n, a, k) == [kind |-> "drip", net |-> n, token |-> a, keys |-> k]

Who == {"alice", "bob"}
Minters == Addresses \cup KeySets
Facts ==
  [kind : {"account"}, net : Networks, keys : KeySets, who : Who]
    \cup [kind : {"dripper"}, net : Networks, addr : Addresses]
    \cup [kind : {"token"}, net : Networks, addr : Addresses, minter : Minters]
    \cup [kind : {"drip"}, net : Networks, token : Addresses, keys : KeySets]

\* deploy.json, with the addresses of both accounts in one field.
Config ==
  [network : Networks \cup {Unset}, accounts : KeySets \cup {Unset, Stale},
   dripper : Addresses \cup {Unset}, token : Addresses \cup {Unset},
   minted : BOOLEAN]

NoConfig ==
  [network |-> Unset, accounts |-> Unset, dripper |-> Unset, token |-> Unset,
   minted |-> FALSE]

\* keys.json: the keys, and the addresses noted beside them.
StoredKeys == [set : KeySets, address : KeySets \cup {Stale}]

ASSUME SetupAssumption ==
  /\ Sandbox \in Networks /\ Genesis \in KeySets
  /\ ~(Addresses \subseteq {Existing.token, Existing.dripper})
  /\ Unset \notin Networks \cup KeySets \cup Addresses \cup StoredKeys
  /\ Stale \notin KeySets \cup {Unset}
  /\ Existing \in [net : Networks, token : Addresses, dripper : Addresses]
  /\ Overrides \in BOOLEAN
  /\ MaxRuns \in Nat /\ MaxFaults \in Nat

VARIABLES
  deploy,   \* deploy.json
  keysFile, \* keys.json
  chain,    \* external: what is on the networks
  pending,  \* external: what was sent and is not included
  pc,       \* the step of the run; "complete" is what it just set up
  network,  \* NETWORK of the run
  config,   \* its config in memory
  keys,     \* its keys in memory
  fresh,    \* what it sent last and waits for
  rival,    \* was the same of an earlier run pending when it was sent?
  runs, faults,
  swapped,  \* observation: minted was set for another token or other keys
  replaced  \* observation: key sets that sandbox runs have overwritten

files == <<deploy, keysFile>>
memory == <<network, config, keys, fresh, rival>>
bounds == <<runs, faults>>
observed == <<swapped, replaced>>
vars == <<files, chain, pending, pc, memory, bounds, observed>>

Steps == {"keys", "alice", "aliceDeploy", "aliceWait", "bob", "bobDeploy",
          "bobWait", "accounts", "dripper", "dripperDeploy", "dripperWait",
          "token", "tokenDeploy", "tokenWait", "mint", "mintWait", "senders"}
Running == pc \in Steps

(***************************************************************************)
(* Helpers                                                                 *)
(***************************************************************************)
\* node.getContract(address).
OnChain(kind, a) ==
  \E f \in chain : f.kind = kind /\ f.net = network /\ f.addr = a

\* A genesis account needs no deployment.
AccountReady(who) == keys.set = Genesis \/ Account(network, keys.set, who) \in chain

\* A deployment draws its address anew: which one does not matter.
UsedAddresses ==
  {f.addr : f \in {g \in chain \cup pending : g.kind \in {"dripper", "token"}}}
    \cup {deploy.dripper, deploy.token, config.dripper, config.token,
          Existing.dripper, Existing.token}
NewAddress == CHOOSE a \in Addresses : a \notin UsedAddresses
SomeUnused == ~(Addresses \subseteq UsedAddresses)

\* saveConfig.
Save(c) == config' = c /\ deploy' = c

\* A mutant: what is cleared becomes text.
ForgetTokenAsText(c) == [c EXCEPT !.token = Unset, !.minted = Unset]

\* A mutant: the drip into the token that is gone still counts.
ForgetTokenOnly(c) == [c EXCEPT !.token = Unset]

\* A token that must be deployed again has not been minted.
ForgetToken(c) == [c EXCEPT !.token = Unset, !.minted = FALSE]

\* A mutant: Alice is the minter.
NewTokenOfAlice == Token(network, NewAddress, keys.set)

\* tokenConstructorWithDripperArgs: the dripper is the minter.
NewToken == Token(network, NewAddress, config.dripper)

Goto(step) ==
  /\ pc' = step
  /\ UNCHANGED <<files, chain, pending, memory, bounds, observed>>

\* send(): the transaction is on its way, and the run waits for it.  It may be the
\* second of its kind: an account is deployed once, by whichever comes first.
Send(fact, step) ==
  /\ pending' = pending \cup {fact}
  /\ fresh' = fact
  /\ rival' = (fact \in pending)
  /\ pc' = step
  /\ UNCHANGED <<files, chain, network, config, keys, bounds, observed>>

(***************************************************************************)
(* The networks and the files before the first run: nothing but the        *)
(* existing contracts, or what an older version left, a token that Alice   *)
(* minted herself and accounts whose addresses are derived otherwise now.  *)
(***************************************************************************)
ExistingFacts ==
  {Dripper(Existing.net, Existing.dripper),
   Token(Existing.net, Existing.token, Existing.dripper)}

Older(n, k, a) ==
  /\ deploy = [network |-> n, accounts |-> Stale, dripper |-> Unset,
               token |-> a, minted |-> TRUE]
  /\ keysFile = [set |-> k, address |-> Stale]
  /\ chain = ExistingFacts \cup {Token(n, a, k), Drip(n, a, k)}

Init ==
  /\ \/ deploy = NoConfig /\ keysFile = Unset /\ chain = ExistingFacts
     \/ \E n \in Networks \ {Sandbox}, k \in KeySets \ {Genesis} :
          Older(n, k, CHOOSE a \in Addresses : a \notin {Existing.token, Existing.dripper})
  /\ pending = {}
  /\ pc = "stopped"
  /\ network \in Networks
  /\ config = deploy
  /\ keys = keysFile
  /\ fresh = Unset /\ rival = FALSE
  /\ runs = 0 /\ faults = 0
  /\ swapped = FALSE
  /\ replaced = {}

(***************************************************************************)
(* Keys and accounts                                                       *)
(***************************************************************************)
\* The script connects and loads deploy.json; the override takes the place of
\* the recorded contracts and leaves the rest of the config.
Start(n, override) ==
  /\ ~Running /\ runs < MaxRuns
  /\ runs' = runs + 1
  /\ network' = n
  /\ config' = IF override
               THEN [deploy EXCEPT !.network = n, !.token = Existing.token,
                                   !.dripper = Existing.dripper]
               ELSE [deploy EXCEPT !.network = n]
  /\ swapped' = (swapped \/ (deploy.minted /\ config'.token # deploy.token))
  /\ keys' = Unset /\ fresh' = Unset /\ rival' = FALSE
  /\ pc' = "keys"
  /\ UNCHANGED <<files, chain, pending, faults, replaced>>

\* createKeySet for Alice and Bob: random, so never seen before.
Generated == KeySets \ ({Genesis} \cup
  {f.keys : f \in {g \in chain \cup pending : g.kind \in {"account", "drip"}}})

\* A mutant: what is generated is not saved here.
EnsureKeysInMemory ==
  /\ pc = "keys"
  /\ \/ network = Sandbox /\ keys' = [set |-> Genesis, address |-> Genesis]
     \/ network # Sandbox /\ keysFile # Unset /\ keys' = keysFile
     \/ /\ network # Sandbox /\ keysFile = Unset
        /\ \E k \in Generated : keys' = [set |-> k, address |-> k]
  /\ UNCHANGED keysFile
  /\ Save([config EXCEPT !.accounts = keys'.address])
  /\ swapped' = (swapped \/ (config.minted /\ keys'.address # deploy.accounts))
  /\ pc' = "alice"
  /\ UNCHANGED <<chain, pending, network, fresh, rival, bounds, replaced>>

\* ensureKeys, and the first save: the genesis accounts on the sandbox, the
\* stored keys elsewhere, or new ones where none are stored.
EnsureKeys ==
  /\ pc = "keys"
  /\ \/ /\ network = Sandbox
        /\ keys' = [set |-> Genesis, address |-> Genesis]
        /\ replaced' = replaced \cup
             (IF keysFile = Unset THEN {} ELSE {keysFile.set} \ {Genesis})
     \/ /\ network # Sandbox /\ keysFile # Unset
        /\ keys' = keysFile
        /\ UNCHANGED replaced
     \/ /\ network # Sandbox /\ keysFile = Unset
        /\ \E k \in Generated : keys' = [set |-> k, address |-> k]
        /\ UNCHANGED replaced
  /\ keysFile' = keys'
  /\ Save([config EXCEPT !.accounts = keys'.address])
  /\ swapped' = (swapped \/ (config.minted /\ keys'.address # deploy.accounts))
  /\ pc' = "alice"
  /\ UNCHANGED <<chain, pending, network, fresh, rival, bounds>>

\* deployAccounts, for Alice and then for Bob: registered or found on chain; or
\* sent and included; or refused with "nullifier" because a deployment that an
\* earlier run sent was included in between, which counts as done.
AccountFound(who, step, next) == pc = step /\ AccountReady(who) /\ Goto(next)

AccountMissing(who, step, deploying) ==
  pc = step /\ ~AccountReady(who) /\ Goto(deploying)

AccountSent(who, deploying, waiting) ==
  /\ pc = deploying /\ ~AccountReady(who)
  /\ Send(Account(network, keys.set, who), waiting)

AccountArrives(who, deploying, waiting, next) ==
  /\ pc \in {deploying, waiting}
  /\ AccountReady(who)
  /\ Goto(next)

\* Sent although an earlier run's deployment was pending, and dropped because that
\* one came first: the wait throws, and unless its message names the nullifier,
\* or an account "already deployed", the script exits with 1.
DuplicateDropped(who, waiting) ==
  /\ pc = waiting /\ rival
  /\ AccountReady(who)
  /\ Goto("stopped")

DeployAccount(who, step, deploying, waiting, next) ==
  \/ AccountFound(who, step, next)
  \/ AccountMissing(who, step, deploying)
  \/ AccountSent(who, deploying, waiting)
  \/ AccountArrives(who, deploying, waiting, next)
  \/ DuplicateDropped(who, waiting)

DeployAccounts ==
  \/ DeployAccount("alice", "alice", "aliceDeploy", "aliceWait", "bob")
  \/ DeployAccount("bob", "bob", "bobDeploy", "bobWait", "accounts")

\* A mutant: a token that Alice minted herself is kept.
KeepOlderToken(c) == c

\* A token without a dripper is of an older version: it is given up.
DropOlderToken(c) ==
  IF c.token # Unset /\ c.dripper = Unset THEN ForgetToken(c) ELSE c

\* The derived addresses are saved beside the keys and in deploy.json.
SaveAccounts ==
  /\ pc = "accounts"
  /\ keys' = [keys EXCEPT !.address = keys.set]
  /\ keysFile' = keys'
  /\ Save(DropOlderToken([config EXCEPT !.accounts = keys.set]))
  /\ pc' = "dripper"
  /\ UNCHANGED <<chain, pending, network, fresh, rival, bounds, observed>>

(***************************************************************************)
(* The dripper and the token                                               *)
(***************************************************************************)
DripperFound ==
  pc = "dripper" /\ OnChain("dripper", config.dripper) /\ Goto("token")

\* Not recorded, or recorded and gone: then the token goes with it.  This is
\* saved only with the next dripper.
DripperMissing ==
  /\ pc = "dripper" /\ ~OnChain("dripper", config.dripper)
  /\ config' = IF config.dripper = Unset THEN config
               ELSE ForgetToken([config EXCEPT !.dripper = Unset])
  /\ pc' = "dripperDeploy"
  /\ UNCHANGED <<files, chain, pending, network, keys, fresh, rival, bounds, observed>>

DripperSent ==
  /\ pc = "dripperDeploy" /\ AccountReady("alice") /\ SomeUnused
  /\ Send(Dripper(network, NewAddress), "dripperWait")

DripperDeployed ==
  /\ pc = "dripperWait" /\ fresh \in chain
  /\ Save([config EXCEPT !.dripper = fresh.addr])
  /\ pc' = "token"
  /\ UNCHANGED <<keysFile, chain, pending, network, keys, fresh, rival, bounds, observed>>

TokenFound ==
  pc = "token" /\ OnChain("token", config.token) /\ Goto("mint")

TokenMissing ==
  /\ pc = "token" /\ ~OnChain("token", config.token)
  /\ config' = IF config.token = Unset THEN config ELSE ForgetToken(config)
  /\ pc' = "tokenDeploy"
  /\ UNCHANGED <<files, chain, pending, network, keys, fresh, rival, bounds, observed>>

TokenSent ==
  /\ pc = "tokenDeploy" /\ AccountReady("alice") /\ SomeUnused
  /\ Send(NewToken, "tokenWait")

TokenDeployed ==
  /\ pc = "tokenWait" /\ fresh \in chain
  /\ Save([config EXCEPT !.token = fresh.addr])
  /\ pc' = "mint"
  /\ UNCHANGED <<keysFile, chain, pending, network, keys, fresh, rival, bounds, observed>>

(***************************************************************************)
(* The drip                                                                *)
(***************************************************************************)
MintSkipped == pc = "mint" /\ config.minted /\ Goto("senders")

\* dripToPrivate: the simulation passes only for the token's minter.  (That it
\* never refuses is part of SavedPairFits and RunCompletes.)
DripSent ==
  /\ pc = "mint" /\ ~config.minted
  /\ AccountReady("alice")
  /\ Token(network, config.token, config.dripper) \in chain
  /\ Send(Drip(network, config.token, keys.set), "mintWait")

\* The balance that is read next changes nothing, nor does its failure.
Minted ==
  /\ pc = "mintWait" /\ fresh \in chain
  /\ Save([config EXCEPT !.minted = TRUE])
  /\ swapped' = FALSE
  /\ pc' = "senders"
  /\ UNCHANGED <<keysFile, chain, pending, network, keys, fresh, rival, bounds, replaced>>

\* The senders are registered in a wallet that ends with the process.
Complete == pc = "senders" /\ Goto("complete")

(***************************************************************************)
(* Faults, and the networks                                                *)
(***************************************************************************)
Fault == faults < MaxFaults /\ faults' = faults + 1

\* The process is killed, or an RPC, a proof or a wait fails: exit 1.
Stop ==
  /\ Running /\ Fault
  /\ pc' = "stopped"
  /\ UNCHANGED <<files, chain, pending, memory, runs, observed>>

\* The transaction the run waits for is dropped, and the wait throws; that of an
\* earlier run stays where it is.
SendFails ==
  /\ pc \in {"aliceWait", "bobWait", "dripperWait", "tokenWait", "mintWait"}
  /\ fresh \in pending /\ Fault
  /\ pending' = IF rival THEN pending ELSE pending \ {fresh}
  /\ pc' = "stopped"
  /\ UNCHANGED <<files, chain, memory, runs, observed>>

Include(f) ==
  /\ f \in pending
  /\ pending' = pending \ {f}
  /\ chain' = chain \cup {f}
  /\ UNCHANGED <<files, pc, memory, bounds, observed>>

\* The local network starts over between two runs: its contracts are gone.
ResetSandbox ==
  /\ ~Running /\ Fault
  /\ chain' = {f \in chain : f.net # Sandbox}
  /\ pending' = {f \in pending : f.net # Sandbox}
  /\ pc' = "stopped"
  /\ UNCHANGED <<files, memory, runs, observed>>

Script ==
  \/ EnsureKeys \/ DeployAccounts \/ SaveAccounts
  \/ DripperFound \/ DripperMissing \/ DripperSent \/ DripperDeployed
  \/ TokenFound \/ TokenMissing \/ TokenSent \/ TokenDeployed
  \/ MintSkipped \/ DripSent \/ Minted \/ Complete

Next ==
  \/ \E n \in Networks, override \in {FALSE, Overrides} : Start(n, override)
  \/ Script
  \/ Stop \/ SendFails \/ ResetSandbox
  \/ \E f \in pending : Include(f)

\* The nodes answer, proofs end, and what is sent is included unless it is
\* dropped; nobody has to start a run.
Fairness == WF_vars(Script) /\ WF_vars(\E f \in pending : Include(f))

Spec == Init /\ [][Next]_vars
FairSpec == Spec /\ Fairness

(***************************************************************************)
(* Properties                                                              *)
(***************************************************************************)
\* Every variable keeps its type.
TypeOK ==
  /\ deploy \in Config /\ config \in Config
  /\ keysFile \in StoredKeys \cup {Unset} /\ keys \in StoredKeys \cup {Unset}
  /\ chain \subseteq Facts /\ pending \subseteq Facts
  /\ pc \in Steps \cup {"stopped", "complete"}
  /\ network \in Networks
  /\ fresh \in Facts \cup {Unset} /\ rival \in BOOLEAN
  /\ runs \in 0..MaxRuns /\ faults \in 0..MaxFaults
  /\ swapped \in BOOLEAN
  /\ replaced \subseteq KeySets

\* What the server and the client load after a completed setup works: the
\* accounts of keys.json are those of deploy.json and exist, and the token and
\* its dripper are on the network, although earlier runs stopped anywhere,
\* on this network or another (setup.ts:117-131, 150-243).
CompleteMeansUsable ==
  pc = "complete" =>
    /\ deploy.network = network /\ deploy.minted
    /\ keysFile = [set |-> deploy.accounts, address |-> deploy.accounts]
    /\ \A who \in Who : AccountReady(who)
    /\ OnChain("dripper", deploy.dripper)
    /\ Token(network, deploy.token, deploy.dripper) \in chain

\* Keys are on file before their account is sent, and no run loses the keys
\* of an account but one on the sandbox, which puts the genesis accounts in
\* their place (wallet-manager.ts:104-135, setup.ts:122).
KeysOnFile ==
  \A f \in chain \cup pending :
    f.kind = "account" =>
      f.keys \in replaced \cup (IF keysFile = Unset THEN {} ELSE {keysFile.set})

\* Wherever a run stops, the token on file was deployed for the dripper on
\* file, or has none: the next run never drips through a dripper that is not
\* the minter (setup.ts:141-148, 155-163, 209-214, 234).
SavedPairFits ==
  \A f \in chain :
    /\ f.kind = "token" /\ f.addr = deploy.token /\ deploy.dripper # Unset
    => f.minter = deploy.dripper

Funded == Drip(network, deploy.token, keysFile.set) \in chain

\* After a completed setup Alice holds tokens of the recorded token, unless the
\* token or the keys were exchanged since "minted" was recorded: no crash, no
\* late transaction and no restart of the sandbox leaves a "minted" that is
\* not true (setup.ts:161-162, 213, 246-283).
PayerIsFunded == pc = "complete" /\ ~swapped => Funded

\* setup.ts:13: "Resumable: saves progress to deploy.json after each step. Safe
\* to restart."  Once nothing fails any more the run in progress completes,
\* whatever the runs before it left behind, but for one end: it sent an account
\* a second time and stopped because the first was included, where the next run
\* finds it (wallet-manager.ts:200-222).
RunCompletes ==
  Running /\ faults = MaxFaults ~>
    \/ pc = "complete"
    \/ pc = "stopped" /\ rival /\ fresh.kind = "account" /\ fresh \in chain

\* setup.ts:5-6: "drips private tokens to the payer": after a completed setup
\* Alice holds tokens of the recorded token.
SetupFundsPayer == pc = "complete" => Funded
=============================================================================
