---------------------------- MODULE SetupProofs -----------------------------
(* Proofs about Setup, for every value of its constants.                 *)
EXTENDS Setup, TLAPS

Sent == chain \cup pending
Kept == IF keysFile = Unset THEN {} ELSE {keysFile.set}

(* A run that has its keys has them on file, and so are the keys of every*)
(* account that was sent.                                                *)
KeysHeld ==
  /\ pc \in (Steps \ {"keys"}) \cup {"complete"} => keys \in StoredKeys /\ keysFile = keys
  /\ \A f \in Sent :
       f.kind = "account" => f.keys # Genesis /\ f.keys \in replaced \cup Kept

(* Every token at this address was deployed for this dripper, if any.    *)
Fits(sent, token, dripper) ==
  dripper # Unset =>
    \A f \in sent : f.kind = "token" /\ f.addr = token => f.minter = dripper

Drippers == {"token", "tokenDeploy", "tokenWait", "mint", "mintWait", "senders", "complete"}

(* What a run knows of the contracts, on file and in memory.             *)
Contracts ==
  /\ Fits(Sent, deploy.token, deploy.dripper)
  /\ Fits(Sent, config.token, config.dripper)
  /\ Fits(Sent, Existing.token, Existing.dripper)
  /\ pc = "dripper" /\ config.dripper = Unset => config.token = Unset
  /\ pc \in {"dripperDeploy", "dripperWait"} => config.token = Unset
  /\ pc \in Drippers => config.dripper # Unset
  /\ pc = "dripperWait" => fresh \in Facts /\ fresh.kind = "dripper" /\ fresh.net = network
  /\ pc = "tokenWait" =>
       /\ fresh \in Facts /\ fresh.kind = "token" /\ fresh.net = network
       /\ fresh.minter = config.dripper
       /\ Fits(Sent, fresh.addr, fresh.minter)

Inv == TypeOK /\ KeysHeld /\ Contracts

(* An account, contract or drip that a transaction makes is a fact.      *)
LEMMA FactTypes ==
  ASSUME NEW n \in Networks, NEW k \in KeySets, NEW who \in Who,
         NEW a \in Addresses, NEW m \in Minters
  PROVE  /\ Account(n, k, who) \in Facts
         /\ Dripper(n, a) \in Facts
         /\ Token(n, a, m) \in Facts
         /\ Drip(n, a, k) \in Facts
BY DEF Facts, Account, Dripper, Token, Drip

(* The fields of a fact of each kind.                                    *)
LEMMA FactFields ==
  ASSUME NEW f \in Facts
  PROVE  /\ f.kind = "account" => f.keys \in KeySets
         /\ f.kind = "dripper" => f.addr \in Addresses
         /\ f.kind = "token" => /\ f.addr \in Addresses /\ f.minter \in Minters
                                /\ f = Token(f.net, f.addr, f.minter)
BY DEF Facts, Token

(* A drawn address is none that is in use.                               *)
LEMMA NewAddressUnused ==
  SomeUnused => NewAddress \in Addresses /\ NewAddress \notin UsedAddresses
BY DEF SomeUnused, NewAddress

(* What the fields of a config may be changed to.                        *)
LEMMA ConfigTypes ==
  ASSUME NEW c \in Config
  PROVE  /\ c.network \in Networks \cup {Unset} /\ c.minted \in BOOLEAN
         /\ c.token \in Addresses \cup {Unset} /\ c.dripper \in Addresses \cup {Unset}
         /\ c.accounts \in KeySets \cup {Unset, Stale}
         /\ \A n \in Networks : [c EXCEPT !.network = n] \in Config
         /\ \A n \in Networks :
              [c EXCEPT !.network = n, !.token = Existing.token,
                        !.dripper = Existing.dripper] \in Config
         /\ \A k \in KeySets \cup {Unset, Stale} : [c EXCEPT !.accounts = k] \in Config
         /\ \A a \in Addresses \cup {Unset} :
              [c EXCEPT !.dripper = a] \in Config /\ [c EXCEPT !.token = a] \in Config
         /\ ForgetToken(c) \in Config
         /\ DropOlderToken(c) \in Config
         /\ [c EXCEPT !.minted = TRUE] \in Config
<1> USE DEF Config
<1>1. ForgetToken(c) \in Config
  BY DEF ForgetToken
<1>2. DropOlderToken(c) \in Config
  BY <1>1 DEF DropOlderToken
<1>3. Existing.token \in Addresses /\ Existing.dripper \in Addresses
  BY SetupAssumption
<1> QED
  BY <1>1, <1>2, <1>3

-----------------------------------------------------------------------------
(* The initial states.                                                   *)
LEMMA InitInv == Init => Inv
<1> SUFFICES ASSUME Init PROVE Inv
  OBVIOUS
<1> USE SetupAssumption
<1> DEFINE old == CHOOSE a \in Addresses : a \notin {Existing.token, Existing.dripper}
<1>1. old \in Addresses /\ old \notin {Existing.token, Existing.dripper}
  OBVIOUS
<1> HIDE DEF old
<1>2. /\ Existing.net \in Networks
      /\ Existing.token \in Addresses /\ Existing.dripper \in Addresses
  OBVIOUS
<1>3. ExistingFacts \subseteq Facts
  BY <1>2, FactTypes DEF ExistingFacts, Minters, Facts, Dripper, Token
<1>4. /\ pending = {} /\ pc = "stopped" /\ network \in Networks /\ config = deploy
      /\ keys = keysFile /\ fresh = Unset /\ rival = FALSE /\ runs = 0 /\ faults = 0
      /\ swapped = FALSE /\ replaced = {}
  BY DEF Init
<1>a. /\ pc \in Steps \cup {"stopped", "complete"}
      /\ fresh \in Facts \cup {Unset} /\ rival \in BOOLEAN
      /\ runs \in 0..MaxRuns /\ faults \in 0..MaxFaults
      /\ swapped \in BOOLEAN /\ replaced \subseteq KeySets /\ pending \subseteq Facts
  <2>1. MaxRuns \in Nat /\ MaxFaults \in Nat
    OBVIOUS
  <2>2. runs \in 0..MaxRuns /\ faults \in 0..MaxFaults
    BY <1>4, <2>1
  <2> QED
    BY <1>4, <2>2
<1>5. CASE deploy = NoConfig /\ keysFile = Unset /\ chain = ExistingFacts
  <2>1. deploy \in Config
    BY <1>5 DEF NoConfig, Config
  <2>2. TypeOK
    BY <1>3, <1>4, <1>a, <1>5, <2>1 DEF TypeOK
  <2>3. KeysHeld
    BY <1>4, <1>5 DEF KeysHeld, Sent, Steps, ExistingFacts, Dripper, Token
  <2>4. Contracts
    BY <1>2, <1>4, <1>5 DEF Contracts, Fits, Sent, ExistingFacts, Dripper, Token, NoConfig, Drippers
  <2> QED
    BY <2>2, <2>3, <2>4 DEF Inv
<1>6. CASE \E n \in Networks \ {Sandbox}, k \in KeySets \ {Genesis} : Older(n, k, old)
  <2>1. PICK n \in Networks \ {Sandbox}, k \in KeySets \ {Genesis} : Older(n, k, old)
    BY <1>6
  <2>2. /\ deploy = [network |-> n, accounts |-> Stale, dripper |-> Unset,
                     token |-> old, minted |-> TRUE]
        /\ keysFile = [set |-> k, address |-> Stale]
        /\ chain = ExistingFacts \cup {Token(n, old, k), Drip(n, old, k)}
    BY <2>1 DEF Older
  <2>3. deploy \in Config /\ keysFile \in StoredKeys
    BY <1>1, <2>2 DEF Config, StoredKeys
  <2>4. chain \subseteq Facts
    <3>1. Token(n, old, k) \in Facts /\ Drip(n, old, k) \in Facts
      BY <1>1 DEF Facts, Token, Drip, Minters
    <3> QED
      BY <1>3, <2>2, <3>1
  <2>5. TypeOK
    BY <1>4, <1>a, <2>3, <2>4 DEF TypeOK
  <2>6. KeysHeld
    BY <1>4, <2>2 DEF KeysHeld, Sent, Steps, ExistingFacts, Dripper, Token, Drip
  <2>7. Contracts
    <3>1. Fits(Sent, Existing.token, Existing.dripper)
      BY <1>1, <1>4, <2>2 DEF Fits, Sent, ExistingFacts, Dripper, Token, Drip
    <3> QED
      BY <1>4, <2>2, <3>1 DEF Contracts, Fits, Drippers
  <2> QED
    BY <2>5, <2>6, <2>7 DEF Inv
<1> QED
  BY <1>5, <1>6 DEF Init, old

-----------------------------------------------------------------------------
(* The steps of a run on its accounts.                                   *)
At(who) ==
  IF who = "alice" THEN {"alice", "aliceDeploy", "aliceWait"} ELSE {"bob", "bobDeploy", "bobWait"}
After(who) == IF who = "alice" THEN "bob" ELSE "accounts"

(* What the step for the accounts can do.                                *)
LEMMA AccountCases ==
  ASSUME DeployAccounts
  PROVE  \E who \in Who :
           /\ pc \in At(who)
           /\ \/ \E next \in At(who) \cup {"stopped"} : Goto(next)
              \/ AccountReady(who) /\ Goto(After(who))
              \/ \E next \in At(who) :
                   ~AccountReady(who) /\ Send(Account(network, keys.set, who), next)
<1> USE DEF DeployAccount, AccountFound, AccountMissing, AccountSent, AccountArrives,
       DuplicateDropped, At, After
<1>1. CASE DeployAccount("alice", "alice", "aliceDeploy", "aliceWait", "bob")
  BY <1>1 DEF Who
<1>2. CASE DeployAccount("bob", "bob", "bobDeploy", "bobWait", "accounts")
  BY <1>2 DEF Who
<1> QED
  BY <1>1, <1>2 DEF DeployAccounts

(* While a run is past its first step, the bits that the types need.     *)
LEMMA InvFacts ==
  ASSUME Inv
  PROVE  /\ deploy \in Config /\ config \in Config
         /\ keysFile \in StoredKeys \cup {Unset} /\ keys \in StoredKeys \cup {Unset}
         /\ chain \subseteq Facts /\ pending \subseteq Facts /\ Sent \subseteq Facts
         /\ pc \in Steps \ {"keys"} =>
              keys \in StoredKeys /\ keysFile = keys /\ keys.set \in KeySets
         /\ network \in Networks
         /\ Unset \notin Networks \cup KeySets \cup Addresses
<1>1. TypeOK /\ KeysHeld
  BY DEF Inv
<1>2. ASSUME pc \in Steps \ {"keys"}
      PROVE  keys \in StoredKeys /\ keysFile = keys /\ keys.set \in KeySets
  BY <1>1, <1>2 DEF KeysHeld, StoredKeys
<1> QED
  BY <1>1, <1>2, SetupAssumption DEF TypeOK, Sent

-----------------------------------------------------------------------------
(* The types.                                                            *)
LEMMA GotoType ==
  ASSUME TypeOK, NEW next \in Steps \cup {"stopped", "complete"}, Goto(next)
  PROVE  TypeOK'
BY DEF TypeOK, Goto, files, memory, bounds, observed

(* Sending a transaction keeps the types.                                *)
LEMMA SendType ==
  ASSUME TypeOK, NEW f \in Facts, NEW next \in Steps, Send(f, next)
  PROVE  TypeOK'
BY DEF TypeOK, Send, files, bounds, observed

(* Saving the state file keeps the types.                                *)
LEMMA SaveType ==
  ASSUME TypeOK, NEW c \in Config, Save(c), pc' \in Steps, swapped' \in BOOLEAN,
         UNCHANGED <<keysFile, chain, pending, network, keys, fresh, rival, bounds, replaced>>
  PROVE  TypeOK'
BY DEF TypeOK, Save, bounds

(* Starting a run keeps the types.                                       *)
LEMMA StartType ==
  ASSUME Inv, NEW n \in Networks, NEW override \in BOOLEAN, Start(n, override)
  PROVE  TypeOK'
<1>1. /\ runs < MaxRuns /\ runs' = runs + 1 /\ network' = n
      /\ config' = IF override
                   THEN [deploy EXCEPT !.network = n, !.token = Existing.token,
                                       !.dripper = Existing.dripper]
                   ELSE [deploy EXCEPT !.network = n]
      /\ swapped' = (swapped \/ (deploy.minted /\ config'.token # deploy.token))
      /\ keys' = Unset /\ fresh' = Unset /\ rival' = FALSE /\ pc' = "keys"
      /\ UNCHANGED <<deploy, keysFile, chain, pending, faults, replaced>>
  BY DEF Start, files
<1>2. TypeOK /\ deploy \in Config
  BY DEF Inv, TypeOK
<1>3. config' \in Config
  BY <1>1, <1>2, ConfigTypes
<1>4. runs' \in 0..MaxRuns
  BY <1>1, <1>2, SetupAssumption DEF TypeOK
<1>5. swapped' \in BOOLEAN
  <2>1. swapped \in BOOLEAN
    BY <1>2 DEF TypeOK
  <2> QED
    BY <1>1, <2>1
<1> QED
  BY <1>1, <1>2, <1>3, <1>4, <1>5 DEF TypeOK, Steps

(* What ensuring the keys leaves in memory and on disk.                  *)
LEMMA EnsureKeysFacts ==
  ASSUME Inv, EnsureKeys
  PROVE  /\ pc = "keys" /\ pc' = "alice"
         /\ keys' \in StoredKeys /\ keysFile' = keys'
         /\ \/ replaced' = replaced \cup (Kept \ {Genesis})
            \/ keysFile = Unset /\ replaced' = replaced
            \/ keys' = keysFile /\ replaced' = replaced
         /\ keys'.address \in KeySets \cup {Stale}
         /\ Save([config EXCEPT !.accounts = keys'.address])
         /\ swapped' = (swapped \/ (config.minted /\ keys'.address # deploy.accounts))
         /\ UNCHANGED <<chain, pending, network, fresh, rival, bounds>>
<1>1. /\ Genesis \in KeySets /\ keysFile \in StoredKeys \cup {Unset}
  BY SetupAssumption DEF Inv, TypeOK
<1>2. CASE /\ network = Sandbox
           /\ keys' = [set |-> Genesis, address |-> Genesis]
           /\ replaced' = replaced \cup
                (IF keysFile = Unset THEN {} ELSE {keysFile.set} \ {Genesis})
  BY <1>1, <1>2 DEF EnsureKeys, StoredKeys, Kept
<1>3. CASE network # Sandbox /\ keysFile # Unset /\ keys' = keysFile /\ UNCHANGED replaced
  BY <1>1, <1>3 DEF EnsureKeys, StoredKeys
<1>4. CASE /\ network # Sandbox /\ keysFile = Unset
           /\ \E k \in Generated : keys' = [set |-> k, address |-> k]
           /\ UNCHANGED replaced
  BY <1>4 DEF EnsureKeys, StoredKeys, Generated
<1> QED
  BY <1>2, <1>3, <1>4 DEF EnsureKeys

(* Ensuring the keys keeps the types.                                    *)
LEMMA EnsureKeysType ==
  ASSUME Inv, EnsureKeys
  PROVE  TypeOK'
<1>1. TypeOK /\ config \in Config
  BY DEF Inv, TypeOK
<1>2. [config EXCEPT !.accounts = keys'.address] \in Config
  BY <1>1, EnsureKeysFacts, ConfigTypes
<1>3. replaced' \subseteq KeySets
  BY <1>1, EnsureKeysFacts DEF TypeOK, Kept, StoredKeys
<1>4. swapped' \in BOOLEAN
  <2>1. swapped \in BOOLEAN
    BY <1>1 DEF TypeOK
  <2> QED
    BY <2>1, EnsureKeysFacts
<1> QED
  BY <1>1, <1>2, <1>3, <1>4, EnsureKeysFacts DEF TypeOK, Save, Steps, bounds

(* The step for the accounts keeps the types.                            *)
LEMMA AccountsType ==
  ASSUME Inv, DeployAccounts
  PROVE  TypeOK'
<1>1. PICK who \in Who :
        /\ pc \in At(who)
        /\ \/ \E next \in At(who) \cup {After(who), "stopped"} : Goto(next)
           \/ \E next \in At(who) : Send(Account(network, keys.set, who), next)
  BY AccountCases
<1>2. At(who) \cup {After(who)} \subseteq Steps \ {"keys"}
  BY DEF At, After, Steps
<1>3. Account(network, keys.set, who) \in Facts
  BY <1>1, <1>2, InvFacts DEF Facts, Account
<1> QED
  BY <1>1, <1>2, <1>3, GotoType, SendType DEF Inv

(* Saving the accounts keeps the types.                                  *)
LEMMA SaveAccountsType ==
  ASSUME Inv, SaveAccounts
  PROVE  TypeOK'
<1>1. TypeOK /\ config \in Config /\ keys \in StoredKeys /\ keys.set \in KeySets
  BY InvFacts DEF Inv, SaveAccounts, Steps
<1>2. keys' \in StoredKeys /\ keysFile' = keys'
  BY <1>1 DEF SaveAccounts, StoredKeys
<1>3. [config EXCEPT !.accounts = keys.set] \in Config
  BY <1>1, ConfigTypes
<1>4. DropOlderToken([config EXCEPT !.accounts = keys.set]) \in Config
  BY <1>3, ConfigTypes
<1> QED
  BY <1>1, <1>2, <1>4 DEF SaveAccounts, TypeOK, Save, Steps, bounds, observed

(* Finding a contract missing keeps the types.                           *)
LEMMA MissingType ==
  ASSUME Inv, DripperMissing \/ TokenMissing
  PROVE  TypeOK'
<1>1. TypeOK /\ config \in Config
  BY DEF Inv, TypeOK
<1>2. [config EXCEPT !.dripper = Unset] \in Config
  BY <1>1, ConfigTypes
<1>3. config' \in Config
  BY <1>1, <1>2, ConfigTypes DEF DripperMissing, TokenMissing
<1> QED
  BY <1>1, <1>3 DEF DripperMissing, TokenMissing, TypeOK, Steps, files, bounds, observed

(* Sending for the current stage keeps the types.                        *)
LEMMA SentType ==
  ASSUME Inv, DripperSent \/ TokenSent \/ DripSent
  PROVE  TypeOK'
<1>1. CASE DripperSent
  <2>1. Dripper(network, NewAddress) \in Facts
    BY <1>1, InvFacts, NewAddressUnused DEF DripperSent, Facts, Dripper
  <2> QED
    BY <1>1, <2>1, SendType DEF DripperSent, Inv, Steps
<1>2. CASE TokenSent
  <2>1. config.dripper \in Addresses
    BY <1>2, InvFacts, ConfigTypes DEF TokenSent, Inv, Contracts, Drippers
  <2>2. NewToken \in Facts
    BY <1>2, <2>1, InvFacts, NewAddressUnused DEF TokenSent, Facts, NewToken, Token, Minters
  <2> QED
    BY <1>2, <2>2, SendType DEF TokenSent, Inv, Steps
<1>3. CASE DripSent
  <2>1. Token(network, config.token, config.dripper) \in Facts
    BY <1>3, InvFacts DEF DripSent
  <2>2. config.token \in Addresses
    BY <2>1, FactFields DEF Token
  <2>3. keys.set \in KeySets
    BY <1>3, InvFacts DEF DripSent, Steps
  <2>4. Drip(network, config.token, keys.set) \in Facts
    BY <2>2, <2>3, InvFacts DEF Facts, Drip
  <2> QED
    BY <1>3, <2>4, SendType DEF DripSent, Inv, Steps
<1> QED
  BY <1>1, <1>2, <1>3

(* Ending a stage keeps the types.                                       *)
LEMMA DoneType ==
  ASSUME Inv, DripperDeployed \/ TokenDeployed \/ Minted
  PROVE  TypeOK'
<1>1. TypeOK /\ config \in Config /\ swapped \in BOOLEAN
  BY DEF Inv, TypeOK
<1>2. CASE DripperDeployed
  <2>1. fresh.addr \in Addresses
    BY <1>2, FactFields DEF DripperDeployed, Inv, Contracts
  <2> QED
    BY <1>1, <1>2, <2>1, ConfigTypes, SaveType DEF DripperDeployed, Steps, observed
<1>3. CASE TokenDeployed
  <2>1. fresh.addr \in Addresses
    BY <1>3, FactFields DEF TokenDeployed, Inv, Contracts
  <2> QED
    BY <1>1, <1>3, <2>1, ConfigTypes, SaveType DEF TokenDeployed, Steps, observed
<1>4. CASE Minted
  BY <1>1, <1>4, ConfigTypes, SaveType DEF Minted, Steps
<1> QED
  BY <1>2, <1>3, <1>4

(* A stop, a failed send, a reset and the chain keep the types.          *)
LEMMA OutsideType ==
  ASSUME Inv, Stop \/ SendFails \/ ResetSandbox \/ \E f \in pending : Include(f)
  PROVE  TypeOK'
<1>1. TypeOK
  BY DEF Inv
<1>2. Fault => faults' \in 0..MaxFaults
  BY <1>1, SetupAssumption DEF TypeOK, Fault
<1>3. CASE Stop
  BY <1>1, <1>2, <1>3 DEF Stop, TypeOK, files, memory, observed
<1>4. CASE SendFails
  BY <1>1, <1>2, <1>4 DEF SendFails, TypeOK, files, memory, observed
<1>5. CASE ResetSandbox
  BY <1>1, <1>2, <1>5 DEF ResetSandbox, TypeOK, files, memory, observed
<1>6. CASE \E f \in pending : Include(f)
  BY <1>1, <1>6 DEF Include, TypeOK, files, memory, bounds, observed
<1> QED
  BY <1>3, <1>4, <1>5, <1>6

(* Every step keeps the types.                                           *)
LEMMA TypeStep ==
  ASSUME Inv, Next
  PROVE  TypeOK'
<1>1. CASE \E n \in Networks, override \in {FALSE, Overrides} : Start(n, override)
  BY <1>1, StartType, SetupAssumption
<1>2. CASE DripperFound \/ TokenFound \/ MintSkipped \/ Complete
  BY <1>2, GotoType DEF DripperFound, TokenFound, MintSkipped, Complete, Inv, Steps
<1> QED
  BY <1>1, <1>2, EnsureKeysType, AccountsType, SaveAccountsType, MissingType, SentType,
     DoneType, OutsideType DEF Next, Script

-----------------------------------------------------------------------------
(* The keys.                                                             *)
Keyed == (Steps \ {"keys"}) \cup {"complete"}

(* Steps that change no keys and send no account.                        *)
LEMMA KeysFrame ==
  ASSUME Inv, UNCHANGED <<keys, keysFile, replaced>>, pc' \in Keyed => pc \in Keyed,
         \A f \in Sent' : f.kind = "account" => f \in Sent
  PROVE  KeysHeld'
BY DEF Inv, KeysHeld, Kept, Keyed

(* The step for the accounts keeps the keys.                             *)
LEMMA KeysAccounts ==
  ASSUME Inv, DeployAccounts
  PROVE  KeysHeld'
<1>1. PICK who \in Who :
        /\ pc \in At(who)
        /\ \/ \E next \in At(who) \cup {"stopped"} : Goto(next)
           \/ AccountReady(who) /\ Goto(After(who))
           \/ \E next \in At(who) :
                ~AccountReady(who) /\ Send(Account(network, keys.set, who), next)
  BY AccountCases
<1>2. At(who) \subseteq Steps \ {"keys"} /\ pc \in Keyed
  BY <1>1 DEF At, Steps, Keyed
<1>3. CASE \E next \in At(who) \cup {After(who), "stopped"} : Goto(next)
  BY <1>2, <1>3, KeysFrame DEF Goto, Sent, files, memory, observed
<1>4. CASE \E next \in At(who) :
             ~AccountReady(who) /\ Send(Account(network, keys.set, who), next)
  <2>1. /\ keys \in StoredKeys /\ keysFile = keys /\ keysFile # Unset
        /\ keys.set # Genesis /\ keys.set \in Kept
    <3>1. keys \in StoredKeys /\ keysFile = keys
      BY <1>2 DEF Inv, KeysHeld, Keyed
    <3>2. keysFile # Unset
      BY <3>1, SetupAssumption
    <3> QED
      BY <1>4, <3>1, <3>2 DEF Kept, AccountReady
  <2>2. /\ Sent' = Sent \cup {Account(network, keys.set, who)}
        /\ UNCHANGED <<keys, keysFile, replaced>>
    BY <1>4 DEF Send, Sent, files, observed
  <2>3. Account(network, keys.set, who).keys = keys.set
    BY DEF Account
  <2>4. Kept' = Kept
    BY <2>2 DEF Kept
  <2> QED
    BY <2>1, <2>2, <2>3, <2>4 DEF Inv, KeysHeld
<1> QED
  BY <1>1, <1>3, <1>4

(* The sandbox overwrites the keys on file, and they count as replaced.  *)
LEMMA KeysEnsured ==
  ASSUME Inv, EnsureKeys
  PROVE  KeysHeld'
<1>1. Sent' = Sent /\ keys' \in StoredKeys /\ keysFile' = keys'
  BY EnsureKeysFacts DEF Sent
<1>2. replaced \cup Kept \subseteq replaced' \cup Kept' \cup {Genesis}
  <2>1. keysFile = Unset => Kept = {}
    BY DEF Kept
  <2>2. keysFile' = keysFile => Kept' = Kept
    BY DEF Kept
  <2> QED
    BY <1>1, <2>1, <2>2, EnsureKeysFacts
<1> QED
  BY <1>1, <1>2 DEF Inv, KeysHeld

(* Every step keeps the keys.                                            *)
LEMMA KeysStep ==
  ASSUME Inv, Next
  PROVE  KeysHeld'
<1>1. CASE \E n \in Networks, override \in {FALSE, Overrides} : Start(n, override)
  <2>1. /\ UNCHANGED <<keysFile, replaced>> /\ Sent' = Sent /\ pc' = "keys"
    BY <1>1 DEF Start, files, Sent
  <2> QED
    BY <2>1 DEF Inv, KeysHeld, Kept, Steps
<1>2. CASE SaveAccounts
  <2>1. keys \in StoredKeys /\ keysFile = keys /\ keys # Unset
    BY <1>2, SetupAssumption DEF SaveAccounts, Inv, KeysHeld, Steps
  <2>2. /\ keys' \in StoredKeys /\ keys'.set = keys.set /\ keysFile' = keys'
        /\ UNCHANGED replaced /\ Sent' = Sent
    BY <1>2, <2>1 DEF SaveAccounts, StoredKeys, observed, Sent
  <2>3. Kept' = Kept
    BY <2>1, <2>2, SetupAssumption DEF Kept
  <2> QED
    BY <2>2, <2>3 DEF Inv, KeysHeld
<1>3. CASE DripperFound \/ TokenFound \/ MintSkipped \/ Complete
  BY <1>3, KeysFrame DEF DripperFound, TokenFound, MintSkipped, Complete, Goto, Sent, Keyed,
     Steps, files, memory, observed
<1>4. CASE DripperMissing \/ TokenMissing
  BY <1>4, KeysFrame DEF DripperMissing, TokenMissing, Sent, Keyed, Steps, files, observed
<1>5. CASE DripperSent \/ TokenSent \/ DripSent
  BY <1>5, KeysFrame DEF DripperSent, TokenSent, DripSent, Send, Sent, Keyed, Steps, files,
     observed, Dripper, NewToken, Token, Drip
<1>6. CASE DripperDeployed \/ TokenDeployed \/ Minted
  BY <1>6, KeysFrame DEF DripperDeployed, TokenDeployed, Minted, Save, Sent, Keyed, Steps,
     observed
<1>7. CASE Stop \/ SendFails \/ ResetSandbox
  BY <1>7, KeysFrame DEF Stop, SendFails, ResetSandbox, Sent, Keyed, Steps, files, memory,
     observed
<1>8. CASE \E f \in pending : Include(f)
  BY <1>8, KeysFrame DEF Include, Sent, files, memory, observed
<1> QED
  BY <1>1, <1>2, <1>3, <1>4, <1>5, <1>6, <1>7, <1>8, KeysAccounts, KeysEnsured
  DEF Next, Script

-----------------------------------------------------------------------------
(* The contracts.                                                        *)

(* Steps that change no config and send no token.                        *)
LEMMA ContractsFrame ==
  ASSUME Inv, UNCHANGED <<deploy, config>>,
         \A f \in Sent' : f.kind = "token" => f \in Sent,
         pc' = "dripper" => pc = "dripper",
         pc' \in {"dripperDeploy", "dripperWait"} => pc \in {"dripperDeploy", "dripperWait"},
         pc' \in Drippers => pc \in Drippers,
         pc' = "dripperWait" =>
           fresh' \in Facts /\ fresh'.kind = "dripper" /\ fresh'.net = network',
         pc' = "tokenWait" => pc = "tokenWait" /\ UNCHANGED <<fresh, network>>
  PROVE  Contracts'
<1>1. Contracts
  BY DEF Inv
<1>2. \A a, d : Fits(Sent, a, d) => Fits(Sent', a, d)
  BY DEF Fits
<1> QED
  BY <1>1, <1>2 DEF Contracts

(* A pair whose token is absent fits, and so does one without a dripper. *)
LEMMA FitsUnset ==
  ASSUME Inv
  PROVE  \A a : Fits(Sent, Unset, a) /\ Fits(Sent, a, Unset)
BY InvFacts, FactFields DEF Fits

(* Starting a run keeps what is known of the contracts.                  *)
LEMMA ContractsStart ==
  ASSUME Inv, NEW n \in Networks, NEW override \in BOOLEAN, Start(n, override)
  PROVE  Contracts'
<1>1. /\ config' = IF override
                   THEN [deploy EXCEPT !.network = n, !.token = Existing.token,
                                       !.dripper = Existing.dripper]
                   ELSE [deploy EXCEPT !.network = n]
      /\ pc' = "keys" /\ deploy' = deploy /\ Sent' = Sent
  BY DEF Start, files, Sent
<1>2. Contracts /\ deploy \in Config
  BY DEF Inv, TypeOK
<1>3. \/ config'.token = Existing.token /\ config'.dripper = Existing.dripper
      \/ config'.token = deploy.token /\ config'.dripper = deploy.dripper
  BY <1>1, <1>2 DEF Config
<1> QED
  BY <1>1, <1>2, <1>3 DEF Contracts, Drippers

(* Ensuring the keys keeps what is known of the contracts.               *)
LEMMA ContractsKeys ==
  ASSUME Inv, EnsureKeys
  PROVE  Contracts'
<1>1. Contracts /\ config \in Config
  BY DEF Inv, TypeOK
<1>2. /\ config' = [config EXCEPT !.accounts = keys'.address] /\ deploy' = config'
      /\ pc' = "alice" /\ Sent' = Sent
  BY EnsureKeysFacts DEF Save, Sent
<1>3. config'.token = config.token /\ config'.dripper = config.dripper
  BY <1>1, <1>2 DEF Config
<1> QED
  BY <1>1, <1>2, <1>3 DEF Contracts, Drippers

(* The step for the accounts keeps what is known of the contracts.       *)
LEMMA ContractsAccounts ==
  ASSUME Inv, DeployAccounts
  PROVE  Contracts'
<1>1. PICK who \in Who :
        /\ pc \in At(who)
        /\ \/ \E next \in At(who) \cup {After(who), "stopped"} : Goto(next)
           \/ \E next \in At(who) : Send(Account(network, keys.set, who), next)
  BY AccountCases
<1>2. pc' \in {"alice", "aliceDeploy", "aliceWait", "bob", "bobDeploy", "bobWait",
               "accounts", "stopped"}
  BY <1>1 DEF Goto, Send, At, After
<1>3. UNCHANGED <<deploy, config>>
  BY <1>1 DEF Goto, Send, files, memory
<1>4. \A f \in Sent' : f.kind = "token" => f \in Sent
  BY <1>1 DEF Goto, Send, Sent, Account
<1> QED
  BY <1>2, <1>3, <1>4, ContractsFrame DEF Drippers

(* Saving the accounts keeps what is known of the contracts.             *)
LEMMA ContractsSaved ==
  ASSUME Inv, SaveAccounts
  PROVE  Contracts'
<1>1. Contracts /\ config \in Config
  BY DEF Inv, TypeOK
<1> DEFINE c == [config EXCEPT !.accounts = keys.set]
<1>2. c.token = config.token /\ c.dripper = config.dripper
  BY <1>1 DEF Config
<1>3. /\ config' = DropOlderToken(c) /\ deploy' = config'
      /\ pc' = "dripper" /\ Sent' = Sent
  BY DEF SaveAccounts, Save, Sent
<1>4. c \in [network : Networks \cup {Unset}, accounts : {keys.set},
             dripper : Addresses \cup {Unset}, token : Addresses \cup {Unset},
             minted : BOOLEAN]
  BY <1>1 DEF Config
<1>5. \/ config'.token = config.token /\ config'.dripper = config.dripper
      \/ config'.token = Unset /\ config'.dripper = Unset
  BY <1>2, <1>3, <1>4 DEF DropOlderToken, ForgetToken
<1>6. config'.dripper = Unset => config'.token = Unset
  BY <1>2, <1>3, <1>4 DEF DropOlderToken, ForgetToken
<1> QED
  BY <1>1, <1>3, <1>5, <1>6, FitsUnset DEF Contracts, Drippers

(* A contract found is one that is recorded.                             *)
LEMMA FoundIsRecorded ==
  ASSUME Inv, NEW kind \in {"dripper", "token"}, NEW a, OnChain(kind, a)
  PROVE  a \in Addresses /\ a # Unset
BY InvFacts, FactFields DEF OnChain

(* A missing contract is looked for again.                               *)
LEMMA ContractsMissing ==
  ASSUME Inv, DripperMissing \/ TokenMissing
  PROVE  Contracts'
<1>1. Contracts /\ config \in Config
  BY DEF Inv, TypeOK
<1>2. deploy' = deploy /\ Sent' = Sent
  BY DEF DripperMissing, TokenMissing, Sent, files
<1>3. CASE DripperMissing
  <2>1. config'.token = Unset /\ config'.dripper = Unset /\ pc' = "dripperDeploy"
    BY <1>1, <1>3 DEF DripperMissing, ForgetToken, Contracts, Config
  <2> QED
    BY <1>1, <1>2, <2>1, FitsUnset DEF Contracts, Drippers
<1>4. CASE TokenMissing
  <2>1. /\ config'.token = Unset /\ config'.dripper = config.dripper
        /\ pc = "token" /\ pc' = "tokenDeploy"
    BY <1>1, <1>4 DEF TokenMissing, ForgetToken, Config
  <2> QED
    BY <1>1, <1>2, <2>1, FitsUnset DEF Contracts, Drippers
<1> QED
  BY <1>3, <1>4

(* Sending a deployment keeps what is known of the contracts.            *)
LEMMA ContractsSent ==
  ASSUME Inv, DripperSent \/ TokenSent \/ DripSent
  PROVE  Contracts'
<1>1. CASE DripperSent
  <2>1. Dripper(network, NewAddress) \in Facts
    BY <1>1, InvFacts, NewAddressUnused DEF DripperSent, Facts, Dripper
  <2>2. Sent' = Sent \cup {Dripper(network, NewAddress)}
    BY <1>1 DEF DripperSent, Send, Sent
  <2> QED
    BY <1>1, <2>1, <2>2, ContractsFrame DEF DripperSent, Send, Drippers, Dripper, files
<1>2. CASE DripSent
  <2>1. Sent' = Sent \cup {Drip(network, config.token, keys.set)}
    BY <1>2 DEF DripSent, Send, Sent
  <2> QED
    BY <1>2, <2>1, ContractsFrame DEF DripSent, Send, Drippers, Drip, files
<1>3. CASE TokenSent
  <2>1. /\ Sent' = Sent \cup {NewToken} /\ fresh' = NewToken
        /\ pc = "tokenDeploy" /\ pc' = "tokenWait"
        /\ UNCHANGED <<deploy, config, network>>
    BY <1>3 DEF TokenSent, Send, Sent, files
  <2>2. /\ NewToken.kind = "token" /\ NewToken.net = network
        /\ NewToken.addr = NewAddress /\ NewToken.minter = config.dripper
    BY DEF NewToken, Token
  <2>3. Contracts /\ config.dripper # Unset
    BY <2>1 DEF Inv, Contracts, Drippers
  <2>4. NewToken \in Facts
    BY <1>3, <2>3, InvFacts, NewAddressUnused, ConfigTypes
    DEF TokenSent, Facts, NewToken, Token, Minters
  <2>5. NewAddress \notin {deploy.token, config.token, Existing.token}
    BY <1>3, NewAddressUnused DEF TokenSent, UsedAddresses
  <2>6. \A f \in Sent : f.kind = "token" => f.addr # NewAddress
    BY <1>3, NewAddressUnused DEF TokenSent, UsedAddresses, Sent
  <2>7. \A a, d : a # NewAddress /\ Fits(Sent, a, d) => Fits(Sent', a, d)
    BY <2>1, <2>2 DEF Fits
  <2>8. Fits(Sent', NewAddress, config.dripper)
    BY <2>1, <2>2, <2>6 DEF Fits
  <2> QED
    BY <2>1, <2>2, <2>3, <2>4, <2>5, <2>7, <2>8 DEF Contracts, Drippers
<1> QED
  BY <1>1, <1>2, <1>3

(* Ending a stage keeps what is known of the contracts.                  *)
LEMMA ContractsDone ==
  ASSUME Inv, DripperDeployed \/ TokenDeployed \/ Minted
  PROVE  Contracts'
<1>1. Contracts /\ config \in Config /\ Sent' = Sent
  BY DEF Inv, TypeOK, DripperDeployed, TokenDeployed, Minted, Sent
<1>2. CASE DripperDeployed
  <2>1. fresh.addr \in Addresses /\ fresh.addr # Unset
    BY <1>1, <1>2, FactFields, InvFacts DEF DripperDeployed, Contracts
  <2>2. /\ config'.token = Unset /\ config'.dripper = fresh.addr
        /\ deploy' = config' /\ pc' = "token"
    BY <1>1, <1>2 DEF DripperDeployed, Contracts, Save, Config
  <2> QED
    BY <1>1, <2>1, <2>2, FitsUnset DEF Contracts
<1>3. CASE TokenDeployed
  <2>1. /\ config'.token = fresh.addr /\ config'.dripper = config.dripper
        /\ deploy' = config' /\ pc = "tokenWait" /\ pc' = "mint"
    BY <1>1, <1>3 DEF TokenDeployed, Save, Config
  <2> QED
    BY <1>1, <2>1 DEF Contracts, Drippers
<1>4. CASE Minted
  <2>1. /\ config'.token = config.token /\ config'.dripper = config.dripper
        /\ deploy' = config' /\ pc = "mintWait" /\ pc' = "senders"
    BY <1>1, <1>4 DEF Minted, Save, Config
  <2> QED
    BY <1>1, <2>1 DEF Contracts, Drippers
<1> QED
  BY <1>2, <1>3, <1>4

(* Every step keeps what is known of the contracts.                      *)
LEMMA ContractsStep ==
  ASSUME Inv, Next
  PROVE  Contracts'
<1>1. CASE \E n \in Networks, override \in {FALSE, Overrides} : Start(n, override)
  BY <1>1, ContractsStart, SetupAssumption
<1>2. CASE DripperFound
  <2>1. pc = "dripper" /\ config.dripper # Unset /\ Goto("token")
    BY <1>2, FoundIsRecorded DEF DripperFound
  <2>2. UNCHANGED <<deploy, config, fresh, network>> /\ Sent' = Sent /\ pc' = "token"
    BY <2>1 DEF Goto, files, memory, Sent
  <2> QED
    BY <2>1, <2>2 DEF Inv, Contracts
<1>3. CASE TokenFound \/ MintSkipped \/ Complete
  BY <1>3, ContractsFrame DEF TokenFound, MintSkipped, Complete, Goto, Sent, Drippers, files,
     memory
<1>4. CASE Stop \/ SendFails \/ ResetSandbox
  BY <1>4, ContractsFrame DEF Stop, SendFails, ResetSandbox, Sent, Drippers, files, memory
<1>5. CASE \E f \in pending : Include(f)
  <2>1. UNCHANGED <<deploy, config, fresh, network, pc>> /\ Sent' = Sent
    BY <1>5 DEF Include, files, memory, Sent
  <2> QED
    BY <2>1 DEF Inv, Contracts
<1> QED
  BY <1>1, <1>2, <1>3, <1>4, <1>5, ContractsKeys, ContractsAccounts, ContractsSaved,
     ContractsMissing, ContractsSent, ContractsDone DEF Next, Script

-----------------------------------------------------------------------------
(* The invariant, and what follows from it.                              *)
LEMMA InvStep == Inv /\ [Next]_vars => Inv'
<1> SUFFICES ASSUME Inv, [Next]_vars PROVE Inv'
  OBVIOUS
<1>1. CASE Next
  BY <1>1, TypeStep, KeysStep, ContractsStep DEF Inv
<1>2. CASE UNCHANGED vars
  BY <1>2 DEF vars, files, memory, bounds, observed, Inv, TypeOK, KeysHeld, Kept, Contracts,
     Sent
<1> QED
  BY <1>1, <1>2

(* The invariant of the setup holds in every reachable state.            *)
LEMMA Invariance == Spec => []Inv
BY InitInv, InvStep, PTL DEF Spec

(* The variables of the setup keep their types, whatever the networks, the*)
(* keys, the addresses and the number of runs (setup.ts:21-29).          *)
THEOREM SetupTypeCorrect == Spec => []TypeOK
<1>1. Inv => TypeOK
  BY DEF Inv
<1> QED
  BY <1>1, Invariance, PTL

(* No run sends an account before its keys are on file, and none loses the*)
(* keys of an account except on the sandbox (wallet-manager.ts:104-135,  *)
(* setup.ts:122).                                                        *)
THEOREM SetupKeysOnFile == Spec => []KeysOnFile
<1>1. Inv => KeysOnFile
  BY DEF Inv, KeysHeld, KeysOnFile, Kept, Sent
<1> QED
  BY <1>1, Invariance, PTL

(* Whatever the runs before it left, a run that reads deploy.json finds a*)
(* token that was deployed for the dripper recorded with it, or no dripper*)
(* (setup.ts:141-148, 155-163, 209-214, 234).                            *)
THEOREM SetupPairFits == Spec => []SavedPairFits
<1>1. Inv => SavedPairFits
  BY DEF Inv, Contracts, Fits, SavedPairFits, Sent
<1> QED
  BY <1>1, Invariance, PTL

-----------------------------------------------------------------------------
(* How far a run has come: what each of its steps leaves behind holds from*)
(* then on, and it is on file wherever nothing is being deployed.        *)
Synced == Keyed \ {"dripperDeploy", "dripperWait", "tokenDeploy", "tokenWait"}
PastDripper == Drippers
PastToken == {"mint", "mintWait", "senders", "complete"}
PastMint == {"senders", "complete"}
PastAccounts == {"dripper", "dripperDeploy", "dripperWait"} \cup PastDripper
PastBob == {"accounts"} \cup PastAccounts
PastAlice == At("bob") \cup PastBob

Progress ==
  /\ pc \in Steps \cup {"complete"} => config.network = network
  /\ pc \in Synced => deploy = config
  /\ pc \in PastAlice => AccountReady("alice")
  /\ pc \in PastBob => AccountReady("bob")
  /\ pc \in PastAccounts => keys.address = keys.set /\ config.accounts = keys.set
  /\ pc \in PastDripper => OnChain("dripper", config.dripper)
  /\ pc \in PastToken => Token(network, config.token, config.dripper) \in chain
  /\ pc \in PastMint => config.minted

Points == {Steps \cup {"complete"}, Synced, PastAlice, PastBob, PastAccounts,
           PastDripper, PastToken, PastMint}

(* Steps that change no config and no keys, and take nothing off the chain.*)
LEMMA ProgressFrame ==
  ASSUME Progress, UNCHANGED <<deploy, config, keys, network>>, chain \subseteq chain',
         \A point \in Points : pc' \in point => pc \in point
  PROVE  Progress'
<1>1. /\ \A who : AccountReady(who) => AccountReady(who)'
      /\ OnChain("dripper", config.dripper) => OnChain("dripper", config.dripper)'
  BY DEF AccountReady, OnChain
<1> QED
  BY <1>1 DEF Progress, Points

(* The step for the accounts keeps what past stages did.                 *)
LEMMA ProgressAccounts ==
  ASSUME Inv, Progress, DeployAccounts
  PROVE  Progress'
<1>1. PICK who \in Who :
        /\ pc \in At(who)
        /\ \/ \E next \in At(who) \cup {"stopped"} : Goto(next)
           \/ AccountReady(who) /\ Goto(After(who))
           \/ \E next \in At(who) :
                ~AccountReady(who) /\ Send(Account(network, keys.set, who), next)
  BY AccountCases
<1>2. UNCHANGED <<deploy, config, keys, network, chain>>
  BY <1>1 DEF Goto, Send, files, memory
<1>3. \A w : AccountReady(w)' <=> AccountReady(w)
  BY <1>2 DEF AccountReady
<1>4. /\ pc \in At(who)
      /\ pc' \in At(who) \cup {"stopped"} \/ (pc' = After(who) /\ AccountReady(who))
  BY <1>1 DEF Goto, Send
<1>5. CASE who = "alice"
  <2>1. /\ pc \in At("alice")
        /\ pc' \in At("alice") \cup {"stopped"} \/ (pc' = "bob" /\ AccountReady("alice"))
    BY <1>4, <1>5 DEF After
  <2> QED
    BY <2>1, <1>2, <1>3 DEF Progress, At, Keyed, Steps, Synced, PastAlice, PastBob,
       PastAccounts, PastDripper, Drippers, PastToken, PastMint
<1>6. CASE who = "bob"
  <2>1. /\ pc \in At("bob")
        /\ pc' \in At("bob") \cup {"stopped"} \/ (pc' = "accounts" /\ AccountReady("bob"))
    BY <1>4, <1>6 DEF After
  <2> QED
    BY <2>1, <1>2, <1>3 DEF Progress, At, Keyed, Steps, Synced, PastAlice, PastBob,
       PastAccounts, PastDripper, Drippers, PastToken, PastMint
<1> QED
  BY <1>5, <1>6 DEF Who

(* Ensuring the keys keeps what past stages did.                         *)
LEMMA ProgressKeys ==
  ASSUME Inv, Progress, EnsureKeys
  PROVE  Progress'
<1>1. config \in Config
  BY DEF Inv, TypeOK
<1>2. /\ config' = [config EXCEPT !.accounts = keys'.address] /\ deploy' = config'
      /\ pc = "keys" /\ pc' = "alice" /\ network' = network
  BY EnsureKeysFacts DEF Save
<1>3. config'.network = config.network
  BY <1>1, <1>2 DEF Config
<1> QED
  BY <1>2, <1>3 DEF Progress, At, Keyed, Steps, Synced, PastAlice, PastBob, PastAccounts,
     PastDripper, Drippers, PastToken, PastMint

(* Saving the accounts keeps what past stages did.                       *)
LEMMA ProgressSaved ==
  ASSUME Inv, Progress, SaveAccounts
  PROVE  Progress'
<1>1. config \in Config /\ keys \in StoredKeys
  BY InvFacts DEF SaveAccounts, Steps
<1>2. /\ keys' = [keys EXCEPT !.address = keys.set]
      /\ config' = DropOlderToken([config EXCEPT !.accounts = keys.set])
      /\ deploy' = config' /\ pc = "accounts" /\ pc' = "dripper"
      /\ UNCHANGED <<chain, network>>
  BY DEF SaveAccounts, Save
<1>3. keys'.address = keys'.set /\ keys'.set = keys.set
  BY <1>1, <1>2 DEF StoredKeys
<1>4. config'.network = config.network /\ config'.accounts = keys.set
  BY <1>1, <1>2 DEF Config, DropOlderToken, ForgetToken
<1>5. \A who : AccountReady(who)' <=> AccountReady(who)
  BY <1>2, <1>3 DEF AccountReady
<1> QED
  BY <1>2, <1>3, <1>4, <1>5 DEF Progress, At, Keyed, Steps, Synced, PastAlice, PastBob,
     PastAccounts, PastDripper, Drippers, PastToken, PastMint

(* A missing contract keeps what past stages did.                        *)
LEMMA ProgressMissing ==
  ASSUME Inv, Progress, DripperMissing \/ TokenMissing
  PROVE  Progress'
<1>1. config \in Config
  BY DEF Inv, TypeOK
<1>2. UNCHANGED <<keys, network, chain>>
  BY DEF DripperMissing, TokenMissing
<1>3. \A who : AccountReady(who)' <=> AccountReady(who)
  BY <1>2 DEF AccountReady
<1>4. config'.network = config.network /\ config'.accounts = config.accounts
  BY <1>1 DEF DripperMissing, TokenMissing, ForgetToken, Config
<1>5. CASE DripperMissing
  <2>1. pc = "dripper" /\ pc' = "dripperDeploy"
    BY <1>5 DEF DripperMissing
  <2> QED
    BY <2>1, <1>2, <1>3, <1>4 DEF Progress, At, Keyed, Steps, Synced, PastAlice, PastBob,
       PastAccounts, PastDripper, Drippers, PastToken, PastMint
<1>6. CASE TokenMissing
  <2>1. /\ pc = "token" /\ pc' = "tokenDeploy" /\ config'.dripper = config.dripper
    BY <1>1, <1>6 DEF TokenMissing, ForgetToken, Config
  <2> QED
    BY <2>1, <1>2, <1>3, <1>4 DEF Progress, OnChain, At, Keyed, Steps, Synced, PastAlice,
       PastBob, PastAccounts, PastDripper, Drippers, PastToken, PastMint
<1> QED
  BY <1>5, <1>6

(* Ending a stage keeps what past stages did.                            *)
LEMMA ProgressDone ==
  ASSUME Inv, Progress, DripperDeployed \/ TokenDeployed \/ Minted
  PROVE  Progress'
<1>1. config \in Config /\ Contracts
  BY DEF Inv, TypeOK
<1>2. UNCHANGED <<keys, network, chain>> /\ deploy' = config'
  BY DEF DripperDeployed, TokenDeployed, Minted, Save
<1>3. \A who : AccountReady(who)' <=> AccountReady(who)
  BY <1>2 DEF AccountReady
<1>4. config'.network = config.network /\ config'.accounts = config.accounts
  BY <1>1 DEF DripperDeployed, TokenDeployed, Minted, Save, Config
<1>5. CASE DripperDeployed
  <2>1. /\ pc = "dripperWait" /\ pc' = "token" /\ config'.dripper = fresh.addr
    BY <1>1, <1>5 DEF DripperDeployed, Save, Config
  <2>2. fresh \in chain /\ fresh.kind = "dripper" /\ fresh.net = network
    BY <1>1, <1>5, <2>1 DEF DripperDeployed, Contracts
  <2>3. OnChain("dripper", config.dripper)'
    BY <1>2, <2>1, <2>2 DEF OnChain
  <2> QED
    BY <2>1, <2>3, <1>2, <1>3, <1>4 DEF Progress, At, Keyed, Steps, Synced, PastAlice,
       PastBob, PastAccounts, PastDripper, Drippers, PastToken, PastMint
<1>6. CASE TokenDeployed
  <2>1. /\ pc = "tokenWait" /\ pc' = "mint" /\ fresh \in chain
        /\ config'.token = fresh.addr /\ config'.dripper = config.dripper
    BY <1>1, <1>6 DEF TokenDeployed, Save, Config
  <2>2. /\ fresh = Token(network, fresh.addr, config.dripper)
    BY <1>1, <2>1, FactFields DEF Contracts
  <2> QED
    BY <2>1, <2>2, <1>2, <1>3, <1>4 DEF Progress, OnChain, At, Keyed, Steps, Synced,
       PastAlice, PastBob, PastAccounts, PastDripper, Drippers, PastToken, PastMint
<1>7. CASE Minted
  <2>1. /\ pc = "mintWait" /\ pc' = "senders" /\ config'.minted
        /\ config'.token = config.token /\ config'.dripper = config.dripper
    BY <1>1, <1>7 DEF Minted, Save, Config
  <2> QED
    BY <2>1, <1>2, <1>3, <1>4 DEF Progress, OnChain, At, Keyed, Steps, Synced, PastAlice,
       PastBob, PastAccounts, PastDripper, Drippers, PastToken, PastMint
<1> QED
  BY <1>5, <1>6, <1>7

(* A step to the next point that leaves config, keys and chain alone.    *)
LEMMA ProgressFound ==
  ASSUME Inv, Progress, DripperFound \/ TokenFound \/ MintSkipped \/ Complete
  PROVE  Progress'
<1>1. UNCHANGED <<deploy, config, keys, network, chain>>
  BY DEF DripperFound, TokenFound, MintSkipped, Complete, Goto, files, memory
<1>2. /\ \A who : AccountReady(who)' <=> AccountReady(who)
      /\ OnChain("dripper", config.dripper)' <=> OnChain("dripper", config.dripper)
  BY <1>1 DEF AccountReady, OnChain
<1> USE DEF At, Keyed, Steps, Synced, PastAlice, PastBob, PastAccounts, PastDripper,
            Drippers, PastToken, PastMint
<1>3. CASE DripperFound
  BY <1>1, <1>2, <1>3 DEF DripperFound, Goto, Progress
<1>4. CASE TokenFound
  <2>1. PICK f \in chain : f.kind = "token" /\ f.net = network /\ f.addr = config.token
    BY <1>4 DEF TokenFound, OnChain
  <2>2. pc = "token" /\ pc' = "mint"
    BY <1>4 DEF TokenFound, Goto
  <2>3. config.dripper # Unset /\ Fits(Sent, config.token, config.dripper)
    BY <2>2 DEF Inv, Contracts
  <2>4. f.minter = config.dripper /\ f \in Facts
    BY <2>1, <2>3, InvFacts DEF Fits, Sent
  <2>5. Token(network, config.token, config.dripper) \in chain
    BY <2>1, <2>4, FactFields
  <2> QED
    BY <1>1, <1>2, <2>2, <2>5 DEF Progress
<1>5. CASE MintSkipped
  BY <1>1, <1>2, <1>5 DEF MintSkipped, Goto, Progress
<1>6. CASE Complete
  BY <1>1, <1>2, <1>6 DEF Complete, Goto, Progress
<1> QED
  BY <1>3, <1>4, <1>5, <1>6

(* Every step keeps what past stages did.                                *)
LEMMA ProgressStep ==
  ASSUME Inv, Progress, Next
  PROVE  Progress'
<1> USE DEF At, Keyed, Steps, Synced, PastAlice, PastBob, PastAccounts, PastDripper,
            Drippers, PastToken, PastMint
<1>1. CASE \E n \in Networks, override \in {FALSE, Overrides} : Start(n, override)
  <2>1. PICK n \in Networks, override \in {FALSE, Overrides} : Start(n, override)
    BY <1>1
  <2>2. deploy \in Config
    BY DEF Inv, TypeOK
  <2>3. network' = n /\ config'.network = n /\ pc' = "keys"
    BY <2>1, <2>2 DEF Start, Config
  <2> QED
    BY <2>3 DEF Progress
<1>2. CASE DripperSent \/ TokenSent \/ DripSent
  <2>1. /\ UNCHANGED <<deploy, config, keys, network, chain>>
        /\ \/ pc = "dripperDeploy" /\ pc' = "dripperWait"
           \/ pc = "tokenDeploy" /\ pc' = "tokenWait"
           \/ pc = "mint" /\ pc' = "mintWait"
    BY <1>2 DEF DripperSent, TokenSent, DripSent, Send, files
  <2> QED
    BY <2>1, ProgressFrame DEF Points
<1>3. CASE Stop \/ SendFails \/ ResetSandbox
  BY <1>3 DEF Stop, SendFails, ResetSandbox, Progress
<1>4. CASE \E f \in pending : Include(f)
  BY <1>4, ProgressFrame DEF Include, files, memory
<1> QED
  BY <1>1, <1>2, <1>3, <1>4, ProgressKeys, ProgressAccounts, ProgressSaved, ProgressMissing,
     ProgressDone, ProgressFound DEF Next, Script

(* What past stages did holds in every reachable state.                  *)
LEMMA ProgressInvariance == Spec => []Progress
<1> USE DEF At, Keyed, Steps, Synced, PastAlice, PastBob, PastAccounts, PastDripper,
            Drippers, PastToken, PastMint
<1>1. Init => Progress
  BY DEF Init, Progress
<1>2. Inv /\ Progress /\ [Next]_vars => Progress'
  <2> SUFFICES ASSUME Inv, Progress, [Next]_vars PROVE Progress'
    OBVIOUS
  <2>1. CASE UNCHANGED vars
    BY <2>1, ProgressFrame DEF vars, files, memory
  <2> QED
    BY <2>1, ProgressStep
<1> QED
  BY <1>1, <1>2, Invariance, PTL DEF Spec

(* A completed setup has left accounts, a dripper and a token that work  *)
(* together, and files that say so, although earlier runs stopped anywhere*)
(* on any network (setup.ts:117-131, 150-243).                           *)
THEOREM SetupUsable == Spec => []CompleteMeansUsable
<1>1. Inv /\ Progress => CompleteMeansUsable
  <2> SUFFICES ASSUME Inv, Progress, pc = "complete" PROVE CompleteMeansUsable
    BY DEF CompleteMeansUsable
  <2>1. /\ deploy = config /\ config.network = network /\ config.minted
        /\ AccountReady("alice") /\ AccountReady("bob")
        /\ keys.address = keys.set /\ config.accounts = keys.set
        /\ OnChain("dripper", config.dripper)
        /\ Token(network, config.token, config.dripper) \in chain
    BY DEF Progress, At, Keyed, Steps, Synced, PastAlice, PastBob, PastAccounts, PastDripper,
       Drippers, PastToken, PastMint
  <2>2. keys \in StoredKeys /\ keysFile = keys
    BY DEF Inv, KeysHeld
  <2>3. keysFile = [set |-> keys.set, address |-> keys.set]
    BY <2>1, <2>2 DEF StoredKeys
  <2> QED
    BY <2>1, <2>3 DEF CompleteMeansUsable, Who
<1> QED
  BY <1>1, Invariance, ProgressInvariance, PTL
-----------------------------------------------------------------------------
(* What "minted" says.  A token at this address, wherever it is, has been*)
(* dripped to the payer: also one whose deployment is still to be included.*)
Dripped(token, k) ==
  \A f \in Sent : f.kind = "token" /\ f.addr = token => Drip(f.net, token, k) \in chain

(* A config that says minted has a token, and keys to spend it with, and *)
(* says so truly unless the token or the keys were exchanged.            *)
MintedIsTrue(c) ==
  /\ c.minted => c.token # Unset /\ keysFile # Unset
  /\ c.minted /\ ~swapped => Dripped(c.token, keysFile.set)

(* No two networks have a token at one address.                          *)
OneNetwork ==
  \A f, g \in Sent : f.kind = "token" /\ g.kind = "token" /\ f.addr = g.addr => f.net = g.net

(* The addresses noted in the two files agree, also with what the run has*)
(* in memory, and are those of the keys or of an older derivation.       *)
Noted ==
  keysFile # Unset => /\ keysFile.address \in {keysFile.set, Stale}
                      /\ deploy.accounts = keysFile.address
                      /\ Running => config.accounts = keysFile.address

Minting ==
  /\ MintedIsTrue(deploy)
  /\ Running => MintedIsTrue(config)
  /\ OneNetwork
  /\ Noted
  /\ pc \in {"tokenDeploy", "tokenWait"} => config.token = Unset
  /\ pc = "mintWait" => fresh = Drip(network, config.token, keys.set)

(* Steps that record nothing keep this, if no token is sent by them and no*)
(* drip is lost that a token which is still there has received.          *)
TokensKept ==
  \A f \in Sent' : f.kind = "token" =>
    f \in Sent /\ \A a, k : Drip(f.net, a, k) \in chain => Drip(f.net, a, k) \in chain'

(* An entry that says minted stays true.                                 *)
LEMMA MintedKept ==
  ASSUME TokensKept, UNCHANGED <<keysFile, swapped>>
  PROVE  \A c : MintedIsTrue(c) => MintedIsTrue(c)'
BY DEF TokensKept, MintedIsTrue, Dripped

(* A step that records nothing keeps what is said to be minted true.     *)
LEMMA MintingFrame ==
  ASSUME Minting, TokensKept, UNCHANGED <<deploy, keysFile, swapped>>,
         Running' => Running /\ UNCHANGED config,
         pc' \in {"tokenDeploy", "tokenWait"} => config'.token = Unset,
         pc' = "mintWait" => fresh' = Drip(network', config'.token, keys'.set)
  PROVE  Minting'
<1>1. \A c : MintedIsTrue(c) => MintedIsTrue(c)'
  BY MintedKept
<1>2. MintedIsTrue(deploy)'
  BY <1>1 DEF Minting
<1>3. Running' => MintedIsTrue(config)'
  BY <1>1 DEF Minting
<1>4. OneNetwork' /\ Noted'
  BY DEF Minting, OneNetwork, Noted, TokensKept
<1> QED
  BY <1>2, <1>3, <1>4 DEF Minting

(* Nothing is minted before the first run.                               *)
LEMMA MintingInit == Init => Minting
<1> SUFFICES ASSUME Init PROVE Minting
  OBVIOUS
<1> DEFINE old == CHOOSE a \in Addresses : a \notin {Existing.token, Existing.dripper}
<1>1. old \in Addresses /\ old \notin {Existing.token, Existing.dripper} /\ old # Unset
  BY SetupAssumption
<1> HIDE DEF old
<1>2. /\ pending = {} /\ pc = "stopped" /\ config = deploy /\ swapped = FALSE
  BY DEF Init
<1>3. ~Running
  BY <1>2 DEF Running, Steps
<1>4. CASE deploy = NoConfig /\ keysFile = Unset /\ chain = ExistingFacts
  <2>1. MintedIsTrue(deploy)
    BY <1>4 DEF MintedIsTrue, NoConfig
  <2>2. OneNetwork
    BY <1>2, <1>4 DEF OneNetwork, Sent, ExistingFacts, Dripper, Token
  <2> QED
    BY <1>2, <1>3, <1>4, <2>1, <2>2 DEF Minting, Noted
<1>5. CASE \E n \in Networks \ {Sandbox}, k \in KeySets \ {Genesis} : Older(n, k, old)
  <2>1. PICK n \in Networks \ {Sandbox}, k \in KeySets \ {Genesis} : Older(n, k, old)
    BY <1>5
  <2>2. /\ deploy = [network |-> n, accounts |-> Stale, dripper |-> Unset,
                     token |-> old, minted |-> TRUE]
        /\ keysFile = [set |-> k, address |-> Stale]
        /\ Sent = ExistingFacts \cup {Token(n, old, k), Drip(n, old, k)}
        /\ Drip(n, old, k) \in chain
    BY <1>2, <2>1 DEF Older, Sent
  <2>3. keysFile # Unset
    BY <2>2, SetupAssumption DEF StoredKeys
  <2>4. \A f \in Sent : f.kind = "token" =>
        (f.addr = old /\ f.net = n) \/ (f.addr = Existing.token /\ f.net = Existing.net)
    BY <2>2 DEF ExistingFacts, Dripper, Token, Drip
  <2>5. MintedIsTrue(deploy)
    BY <1>1, <2>2, <2>3, <2>4 DEF MintedIsTrue, Dripped
  <2>6. OneNetwork
    BY <1>1, <2>4 DEF OneNetwork
  <2>7. Noted
    BY <1>3, <2>2 DEF Noted
  <2> QED
    BY <1>2, <1>3, <2>5, <2>6, <2>7 DEF Minting
<1> QED
  BY <1>4, <1>5 DEF Init, old

(* A new run takes the recorded config, or exchanges its token.          *)
LEMMA MintingStart ==
  ASSUME Inv, Minting, NEW n \in Networks, NEW override \in BOOLEAN, Start(n, override)
  PROVE  Minting'
<1>1. /\ config' = IF override
                   THEN [deploy EXCEPT !.network = n, !.token = Existing.token,
                                       !.dripper = Existing.dripper]
                   ELSE [deploy EXCEPT !.network = n]
      /\ swapped' = (swapped \/ (deploy.minted /\ config'.token # deploy.token))
      /\ pc' = "keys"
      /\ UNCHANGED <<deploy, keysFile, chain, pending>>
  BY DEF Start, files
<1>2. deploy \in Config /\ Existing.token # Unset
  BY InvFacts, SetupAssumption
<1>3. /\ config'.minted = deploy.minted /\ config'.accounts = deploy.accounts
      /\ config'.token \in {deploy.token, Existing.token}
  BY <1>1, <1>2 DEF Config
<1>4. MintedIsTrue(deploy)'
  BY <1>1 DEF Minting, MintedIsTrue, Dripped, Sent
<1>5. MintedIsTrue(config)'
  <2>1. ~swapped' => ~swapped /\ (deploy.minted => config'.token = deploy.token)
    BY <1>1
  <2>2. config'.minted => config'.token # Unset /\ keysFile' # Unset
    BY <1>1, <1>2, <1>3 DEF Minting, MintedIsTrue
  <2>3. config'.minted /\ ~swapped' => Dripped(config.token, keysFile.set)'
    BY <1>1, <1>3, <2>1 DEF Minting, MintedIsTrue, Dripped, Sent
  <2> QED
    BY <2>2, <2>3 DEF MintedIsTrue
<1>6. OneNetwork' /\ Noted'
  BY <1>1, <1>3 DEF Minting, OneNetwork, Noted, Sent
<1> QED
  BY <1>1, <1>4, <1>5, <1>6 DEF Minting

(* Other keys than those the tokens were minted for are noticed, because *)
(* their addresses differ from those on file.                            *)
LEMMA MintingKeys ==
  ASSUME Inv, Minting, EnsureKeys
  PROVE  Minting'
<1>1. /\ pc = "keys" /\ pc' = "alice" /\ keysFile' = keys' /\ keys' \in StoredKeys
      /\ config' = [config EXCEPT !.accounts = keys'.address] /\ deploy' = config'
      /\ swapped' = (swapped \/ (config.minted /\ keys'.address # deploy.accounts))
      /\ UNCHANGED <<chain, pending, network, fresh>>
  BY EnsureKeysFacts DEF Save
<1>2. config \in Config /\ Running
  BY <1>1, InvFacts DEF Running, Steps
<1>3. keys'.address = keys'.set \/ keys' = keysFile
  BY DEF EnsureKeys
<1>4. /\ config'.minted = config.minted /\ config'.token = config.token
      /\ config'.accounts = keys'.address
  BY <1>1, <1>2 DEF Config
<1>5. keys' # Unset
  BY <1>1, SetupAssumption
<1>6. ASSUME config.minted, ~swapped'
      PROVE  keysFile'.set = keysFile.set /\ ~swapped
  <2>1. ~swapped /\ keys'.address = deploy.accounts /\ keysFile # Unset
    BY <1>1, <1>2, <1>6 DEF Minting, MintedIsTrue
  <2>2. keysFile.address = keys'.address /\ keysFile.address \in {keysFile.set, Stale}
    BY <2>1 DEF Minting, Noted
  <2>3. keysFile \in StoredKeys /\ Stale \notin KeySets
    BY <2>1, InvFacts, SetupAssumption
  <2> QED
    BY <1>1, <1>3, <2>1, <2>2, <2>3 DEF StoredKeys
<1>7. MintedIsTrue(config)'
  BY <1>1, <1>2, <1>4, <1>5, <1>6 DEF Minting, MintedIsTrue, Dripped, Sent
<1>8. MintedIsTrue(deploy)'
  BY <1>1, <1>7
<1>9. OneNetwork'
  BY <1>1 DEF Minting, OneNetwork, Sent
<1>10. keysFile'.address \in {keysFile'.set, Stale}
  <2>1. keysFile # Unset => keysFile.address \in {keysFile.set, Stale}
    BY DEF Minting, Noted
  <2> QED
    BY <1>1, <1>3, <1>5, <2>1
<1>11. Noted'
  BY <1>1, <1>4, <1>10 DEF Noted
<1> QED
  BY <1>1, <1>7, <1>8, <1>9, <1>11 DEF Minting

(* The run saves its derived addresses, and forgets a token of an older  *)
(* version.                                                              *)
LEMMA MintingSaved ==
  ASSUME Inv, Minting, SaveAccounts
  PROVE  Minting'
<1>1. /\ pc = "accounts" /\ pc' = "dripper"
      /\ keys' = [keys EXCEPT !.address = keys.set] /\ keysFile' = keys'
      /\ config' = DropOlderToken([config EXCEPT !.accounts = keys.set]) /\ deploy' = config'
      /\ UNCHANGED <<chain, pending, swapped>>
  BY DEF SaveAccounts, Save, observed
<1>2. /\ config \in Config /\ keys \in StoredKeys /\ keysFile = keys /\ Running
  BY <1>1, InvFacts DEF Running, Steps
<1>3. keys'.set = keys.set /\ keys'.address = keys.set /\ keys' \in StoredKeys
  BY <1>1, <1>2 DEF StoredKeys
<1>4. /\ config'.accounts = keys.set
      /\ \/ config'.minted = FALSE
         \/ config'.minted = config.minted /\ config'.token = config.token
  BY <1>1, <1>2 DEF DropOlderToken, ForgetToken, Config
<1>5. keysFile' # Unset
  BY <1>1, <1>3, SetupAssumption
<1>6. MintedIsTrue(config)'
  BY <1>1, <1>2, <1>3, <1>4, <1>5 DEF Minting, MintedIsTrue, Dripped, Sent
<1>7. MintedIsTrue(deploy)'
  BY <1>1, <1>6
<1>8. OneNetwork' /\ Noted'
  BY <1>1, <1>3, <1>4 DEF Minting, OneNetwork, Noted, Sent
<1> QED
  BY <1>1, <1>6, <1>7, <1>8 DEF Minting

(* A contract that is missing is forgotten, and its token is not minted. *)
LEMMA MintingMissing ==
  ASSUME Inv, Minting, DripperMissing \/ TokenMissing
  PROVE  Minting'
<1>1. UNCHANGED <<deploy, keysFile, chain, pending, swapped, fresh>>
  BY DEF DripperMissing, TokenMissing, files, observed
<1>2. config \in Config /\ Running
  BY InvFacts DEF DripperMissing, TokenMissing, Running, Steps
<1>3. /\ config'.accounts = config.accounts
      /\ \/ config'.minted = FALSE
         \/ config' = config
  BY <1>2 DEF DripperMissing, TokenMissing, ForgetToken, Config
<1>4. pc' = "dripperDeploy" \/ (pc' = "tokenDeploy" /\ config'.token = Unset)
  BY <1>2 DEF DripperMissing, TokenMissing, ForgetToken, Config
<1>5. MintedIsTrue(config)' /\ MintedIsTrue(deploy)'
  BY <1>1, <1>2, <1>3 DEF Minting, MintedIsTrue, Dripped, Sent
<1>6. OneNetwork' /\ Noted'
  BY <1>1, <1>2, <1>3 DEF Minting, OneNetwork, Noted, Sent
<1> QED
  BY <1>4, <1>5, <1>6 DEF Minting

(* A contract that was deployed is recorded; minted stays as it was, which*)
(* is FALSE where the token is new.                                      *)
LEMMA MintingDeployed ==
  ASSUME Inv, Minting, DripperDeployed \/ TokenDeployed
  PROVE  Minting'
<1>1. /\ UNCHANGED <<keysFile, chain, pending, swapped, fresh>> /\ deploy' = config'
      /\ pc' \in {"token", "mint"}
  BY DEF DripperDeployed, TokenDeployed, Save, observed
<1>2. config \in Config /\ Running
  BY InvFacts DEF DripperDeployed, TokenDeployed, Running, Steps
<1>3. /\ config'.accounts = config.accounts /\ config'.minted = config.minted
      /\ \/ config'.token = config.token
         \/ pc = "tokenWait" /\ config.token = Unset
  BY <1>2 DEF DripperDeployed, TokenDeployed, Save, Config, Minting
<1>4. MintedIsTrue(config)'
  BY <1>1, <1>2, <1>3 DEF Minting, MintedIsTrue, Dripped, Sent
<1>5. MintedIsTrue(deploy)'
  BY <1>1, <1>4
<1>6. OneNetwork' /\ Noted'
  BY <1>1, <1>2, <1>3 DEF Minting, OneNetwork, Noted, Sent
<1> QED
  BY <1>1, <1>4, <1>5, <1>6 DEF Minting

(* The drip that was waited for is on chain, and it went to the only token*)
(* at this address.                                                      *)
LEMMA MintingMinted ==
  ASSUME Inv, Progress, Minting, Minted
  PROVE  Minting'
<1>1. /\ UNCHANGED <<keysFile, chain, pending, network, keys>> /\ deploy' = config'
      /\ pc = "mintWait" /\ pc' = "senders" /\ fresh \in chain /\ swapped' = FALSE
  BY DEF Minted, Save
<1>2. /\ config \in Config /\ Running /\ keysFile = keys /\ keysFile # Unset
  BY <1>1, InvFacts, SetupAssumption DEF Running, Steps
<1>3. /\ config'.accounts = config.accounts /\ config'.token = config.token
  BY <1>2 DEF Minted, Save, Config
<1>4. Token(network, config.token, config.dripper) \in Sent
  BY <1>1 DEF Progress, PastToken, Sent
<1>5. config.token # Unset
  <2>1. Token(network, config.token, config.dripper) \in Facts
    BY <1>4, InvFacts
  <2>2. config.token \in Addresses
    BY <2>1, FactFields DEF Token
  <2> QED
    BY <2>2, SetupAssumption
<1>6. \A f \in Sent : f.kind = "token" /\ f.addr = config.token => f.net = network
  BY <1>4 DEF Minting, OneNetwork, Token
<1>7. Drip(network, config.token, keysFile.set) \in chain
  BY <1>1, <1>2 DEF Minting
<1>8. MintedIsTrue(config)'
  BY <1>1, <1>2, <1>3, <1>5, <1>6, <1>7 DEF MintedIsTrue, Dripped, Sent
<1>9. MintedIsTrue(deploy)'
  BY <1>1, <1>8
<1>10. OneNetwork' /\ Noted'
  BY <1>1, <1>2, <1>3 DEF Minting, OneNetwork, Noted, Sent
<1> QED
  BY <1>1, <1>8, <1>9, <1>10 DEF Minting

(* A new token takes an address that no config names; nobody else sends  *)
(* tokens.                                                               *)
LEMMA MintingSent ==
  ASSUME Inv, Progress, Minting, DripperSent \/ TokenSent \/ DripSent
  PROVE  Minting'
<1>1. UNCHANGED <<deploy, keysFile, swapped, config, keys, network, chain>>
  BY DEF DripperSent, TokenSent, DripSent, Send, files, observed
<1>2. Running
  BY DEF DripperSent, TokenSent, DripSent, Running, Steps
<1>3. CASE DripperSent \/ DripSent
  <2>1. TokensKept
    BY <1>1, <1>3 DEF DripperSent, DripSent, Send, TokensKept, Sent, Dripper, Drip
  <2>2. /\ pc' \in {"dripperWait", "mintWait"}
        /\ pc' = "mintWait" => fresh' = Drip(network, config.token, keys.set)
    BY <1>3 DEF DripperSent, DripSent, Send
  <2> QED
    BY <1>1, <1>2, <2>1, <2>2, MintingFrame
<1>4. CASE TokenSent
  <2>1. Sent' = Sent \cup {NewToken} /\ pc = "tokenDeploy" /\ pc' = "tokenWait" /\ SomeUnused
    BY <1>4 DEF TokenSent, Send, Sent
  <2>2. NewAddress \notin {deploy.token, config.token}
    BY <2>1, NewAddressUnused DEF UsedAddresses
  <2>3. \A f \in Sent : f.kind = "token" => f.addr # NewAddress
    BY <2>1, NewAddressUnused DEF UsedAddresses, Sent
  <2>4. NewToken.kind = "token" /\ NewToken.addr = NewAddress /\ NewToken.net = network
    BY DEF NewToken, Token
  <2>5. MintedIsTrue(deploy)'
    BY <1>1, <2>1, <2>2, <2>4 DEF Minting, MintedIsTrue, Dripped
  <2>6. MintedIsTrue(config)'
    BY <1>1, <1>2, <2>1, <2>2, <2>4 DEF Minting, MintedIsTrue, Dripped
  <2>7. OneNetwork'
    BY <2>1, <2>3, <2>4 DEF Minting, OneNetwork
  <2>8. Noted'
    BY <1>1, <1>2 DEF Minting, Noted
  <2> QED
    BY <1>1, <2>1, <2>5, <2>6, <2>7, <2>8 DEF Minting
<1> QED
  BY <1>3, <1>4

(* Every step keeps what is said to be minted true.                      *)
LEMMA MintingStep ==
  ASSUME Inv, Progress, Minting, Next
  PROVE  Minting'
<1>1. CASE \E n \in Networks, override \in {FALSE, Overrides} : Start(n, override)
  BY <1>1, MintingStart, SetupAssumption
<1>2. CASE DeployAccounts
  <2>1. PICK who \in Who :
          /\ pc \in At(who)
          /\ \/ \E next \in At(who) \cup {"stopped"} : Goto(next)
             \/ AccountReady(who) /\ Goto(After(who))
             \/ \E next \in At(who) :
                  ~AccountReady(who) /\ Send(Account(network, keys.set, who), next)
    BY <1>2, AccountCases
  <2>2. /\ UNCHANGED <<deploy, keysFile, swapped, config, chain>>
        /\ pc' \in At(who) \cup {After(who), "stopped"}
    BY <2>1 DEF Goto, Send, files, memory, observed
  <2>3. TokensKept
    BY <2>1 DEF Goto, Send, TokensKept, Sent, Account
  <2>4. Running /\ pc' \notin {"tokenDeploy", "tokenWait", "mintWait"}
    BY <2>1, <2>2 DEF At, After, Who, Running, Steps
  <2> QED
    BY <2>2, <2>3, <2>4, MintingFrame
<1>3. CASE DripperFound \/ TokenFound \/ MintSkipped \/ Complete
  <2>1. /\ UNCHANGED <<deploy, keysFile, swapped, config, chain, pending>>
        /\ pc' \in {"token", "mint", "senders", "complete"} /\ Running
    BY <1>3 DEF DripperFound, TokenFound, MintSkipped, Complete, Goto, files, memory, observed,
       Running, Steps
  <2> QED
    BY <2>1, MintingFrame DEF TokensKept, Sent
<1>4. CASE Stop \/ SendFails \/ ResetSandbox
  <2>1. UNCHANGED <<deploy, keysFile, swapped>> /\ pc' = "stopped"
    BY <1>4 DEF Stop, SendFails, ResetSandbox, files, observed
  <2>2. TokensKept
    BY <1>4 DEF Stop, SendFails, ResetSandbox, TokensKept, Sent, Drip
  <2> QED
    BY <2>1, <2>2, MintingFrame DEF Running, Steps
<1>5. CASE \E f \in pending : Include(f)
  <2>1. UNCHANGED <<deploy, keysFile, swapped, config, network, keys, fresh, pc>>
    BY <1>5 DEF Include, files, memory, observed
  <2>2. TokensKept
    BY <1>5 DEF Include, TokensKept, Sent
  <2> QED
    BY <2>1, <2>2, MintingFrame DEF Running, Minting
<1> QED
  BY <1>1, <1>2, <1>3, <1>4, <1>5, MintingKeys, MintingSaved, MintingMissing, MintingDeployed,
     MintingMinted, MintingSent DEF Next, Script

(* What is said to be minted was, in every reachable state.              *)
LEMMA MintingInvariance == Spec => []Minting
<1>1. Inv /\ Progress /\ Minting /\ [Next]_vars => Minting'
  <2> SUFFICES ASSUME Inv, Progress, Minting, [Next]_vars PROVE Minting'
    OBVIOUS
  <2>1. CASE UNCHANGED vars
    BY <2>1, MintingFrame DEF vars, files, memory, observed, TokensKept, Sent, Running, Minting
  <2> QED
    BY <2>1, MintingStep
<1> QED
  BY <1>1, MintingInit, Invariance, ProgressInvariance, PTL DEF Spec

(* After a completed setup Alice holds tokens of the recorded token, unless*)
(* the token or the keys were exchanged since minted was recorded, for any*)
(* number of runs on any networks, of faults and of resets of the sandbox*)
(* (setup.ts:161-162, 213, 246-283).                                     *)
THEOREM SetupFundsThePayer == Spec => []PayerIsFunded
<1>1. Inv /\ Progress /\ Minting => PayerIsFunded
  <2> SUFFICES ASSUME Inv, Progress, Minting, pc = "complete", ~swapped PROVE Funded
    BY DEF PayerIsFunded
  <2>1. /\ deploy = config /\ config.minted
        /\ Token(network, config.token, config.dripper) \in chain
    BY DEF Progress, At, Keyed, Steps, Synced, PastToken, PastMint
  <2>2. Dripped(deploy.token, keysFile.set)
    BY <2>1 DEF Minting, MintedIsTrue
  <2> QED
    BY <2>1, <2>2 DEF Dripped, Sent, Token, Funded
<1> QED
  BY <1>1, MintingInvariance, Invariance, ProgressInvariance, PTL
=============================================================================
