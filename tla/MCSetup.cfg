SPECIFICATION FairSpec
CONSTANTS
  sandbox = sandbox
  testnet = testnet
  Sandbox = sandbox
  Networks = {sandbox, testnet}
  Genesis = Genesis
  KeySets = {Genesis, k1, k2}
  Addresses <- MCAddresses
  Unset = Unset
  Stale = Stale
  Existing <- MCExisting
  Overrides = TRUE
  MaxRuns = 3
  MaxFaults = 2
INVARIANTS
  TypeOK
  CompleteMeansUsable
  KeysOnFile
  SavedPairFits
  PayerIsFunded
PROPERTY RunCompletes
CHECK_DEADLOCK FALSE
