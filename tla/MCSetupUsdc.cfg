SPECIFICATION Spec
CONSTANTS
  sandbox = sandbox
  testnet = testnet
  Sandbox = sandbox
  Networks = {sandbox, testnet}
  Genesis = Genesis
  KeySets = {Genesis, k1, k2}
  Addresses <- MCAddresses
  Unset = Unset
  Stale = Stale
  Existing <- MCExisting
  Overrides = TRUE
  MaxRuns = 2
  MaxFaults = 0
INVARIANTS
  SetupFundsPayer
CHECK_DEADLOCK FALSE
