SPECIFICATION RetryingSpec
CONSTANTS
  Nonces = {n1}
  Senders = {s1}
  Commitments = {c1}
  TxHashes = {t1}
  Malformed = {}
  k1 = k1
  Tokens = {k1}
  Token = k1
  Values = {1}
  r1 = r1
  r2 = r2
  Routes = {r1}
  Slots = {h1}
  None = None
  TimeoutMs <- MCLongTimeoutMs
  Price <- MCPrice
  Asset <- MCAsset
  MaxTime = 3
  MaxBatch = 2
  NextMayThrow = FALSE
  MaxThrows = 2
  NodeFaults = FALSE
PROPERTY PresentedIsServed
CHECK_DEADLOCK FALSE
