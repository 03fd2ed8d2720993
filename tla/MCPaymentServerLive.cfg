SPECIFICATION UpSpec
CONSTANTS
  Nonces = {n1, n2}
  Senders = {s1}
  Commitments = {c1}
  TxHashes = {t1, t2}
  Malformed = {}
  k1 = k1
  Tokens = {k1}
  Token = k1
  Values = {1}
  r1 = r1
  r2 = r2
  Routes = {r1}
  Slots = {h1, h2}
  None = None
  TimeoutMs <- MCTimeoutMs
  Price <- MCPrice
  Asset <- MCAsset
  MaxTime = 2
  MaxBatch = 2
  NextMayThrow = FALSE
  MaxThrows = 2
  NodeFaults = FALSE
INVARIANT RetryFindsCommitment
PROPERTIES
  PaidGetsServed
  RequestsAnswered
CHECK_DEADLOCK FALSE
