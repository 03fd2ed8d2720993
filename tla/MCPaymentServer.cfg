SPECIFICATION Spec
CONSTANTS
  Nonces = {n1, n2}
  Senders = {s1}
  Commitments = {c1, c2}
  TxHashes = {t1, m1}
  Malformed = {m1}
  k1 = k1
  Tokens = {k1}
  Token = k1
  Values = {1}
  r1 = r1
  r2 = r2
  Routes = {r1, r2}
  Slots = {h1, h2}
  None = None
  TimeoutMs <- MCTimeoutMs
  Price <- MCPrice
  Asset <- MCAsset
  MaxTime = 2
  MaxBatch = 2
  NextMayThrow = TRUE
  MaxThrows = 2
  NodeFaults = TRUE
SYMMETRY Symmetry
INVARIANTS ServedIsRedeemed EntryMatchesCommitment PaidIsNotRefused
PROPERTY ImplementsPaidAccess
