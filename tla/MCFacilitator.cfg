SPECIFICATION PSpec
CONSTANTS
  Commitments = {c1, c2}
  TxHashes = {t1, t2}
  Addresses = {a1, a2}
  Tokens = {k1}
  Amounts = {1}
  n1 = n1
  Nonces = {n1}
  Options <- MCOptions
  Slots = {h1, h2}
  None = None
  DefaultTimeout = 1
  MaxTime = 2
SYMMETRY Symmetry
INVARIANTS TypeOK NoLeakedMark LiveUntilJudged ValidMeansPrepared JudgedStaysOut
  HandedOutIsOnChain
