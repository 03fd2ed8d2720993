SPECIFICATION FairSpec
CONSTANTS
  Deposits = {d1, d2}
  Txs = {t1, t2}
  Amounts = {2}
  PlannedAmount = 1
  FundTimeout = 1
  L1GiveUp = 1
  None = None
  MaxTime = 2
INVARIANTS
  TypeOK
  ClaimMatchesDeposit
  StatusIsTrue
PROPERTIES
  ProgressIsKept
  DepositIsClaimed
CHECK_DEADLOCK FALSE
