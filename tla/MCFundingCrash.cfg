SPECIFICATION FairSpec
CONSTANTS
  Deposits = {d1}
  Txs = {t1}
  Amounts = {2}
  PlannedAmount = 1
  FundTimeout = 1
  L1GiveUp = 1
  None = None
  MaxTime = 2
PROPERTY DepositIsFinished
CHECK_DEADLOCK FALSE
