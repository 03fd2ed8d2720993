SPECIFICATION FairSpec
CONSTANTS
  Payments = {p1, p2}
  Assets = {"usdc"}
  Network = "here"
  Decimals = 2
  MaxPerPayment <- MaxText
  DailyLimit <- DailyText
  Day = 1
  Unset = Unset
  NoEntry = NoEntry
  None = None
  CallLimits <- TwoLimits
  Requirements <- Quotes
  Challenges <- QuoteChallenges
  MaxLive = 1
  MaxTime = 1
INVARIANTS
  TypeOK
  WithinDailyLimit
  SentAsApproved
  PaysNoMoreThanTyped
  ShownPriceIsAccepted
  AnswerTellsWhetherMoneyMoved
  CrashKeepsBudget
PROPERTIES
  PaidIsFinal
  PendingSettles
CHECK_DEADLOCK FALSE
