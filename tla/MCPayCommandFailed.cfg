SPECIFICATION Spec
CONSTANTS
  Payments = {p1}
  Assets = {"usdc"}
  Network = "here"
  Decimals = 2
  MaxPerPayment <- MaxText
  DailyLimit <- DailyText
  Day = 2
  Unset = Unset
  NoEntry = NoEntry
  None = None
  CallLimits <- OneLimit
  Requirements <- OnePrice
  Challenges <- OnePriceChallenges
  MaxLive = 1
  MaxTime = 0
INVARIANTS
  FailedMeansNotSent
CHECK_DEADLOCK FALSE
