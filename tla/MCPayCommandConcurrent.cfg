SPECIFICATION Spec
CONSTANTS
  Payments = {p1, p2, p3}
  Assets = {"usdc"}
  Network = "here"
  Decimals = 2
  MaxPerPayment <- DailyText
  DailyLimit <- DailyText
  Day = 2
  Unset = Unset
  NoEntry = NoEntry
  None = None
  CallLimits <- OneLimit
  Requirements <- OnePrice
  Challenges <- OnePriceChallenges
  MaxLive = 2
  MaxTime = 2
SYMMETRY Symmetry
INVARIANTS
  WithinDailyLimit
CHECK_DEADLOCK FALSE
