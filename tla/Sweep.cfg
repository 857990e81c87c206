CONSTANTS
    u1 = u1  u2 = u2  d1 = d1  d2 = d2  sui = sui  ika = ika  None = None
    Users = {u1, u2}  Digests = {d1, d2}
    Coins = {sui, ika}  Sui = sui  Ika = ika
    BuiltIn <- MCBuiltIn  UsdPrices <- MCUsdPrices  Paid <- MCPaidDust
    GeckoIds = {sui}  Quotes = {1, 5}
    MaxDeviation = 2  MaxAge = 0  Denom = 1  FeeSui = 1  FeeIka = 1  MaxTime = 2
    Jobs = {j1, j2}
    MinDeposit = 3  MinSweep = 3  PageSize = 1  SharedProcess = TRUE
    RetryLimit = 3  MaxTries = 1  MaxFaults = 1
SPECIFICATION FairSpec
INVARIANTS RatesAreSound SweptMeansMoved
PROPERTY DepositsReachTreasury
CHECK_DEADLOCK FALSE
