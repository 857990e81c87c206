CONSTANTS
    u1 = u1  u2 = u2  d1 = d1  d2 = d2  sui = sui  ika = ika  None = None
    Users = {u1, u2}  Digests = {d1, d2}
    Coins = {sui, ika}  Sui = sui  Ika = ika
    BuiltIn <- MCBuiltIn  UsdPrices <- MCUsdPrices  Paid <- MCPaid
    GeckoIds = {}  Quotes = {1, 5}
    MaxDeviation = 2  MaxAge = 1  Denom = 1  FeeSui = 1  FeeIka = 1  MaxTime = 1
    Jobs = {j1, j2}
    MinDeposit = 1  MinSweep = 0  PageSize = 3  SharedProcess = FALSE
    RetryLimit = 1  MaxTries = 0  MaxFaults = 1
SPECIFICATION FairSpec
PROPERTY DepositsReachTreasury
CHECK_DEADLOCK FALSE
