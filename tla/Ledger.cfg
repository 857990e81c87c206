SPECIFICATION FairSpec
CONSTANTS
    None = None
    a1 = a1
    o1 = o1
    d1 = d1
    Accounts = {a1, a2}
    Ops = {o1, o2}
    Digests = {d1, d2}
    NCoins = 2
    Procs = {p1, p2}
    OwnerOf <- Owners
    Price <- Prices
    Paid <- Payments
    MinDeposit = 1
    MaxRefund = 2
INVARIANTS NoOverdraft RefundWithinCharge BalanceIsJournal DepositIsAtomic
PROPERTIES CallsReturn
