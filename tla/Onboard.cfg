SPECIFICATION Spec
CONSTANTS
    Handlers = {h1, h2}
    Clients = {c1}
    DWallets = {d1, d2}
    AccountObjs = {a1, a2}
    EkObjs = {e1}
    MaxEpoch = 3
    None = None
    MaxFaults = 2
    Signers = {c1}
    MaxTries = 2
INVARIANTS RowsTellTheChain FeesMatchWork LatestParamsRight
PROPERTY CeremonySettles
CHECK_DEADLOCK FALSE
