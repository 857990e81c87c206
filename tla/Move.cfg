SPECIFICATION Spec
CONSTANTS
    Wallets = {w1}
    Keys = {k1}
    Passkeys = {k1}
    Addrs = {a1, a2}
    Sponsor = Sponsor
    Algs = {g1}
    Msgs = {m1}
    MAX_CREDENTIALS = 2
    MaxNonce = 2
    MaxSigs = 2
    Operators = {o1}
    Accounts = {acc1}
    Solo = {z1}
    Imported = {i1}
    NoAccount = NoAccount
    Fee = 1
    MaxDeposits = 2
    MaxCaps = 2
    MaxPresigns = 2
SYMMETRY Symmetry
CONSTRAINT OneSide
INVARIANTS RosterUsable NoReplay FreshConsent FutureSignPaired
CHECK_DEADLOCK FALSE
