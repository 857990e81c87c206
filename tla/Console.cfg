SPECIFICATION Spec
CONSTANTS
    None = None  Users = {"u1", "u2"}
    Deposits = {d1}  NetOf <- OnMainnet  PayeeOf <- PaysFirst
    KeyIds = {k1}  MaxMutations = 1
INVARIANT RevokedStaysGone
PROPERTIES BalanceCatchesUp HistoryCatchesUp
CHECK_DEADLOCK FALSE
