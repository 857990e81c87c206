SPECIFICATION Spec
CONSTANTS
    None = None
    Reqs = {r1, r2, r3}
    Caps = {c1, c2}
    Warm = {c1}
    Submitters = {s1}
    Workers = {w1, w2}
    Sweepers = {x1}
    RetryLimit = 1
    TtlElapses = FALSE
    Reconciles = FALSE
    Crashes = FALSE
    LockTimesOut = FALSE
    Dedupes = FALSE
    KeyOf <- DistinctKeys
    Budget = 2
SYMMETRY Symmetry
INVARIANTS ExclusiveHold ReadyIsUnspent CompletedIsPaid
PROPERTY ImplementsContract
CHECK_DEADLOCK FALSE
