SPECIFICATION Spec
CONSTANTS
    None = None
    Reqs = {r1, r2}
    Caps = {c1, c2}
    Warm = {c1}
    Submitters = {s1, s2}
    Workers = {w1, w2}
    Sweepers = {x1}
    RetryLimit = 1
    TtlElapses = FALSE
    Reconciles = FALSE
    Crashes = TRUE
    LockTimesOut = TRUE
    Dedupes = FALSE
    KeyOf <- SharedKey
    Budget = 2
SYMMETRY Symmetry
INVARIANTS SpendsOwnPresign
CHECK_DEADLOCK FALSE
