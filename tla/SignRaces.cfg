SPECIFICATION Spec
CONSTANTS
    None = None
    Reqs = {r1, r2}
    Caps = {c1}
    Warm = {c1}
    Submitters = {s1}
    Workers = {w1}
    Sweepers = {x1}
    RetryLimit = 1
    TtlElapses = TRUE
    Reconciles = TRUE
    Crashes = TRUE
    LockTimesOut = FALSE
    Dedupes = FALSE
    KeyOf <- DistinctKeys
    Budget = 2
SYMMETRY Symmetry
INVARIANTS ConsumedPendingIsBurned ReportedMeansSigned UsedIsAccountedFor ChargeIsTracked
CHECK_DEADLOCK FALSE
