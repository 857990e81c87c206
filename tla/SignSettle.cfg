SPECIFICATION FairSpec
CONSTANTS
    None = None
    Reqs = {r1, r2}
    Caps = {c1}
    Warm = {c1}
    Submitters = {s1}
    Workers = {w1}
    Sweepers = {x1}
    RetryLimit = 1
    TtlElapses = TRUE
    Reconciles = FALSE
    Crashes = FALSE
    LockTimesOut = FALSE
    Dedupes = FALSE
    KeyOf <- DistinctKeys
    Budget = 2
INVARIANTS FailedIsRefunded
PROPERTIES EveryChargeSettles QueuedSettles
CHECK_DEADLOCK FALSE
