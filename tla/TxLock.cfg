SPECIFICATION FairSpec
CONSTANTS
    None = None
    Calls = {c1, c2, c3}
INVARIANTS PhaseIsHonest SectionExclusive StaleMeansStray
PROPERTIES EveryCallReturns
CHECK_DEADLOCK FALSE
