SPECIFICATION FairSpec
CONSTANTS
    Callers = {c1, c2}
    ScopeCount = 1
    Ttl = 1
    Patience = 1
    ProbeCap = 2
    MaxChanges = 1
    MaxErrors = 1
    MaxConcurrent = 1
    Budget = 2
INVARIANTS
    TypeOK
    ReadyIsRecent
    OneResponse
PROPERTIES
    DataNeedsRecentReadiness
    EveryRequestEnds
    VerdictsFollowTruth
