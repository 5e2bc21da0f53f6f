SPECIFICATION Spec
CONSTANTS
    Procs = {p1, p2}
    Clients = {c1, c2}
    Scopes = {sA, sB}
    Pids = {i1, i2, i3}
    NoPid = NoPid
    NoProc = NoProc
    Nil = Nil
    MaxHistory = 1
    MaxJobs = 3
    MaxCrashes = 1
    MaxFaults = 1
    AllowPidReuse = TRUE
SYMMETRY Symmetry
INVARIANTS
    AtMostOneActivePerScope
    SingleRefresh
    RefreshIsRecorded
    MutationExcludesRefresh
PROPERTIES
    ForgottenOnlyWhenSuperseded
    ImplementsLedger
