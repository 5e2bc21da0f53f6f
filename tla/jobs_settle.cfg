SPECIFICATION FairSpec
CONSTANTS
    Procs = {p1, p2}
    Clients = {c1}
    Scopes = {sA, sB}
    Pids = {i1, i2, i3}
    NoPid = NoPid
    NoProc = NoProc
    Nil = Nil
    MaxHistory = 1
    MaxJobs = 2
    MaxCrashes = 1
    MaxFaults = 0
    AllowPidReuse = FALSE
INVARIANTS
    NoStrandedJob
PROPERTIES
    StartupSettlesOrphans
    EveryJobSettles
