SPECIFICATION Spec
CONSTANTS
    Procs = {p1}
    Clients = {c1}
    Scopes = {sA, sB}
    Pids = {i1, i2}
    NoPid = NoPid
    NoProc = NoProc
    Nil = Nil
    MaxHistory = 1
    MaxJobs = 2
    MaxCrashes = 1
    MaxFaults = 0
    AllowPidReuse = TRUE
PROPERTIES
    StartupSettlesOrphans
