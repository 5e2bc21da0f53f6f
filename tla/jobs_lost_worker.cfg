SPECIFICATION FairSpec
CONSTANTS
    Procs = {p1}
    Clients = {c1}
    Scopes = {sA}
    Pids = {i1}
    NoPid = NoPid
    NoProc = NoProc
    Nil = Nil
    MaxHistory = 1
    MaxJobs = 1
    MaxCrashes = 0
    MaxFaults = 1
    AllowPidReuse = FALSE
PROPERTIES
    LostWorkerIsInterrupted
