SPECIFICATION FairSpec
CONSTANTS
    Requests = {q1, q2}
    Kids = {k, u}
    MaxUnknownKids = 1
    None = None
    MaxRotations = 1
    MaxFailures = 1
    MaxCancels = 1
INVARIANTS
    TypeOK
    LookupsAreNeeded
    FreshKeysAreNotRefused
PROPERTIES
    RetiredKeysAreForgotten
    KnownKeysAreServed
