SPECIFICATION Spec
CONSTANTS
    w1 = w1
    w2 = w2
    h1 = h1
    h2 = h2
    p1 = p1
    p2 = p2
    short = short
    long = long
    a = a
    b = b
    z = z
    t1 = t1
    t2 = t2
    Workers = {w1, w2}
    Hosts = {h1, h2}
    HostOf <- TwoHosts
    Docs = {d1, d2}
    Contents = {a, b}
    Texts = {t1, t2}
    Profiles = {short, long}
    Providers = {p1, p2}
    Revisions <- AnyChange
    ChunksOf <- MCChunks
    Threshold = 50
    None = None
    NoWorker = NoWorker
    MaxEdits = 2
    MaxStops = 0
    MaxDrops = 0
INVARIANTS
    IndexMatchesGeneration
    OneRevisionCommitted
