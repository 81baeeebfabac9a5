CONSTANTS
    s1 = s1
    s2 = s2
    c1 = c1
    c2 = c2
    Sids = {s1, s2}
    Clients = {c1, c2}
    Home <- MCHome
    MaxConcurrent = 1
    MaxSessions = 2
    MaxStops = 1
    Faults = {"start", "save"}
    Requests = {"r1", "r2", "r3"}
    MaxConvs = 3
    AttachedSessions = 2
    Servers = {"a", "b"}
    MaxJoins = 2
    ClusterStops = 1
    MaxCrashes = 1
    MaxLapses = 1
SPECIFICATION MCSpec
INVARIANTS
    SessionsTracked
    CleanCloseReleases
    ConversationsKept
    OneOwner
PROPERTIES
    RequestsEnd
    ClientsAreServed
CHECK_DEADLOCK FALSE
