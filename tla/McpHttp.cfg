SPECIFICATION Spec
CONSTANTS
    r1 = r1
    r2 = r2
    r3 = r3
    Clients = {c1, c2}
    Requests = {r1, r2, r3}
    Sessions = {s1, s2}
    NoRequest = NoRequest
    NoSession = NoSession
    Traffic <- SessionTraffic
    MaxConnections = 1
    MaxRequests = 2
    MaxSessions = 2
    IdleTimeout = 1
    MaxTime = 1
CONSTRAINT Roles
INVARIANTS
    PermitsConserved
    ChannelNeverFull
    StoppedIsDrained
    RanAtMostOnce
PROPERTIES
    SessionIsolation
    QueuedIsDispatched
    DrainEnds
