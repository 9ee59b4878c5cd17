SPECIFICATION Spec
CONSTANTS
    NoUpstream = NoUpstream
    Pages = {p1}
    Sockets = {s1, s2}
    Requests = {r1}
    HeartbeatStaleSeconds = 1
    Diagnostics = {up}
    MaxTime = 1
    MaxOpens = 2
    MaxInFlight = 1
    None = None
SYMMETRY Symmetry
INVARIANTS
    TypeOK
    ConnectedIsFresh
    PageKeepsTrying
PROPERTIES
    PublishedIsSent
CHECK_DEADLOCK FALSE
