SPECIFICATION FairSpec
CONSTANTS
    Records = {r1, r2}
    Clients = {k1, k2}
    Watchers = {w1, w2}
    Calls = {c1, c2}
    Filters = {}
    Topics = {tOne}
    Limits = {}
    AbsoluteMax = 1
    MaxMessages = 1
    NoRecord = NoRecord
    NoClient = NoClient
    NoFilter = NoFilter
    fAll = fAll
    fOne = fOne
    tOne = tOne
    tTwo = tTwo
    Matching <- MCMatching
INVARIANTS
    ListenersOnCurrent
    NoLostUpdate
PROPERTIES
    ImplementsChannel
    AbandonedSessionEnds
CHECK_DEADLOCK FALSE
