SPECIFICATION Spec
CONSTANTS
    Records = {r1, r2}
    Clients = {k1, k2, k3}
    Watchers = {w1}
    Calls = {c1, c2}
    Filters = {fOne}
    Topics = {tOne, tTwo}
    Limits = {}
    AbsoluteMax = 1
    MaxMessages = 2
    NoRecord = NoRecord
    NoClient = NoClient
    NoFilter = NoFilter
    fAll = fAll
    fOne = fOne
    tOne = tOne
    tTwo = tTwo
    Matching <- MCMatching
SYMMETRY Symmetry
INVARIANTS
    TypeOK
    CurrentClientAlive
    SerialChangesAreExact
    NoForeignMessages
    LatestTopicsTracked
CHECK_DEADLOCK FALSE
